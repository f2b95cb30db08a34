------------------------ MODULE MCAudioSyncRefinement ------------------------
(* The instance of MCAudioSync for liveness, which is checked without      *)
(* symmetry.                                                               *)
EXTENDS AudioSyncRefinement

CONSTANTS a1, a2, a3, null, old, new

MCAddr == {a1, a2, a3}
MCField == {"brr", "loop"}
MCSampleField == {"brr"}
MCMetadataField == {"loop"}
MCValue == {old, new}
=============================================================================
