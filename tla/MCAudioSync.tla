----------------------------- MODULE MCAudioSync -----------------------------
(* A small instance of AudioSync: three node addresses, so that a freed    *)
(* address is reused while the audio thread still holds older pointers,    *)
(* and documents with a sample: its data, whose edits make the chips reload*)
(* it, and its loop point, whose edits do not.                             *)
EXTENDS AudioSyncInv, AudioSyncRefinement, TLC

CONSTANTS a1, a2, a3, null, old, new

MCAddr == {a1, a2, a3}
MCField == {"brr", "loop"}
MCSampleField == {"brr"}
MCMetadataField == {"loop"}
MCValue == {old, new}
MCSymmetry == Permutations(MCAddr) \union Permutations(MCValue)
=============================================================================
