----------------------------- MODULE MCSpcExport -----------------------------
(***************************************************************************)
(* Two channels, up to three samples and two instruments of up to three    *)
(* patches, in and out of order, some of which do not fit.                 *)
(***************************************************************************)
EXTENDS SpcExport

MCSymbols == {"Frames", "Patterns", "Channel0", "Channel1", "LoopBodies", "SampleBank"}
MCChannelSymbols == <<"Channel0", "Channel1">>

MCNote(c) == 60 + 2 * c

Sample(brr, size, loop_byte) == [brr |-> brr, size |-> size, loop_byte |-> loop_byte]

MCSamples ==
  {(0 :> a @@ 1 :> b @@ 2 :> c) :
     a \in {None, Sample(1001, 3, 1)}, b \in {None, Sample(1002, 2, 0), Sample(1002, 12, 11), Sample(1002, 80, 9)},
     c \in {None, Sample(1003, 1, 0)}}

Patch(note, sample) == [min_note |-> note, sample_idx |-> sample]

Keysplits ==
  {None, <<>>, <<Patch(0, 1)>>, <<Patch(61, 0)>>,
   <<Patch(0, 0), Patch(62, 1)>>, <<Patch(60, 1), Patch(0, 0)>>,
   <<Patch(0, 1), Patch(0, 0), Patch(61, 1)>>}

MCDocuments ==
  {[samples |-> samples, instruments |-> (0 :> a @@ 1 :> b)] :
     samples \in MCSamples, a \in Keysplits, b \in Keysplits}
=============================================================================
