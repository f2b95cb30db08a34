------------------------------ MODULE MCHistory ------------------------------
(* Two slots of each kind, one of them taken, by an instrument and by a    *)
(* sample that has no data until one is imported, and a track of one       *)
(* pattern.                                                                *)
EXTENDS HistoryRefinement

MCDocuments ==
  {[options |-> [target_tempo |-> 1, beats_per_measure |-> 1],
    instruments |-> [i \in Slots |-> IF i = 0 THEN [name |-> "a", sample_idx |-> 0] ELSE None],
    samples |-> [i \in Slots |->
                   IF i = 0 THEN [name |-> "a", brr |-> 0, loop_byte |-> 0] ELSE None],
    blocks |-> <<0>>]}
=============================================================================
