----------------------------- MODULE MCSequencer -----------------------------
(* A track of up to two blocks, with gaps, loops and one or two events in  *)
(* a pattern, next to a track that is shorter or longer.                   *)
EXTENDS Sequencer

Row(note) == [note |-> IF note THEN "note" ELSE None]
MCRows == {Row(TRUE), Row(FALSE)}

At(t, note) == [anchor_tick |-> t, delay |-> 0, v |-> Row(note)]

Patterns(length) ==
  {<<>>, <<At(0, TRUE)>>, <<At(length - 1, TRUE)>>}
    \cup (IF length > 1 THEN {<<At(0, TRUE), At(1, FALSE)>>} ELSE {})

BlocksFrom(begins, loops, lengths) ==
  UNION {{[begin_tick |-> t, loop_count |-> n, length_ticks |-> length, events |-> events] :
            events \in Patterns(length)} :
         <<t, n, length>> \in begins \X loops \X lengths}

MCTracks ==
  {<<>>} \cup {<<b>> : b \in BlocksFrom({0, 1}, {2}, {1, 2})}
         \cup {<<a, b>> : a \in BlocksFrom({0}, {1}, {2}), b \in BlocksFrom({2, 3}, {1}, {1})}

MCOthers == {<<>>, <<[begin_tick |-> 0, loop_count |-> 1, length_ticks |-> 3,
                      events |-> <<At(1, TRUE)>>]>>}

MCDocuments ==
  {[tracks |-> [c \in Channels |-> IF c = 1 THEN track ELSE other], note_gap_ticks |-> 1] :
     track \in MCTracks, other \in MCOthers}

ASSUME MCDocumentsInOrderAssumption == DocumentsInOrder /\ NoDelays
=============================================================================
