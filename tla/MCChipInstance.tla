--------------------------- MODULE MCChipInstance ---------------------------
(* Tracks with Gxx delays, up to the end of their pattern, in an order the *)
(* code takes for valid, with notes that can be played and that cannot;    *)
(* and samples that fit in the RAM, alone or together, that do not, and an *)
(* empty one.                                                              *)
EXTENDS ChipInstance

Row(note, instr, volume) == [note |-> note, instr |-> instr, volume |-> volume]

MCRows == {Row(note, instr, volume) :
             note \in {None, Cut, 0, 1}, instr \in {None, 0, 1}, volume \in {None, "soft"}}

At(t, delay, v) == [anchor_tick |-> t, delay |-> delay, v |-> v]

MCPattern(events) ==
  <<[begin_tick |-> 0, loop_count |-> 1, length_ticks |-> 3, events |-> events]>>

MCTracks ==
  {<<>>,
   MCPattern(<<At(0, 1, Row(0, 0, "soft")), At(1, 1, Row(Cut, None, None))>>),
   MCPattern(<<At(0, 0, Row(1, 0, None)), At(1, -1, Row(None, 1, None))>>)}

MCSample(brr, size, loop) == [brr |-> brr, size |-> size, loop_byte |-> loop]

(* Three samples and two instruments.  The second bank has another loop    *)
(* point than the first, and the third other instruments.                  *)
MCBanks ==
  LET patch(note, sample) == [min_note |-> note, sample_idx |-> sample]
      split(high) == <<patch(0, 0), patch(1, high)>>
      unordered == <<patch(1, 0), patch(0, 1)>>
      bank(samples, instruments) ==
        [samples |-> [i \in 0 .. 2 |-> samples[i + 1]],
         instruments |-> [i \in 0 .. 1 |-> instruments[i + 1]]]
      a == MCSample("a", 2, 1)
      b == MCSample("b", 1, 0)
  IN  {bank(<<a, b, None>>, <<split(1), None>>),
       bank(<<[a EXCEPT !.loop_byte = 0], b, None>>, <<split(1), None>>),
       bank(<<a, b, None>>, <<<<patch(0, 1)>>, unordered>>),
       bank(<<MCSample("c", 4, 3), b, None>>, <<split(1), unordered>>),
       bank(<<None, MCSample("empty", 0, 0), MCSample("d", 3, 2)>>, <<split(2), unordered>>)}

MCDocuments ==
  {[tracks |-> [c \in Channels |-> IF c = 0 THEN track ELSE <<>>], note_gap_ticks |-> 1,
    samples |-> bank.samples, instruments |-> bank.instruments] :
     track \in MCTracks, bank \in MCBanks}

ASSUME MCDocumentsInOrderAssumption == DocumentsInOrder
=============================================================================
