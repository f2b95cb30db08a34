--------------------------- MODULE MCPatternEditor ---------------------------
(* Tracks with a gap above, between, in and below their blocks, looped     *)
(* blocks, empty ones and as many as there may be, on two grids; a         *)
(* document of two channels, which differ in their effect columns; and a   *)
(* screen with room for two rows and a part of one on each side.           *)
EXTENDS PatternDrawing

At(t, v) == [anchor_tick |-> t, v |-> v]

MCBlock(t, loops, length, events) ==
  [begin_tick |-> t, loop_count |-> loops, length_ticks |-> length, events |-> events]

MCDocument(ticks_per_beat, beats_per_measure, chars, effects, tracks) ==
  [options |-> [ticks_per_beat |-> ticks_per_beat, beats_per_measure |-> beats_per_measure],
   effect_name_chars |-> chars,
   n_effect_col |-> effects, tracks |-> tracks]

OneChannel(track) == [c \in {0} |-> track]

MCTracks ==
  {<<>>,
   <<MCBlock(0, 2, 1, <<At(0, {"note"})>>), MCBlock(4, 1, 1, <<>>)>>,
   <<MCBlock(1, 1, 2, <<At(0, {"note", "volume"}), At(1, {"cut"})>>),
     MCBlock(3, 2, 1, <<At(0, {"effect0"})>>)>>}

MCDocuments ==
  {MCDocument(2, 2, 1, OneChannel(1), OneChannel(track)) : track \in MCTracks}
  \cup
  {MCDocument(3, 1, 1, [c \in {0, 1} |-> c + 1],
     [c \in {0, 1} |->
        IF c = 1 THEN <<>>
        ELSE <<MCBlock(1, 1, 2, <<At(0, {"note", "instr"}), At(1, {"effect0"})>>)>>])}

MCSettings ==
  {[step |-> 0, direction |-> "Down", step_to_event |-> FALSE,
    extend_block |-> "Never"],
   [step |-> 2, direction |-> "RightDigits", step_to_event |-> FALSE,
    extend_block |-> "Adjacent"],
   [step |-> 1, direction |-> "RightEffect", step_to_event |-> TRUE,
    extend_block |-> "Always"],
   [step |-> 1, direction |-> "Right", step_to_event |-> FALSE,
    extend_block |-> "Never"]}

MCSelectFrom == {[x |-> CursorX(0, 1, 1), y |-> 2]}
=============================================================================
