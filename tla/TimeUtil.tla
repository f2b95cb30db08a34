------------------------------- MODULE TimeUtil -------------------------------
(***************************************************************************)
(* The grid of beats, rows and measures (doc_util/time_util.cpp).  opt is  *)
(* the document's SequencerOptions: [ticks_per_beat, beats_per_measure].   *)
(* Each beat starts its rows anew, and its last row may be shorter.        *)
(***************************************************************************)
EXTENDS Integers

(* BeatIter.                                                               *)
BeatAt(opt, now) ==
  LET index == now \div opt.ticks_per_beat
  IN  [time |-> index * opt.ticks_per_beat,
       beat_in_measure |-> index % opt.beats_per_measure]

BeatNext(opt, beat) ==
  [time |-> beat.time + opt.ticks_per_beat,
   beat_in_measure |-> (beat.beat_in_measure + 1) % opt.beats_per_measure]

BeatPrev(opt, beat) ==
  IF beat.time < opt.ticks_per_beat THEN [time |-> 0, beat_in_measure |-> 0]
  ELSE [time |-> beat.time - opt.ticks_per_beat,
        beat_in_measure |->
          (beat.beat_in_measure + opt.beats_per_measure - 1) % opt.beats_per_measure]

-----------------------------------------------------------------------------
(* RowIter.                                                                *)

RowAt(opt, now, ticks_per_row) ==
  LET beat == BeatAt(opt, now)
  IN  [beat |-> beat, row_in_beat |-> (now - beat.time) \div ticks_per_row]

RowTime(row, ticks_per_row) == row.beat.time + row.row_in_beat * ticks_per_row

RowNext(opt, row, ticks_per_row) ==
  IF (row.row_in_beat + 1) * ticks_per_row >= opt.ticks_per_beat
    THEN [beat |-> BeatNext(opt, row.beat), row_in_beat |-> 0]
    ELSE [row EXCEPT !.row_in_beat = @ + 1]

(* Bug: the last row of a beat is taken to be a whole one. *)
RowPrevWhole(opt, row, ticks_per_row) ==
  IF row.row_in_beat > 0 THEN [row EXCEPT !.row_in_beat = @ - 1]
  ELSE IF row.beat.time < opt.ticks_per_beat THEN row
  ELSE [beat |-> BeatPrev(opt, row.beat),
        row_in_beat |-> (opt.ticks_per_beat \div ticks_per_row) - 1]

RowPrev(opt, row, ticks_per_row) ==
  IF row.row_in_beat > 0 THEN [row EXCEPT !.row_in_beat = @ - 1]
  ELSE IF row.beat.time < opt.ticks_per_beat THEN row
  ELSE [beat |-> BeatPrev(opt, row.beat),
        row_in_beat |-> (opt.ticks_per_beat - 1) \div ticks_per_row]

-----------------------------------------------------------------------------
(* MeasureIter: its loops go back, and on, to the first beat of a measure. *)

MeasureAt(opt, now) ==
  LET beat == BeatAt(opt, now) IN beat.time - beat.beat_in_measure * opt.ticks_per_beat

MeasureNext(opt, measure) == measure + opt.beats_per_measure * opt.ticks_per_beat
=============================================================================
