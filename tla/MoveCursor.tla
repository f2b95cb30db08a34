------------------------------ MODULE MoveCursor ------------------------------
(***************************************************************************)
(* Where the keys move the cursor's time (gui/move_cursor.cpp, with the    *)
(* iterators of gui/gui_time.cpp).  arrow_follows_step has its default,    *)
(* TRUE, and snap_to_events its default, FALSE: no dialog sets them.       *)
(***************************************************************************)
EXTENDS EditPattern

CONSTANT PageDownRows   \* MovementConfig::page_down_rows

ASSUME PageDownRowsAssumption == PageDownRows \in Nat

-----------------------------------------------------------------------------
(* Moving by events.                                                       *)

FwdFromTime(track, now) == PatternAt(track, now)

(* Between blocks, the pattern before.                                     *)
RevFromTime(track, now) ==
  IF SnappedLater(track, now) THEN PrevPattern(track, PatternAt(track, now))
  ELSE PatternAt(track, now)

(* Patterns are at least a tick long.                                      *)
MaxPatterns(track) == IF track = <<>> THEN 0 ELSE EndTime(track[Len(track)])

EventTime(track, p, k) == PatternBegin(track, p) + track[p.block].events[k].anchor_tick

(* The pattern that holds the cursor gives the last event before it, those *)
(* before give their last event.                                           *)
PrevEvent(track, y) ==
  LET at[n \in 0 .. MaxPatterns(track)] ==
        IF n = 0 THEN RevFromTime(track, y)
        ELSE IF HasPattern(track, at[n - 1]) THEN PrevPattern(track, at[n - 1])
        ELSE at[n - 1]
      events(n) == track[at[n].block].events
      last(n) == IF n = 0 THEN TickBegin(events(n), y - PatternBegin(track, at[n])) - 1
                 ELSE Len(events(n))
      hits == {n \in 0 .. MaxPatterns(track) : HasPattern(track, at[n]) /\ last(n) > 0}
  IN  IF hits = {} THEN y ELSE EventTime(track, at[Min(hits)], last(Min(hits)))

(* Bug: an event at the cursor counts as the next one. *)
NextEventInclusive(track, y) ==
  LET at[n \in 0 .. MaxPatterns(track)] ==
        IF n = 0 THEN FwdFromTime(track, y)
        ELSE IF HasPattern(track, at[n - 1]) THEN NextPattern(track, at[n - 1])
        ELSE at[n - 1]
      events(n) == track[at[n].block].events
      first(n) == IF n = 0 THEN TickBegin(events(n), y - PatternBegin(track, at[n])) ELSE 1
      hits == {n \in 0 .. MaxPatterns(track) :
                 HasPattern(track, at[n]) /\ first(n) <= Len(events(n))}
  IN  IF hits = {} THEN y ELSE EventTime(track, at[Min(hits)], first(Min(hits)))

NextEvent(track, y) ==
  LET at[n \in 0 .. MaxPatterns(track)] ==
        IF n = 0 THEN FwdFromTime(track, y)
        ELSE IF HasPattern(track, at[n - 1]) THEN NextPattern(track, at[n - 1])
        ELSE at[n - 1]
      events(n) == track[at[n].block].events
      first(n) == IF n = 0 THEN TickEnd(events(n), y - PatternBegin(track, at[n])) ELSE 1
      hits == {n \in 0 .. MaxPatterns(track) :
                 HasPattern(track, at[n]) /\ first(n) <= Len(events(n))}
  IN  IF hits = {} THEN y ELSE EventTime(track, at[Min(hits)], first(Min(hits)))

-----------------------------------------------------------------------------
(* Moving by beats and rows.                                               *)

PrevBeat(opt, y) ==
  LET beat == BeatAt(opt, y)
  IN  IF beat.time = y THEN BeatPrev(opt, beat).time ELSE beat.time

NextBeat(opt, y) == BeatNext(opt, BeatAt(opt, y)).time

(* A cursor between rows snaps up to one, which is its first step.         *)
PrevRows(opt, y, ticks_per_row, step) ==
  LET from == RowAt(opt, y, ticks_per_row)
      snapped == IF RowTime(from, ticks_per_row) = y THEN 0 ELSE 1
      row[n \in 0 .. step] ==
        IF n <= snapped THEN from ELSE RowPrev(opt, row[n - 1], ticks_per_row)
  IN  RowTime(row[step], ticks_per_row)

NextRows(opt, y, ticks_per_row, step) ==
  LET row[n \in 0 .. step] ==
        IF n = 0 THEN RowAt(opt, y, ticks_per_row)
        ELSE RowNext(opt, row[n - 1], ticks_per_row)
  IN  RowTime(row[step], ticks_per_row)

MoveUp(opt, y, ticks_per_row, step) == PrevRows(opt, y, ticks_per_row, Max({1, step}))

MoveDown(opt, y, ticks_per_row, step) == NextRows(opt, y, ticks_per_row, Max({1, step}))

(* Typing into an event steps on from it.                                  *)
CursorStep(opt, track, y, ticks_per_row, step, step_to_event) ==
  IF step_to_event THEN NextEvent(track, y) ELSE NextRows(opt, y, ticks_per_row, step)

PageUp(y, ticks_per_row) == Max({0, y - ticks_per_row * PageDownRows})
PageDown(y, ticks_per_row) == y + ticks_per_row * PageDownRows

BlockBegin == 0
BlockEnd(tracks) == SongLength(tracks)
PrevBlock(y) == y
NextBlock(y) == y
=============================================================================
