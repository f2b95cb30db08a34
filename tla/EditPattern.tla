----------------------------- MODULE EditPattern -----------------------------
(***************************************************************************)
(* The edits of the pattern editor (edit/edit_pattern.cpp): PatternEdit    *)
(* with its three kinds, and the functions that make one from a key.       *)
(*                                                                         *)
(* An event is its anchor_tick in the pattern and the set v of its fields  *)
(* that are not empty; "note" and "cut" are values of the one note field.  *)
(* A command is a record of its kind, the block it edits and what it       *)
(* holds: the contents of a pattern, a block, or nothing.                  *)
(***************************************************************************)
EXTENDS TrackUtil, TimeUtil, Optional, SequencesExt

CONSTANTS
  MAX_TICK,
  MAX_BLOCKS_PER_TRACK,
  MAX_EVENTS_PER_PATTERN

ASSUME MaxTickAssumption == MAX_TICK \in Nat
ASSUME MaxBlocksAssumption == MAX_BLOCKS_PER_TRACK \in Nat
ASSUME MaxEventsAssumption == MAX_EVENTS_PER_PATTERN \in Nat \ {0}

ExtendBlocks == {"Never", "Adjacent", "Always"}

(* MAX_EFFECTS_PER_EVENT is cut down to two. *)
EffectFields == <<"effect0", "effect1">>
Fields == {"note", "cut", "instr", "volume", "effect0", "effect1"}

Event == [anchor_tick : Nat, v : SUBSET Fields]
Block == [begin_tick : Nat, loop_count : Nat \ {0}, length_ticks : Nat \ {0},
          events : Seq(Event)]
Track == Seq(Block)

BlocksInOrder(track) ==
  /\ \A k \in DOMAIN track : track[k].loop_count > 0 /\ track[k].length_ticks > 0
  /\ \A k \in DOMAIN track : k > 1 => EndTime(track[k - 1]) <= track[k].begin_tick

EventsInOrder(block) ==
  LET events == block.events IN
  /\ \A k \in DOMAIN events :
       /\ events[k].v # {} /\ ~({"note", "cut"} \subseteq events[k].v)
       /\ events[k].anchor_tick < block.length_ticks
  /\ \A k \in DOMAIN events :
       k > 1 => events[k - 1].anchor_tick < events[k].anchor_tick

(* Blocks do not overlap and are not empty, events are in order, inside    *)
(* their pattern and not empty, and there are not too many.                *)
TrackOk(track) ==
  /\ Len(track) <= MAX_BLOCKS_PER_TRACK
  /\ BlocksInOrder(track)
  /\ \A k \in DOMAIN track :
       Len(track[k].events) <= MAX_EVENTS_PER_PATTERN /\ EventsInOrder(track[k])

Command(class, block, value) == [class |-> class, block |-> block, value |-> value]
NullEditCommand == Command("Null", 0, None)

-----------------------------------------------------------------------------
(* PatternEdit::apply_swap().                                              *)

Rejected(c) ==
  /\ c.class = "EditPattern"
  /\ Len(c.value.events) > MAX_EVENTS_PER_PATTERN

TrackAfter(c, track) ==
  CASE c.class = "EditPattern" /\ ~Rejected(c) ->
         [track EXCEPT ![c.block].length_ticks = c.value.length_ticks,
                       ![c.block].events = c.value.events]
    [] c.class = "AddBlock" -> InsertAt(track, c.block, c.value)
    [] c.class = "RemoveBlock" -> RemoveAt(track, c.block)
    [] OTHER -> track

PatternOf(block) == [length_ticks |-> block.length_ticks, events |-> block.events]

CommandAfter(c, track) ==
  CASE c.class = "EditPattern" /\ ~Rejected(c) ->
         [c EXCEPT !.value = PatternOf(track[c.block])]
    [] c.class = "AddBlock" -> Command("RemoveBlock", c.block, None)
    [] c.class = "RemoveBlock" -> Command("AddBlock", c.block, track[c.block])
    [] OTHER -> c

-----------------------------------------------------------------------------
EraseEmpty(events) ==
  LET kept[n \in 0 .. Len(events)] ==
        IF n = 0 THEN <<>>
        ELSE IF events[n].v = {} THEN kept[n - 1]
        ELSE Append(kept[n - 1], events[n])
  IN  kept[Len(events)]

(* Deleting a note deletes what goes with it.                              *)
ErasedFields(field) ==
  IF field = "note" THEN {"note", "cut", "instr", "volume"} ELSE {field}

DeleteCell(track, field, now) ==
  IF SnappedLater(track, now) THEN NullEditCommand
  ELSE LET p == PatternAt(track, now)
           pattern == PatternOf(track[p.block])
           rel_tick == now - PatternBegin(track, p)
           erased(e) == IF e.anchor_tick = rel_tick
                          THEN [e EXCEPT !.v = @ \ ErasedFields(field)] ELSE e
       IN  Command("EditPattern", p.block,
             [pattern EXCEPT !.events = EraseEmpty([k \in DOMAIN @ |-> erased(@[k])])])

-----------------------------------------------------------------------------
(* CreateOrEdit: the command that edits the pattern at now, extends the    *)
(* block above to it or adds a block around it, and now in that pattern.   *)

CreateOrEdit(class, block, value, rel_tick) ==
  [command |-> Command(class, block, value), rel_tick |-> rel_tick]

(* The bounds of the measure at now, cut to the gap between the blocks.    *)
GapBegin(opt, track, now) ==
  LET k == BlockAt(track, now)
  IN  IF k > 1 THEN Max({MeasureAt(opt, now), EndTime(track[k - 1])}) ELSE MeasureAt(opt, now)

(* Bug: the block below is not looked at. *)
GapEndOfMeasure(opt, track, now) == MeasureNext(opt, MeasureAt(opt, now))

GapEnd(opt, track, now) ==
  LET k == BlockAt(track, now)
      measure_end == MeasureNext(opt, MeasureAt(opt, now))
  IN  IF k <= Len(track) THEN Min({measure_end, track[k].begin_tick}) ELSE measure_end

(* The release_assert()s on them.                                          *)
GapAsserts(opt, track, now) ==
  /\ GapBegin(opt, track, now) < GapEnd(opt, track, now)
  /\ now >= GapBegin(opt, track, now)

ExtendAbove(opt, track, now) ==
  LET k == BlockAt(track, now) - 1
  IN  CreateOrEdit("EditPattern", k,
        [length_ticks |-> GapEnd(opt, track, now) - track[k].begin_tick,
         events |-> track[k].events],
        now - track[k].begin_tick)

TryCreateBlock(opt, track, now, block_begin) ==
  IF Len(track) >= MAX_BLOCKS_PER_TRACK THEN None
  ELSE CreateOrEdit("AddBlock", BlockAt(track, now),
         [begin_tick |-> block_begin, loop_count |-> 1,
          length_ticks |-> GapEnd(opt, track, now) - block_begin, events |-> <<>>],
         now - block_begin)

TryMakeInGap(opt, track, now, block_mode) ==
  LET k == BlockAt(track, now)
      above == k > 1
      above_unlooped == above /\ track[k - 1].loop_count = 1
      measure_begin == GapBegin(opt, track, now)
  IN  CASE block_mode = "Adjacent" /\ above_unlooped
             /\ EndTime(track[k - 1]) = measure_begin -> ExtendAbove(opt, track, now)
        [] block_mode = "Always" /\ above_unlooped -> ExtendAbove(opt, track, now)
        [] block_mode = "Always" /\ ~above_unlooped ->
             TryCreateBlock(opt, track, now, IF above THEN EndTime(track[k - 1]) ELSE 0)
        [] OTHER -> TryCreateBlock(opt, track, now, measure_begin)

(* Bug: the tick is counted from the start of the block, not of its loop. *)
TryMakeInBlock(opt, track, now, block_mode) ==
  LET p == PatternAt(track, now)
  IN  IF SnappedLater(track, now) THEN TryMakeInGap(opt, track, now, block_mode)
      ELSE CreateOrEdit("EditPattern", p.block, PatternOf(track[p.block]),
                        now - track[p.block].begin_tick)

TryMake(opt, track, now, block_mode) ==
  LET p == PatternAt(track, now)
  IN  IF SnappedLater(track, now) THEN TryMakeInGap(opt, track, now, block_mode)
      ELSE CreateOrEdit("EditPattern", p.block, PatternOf(track[p.block]),
                        now - PatternBegin(track, p))

-----------------------------------------------------------------------------
(* EventSearchMut.                                                         *)

HasEventAt(events, t) ==
  LET k == TickEnd(events, t) - 1 IN k > 0 /\ events[k].anchor_tick = t

GetOrInsert(events, t) ==
  IF HasEventAt(events, t) THEN events
  ELSE InsertAt(events, TickEnd(events, t), [anchor_tick |-> t, v |-> {}])

(* The command that drops and sets fields of the event at rel_tick, there  *)
(* or new.                                                                 *)
SettingFields(made, dropped, set) ==
  LET events == GetOrInsert(made.command.value.events, made.rel_tick)
      k == TickEnd(events, made.rel_tick) - 1
  IN  [made.command EXCEPT !.value.events = [events EXCEPT ![k].v = (@ \ dropped) \cup set]]

(* A cut erases the instrument, a note sets it if insert_instrument is on. *)
InsertNote(opt, track, now, block_mode, note, instrument) ==
  LET made == TryMake(opt, track, now, block_mode)
  IN  IF made = None THEN NullEditCommand
      ELSE SettingFields(made,
             {"note", "cut"} \cup (IF note = "cut" THEN {"instr"} ELSE {}),
             {note} \cup (IF instrument /\ note # "cut" THEN {"instr"} ELSE {}))

(* An effect's value is only edited if the effect is there.                *)
AddDigit(opt, track, now, block_mode, field) ==
  LET made == TryMake(opt, track, now, block_mode)
  IN  IF made = None THEN NullEditCommand
      ELSE IF field \in {"instr", "volume"} THEN SettingFields(made, {}, {field})
      ELSE made.command

AddEffectChar(opt, track, now, block_mode, field) ==
  LET made == TryMake(opt, track, now, block_mode)
  IN  IF made = None THEN NullEditCommand ELSE SettingFields(made, {}, {field})
=============================================================================
