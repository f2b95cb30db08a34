------------------------------ MODULE TrackUtil ------------------------------
(***************************************************************************)
(* Looking into a track (doc_util/track_util.cpp, event_search.cpp): the   *)
(* pattern at a time, the ones before and after it, and the events of a    *)
(* pattern from a time on.                                                 *)
(*                                                                         *)
(* A block holds its one pattern, so its record has the fields of both.    *)
(* Indices of blocks and events count from 1, loops from 0.  An iterator   *)
(* before the first or past the last block has no pattern.                 *)
(***************************************************************************)
EXTENDS Integers, Sequences, FiniteSetsExt

EndTime(block) == block.begin_tick + block.loop_count * block.length_ticks

LoopTime(block, loop) == block.begin_tick + loop * block.length_ticks

SongLength(tracks) ==
  Max({0} \cup {EndTime(tracks[c][Len(tracks[c])]) : c \in {d \in DOMAIN tracks : tracks[d] # <<>>}})

-----------------------------------------------------------------------------
(* TrackPatternIter.                                                       *)

PatternIter(block, loop) == [block |-> block, loop |-> loop]

HasPattern(track, p) == p.block \in DOMAIN track

(* The first block that ends after now.                                    *)
BlockAt(track, now) ==
  Min({k \in 1 .. Len(track) + 1 : k > Len(track) \/ now < EndTime(track[k])})

SnappedLater(track, now) ==
  LET k == BlockAt(track, now) IN k > Len(track) \/ now < track[k].begin_tick

(* The pattern at now, or the next one.                                    *)
PatternAt(track, now) ==
  LET k == BlockAt(track, now)
  IN  PatternIter(k, IF SnappedLater(track, now) THEN 0
                     ELSE (now - track[k].begin_tick) \div track[k].length_ticks)

NextPattern(track, p) ==
  IF p.loop + 1 < track[p.block].loop_count
    THEN PatternIter(p.block, p.loop + 1)
    ELSE PatternIter(p.block + 1, 0)

(* Before the first block the index wraps around to one that no block has. *)
PrevPattern(track, p) ==
  IF p.loop > 0 THEN PatternIter(p.block, p.loop - 1)
  ELSE PatternIter(p.block - 1, IF p.block > 1 THEN track[p.block - 1].loop_count - 1 ELSE 0)

(* The begin_tick and end_tick of the pattern.                             *)
PatternBegin(track, p) == LoopTime(track[p.block], p.loop)
PatternEnd(track, p) == LoopTime(track[p.block], p.loop + 1)

-----------------------------------------------------------------------------
(* EventSearch: where the events at t end, and where they begin.           *)

TickEnd(events, t) ==
  Min({k \in 1 .. Len(events) + 1 : k > Len(events) \/ t < events[k].anchor_tick})

TickBegin(events, t) ==
  Min({k \in 1 .. Len(events) + 1 : k > Len(events) \/ t <= events[k].anchor_tick})
=============================================================================
