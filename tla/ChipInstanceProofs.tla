------------------------- MODULE ChipInstanceProofs -------------------------
(***************************************************************************)
(* The channels of the sequencer play what is written, in order, and stop  *)
(* their notes in gaps.  The samples in the audio RAM are those of the     *)
(* document, and laid out without overlap (Spc700Driver::reload_samples());*)
(* voices only play what is loaded, notes are heard and end: for any       *)
(* number of channels, any documents, sizes of samples and RAM, and any    *)
(* order of commands, timers, writes and polls.                            *)
(***************************************************************************)
EXTENDS ChipInstance, FiniteSetTheorems, WellFoundedInduction, TLAPS

-----------------------------------------------------------------------------
(* The channels, for any document and any edits: each counts and loops on  *)
(* its own, and they stay together; and where they are in their tracks is  *)
(* a place to go on from, so a song that plays goes on until it is         *)
(* stopped.                                                                *)

(* Looking the position up again after edits does not move it.             *)
LEMMA EditsKeepNow ==
  ASSUME NEW c \in Channels
  PROVE  DocEdited(c).now = seqs[c].now
  BY DEF DocEdited, Reloaded

(* Whether a tick takes a channel to the next tick or back to the begin    *)
(* depends on its position and on the document, not on its track.          *)
LEMMA TickMovesNow ==
  ASSUME NEW c \in Channels, NEW seq
  PROVE  NextTick(document, c, seq).seq.now =
           IF seq.now + 1 >= SongLength(document.tracks) THEN 0 ELSE seq.now + 1
  BY Zenon DEF NextTick, LoopsSong

(* ChipSequencer::sequencer_tick() never sees two channels return          *)
(* different times, and no channel runs ahead of another.                  *)
THEOREM ChannelsStayTogether == Spec => []ChannelsInSync
<1>1. Init => ChannelsInSync
  BY DEF Init, ChannelsInSync, Stopped
<1>2. ChannelsInSync /\ [Next]_vars => ChannelsInSync'
  <2> SUFFICES ASSUME ChannelsInSync, [Next]_vars, NEW c \in Channels, NEW d \in Channels
               PROVE  times'[c] = times'[d] /\ seqs'[c].now = seqs'[d].now
    BY DEF ChannelsInSync
  <2>1. times[c] = times[d] /\ seqs[c].now = seqs[d].now
    BY DEF ChannelsInSync
  <2>2. CASE \E t \in 0 .. MaxTick : PlayFrom(t)
    BY <2>1, <2>2 DEF PlayFrom, Sought
  <2>3. CASE StopPlayback
    BY <2>3 DEF StopPlayback
  <2>4. CASE Tick
    <3>1. \A e \in Channels :
            seqs'[e].now = NextTick(document, e, DocEdited(e)).seq.now
      BY <2>4, Zenon DEF Tick
    <3>2. \A e \in Channels :
            seqs'[e].now = IF seqs[e].now + 1 >= SongLength(document.tracks)
                           THEN 0 ELSE seqs[e].now + 1
      <4> SUFFICES ASSUME NEW e \in Channels
                   PROVE  seqs'[e].now =
                            IF seqs[e].now + 1 >= SongLength(document.tracks)
                            THEN 0 ELSE seqs[e].now + 1
        OBVIOUS
      <4>1. NextTick(document, e, DocEdited(e)).seq.now =
              IF DocEdited(e).now + 1 >= SongLength(document.tracks)
              THEN 0 ELSE DocEdited(e).now + 1
        BY TickMovesNow
      <4>2. DocEdited(e).now = seqs[e].now
        BY EditsKeepNow
      <4> QED
        BY <3>1, <4>1, <4>2
    <3>3. seqs'[c].now = seqs'[d].now
      BY <2>1, <3>2, Zenon
    <3> QED
      BY <2>1, <2>4, <3>3, Zenon DEF Tick
  <2>5. CASE RunDriver
    BY <2>1, <2>5, EditsKeepNow, Zenon DEF RunDriver
  <2>6. CASE Edit \/ UNCHANGED vars
    BY <2>1, <2>6 DEF Edit, vars
  <2> QED
    BY <2>2, <2>3, <2>4, <2>5, <2>6 DEF Next
<1> QED
  BY <1>1, <1>2, PTL DEF Spec

-----------------------------------------------------------------------------
(* Induction over an interval, for a set rather than for a predicate.      *)
LEMMA CountUp ==
  ASSUME NEW n \in Nat, NEW S, 0 \in S, \A k \in 1 .. n : k - 1 \in S => k \in S
  PROVE  \A k \in 0 .. n : k \in S
  <1> SUFFICES ASSUME {k \in 0 .. n : k \notin S} # {} PROVE FALSE
    OBVIOUS
  <1> DEFINE T == {k \in 0 .. n : k \notin S}
  <1>1. T \subseteq Nat /\ T # {}
    OBVIOUS
  <1>2. PICK x \in T : \A y \in T : ~(<<y, x>> \in OpToRel(<, Nat))
    BY <1>1, NatLessThanWellFounded, WFMin
  <1>3. x \in 1 .. n /\ x - 1 \in 0 .. n /\ x - 1 < x
    OBVIOUS
  <1>4. x - 1 \notin T
    <2>1. <<x - 1, x>> \in OpToRel(<, Nat)
      BY <1>3 DEF OpToRel
    <2> QED
      BY <1>2, <2>1
  <1>5. x - 1 \in S
    BY <1>3, <1>4
  <1> QED
    BY <1>2, <1>3, <1>5

(* A set of numbers has a least one.                                       *)
LEMMA LeastExists ==
  ASSUME NEW S \in SUBSET Nat, S # {}
  PROVE  \E x \in S : \A y \in S : x <= y
  <1>1. PICK x \in S : \A y \in S : ~(<<y, x>> \in OpToRel(<, Nat))
    BY NatLessThanWellFounded, WFMin
  <1>2. ASSUME NEW y \in S PROVE x <= y
    <2>1. y < x => <<y, x>> \in OpToRel(<, Nat)
      BY DEF OpToRel
    <2>2. ~(<<y, x>> \in OpToRel(<, Nat))
      BY <1>1
    <2>3. x \in Nat /\ y \in Nat /\ ~(y < x)
      BY <2>1, <2>2
    <2> QED
      BY <2>3
  <1> QED
    BY <1>2

(* The operator of the library returns it.                                 *)
LEMMA MinIsLeast ==
  ASSUME NEW S \in SUBSET Nat, S # {}
  PROVE  Min(S) \in S /\ \A y \in S : Min(S) <= y
  BY LeastExists DEF Min

(* The largest of some numbers is one of them.                             *)
LEMMA MaxType == ASSUME NEW n \in Nat, NEW S \in SUBSET (1 .. n), S # {} PROVE Max(S) \in S
  <1>1. \E x \in S : \A y \in S : x >= y
    <2> DEFINE T == {k \in Nat : n - k \in S}
    <2>1. PICK x \in S : TRUE
      OBVIOUS
    <2>2. n - x \in Nat /\ n - (n - x) = x
      BY <2>1
    <2>3. T # {} /\ T \subseteq Nat
      BY <2>1, <2>2
    <2>4. PICK k \in T : \A j \in T : ~(<<j, k>> \in OpToRel(<, Nat))
      BY <2>3, NatLessThanWellFounded, WFMin
    <2>5. ASSUME NEW y \in S PROVE n - k >= y
      <3>1. n - y \in Nat /\ n - (n - y) = y
        OBVIOUS
      <3>2. n - y \in T
        BY <3>1
      <3>3. ~(n - y < k)
        BY <2>3, <2>4, <3>1, <3>2 DEF OpToRel
      <3> QED
        BY <2>3, <3>3
    <2> QED
      BY <2>5
  <1> QED
    BY <1>1 DEF Max

(* How many whole patterns lie before a time.                              *)
LEMMA DivisionRoundsDown ==
  ASSUME NEW a \in Nat, NEW b \in Nat, b > 0
  PROVE  a \div b \in Nat /\ a < (a \div b + 1) * b
  <1>1. a \div b \in Int
    OBVIOUS
  <1>2. a \div b \in Nat
    BY <1>1
  <1>3. a < (a \div b + 1) * b
    BY <1>1
  <1> QED
    BY <1>2, <1>3

(* What DocumentsAssumption says of the blocks of a track.                 *)
LEMMA BlockFields ==
  ASSUME NEW b \in Block
  PROVE  /\ b.begin_tick \in Nat /\ b.loop_count \in Nat \ {0} /\ b.length_ticks \in Nat \ {0}
         /\ b.events \in Seq(Event) /\ Len(b.events) \in Nat
  <1>1. /\ b.begin_tick \in Nat /\ b.loop_count \in Nat \ {0} /\ b.length_ticks \in Nat \ {0}
        /\ b.events \in Seq(Event)
    BY DEF Block
  <1>2. Len(b.events) \in Nat
    BY <1>1
  <1> QED
    BY <1>1, <1>2

-----------------------------------------------------------------------------
(* EventIterators.                                                         *)
Iterators == [block : Nat \ {0}, loop : Nat, event : Nat \ {0}]

(* The pattern at a time, or after it, ends later.                        *)
LEMMA PatternAtEnds ==
  ASSUME NEW track \in Seq(Block), NEW now \in Nat
  PROVE  LET p == PatternAt(track, now) IN
         /\ p = PatternIter(p.block, p.loop) /\ p.block \in Nat \ {0} /\ p.loop \in Nat
         /\ HasPattern(track, p) => now < PatternEnd(track, p)
  <1> DEFINE S == {k \in 1 .. Len(track) + 1 : k > Len(track) \/ now < EndTime(track[k])}
             k == BlockAt(track, now)
             loop == IF SnappedLater(track, now) THEN 0
                     ELSE (now - track[k].begin_tick) \div track[k].length_ticks
             p == PatternAt(track, now)
  <1>1. k \in S
    <2>1. Len(track) + 1 \in S /\ S \subseteq Nat
      OBVIOUS
    <2> HIDE DEF S
    <2>2. Min(S) \in S
      BY <2>1, MinIsLeast
    <2> QED
      BY <2>2 DEF BlockAt, S
  <1>2. k \in 1 .. Len(track) + 1 /\ (k <= Len(track) => now < EndTime(track[k]))
    BY <1>1
  <1>3. p = [block |-> k, loop |-> loop]
    BY DEF PatternAt, PatternIter
  <1>4. SnappedLater(track, now) <=> k > Len(track) \/ now < track[k].begin_tick
    BY DEF SnappedLater
  <1> HIDE DEF S, k
  <1>5. CASE k > Len(track)
    <2>1. loop = 0 /\ k \notin DOMAIN track
      BY <1>2, <1>4, <1>5
    <2> HIDE DEF p, loop
    <2> QED
      BY <1>2, <1>3, <2>1 DEF PatternIter, HasPattern, p
  <1>6. CASE k <= Len(track)
    <2>1. /\ track[k].begin_tick \in Nat /\ track[k].length_ticks \in Nat \ {0}
      <3>1. track[k] \in Block
        BY <1>2, <1>6
      <3> QED
        BY <3>1 DEF Block
    <2> DEFINE begin == track[k].begin_tick
               length == track[k].length_ticks
    <2>2. loop \in Nat /\ now < begin + (loop + 1) * length
      <3>1. CASE now < begin
        <4>1. loop = 0
          BY <1>4, <3>1
        <4> HIDE DEF loop
        <4> QED
          BY <2>1, <3>1, <4>1
      <3>2. CASE now >= begin
        <4>1. loop = (now - begin) \div length
          BY <1>2, <1>4, <1>6, <2>1, <3>2
        <4> HIDE DEF loop, begin, length
        <4>2. now - begin \in Nat /\ begin \in Nat /\ length \in Nat /\ length > 0
          BY <2>1, <3>2 DEF begin, length
        <4>4. loop \in Nat /\ now - begin < (loop + 1) * length
          BY <4>1, <4>2, DivisionRoundsDown
        <4>5. (loop + 1) * length \in Int
          BY <4>2, <4>4
        <4> QED
          BY <4>2, <4>4, <4>5
      <3> QED
        BY <2>1, <3>1, <3>2
    <2> HIDE DEF loop, p
    <2>3. p.block = k /\ p.loop = loop
      BY <1>3
    <2>4. PatternEnd(track, p) = begin + (loop + 1) * length
      BY <2>3 DEF PatternEnd, LoopTime
    <2> HIDE DEF begin, length
    <2>5. now < PatternEnd(track, p)
      BY <2>2, <2>4
    <2>6. p = PatternIter(p.block, p.loop) /\ p.block \in Nat \ {0} /\ p.loop \in Nat
      BY <1>2, <1>3, <2>2, <2>3 DEF PatternIter
    <2> QED
      BY <2>5, <2>6 DEF p
  <1> QED
    BY <1>2, <1>5, <1>6

(* A seek finds a place, and in a pattern one up to its end.               *)
LEMMA AtTimeType ==
  ASSUME NEW track \in Seq(Block), NEW now \in Nat
  PROVE  LET it == AtTime(track, now) IN
         /\ it \in Iterators
         /\ ~PastEnd(track, it) =>
              /\ it.event \in 1 .. Len(track[it.block].events) + 1
              /\ now < PatternEnd(track, it)
  <1> DEFINE p == PatternAt(track, now)
             it == AtTime(track, now)
             event == IF ~HasPattern(track, p) THEN 1
                      ELSE TickBegin(track[p.block].events, now - PatternBegin(track, p))
  <1>1. /\ p.block \in Nat \ {0} /\ p.loop \in Nat
        /\ HasPattern(track, p) => now < PatternEnd(track, p)
    BY PatternAtEnds
  <1>2. it = [block |-> p.block, loop |-> p.loop, event |-> event]
    BY DEF AtTime, Iterator
  <1>3. event \in Nat \ {0} /\ (HasPattern(track, p) => event \in 1 .. Len(track[p.block].events) + 1)
    <2>1. ASSUME ~HasPattern(track, p) PROVE event = 1
      BY <2>1
    <2>2. CASE HasPattern(track, p)
      <3> DEFINE events == track[p.block].events
                 t == now - PatternBegin(track, p)
                 S == {k \in 1 .. Len(events) + 1 : k > Len(events) \/ t <= events[k].anchor_tick}
      <3>1. events \in Seq(Event)
        <4>1. track[p.block] \in Block
          BY <2>2 DEF HasPattern
        <4> HIDE DEF p
        <4> QED
          BY <4>1, BlockFields
      <3>2. event = Min(S)
        BY <2>2 DEF TickBegin
      <3> HIDE DEF t, events, event
      <3>3. Len(events) + 1 \in S /\ S \subseteq Nat
        BY <3>1
      <3>4. Min(S) \in S
        <4> HIDE DEF S
        <4> QED
          BY <3>3, MinIsLeast
      <3>5. Len(events) \in Nat
        BY <3>1
      <3>6. event \in 1 .. Len(events) + 1
        BY <3>2, <3>4
      <3>7. event \in Nat \ {0}
        BY <3>5, <3>6
      <3> QED
        BY <3>6, <3>7 DEF events
    <2> HIDE DEF event
    <2> QED
      BY <2>1, <2>2
  <1> HIDE DEF p, event, it
  <1>4. it \in Iterators /\ it.block = p.block /\ it.loop = p.loop /\ it.event = event
    BY <1>1, <1>2, <1>3 DEF Iterators
  <1>5. PatternEnd(track, it) = PatternEnd(track, p)
    BY <1>4 DEF PatternEnd
  <1>6. PastEnd(track, it) <=> ~HasPattern(track, p)
    BY <1>4 DEF PastEnd, HasPattern
  <1> QED
    BY <1>1, <1>3, <1>4, <1>5, <1>6 DEF it

(* doc_edited() finds an event, or the end of the pattern, that is not     *)
(* over.                                                                   *)
LEMMA ReloadedType ==
  ASSUME NEW track \in Seq(Block), NEW seq, seq.now \in Nat
  PROVE  Reloaded(track, seq).now = seq.now /\ Reloaded(track, seq).next \in Iterators
  <1> DEFINE it == AtTime(track, seq.now)
             last == Len(track[it.block].events) + 1
             past(e) == EventTime(track, [it EXCEPT !.event = e]) < seq.now
             IsNext(e) == ~past(e) /\ \A f \in it.event .. e - 1 : past(f)
             event == CHOOSE e \in it.event .. last : IsNext(e)
             next == IF PastEnd(track, it) THEN it ELSE [it EXCEPT !.event = event]
  <1>1. Reloaded(track, seq) = [now |-> seq.now, ignore |-> FALSE, next |-> next]
    BY DEF Reloaded
  <1>2. /\ it \in Iterators
        /\ ~PastEnd(track, it) =>
              /\ it.event \in 1 .. last
              /\ seq.now < PatternEnd(track, it)
    BY AtTimeType
  <1> HIDE DEF it
  <1>3. ASSUME ~PastEnd(track, it) PROVE event \in it.event .. last
    <2> DEFINE T == {e \in it.event .. last : ~past(e)}
    <2>1. last \in Nat /\ it.event \in Nat
      BY <1>2, <1>3
    <2>2. last \in T
      <3> DEFINE end == [it EXCEPT !.event = last]
      <3>1. end.block = it.block /\ end.loop = it.loop /\ end.event = last
        BY <1>2 DEF Iterators
      <3> HIDE DEF end
      <3>2. AtPatternEnd(track, end)
        <4>1. track[it.block] \in Block
          BY <1>3 DEF PastEnd, HasPattern
        <4>2. Len(track[it.block].events) \in Nat
          BY <4>1, BlockFields
        <4> QED
          BY <3>1, <4>2 DEF AtPatternEnd
      <3>3. EventTime(track, end) = PatternEnd(track, it)
        BY <3>1, <3>2 DEF EventTime, PatternEnd
      <3>4. ~past(last)
        <4>1. track[it.block] \in Block /\ it.loop \in Nat
          BY <1>2, <1>3 DEF PastEnd, HasPattern, Iterators
        <4>a. track[it.block].begin_tick \in Nat /\ track[it.block].length_ticks \in Nat
          BY <4>1, BlockFields
        <4>b. (it.loop + 1) * track[it.block].length_ticks \in Nat
          BY <4>1, <4>a
        <4>2. PatternEnd(track, it) \in Int
          BY <4>a, <4>b DEF PatternEnd, LoopTime
        <4>3. ~(EventTime(track, end) < seq.now)
          BY <1>2, <1>3, <3>3, <4>2
        <4> QED
          BY <4>3 DEF end
      <3> HIDE DEF past, last
      <3> QED
        BY <1>2, <1>3, <2>1, <3>4
    <2> HIDE DEF past, last
    <2>3. T \subseteq Nat
      BY <2>1
    <2>4. PICK e \in T : \A f \in T : e <= f
      <3> HIDE DEF T
      <3> QED
        BY <2>2, <2>3, LeastExists
    <2>5. ASSUME NEW f \in it.event .. e - 1 PROVE past(f)
      <3>1. f \in it.event .. last /\ ~(e <= f)
        BY <2>1, <2>4
      <3> QED
        BY <2>4, <3>1
    <2>6. e \in it.event .. last /\ IsNext(e)
      BY <2>4, <2>5
    <2> HIDE DEF IsNext
    <2> QED
      BY <2>6
  <1> HIDE DEF event
  <1>4. next \in Iterators
    BY <1>2, <1>3 DEF Iterators
  <1> QED
    BY <1>1, <1>4

(* What a channel may play: a cut, or an event of a pattern.               *)
Outs(track) ==
  {x \in Nat \X Nat \X Nat :
     x = CutNote \/ (x[1] \in DOMAIN track /\ x[3] \in DOMAIN track[x[1]].events)}

(* A round of next_tick() goes on to an event or pattern.                  *)
RoundOk(track, p) == p.it \in Iterators /\ p.out \in Seq(Outs(track))

(* The next pattern begins with its first event.                           *)
LEMMA NextPatternType ==
  ASSUME NEW track, NEW it \in Iterators
  PROVE  Iterator(NextPattern(track, it), 1) \in Iterators
  <1> DEFINE p == NextPattern(track, it)
  <1>1. it.block \in Nat \ {0} /\ it.loop \in Nat
    BY DEF Iterators
  <1>2. p.block \in Nat \ {0} /\ p.loop \in Nat
    BY <1>1 DEF NextPattern, PatternIter
  <1>3. Iterator(p, 1) = [block |-> p.block, loop |-> p.loop, event |-> 1]
    BY DEF Iterator
  <1> HIDE DEF p
  <1>4. Iterator(p, 1) \in Iterators
    BY <1>2, <1>3 DEF Iterators
  <1> QED
    BY <1>4 DEF p

(* The record that a round of the loop takes and returns.                  *)
IsRound(r) == r = [it |-> r.it, out |-> r.out, processed |-> r.processed,
                   ended |-> r.ended, done |-> r.done]

(* One round of the loop of next_tick().                                   *)
LEMMA RoundType ==
  ASSUME NEW track \in Seq(Block), NEW now, NEW gap, NEW p, RoundOk(track, p), IsRound(p)
  PROVE  LET q == Round(track, now, gap, p) IN RoundOk(track, q) /\ IsRound(q)
  <1> DEFINE left == EventTime(track, p.it) - now
             end == AtPatternEnd(track, p.it)
             cut == /\ ~p.processed
                    /\ end \/ HasNote(track, Place(p.it))
                    /\ left = gap
             q == Round(track, now, gap, p)
  <1> USE DEF IsRound
  <1>1. p.it \in Iterators /\ p.out \in Seq(Outs(track)) /\ IsRound(p)
    BY DEF RoundOk
  <1>2. q = IF p.done \/ PastEnd(track, p.it) THEN [p EXCEPT !.done = TRUE]
            ELSE IF left # 0
              THEN [p EXCEPT !.done = TRUE, !.out = IF cut THEN Append(@, CutNote) ELSE @]
            ELSE IF ~end
              THEN [p EXCEPT !.processed = TRUE, !.out = Append(@, Place(p.it)),
                             !.it.event = @ + 1]
            ELSE IF p.ended THEN [p EXCEPT !.processed = TRUE, !.done = TRUE]
            ELSE [p EXCEPT !.processed = TRUE, !.ended = TRUE,
                           !.it = Iterator(NextPattern(track, @), 1)]
    BY DEF Round
  <1> HIDE DEF left, cut, q
  <1>3. CASE p.done \/ PastEnd(track, p.it)
    <2>1. q = [p EXCEPT !.done = TRUE]
      BY <1>2, <1>3
    <2>2. q.it = p.it /\ q.out = p.out /\ IsRound(q)
      BY <1>1, <2>1
    <2> QED
      BY <1>1, <2>2 DEF RoundOk, q
  <1>4. CASE ~(p.done \/ PastEnd(track, p.it)) /\ left # 0
    <2> DEFINE out == IF cut THEN Append(p.out, CutNote) ELSE p.out
    <2>1. q = [p EXCEPT !.done = TRUE, !.out = out]
      BY <1>2, <1>4
    <2>2. out \in Seq(Outs(track))
      <3>1. CutNote \in Outs(track)
        BY DEF CutNote, Outs
      <3> HIDE DEF end
      <3> QED
        BY <1>1, <3>1
    <2> HIDE DEF out
    <2>3. q.it = p.it /\ q.out = out /\ IsRound(q)
      BY <1>1, <2>1
    <2> QED
      BY <1>1, <2>2, <2>3 DEF RoundOk, q
  <1>5. CASE ~(p.done \/ PastEnd(track, p.it)) /\ left = 0 /\ ~end
    <2> DEFINE it == [p.it EXCEPT !.event = p.it.event + 1]
               out == Append(p.out, Place(p.it))
    <2>a. q = [p EXCEPT !.processed = TRUE, !.out = Append(@, Place(p.it)),
                        !.it.event = @ + 1]
      BY <1>2, <1>5
    <2>1. q = [it |-> it, out |-> out, processed |-> TRUE, ended |-> p.ended, done |-> p.done]
      BY <1>1, <2>a
    <2>2. it \in Iterators
      BY <1>1 DEF Iterators
    <2>3. Place(p.it) \in Outs(track)
      <3>1. p.it.block \in Nat /\ p.it.loop \in Nat /\ p.it.event \in Nat \ {0}
        BY <1>1 DEF Iterators
      <3>2. p.it.block \in DOMAIN track
        BY <1>5 DEF PastEnd, HasPattern
      <3>3. track[p.it.block] \in Block
        BY <3>2
      <3>4. /\ track[p.it.block].events \in Seq(Event)
            /\ Len(track[p.it.block].events) \in Nat
        BY <3>3, BlockFields
      <3>5. p.it.event \in DOMAIN track[p.it.block].events
        BY <1>5, <3>1, <3>4 DEF AtPatternEnd
      <3> DEFINE x == Place(p.it)
      <3>6. x[1] = p.it.block /\ x[3] = p.it.event /\ x \in Nat \X Nat \X Nat
        BY <3>1 DEF Place
      <3> HIDE DEF x
      <3>7. x \in Outs(track)
        BY <3>2, <3>5, <3>6 DEF Outs
      <3> QED
        BY <3>7 DEF x
    <2>4. out \in Seq(Outs(track))
      BY <1>1, <2>3
    <2> HIDE DEF it, out
    <2>5. q.it = it /\ q.out = out /\ IsRound(q)
      BY <1>1, <2>1
    <2> QED
      BY <2>2, <2>4, <2>5 DEF RoundOk, q
  <1>6. CASE ~(p.done \/ PastEnd(track, p.it)) /\ left = 0 /\ end /\ p.ended
    <2>1. q = [p EXCEPT !.processed = TRUE, !.done = TRUE]
      BY <1>2, <1>6
    <2>2. q.it = p.it /\ q.out = p.out /\ IsRound(q)
      BY <1>1, <2>1
    <2> QED
      BY <1>1, <2>2 DEF RoundOk, q
  <1>7. CASE ~(p.done \/ PastEnd(track, p.it)) /\ left = 0 /\ end /\ ~p.ended
    <2> DEFINE it == Iterator(NextPattern(track, p.it), 1)
    <2>1. q = [p EXCEPT !.processed = TRUE, !.ended = TRUE, !.it = it]
      BY <1>2, <1>7
    <2>2. it \in Iterators
      BY <1>1, NextPatternType
    <2> HIDE DEF it
    <2>3. q.it = it /\ q.out = p.out /\ IsRound(q)
      BY <1>1, <2>1
    <2> QED
      BY <1>1, <2>2, <2>3 DEF RoundOk, q
  <1> QED
    BY <1>3, <1>4, <1>5, <1>6, <1>7

(* f[n] is what n rounds leave.                                            *)
Rounded(f, n, track, seq, gap) ==
  f = [k \in 0 .. n |->
         IF k = 0
           THEN [it |-> seq.next, out |-> <<>>, processed |-> FALSE, ended |-> FALSE,
                 done |-> FALSE]
           ELSE Round(track, seq.now, gap, f[k - 1])]

(* The recursion that Rounds() defines has a solution.                     *)
LEMMA RoundedExists ==
  ASSUME NEW track, NEW seq, NEW gap, NEW n \in Nat
  PROVE  \E f : Rounded(f, n, track, seq, gap)
  <1> DEFINE S == {m \in 0 .. n : \E f : Rounded(f, m, track, seq, gap)}
             first == [it |-> seq.next, out |-> <<>>, processed |-> FALSE, ended |-> FALSE,
                       done |-> FALSE]
             step(x) == Round(track, seq.now, gap, x)
             next(f, k) == IF k = 0 THEN first ELSE step(f[k - 1])
  <1>1. 0 \in S
    <2> DEFINE f == [k \in 0 .. 0 |-> first]
    <2>1. f = [k \in 0 .. 0 |-> next(f, k)]
      <3> HIDE DEF step, first
      <3> QED
        OBVIOUS
    <2> HIDE DEF f
    <2>2. Rounded(f, 0, track, seq, gap)
      BY <2>1 DEF Rounded
    <2> QED
      BY <2>2
  <1>2. ASSUME NEW m \in 1 .. n, m - 1 \in S PROVE m \in S
    <2>1. PICK f : Rounded(f, m - 1, track, seq, gap)
      BY <1>2
    <2>2. f = [k \in 0 .. m - 1 |-> next(f, k)]
      BY <2>1 DEF Rounded
    <2> DEFINE g == [k \in 0 .. m |-> IF k < m THEN f[k] ELSE step(f[m - 1])]
    <2> HIDE DEF step, first
    <2>3. ASSUME NEW k \in 0 .. m PROVE g[k] = next(g, k)
      <3>1. CASE k = 0
        BY <2>2, <3>1
      <3>2. CASE k # 0 /\ k < m
        <4>1. k \in 0 .. m - 1 /\ k - 1 \in 0 .. m /\ k - 1 < m
          BY <3>2
        <4>2. g[k] = f[k] /\ g[k - 1] = f[k - 1] /\ f[k] = next(f, k)
          BY <2>2, <4>1, <3>2
        <4> QED
          BY <3>2, <4>2
      <3>3. CASE k = m
        <4>1. k - 1 \in 0 .. m /\ k - 1 < m /\ k # 0
          BY <3>3
        <4> QED
          BY <3>3, <4>1
      <3> QED
        BY <3>1, <3>2, <3>3
    <2>4. g = [k \in 0 .. m |-> next(g, k)]
      BY <2>3
    <2> HIDE DEF g
    <2>5. Rounded(g, m, track, seq, gap)
      BY <2>4 DEF Rounded, step, first
    <2> QED
      BY <2>5
  <1>3. \A m \in 0 .. n : m \in S
    <2> HIDE DEF S
    <2> QED
      BY <1>1, <1>2, CountUp
  <1> QED
    BY <1>3

(* All rounds of the loop of next_tick().                                  *)
LEMMA RoundsType ==
  ASSUME NEW track \in Seq(Block), NEW seq, seq.next \in Iterators, NEW gap,
         NEW k \in 0 .. MaxRounds
  PROVE  RoundOk(track, Rounds(track, seq, gap)[k]) /\ IsRound(Rounds(track, seq, gap)[k])
  <1> DEFINE n == MaxRounds
             f == CHOOSE f : Rounded(f, n, track, seq, gap)
  <1>1. Rounds(track, seq, gap) = f
    BY DEF Rounds, Rounded
  <1>2. n \in Nat
    BY BoundsAssumption DEF MaxRounds
  <1>3. Rounded(f, n, track, seq, gap)
    <2> HIDE DEF n
    <2> QED
      BY <1>2, RoundedExists
  <1> HIDE DEF f, n
  <1>4. f[0] = [it |-> seq.next, out |-> <<>>, processed |-> FALSE, ended |-> FALSE,
                done |-> FALSE]
    BY <1>2, <1>3 DEF Rounded
  <1>5. ASSUME NEW m \in 1 .. n PROVE f[m] = Round(track, seq.now, gap, f[m - 1])
    <2>1. m \in 0 .. n /\ m # 0
      BY <1>2
    <2> QED
      BY <1>3, <2>1 DEF Rounded
  <1> DEFINE S == {m \in 0 .. n : RoundOk(track, f[m]) /\ IsRound(f[m])}
  <1>6. 0 \in S
    <2>1. <<>> \in Seq(Outs(track))
      OBVIOUS
    <2>2. f[0].it = seq.next /\ f[0].out = <<>> /\ IsRound(f[0])
      BY <1>4 DEF IsRound
    <2>3. RoundOk(track, f[0])
      BY <2>1, <2>2 DEF RoundOk
    <2> QED
      BY <1>2, <2>2, <2>3
  <1>7. ASSUME NEW m \in 1 .. n, m - 1 \in S PROVE m \in S
    <2>1. f[m] = Round(track, seq.now, gap, f[m - 1])
      BY <1>5
    <2>2. RoundOk(track, f[m - 1]) /\ IsRound(f[m - 1])
      BY <1>7
    <2>3. RoundOk(track, Round(track, seq.now, gap, f[m - 1]))
          /\ IsRound(Round(track, seq.now, gap, f[m - 1]))
      BY <2>2, RoundType DEF IsRound
    <2>4. RoundOk(track, f[m]) /\ IsRound(f[m])
      BY <2>1, <2>3
    <2> QED
      BY <2>4
  <1>8. k \in S
    <2> HIDE DEF S
    <2>1. \A m \in 0 .. n : m \in S
      BY <1>2, <1>6, <1>7, CountUp
    <2> QED
      BY <2>1 DEF n
  <1> QED
    BY <1>1, <1>8

-----------------------------------------------------------------------------
(* The positions of a sequencer that plays.                                *)
SeqOk(seq) == seq.now \in Nat /\ seq.next \in Iterators

(* The tracks of documents are sequences of blocks.                        *)
LEMMA DocumentTracks ==
  ASSUME NEW doc \in Documents, NEW c \in Channels
  PROVE  doc.tracks[c] \in Seq(Block)
  BY DocumentsAssumption

(* seek().                                                                 *)
LEMMA SoughtType ==
  ASSUME NEW track \in Seq(Block), NEW t \in Nat
  PROVE  SeqOk(Sought(track, t))
  BY AtTimeType DEF Sought, SeqOk

(* next_tick() goes on to a place, through ends of patterns and songs, and *)
(* plays events that the track has.                                        *)
LEMMA NextTickType ==
  ASSUME NEW doc \in Documents, NEW c \in Channels, NEW seq, SeqOk(seq)
  PROVE  /\ SeqOk(NextTick(doc, c, seq).seq)
         /\ NextTick(doc, c, seq).out \in Seq(Outs(doc.tracks[c]))
  <1> DEFINE track == doc.tracks[c]
             p == Rounds(track, seq, doc.note_gap_ticks)[MaxRounds]
             looped == LoopsSong(doc, c, seq.now + 1)
             next == [now |-> IF looped THEN 0 ELSE seq.now + 1,
                      ignore |-> FALSE,
                      next |-> IF looped THEN AtTime(track, 0) ELSE p.it]
             out == WithEndCut(track, p, looped)
  <1>1. track \in Seq(Block)
    BY DocumentTracks
  <1>2. p.it \in Iterators /\ p.out \in Seq(Outs(track))
    <2>1. MaxRounds \in 0 .. MaxRounds
      BY BoundsAssumption DEF MaxRounds
    <2>2. RoundOk(track, p)
      <3> HIDE DEF track
      <3> QED
        BY <1>1, <2>1, RoundsType DEF SeqOk
    <2> HIDE DEF p
    <2> QED
      BY <2>2 DEF RoundOk
  <1>3. NextTick(doc, c, seq).seq = next /\ NextTick(doc, c, seq).out = out
    BY DEF NextTick
  <1> HIDE DEF p, looped, track
  <1>4. SeqOk(next)
    <2>1. AtTime(track, 0) \in Iterators
      BY <1>1, AtTimeType
    <2> QED
      BY <1>2, <2>1 DEF SeqOk
  <1>5. out \in Seq(Outs(track))
    <2>1. <<CutNote>> \in Seq(Outs(track))
      <3>1. CutNote \in Outs(track)
        BY DEF CutNote, Outs
      <3> QED
        BY <3>1
    <2>2. <<CutNote>> \o p.out \in Seq(Outs(track))
      BY <1>2, <2>1
    <2> QED
      BY <1>2, <2>2 DEF WithEndCut
  <1> HIDE DEF next, out
  <1> QED
    BY <1>3, <1>4, <1>5 DEF track

(* doc_edited() leaves channels that play a place to go on from.           *)
LEMMA DocEditedType ==
  ASSUME NEW c \in Channels, document \in Documents, seqs[c].now \in Nat,
         seqs[c].next = None \/ seqs[c].next \in Iterators
  PROVE  /\ DocEdited(c).now \in Nat
         /\ seqs[c].next = None => DocEdited(c).next = None
         /\ seqs[c].next # None => DocEdited(c).next \in Iterators
  <1>1. Track(c) \in Seq(Block)
    BY DocumentTracks DEF Track
  <1>2. /\ Reloaded(Track(c), seqs[c]).now = seqs[c].now
        /\ Reloaded(Track(c), seqs[c]).next \in Iterators
    BY <1>1, ReloadedType
  <1> QED
    BY <1>2 DEF DocEdited

(* The positions are there or not, in every state.                         *)
SeqsOk ==
  /\ document \in Documents
  /\ \A c \in Channels :
       seqs[c].now \in Nat /\ (seqs[c].next = None \/ seqs[c].next \in Iterators)

(* A place is not the absence of one.                                      *)
LEMMA IteratorsAreSome == None \notin Iterators
  <1>1. Iterators \subseteq [block : Nat, loop : Nat, event : Nat]
    BY DEF Iterators
  <1> QED
    BY <1>1, StoppedAssumption

(* A song that plays goes on at each tick.                                 *)
LEMMA TickKeepsPlaying ==
  ASSUME SeqsOk, Tick
  PROVE  /\ SeqsOk' /\ Playing'
         /\ \A c \in Channels : played'[c] \in Seq(Outs(Track(c)))
  <1> DEFINE r == [c \in Channels |-> NextTick(document, c, DocEdited(c))]
  <1>1. /\ seqs' = [c \in Channels |-> r[c].seq]
        /\ played' = [c \in Channels |-> r[c].out]
        /\ document' = document /\ Playing
    BY DEF Tick
  <1>2. ASSUME NEW c \in Channels
        PROVE  SeqOk(r[c].seq) /\ r[c].out \in Seq(Outs(Track(c)))
    <2>1. seqs[c].now \in Nat /\ seqs[c].next \in Iterators /\ seqs[c].next # None
          /\ document \in Documents
      BY <1>1, IteratorsAreSome DEF SeqsOk, Playing
    <2>2. SeqOk(DocEdited(c))
      BY <2>1, DocEditedType DEF SeqOk
    <2>3. SeqOk(NextTick(document, c, DocEdited(c)).seq)
          /\ NextTick(document, c, DocEdited(c)).out \in Seq(Outs(document.tracks[c]))
      BY <2>1, <2>2, NextTickType
    <2> QED
      BY <2>3 DEF Track
  <1> HIDE DEF r
  <1>3. \A c \in Channels : SeqOk(seqs'[c]) /\ played'[c] \in Seq(Outs(Track(c)))
    BY <1>1, <1>2
  <1> QED
    BY <1>1, <1>3, IteratorsAreSome DEF SeqsOk, SeqOk, Playing

(* It goes on when a timer does not tick the sequencers, ...               *)
LEMMA RunDriverKeepsPlaying ==
  ASSUME SeqsOk, RunDriver
  PROVE  SeqsOk' /\ (Playing => Playing')
  <1>1. seqs' = [c \in Channels |-> DocEdited(c)] /\ document' = document
    BY DEF RunDriver
  <1>2. ASSUME NEW c \in Channels
        PROVE  /\ seqs'[c].now \in Nat
               /\ seqs[c].next = None => seqs'[c].next = None
               /\ seqs[c].next # None => seqs'[c].next \in Iterators
    BY <1>1, DocEditedType DEF SeqsOk
  <1> QED
    BY <1>1, <1>2, IteratorsAreSome DEF SeqsOk, Playing

(* ... and begins wherever it is started.                                  *)
LEMMA PlayFromPlays ==
  ASSUME SeqsOk, NEW t \in 0 .. MaxTick, PlayFrom(t)
  PROVE  SeqsOk' /\ Playing'
  <1>1. seqs' = [c \in Channels |-> Sought(Track(c), t)] /\ document' = document
    BY DEF PlayFrom
  <1>2. ASSUME NEW c \in Channels PROVE SeqOk(seqs'[c])
    <2>1. Track(c) \in Seq(Block)
      BY DocumentTracks DEF Track, SeqsOk
    <2>2. t \in Nat
      BY BoundsAssumption
    <2> QED
      BY <1>1, <2>1, <2>2, SoughtType
  <1> QED
    BY <1>1, <1>2, IteratorsAreSome DEF SeqsOk, SeqOk, Playing

(* Stopping keeps the sequencers' state well-formed.                        *)
LEMMA StopKeepsSeqs == ASSUME SeqsOk, StopPlayback PROVE SeqsOk'
  BY DEF SeqsOk, StopPlayback, Stopped

(* Edits do so too.                                                        *)
LEMMA EditKeepsSeqs ==
  ASSUME SeqsOk, UNCHANGED seqs, document' \in Documents
  PROVE  SeqsOk' /\ (Playing' <=> Playing)
  BY DEF SeqsOk, Playing

(* Every step keeps the positions, and only one stops a song.              *)
LEMMA StepSeqs ==
  ASSUME SeqsOk, [Next]_vars
  PROVE  SeqsOk' /\ (Playing /\ ~StopPlayback => Playing')
  <1>1. ASSUME NEW t \in 0 .. MaxTick, PlayFrom(t) PROVE SeqsOk' /\ Playing'
    BY <1>1, PlayFromPlays
  <1>2. CASE StopPlayback
    BY <1>2, StopKeepsSeqs
  <1>3. CASE Edit
    BY <1>3, EditKeepsSeqs DEF Edit
  <1>4. CASE Tick
    BY <1>4, TickKeepsPlaying
  <1>5. CASE RunDriver
    BY <1>5, RunDriverKeepsPlaying
  <1>6. CASE UNCHANGED vars
    BY <1>6, EditKeepsSeqs DEF SeqsOk, vars
  <1> QED
    BY <1>1, <1>2, <1>3, <1>4, <1>5, <1>6 DEF Next

(* A song that plays goes on until stop_playback(), on all channels: no    *)
(* seek, loop, edit or end of a track leaves a channel without the         *)
(* _curr_pattern_next_ev that next_tick() asserts.                         *)
THEOREM PlaybackGoesOn == Spec => [][Playing /\ ~StopPlayback => Playing']_vars
  <1>1. Init => SeqsOk
    BY BoundsAssumption DEF Init, SeqsOk, Stopped
  <1>2. SeqsOk /\ [Next]_vars => SeqsOk'
    BY StepSeqs
  <1>3. SeqsOk /\ [Next]_vars => [Playing /\ ~StopPlayback => Playing']_vars
    BY StepSeqs
  <1> QED
    BY <1>1, <1>2, <1>3, PTL DEF Spec

-----------------------------------------------------------------------------
(* The order of a track: where an iterator stands among the events of a    *)
(* track whose blocks and events are in order.                             *)

(* An iterator that stands at an event of a pattern, or at its end.        *)
InTrack(track, it) ==
  /\ it.block \in DOMAIN track
  /\ it.loop \in 0 .. track[it.block].loop_count - 1
  /\ it.event \in 1 .. Len(track[it.block].events) + 1

Earlier(a, b) ==
  \/ a.block < b.block
  \/ a.block = b.block /\ a.loop < b.loop
  \/ a.block = b.block /\ a.loop = b.loop /\ a.event < b.event

(* The places of the events of a track, and the iterator of one.           *)
AtPlace(x) == [block |-> x[1], loop |-> x[2], event |-> x[3]]

Places(track) ==
  {x \in Nat \X Nat \X Nat : InTrack(track, AtPlace(x)) /\ ~AtPatternEnd(track, AtPlace(x))}

(* What the order of a pattern says of its events.                         *)
LEMMA EventsAreOrdered ==
  ASSUME NEW b \in Block, EventsInOrder(b)
  PROVE  /\ \A i \in 1 .. Len(b.events) :
              /\ b.events[i].anchor_tick \in Nat /\ b.events[i].delay \in Int
              /\ b.events[i].anchor_tick + b.events[i].delay \in Nat
              /\ b.events[i].anchor_tick + b.events[i].delay < b.length_ticks
         /\ \A i, j \in 1 .. Len(b.events) : i <= j =>
              b.events[i].anchor_tick + b.events[i].delay
                <= b.events[j].anchor_tick + b.events[j].delay
  <1> DEFINE time(i) == b.events[i].anchor_tick + b.events[i].delay
  <1>1. b.events \in Seq(Event) /\ Len(b.events) \in Nat /\ DOMAIN b.events = 1 .. Len(b.events)
        /\ b.length_ticks \in Nat
    BY BlockFields
  <1>2. ASSUME NEW i \in 1 .. Len(b.events)
        PROVE  /\ b.events[i].anchor_tick \in Nat /\ b.events[i].delay \in Int
               /\ time(i) \in Nat /\ time(i) < b.length_ticks
    <2>1. b.events[i] \in Event
      BY <1>1
    <2>2. b.events[i].anchor_tick \in Nat /\ b.events[i].delay \in Int
      BY <2>1 DEF Event
    <2>3. time(i) \in 0 .. b.length_ticks - 1
      BY <1>1 DEF EventsInOrder
    <2> HIDE DEF time
    <2>4. time(i) \in Nat /\ time(i) < b.length_ticks
      BY <1>1, <2>3
    <2> QED
      BY <2>2, <2>4
  <1>3. ASSUME NEW i \in 1 .. Len(b.events), NEW j \in 1 .. Len(b.events), i <= j
        PROVE  time(i) <= time(j)
    <2>1. CASE i = j
      <3>1. time(i) \in Nat
        BY <1>2
      <3> QED
        BY <2>1, <3>1
    <2>2. CASE i # j
      <3>1. i \in 1 .. j - 1
        BY <1>1, <1>3, <2>2
      <3> QED
        BY <1>1, <3>1 DEF EventsInOrder
    <2> QED
      BY <2>1, <2>2
  <1> QED
    BY <1>2, <1>3

(* Loops of a block follow each other.                                     *)
LEMMA LoopsFollow ==
  ASSUME NEW b \in Block, NEW i \in Nat, NEW j \in Nat
  PROVE  /\ LoopTime(b, i) \in Nat
         /\ LoopTime(b, i + 1) = LoopTime(b, i) + b.length_ticks
         /\ i <= j => LoopTime(b, i) <= LoopTime(b, j)
         /\ b.begin_tick <= LoopTime(b, i)
         /\ i <= b.loop_count => LoopTime(b, i) <= EndTime(b)
         /\ EndTime(b) \in Nat /\ b.loop_count <= EndTime(b)
  <1> DEFINE t == b.begin_tick
             n == b.loop_count
             l == b.length_ticks
  <1>1. t \in Nat /\ n \in Nat /\ l \in Nat \ {0}
    BY BlockFields
  <1>2. /\ LoopTime(b, i) = t + i * l /\ LoopTime(b, i + 1) = t + (i + 1) * l
        /\ LoopTime(b, j) = t + j * l /\ EndTime(b) = t + n * l
    BY DEF LoopTime, EndTime
  <1> HIDE DEF t, n, l
  <1>3. \A x, y \in Nat : x <= y => x * l <= y * l
    <2> SUFFICES ASSUME NEW x \in Nat, NEW y \in Nat, x <= y PROVE x * l <= y * l
      OBVIOUS
    <2>1. y * l = x * l + (y - x) * l /\ x * l \in Nat /\ (y - x) * l \in Nat
      BY <1>1
    <2> QED
      BY <2>1
  <1>4. i * l \in Nat /\ j * l \in Nat /\ n * l \in Nat /\ (i + 1) * l = i * l + l
    BY <1>1
  <1>5. n <= n * l
    <2>1. n * l = n * (l - 1) + n /\ n * (l - 1) \in Nat
      BY <1>1
    <2> QED
      BY <1>1, <2>1
  <1>6. i <= j => i * l <= j * l
    BY <1>3
  <1>7. i <= n => i * l <= n * l
    BY <1>1, <1>3
  <1> QED
    BY <1>1, <1>2, <1>4, <1>5, <1>6, <1>7 DEF t, n, l

(* An event is in its pattern, and the pattern in its block.               *)
LEMMA TimeInPattern ==
  ASSUME NEW track \in Seq(Block), TrackInOrder(track), NEW it, InTrack(track, it)
  PROVE  /\ PatternBegin(track, it) \in Nat /\ PatternEnd(track, it) \in Nat
         /\ EventTime(track, it) \in Nat
         /\ PatternBegin(track, it) < PatternEnd(track, it)
         /\ PatternBegin(track, it) <= EventTime(track, it)
         /\ ~AtPatternEnd(track, it) =>
              /\ it.event \in 1 .. Len(track[it.block].events)
              /\ EventTime(track, it) < PatternEnd(track, it)
         /\ AtPatternEnd(track, it) =>
              /\ it.event = Len(track[it.block].events) + 1
              /\ EventTime(track, it) = PatternEnd(track, it)
         /\ track[it.block].begin_tick <= PatternBegin(track, it)
         /\ PatternEnd(track, it) <= EndTime(track[it.block])
  <1> DEFINE b == track[it.block]
             n == Len(b.events)
             begin == PatternBegin(track, it)
             end == PatternEnd(track, it)
  <1>1. b \in Block /\ EventsInOrder(b)
    BY DEF InTrack, TrackInOrder
  <1>2. n \in Nat /\ b.loop_count \in Nat /\ b.length_ticks \in Nat \ {0} /\ b.begin_tick \in Nat
    BY <1>1, BlockFields
  <1>3. it.loop \in Nat /\ it.loop + 1 \in Nat /\ it.loop + 1 <= b.loop_count
        /\ it.event \in 1 .. n + 1
    BY <1>2 DEF InTrack
  <1>4. begin = LoopTime(b, it.loop) /\ end = LoopTime(b, it.loop + 1)
    BY DEF PatternBegin, PatternEnd
  <1>5. AtPatternEnd(track, it) <=> it.event > n
    BY DEF AtPatternEnd
  <1>6. EventTime(track, it) =
          IF AtPatternEnd(track, it) THEN end
          ELSE begin + b.events[it.event].anchor_tick + b.events[it.event].delay
    BY DEF EventTime
  <1> HIDE DEF b, n, begin, end
  <1>7. /\ begin \in Nat /\ end \in Nat /\ end = begin + b.length_ticks /\ b.begin_tick <= begin
        /\ end <= EndTime(b)
    BY <1>1, <1>2, <1>3, <1>4, LoopsFollow
  <1> DEFINE time == EventTime(track, it)
  <1>a. begin < end
    BY <1>2, <1>7
  <1>b. ASSUME time \in Nat, begin <= time,
               it.event > n => it.event = n + 1 /\ time = end,
               ~(it.event > n) => it.event \in 1 .. n /\ time < end
        PROVE  /\ begin \in Nat /\ end \in Nat /\ time \in Nat /\ begin < end /\ begin <= time
               /\ ~AtPatternEnd(track, it) => it.event \in 1 .. n /\ time < end
               /\ AtPatternEnd(track, it) => it.event = n + 1 /\ time = end
               /\ b.begin_tick <= begin /\ end <= EndTime(b)
    BY <1>5, <1>7, <1>a, <1>b, Zenon
  <1>8. CASE it.event > n
    <2>1. time = end
      BY <1>5, <1>6, <1>8
    <2>2. it.event = n + 1
      BY <1>2, <1>3, <1>8
    <2> HIDE DEF time
    <2>3. time \in Nat /\ begin <= time
      BY <1>7, <1>a, <2>1
    <2> QED
      BY <1>8, <1>b, <2>1, <2>2, <2>3 DEF b, n, begin, end, time
  <1>9. CASE ~(it.event > n)
    <2>1. it.event \in 1 .. n
      BY <1>2, <1>3, <1>9
    <2>2. /\ b.events[it.event].anchor_tick \in Nat /\ b.events[it.event].delay \in Int
          /\ b.events[it.event].anchor_tick + b.events[it.event].delay \in Nat
          /\ b.events[it.event].anchor_tick + b.events[it.event].delay < b.length_ticks
      BY <1>1, <2>1, EventsAreOrdered DEF n
    <2>3. time = begin + b.events[it.event].anchor_tick + b.events[it.event].delay
      BY <1>5, <1>6, <1>9
    <2> DEFINE anchor == b.events[it.event].anchor_tick
               delay == b.events[it.event].delay
    <2> HIDE DEF time, anchor, delay
    <2>4. time \in Nat /\ begin <= time /\ time < end
      <3>1. anchor \in Nat /\ delay \in Int /\ anchor + delay >= 0 /\ anchor + delay < b.length_ticks
        BY <2>2 DEF anchor, delay
      <3>2. time = begin + anchor + delay
        BY <2>3 DEF anchor, delay
      <3>3. begin \in Nat /\ end = begin + b.length_ticks /\ b.length_ticks \in Nat
        BY <1>2, <1>7
      <3> QED
        BY <3>1, <3>2, <3>3
    <2> QED
      BY <1>9, <1>b, <2>1, <2>4 DEF b, n, begin, end, time
  <1> QED
    BY <1>8, <1>9

(* Patterns follow each other as their blocks and loops do.                *)
LEMMA PatternsFollow ==
  ASSUME NEW track \in Seq(Block), TrackInOrder(track),
         NEW a, InTrack(track, a), NEW b, InTrack(track, b),
         a.block < b.block \/ (a.block = b.block /\ a.loop < b.loop)
  PROVE  PatternEnd(track, a) <= PatternBegin(track, b)
  <1>1. /\ PatternEnd(track, a) \in Nat /\ PatternEnd(track, a) <= EndTime(track[a.block])
        /\ PatternBegin(track, b) \in Nat
        /\ track[b.block].begin_tick <= PatternBegin(track, b)
    BY TimeInPattern
  <1>2. a.block \in DOMAIN track /\ b.block \in DOMAIN track
    BY DEF InTrack
  <1>3. CASE a.block < b.block
    <2>1. EndTime(track[a.block]) <= track[b.block].begin_tick
      BY <1>2, <1>3 DEF TrackInOrder
    <2>2. track[a.block] \in Block /\ track[b.block] \in Block
      BY <1>2
    <2>3. EndTime(track[a.block]) \in Nat /\ track[b.block].begin_tick \in Nat
      BY <2>2, LoopsFollow, BlockFields
    <2> QED
      BY <1>1, <2>1, <2>3
  <1>4. CASE a.block = b.block /\ a.loop < b.loop
    <2>1. track[a.block] \in Block
      BY <1>2
    <2>2. a.loop \in Nat /\ b.loop \in Nat
      <3>1. track[a.block].loop_count \in Nat
        BY <2>1, BlockFields
      <3> QED
        BY <1>4, <3>1 DEF InTrack
    <2>3. a.loop + 1 \in Nat /\ a.loop + 1 <= b.loop
      BY <1>4, <2>2
    <2>4. LoopTime(track[a.block], a.loop + 1) <= LoopTime(track[a.block], b.loop)
      BY <2>1, <2>2, <2>3, LoopsFollow
    <2> QED
      BY <1>4, <2>4 DEF PatternEnd, PatternBegin
  <1> QED
    BY <1>3, <1>4

(* Events are in order of their places.                                    *)
LEMMA TimesFollow ==
  ASSUME NEW track \in Seq(Block), TrackInOrder(track),
         NEW a, InTrack(track, a), NEW b, InTrack(track, b), Earlier(a, b)
  PROVE  EventTime(track, a) <= EventTime(track, b)
  <1>1. /\ EventTime(track, a) \in Nat /\ PatternEnd(track, a) \in Nat
        /\ EventTime(track, a) <= PatternEnd(track, a)
    BY TimeInPattern
  <1>2. /\ EventTime(track, b) \in Nat /\ PatternBegin(track, b) \in Nat
        /\ PatternBegin(track, b) <= EventTime(track, b)
    BY TimeInPattern
  <1>3. CASE a.block < b.block \/ (a.block = b.block /\ a.loop < b.loop)
    <2>1. PatternEnd(track, a) <= PatternBegin(track, b)
      BY <1>3, PatternsFollow
    <2> QED
      BY <1>1, <1>2, <2>1
  <1>4. CASE a.block = b.block /\ a.loop = b.loop /\ a.event < b.event
    <2> DEFINE block == track[a.block]
               n == Len(block.events)
               begin == PatternBegin(track, a)
    <2>1. block \in Block /\ EventsInOrder(block)
      BY DEF InTrack, TrackInOrder
    <2>2. n \in Nat
      BY <2>1, BlockFields
    <2>3. a.event \in 1 .. n + 1 /\ b.event \in 1 .. n + 1
      BY <1>4 DEF InTrack
    <2>4. a.event \in 1 .. n
      BY <1>4, <2>2, <2>3
    <2>5. ~AtPatternEnd(track, a)
      BY <2>2, <2>4 DEF AtPatternEnd
    <2>6. PatternBegin(track, b) = begin /\ PatternEnd(track, b) = PatternEnd(track, a)
      BY <1>4 DEF PatternBegin, PatternEnd
    <2>7. EventTime(track, a) < PatternEnd(track, a)
      BY <2>5, TimeInPattern
    <2>8. CASE AtPatternEnd(track, b)
      <3>1. EventTime(track, b) = PatternEnd(track, b)
        BY <2>8, TimeInPattern
      <3> QED
        BY <1>1, <1>2, <2>6, <2>7, <3>1
    <2>9. CASE ~AtPatternEnd(track, b)
      <3>1. b.event \in 1 .. n
        BY <1>4, <2>9, TimeInPattern
      <3>2. EventTime(track, a) = begin + block.events[a.event].anchor_tick + block.events[a.event].delay
        BY <2>5 DEF EventTime
      <3>3. EventTime(track, b) = begin + block.events[b.event].anchor_tick + block.events[b.event].delay
        BY <1>4, <2>6, <2>9 DEF EventTime
      <3>4. begin \in Nat
        BY <1>2, <2>6
      <3> HIDE DEF block, n, begin
      <3>5. /\ block.events[a.event].anchor_tick \in Nat /\ block.events[a.event].delay \in Int
            /\ block.events[b.event].anchor_tick \in Nat /\ block.events[b.event].delay \in Int
            /\ block.events[a.event].anchor_tick + block.events[a.event].delay
                 <= block.events[b.event].anchor_tick + block.events[b.event].delay
        <4>1. a.event <= b.event
          BY <1>4, <2>4, <3>1, <2>2
        <4> QED
          BY <2>1, <2>4, <3>1, <4>1, EventsAreOrdered DEF n
      <3> DEFINE ta == block.events[a.event].anchor_tick
                 da == block.events[a.event].delay
                 tb == block.events[b.event].anchor_tick
                 db == block.events[b.event].delay
      <3> HIDE DEF ta, da, tb, db
      <3>6. /\ ta \in Nat /\ da \in Int /\ tb \in Nat /\ db \in Int /\ ta + da <= tb + db
            /\ EventTime(track, a) = begin + ta + da /\ EventTime(track, b) = begin + tb + db
        BY <3>2, <3>3, <3>5 DEF ta, da, tb, db
      <3> QED
        BY <3>4, <3>6
    <2> QED
      BY <2>8, <2>9
  <1> QED
    BY <1>3, <1>4 DEF Earlier

(* No event that is still due lies before the iterator, ...                *)
Ahead(track, it, now) ==
  PastEnd(track, it) \/ (InTrack(track, it) /\ now <= EventTime(track, it))

(* ... and every one before it is over.                                    *)
Visited(track, it, now) ==
  \A x \in Places(track) : Earlier(AtPlace(x), it) => EventTime(track, AtPlace(x)) < now

Undelayed(track) ==
  \A k \in DOMAIN track : \A i \in DOMAIN track[k].events : track[k].events[i].delay = 0

(* How many whole patterns lie before a time, from above.                  *)
LEMMA DivisionIsBelow ==
  ASSUME NEW a \in Nat, NEW b \in Nat, b > 0, NEW n \in Nat
  PROVE  (a \div b) * b <= a /\ (a < n * b => a \div b < n)
  <1>1. a \div b \in Int /\ (a \div b) * b <= a
    OBVIOUS
  <1>2. ASSUME a < n * b PROVE a \div b < n
    <2> DEFINE q == a \div b
    <2>1. q \in Int /\ q * b <= a
      BY <1>1
    <2> HIDE DEF q
    <2>2. ASSUME q >= n PROVE FALSE
      <3>1. q * b = n * b + (q - n) * b /\ (q - n) * b >= 0 /\ n * b \in Int /\ q * b \in Int
            /\ (q - n) * b \in Int
        <4>1. q - n \in Nat
          BY <2>1, <2>2
        <4>2. (q - n) * b \in Nat
          BY <4>1
        <4>3. q * b = n * b + (q - n) * b
          BY <2>1
        <4> QED
          BY <2>1, <4>2, <4>3
      <3> QED
        BY <1>2, <2>1, <3>1
    <2> QED
      BY <2>1, <2>2 DEF q
  <1> QED
    BY <1>1, <1>2

(* The pattern at a time, or the next one: all blocks before it are over,  *)
(* and a pattern of the block is not before it unless it is over.          *)
LEMMA PatternAtIs ==
  ASSUME NEW track \in Seq(Block), NEW now \in Nat
  PROVE  LET p == PatternAt(track, now) IN
         /\ \A k \in DOMAIN track : k < p.block => EndTime(track[k]) <= now
         /\ HasPattern(track, p) =>
              /\ p.loop \in 0 .. track[p.block].loop_count - 1
              /\ p.loop = 0 \/ LoopTime(track[p.block], p.loop) <= now
  <1> DEFINE S == {k \in 1 .. Len(track) + 1 : k > Len(track) \/ now < EndTime(track[k])}
             k == BlockAt(track, now)
             loop == IF SnappedLater(track, now) THEN 0
                     ELSE (now - track[k].begin_tick) \div track[k].length_ticks
             p == PatternAt(track, now)
  <1>1. k \in S /\ \A j \in S : k <= j
    <2>1. Len(track) + 1 \in S /\ S \subseteq Nat
      OBVIOUS
    <2> HIDE DEF S
    <2>2. Min(S) \in S /\ \A j \in S : Min(S) <= j
      BY <2>1, MinIsLeast
    <2> QED
      BY <2>2 DEF BlockAt, S
  <1>2. k \in 1 .. Len(track) + 1 /\ (k <= Len(track) => now < EndTime(track[k]))
    BY <1>1
  <1>3. p.block = k /\ p.loop = loop
    BY DEF PatternAt, PatternIter
  <1>4. SnappedLater(track, now) <=> k > Len(track) \/ now < track[k].begin_tick
    BY DEF SnappedLater
  <1> HIDE DEF k, p, loop
  <1>5. ASSUME NEW j \in DOMAIN track, j < p.block PROVE EndTime(track[j]) <= now
    <2>1. j \in 1 .. Len(track) + 1 /\ ~(k <= j)
      BY <1>2, <1>3, <1>5
    <2>2. j \notin S
      BY <1>1, <2>1
    <2>3. ~(now < EndTime(track[j]))
      BY <2>1, <2>2
    <2>4. EndTime(track[j]) \in Nat
      <3>1. track[j] \in Block
        BY <1>5
      <3> QED
        BY <3>1, LoopsFollow
    <2> QED
      BY <2>3, <2>4
  <1> HIDE DEF S
  <1>6. ASSUME HasPattern(track, p)
        PROVE  /\ p.loop \in 0 .. track[p.block].loop_count - 1
               /\ p.loop = 0 \/ LoopTime(track[p.block], p.loop) <= now
    <2> DEFINE b == track[k]
               begin == b.begin_tick
               n == b.loop_count
               length == b.length_ticks
    <2>1. k \in DOMAIN track /\ k <= Len(track) /\ b \in Block
      BY <1>2, <1>3, <1>6 DEF HasPattern
    <2>2. begin \in Nat /\ n \in Nat \ {0} /\ length \in Nat \ {0}
      BY <2>1, BlockFields
    <2>3. now < begin + n * length
      BY <1>2, <2>1 DEF EndTime
    <2>4. p.loop = IF now < begin THEN 0 ELSE (now - begin) \div length
      BY <1>2, <1>3, <1>4, <2>1 DEF loop
    <2>5. LoopTime(b, p.loop) = begin + p.loop * length
      BY DEF LoopTime
    <2> HIDE DEF b, begin, n, length
    <2>6. CASE now < begin
      BY <1>3, <2>2, <2>4, <2>6 DEF b, n
    <2>7. CASE ~(now < begin)
      <3> DEFINE a == now - begin
                 q == a \div length
      <3>1. a \in Nat /\ a < n * length
        <4>1. n * length \in Nat
          BY <2>2
        <4> QED
          BY <2>2, <2>3, <2>7, <4>1
      <3> HIDE DEF a
      <3>2. q \in Nat /\ q * length <= a /\ q < n
        BY <2>2, <3>1, DivisionRoundsDown, DivisionIsBelow
      <3>3. p.loop = q
        BY <2>4, <2>7 DEF a
      <3> HIDE DEF q
      <3>4. begin + q * length <= now
        <4>1. q * length \in Nat
          BY <2>2, <3>2
        <4> QED
          BY <2>2, <3>2, <4>1 DEF a
      <3>5. LoopTime(b, p.loop) <= now
        BY <2>5, <3>3, <3>4
      <3>6. p.loop \in 0 .. n - 1
        BY <2>2, <3>2, <3>3
      <3> QED
        BY <1>3, <3>5, <3>6 DEF b, n
    <2> QED
      BY <2>6, <2>7
  <1> QED
    BY <1>5, <1>6 DEF p

(* An event of a pattern, at its place.                                    *)
LEMMA PlaceIs ==
  ASSUME NEW track \in Seq(Block), TrackInOrder(track), NEW x \in Places(track)
  PROVE  /\ InTrack(track, AtPlace(x)) /\ ~AtPatternEnd(track, AtPlace(x))
         /\ x[1] \in DOMAIN track /\ x[2] \in 0 .. track[x[1]].loop_count - 1 /\ x[2] \in Nat
         /\ x[3] \in 1 .. Len(track[x[1]].events)
         /\ EventTime(track, AtPlace(x)) =
              LoopTime(track[x[1]], x[2]) + track[x[1]].events[x[3]].anchor_tick
                + track[x[1]].events[x[3]].delay
  <1> DEFINE it == AtPlace(x)
  <1>1. InTrack(track, it) /\ ~AtPatternEnd(track, it) /\ x \in Nat \X Nat \X Nat
    BY DEF Places
  <1>2. it.block = x[1] /\ it.loop = x[2] /\ it.event = x[3]
    BY DEF AtPlace
  <1> HIDE DEF it
  <1>3. it.event \in 1 .. Len(track[it.block].events)
    BY <1>1, TimeInPattern
  <1>4. EventTime(track, it) =
          LoopTime(track[x[1]], x[2]) + track[x[1]].events[x[3]].anchor_tick
            + track[x[1]].events[x[3]].delay
    BY <1>1, <1>2 DEF EventTime, PatternBegin
  <1> QED
    BY <1>1, <1>2, <1>3, <1>4 DEF it, InTrack

(* A seek finds a place in the track; at the begin of the song, or if      *)
(* there are no delays, what is due next, and else nothing before it.      *)
LEMMA AtTimeIs ==
  ASSUME NEW track \in Seq(Block), TrackInOrder(track), NEW now \in Nat
  PROVE  LET it == AtTime(track, now) IN
         /\ PastEnd(track, it) \/ InTrack(track, it)
         /\ now = 0 \/ Undelayed(track) => Ahead(track, it, now)
         /\ Undelayed(track) => Visited(track, it, now)
  <1> DEFINE p == PatternAt(track, now)
             it == AtTime(track, now)
             b == track[p.block]
             events == b.events
             begin == PatternBegin(track, p)
             t == now - begin
             S == {k \in 1 .. Len(events) + 1 : k > Len(events) \/ t <= events[k].anchor_tick}
  <1>1. /\ p.block \in Nat \ {0} /\ p.loop \in Nat
        /\ \A k \in DOMAIN track : k < p.block => EndTime(track[k]) <= now
        /\ HasPattern(track, p) =>
              /\ now < PatternEnd(track, p)
              /\ p.loop \in 0 .. track[p.block].loop_count - 1
              /\ p.loop = 0 \/ LoopTime(track[p.block], p.loop) <= now
    BY PatternAtEnds, PatternAtIs
  <1>2. it.block = p.block /\ it.loop = p.loop
        /\ (HasPattern(track, p) => it.event = TickBegin(events, t))
    BY DEF AtTime, Iterator
  <1>3. it \in Iterators
    BY AtTimeType
  <1> HIDE DEF p, it
  <1>a. ASSUME NEW x \in Places(track), x[1] < p.block
        PROVE  EventTime(track, AtPlace(x)) < now
    <2> DEFINE y == AtPlace(x)
    <2>1. InTrack(track, y) /\ ~AtPatternEnd(track, y) /\ y.block = x[1]
      BY PlaceIs DEF AtPlace
    <2> HIDE DEF y
    <2>2. /\ EventTime(track, y) \in Nat /\ PatternEnd(track, y) \in Nat
          /\ EventTime(track, y) < PatternEnd(track, y)
          /\ PatternEnd(track, y) <= EndTime(track[y.block])
      BY <2>1, TimeInPattern
    <2>3. y.block \in DOMAIN track
      BY <2>1 DEF InTrack
    <2>4. EndTime(track[y.block]) <= now /\ EndTime(track[y.block]) \in Nat
      <3>1. track[y.block] \in Block
        BY <2>3
      <3> QED
        BY <1>1, <1>a, <2>1, <2>3, <3>1, LoopsFollow
    <2> QED
      BY <2>2, <2>4 DEF y
  <1>4. CASE ~HasPattern(track, p)
    <2>1. PastEnd(track, it)
      BY <1>2, <1>4 DEF PastEnd, HasPattern
    <2>2. \A x \in Places(track) : x[1] < p.block
      <3> SUFFICES ASSUME NEW x \in Places(track) PROVE x[1] < p.block
        OBVIOUS
      <3>1. x[1] \in 1 .. Len(track)
        BY PlaceIs
      <3> QED
        BY <1>1, <1>4, <3>1 DEF HasPattern
    <2> QED
      BY <1>a, <2>1, <2>2 DEF Ahead, Visited, it
  <1>5. CASE HasPattern(track, p)
    <2>1. p.block \in DOMAIN track /\ b \in Block /\ EventsInOrder(b)
      BY <1>5 DEF HasPattern, TrackInOrder
    <2>2. b.length_ticks \in Nat \ {0} /\ events \in Seq(Event) /\ Len(events) \in Nat
      BY <2>1, BlockFields
    <2>3. begin = LoopTime(b, p.loop) /\ begin \in Nat
      BY <1>1, <2>1, LoopsFollow DEF PatternBegin
    <2> HIDE DEF events, begin
    <2>4. t \in Int
      BY <2>3
    <2> HIDE DEF t
    <2>5. it.event \in S /\ \A k \in S : it.event <= k
      <3>1. Len(events) + 1 \in S /\ S \subseteq Nat
        BY <2>2
      <3>2. it.event = Min(S)
        BY <1>2, <1>5 DEF TickBegin
      <3> HIDE DEF S
      <3> QED
        BY <3>1, <3>2, MinIsLeast
    <2>6. it.event \in 1 .. Len(events) + 1
          /\ (it.event > Len(events) \/ t <= events[it.event].anchor_tick)
      BY <2>5
    <2>7. InTrack(track, it)
      BY <1>1, <1>2, <1>5, <2>1, <2>6 DEF InTrack, events
    <2>8. PatternBegin(track, it) = begin /\ PatternEnd(track, it) = PatternEnd(track, p)
      BY <1>2 DEF PatternBegin, PatternEnd, begin
    <2>9. ASSUME now = 0 \/ Undelayed(track) PROVE now <= EventTime(track, it)
      <3>1. CASE AtPatternEnd(track, it)
        <4>1. EventTime(track, it) = PatternEnd(track, it) /\ PatternEnd(track, it) \in Nat
          BY <2>7, <3>1, TimeInPattern
        <4> QED
          BY <1>1, <1>5, <2>8, <4>1
      <3>2. CASE now = 0
        <4>1. EventTime(track, it) \in Nat
          BY <2>7, TimeInPattern
        <4> QED
          BY <3>2, <4>1
      <3>3. CASE ~AtPatternEnd(track, it) /\ Undelayed(track)
        <4> DEFINE anchor == events[it.event].anchor_tick
                   delay == events[it.event].delay
        <4>1. it.event \in 1 .. Len(events)
          BY <1>2, <2>7, <3>3, TimeInPattern DEF events
        <4>2. anchor \in Nat
          BY <2>1, <4>1, EventsAreOrdered DEF events
        <4>3. EventTime(track, it) = begin + anchor + delay
          BY <1>2, <2>8, <3>3 DEF EventTime, events
        <4>4. t <= anchor
          BY <2>2, <2>6, <4>1
        <4>5. delay = 0
          <5>1. it.event \in DOMAIN track[p.block].events
            BY <2>2, <4>1 DEF events
          <5> QED
            BY <2>1, <3>3, <5>1 DEF Undelayed, events
        <4> HIDE DEF anchor, delay
        <4> QED
          BY <2>3, <4>2, <4>3, <4>4, <4>5 DEF t
      <3> QED
        BY <2>9, <3>1, <3>2, <3>3
    <2>10. ASSUME Undelayed(track), NEW x \in Places(track), Earlier(AtPlace(x), it)
           PROVE  EventTime(track, AtPlace(x)) < now
      <3> DEFINE y == AtPlace(x)
                 anchor == track[x[1]].events[x[3]].anchor_tick
      <3>1. /\ InTrack(track, y) /\ ~AtPatternEnd(track, y)
            /\ x[1] \in DOMAIN track /\ x[2] \in Nat /\ x[3] \in 1 .. Len(track[x[1]].events)
            /\ EventTime(track, y) = LoopTime(track[x[1]], x[2]) + anchor
                 + track[x[1]].events[x[3]].delay
        BY PlaceIs
      <3>2. y.block = x[1] /\ y.loop = x[2] /\ y.event = x[3]
        BY DEF AtPlace
      <3> HIDE DEF y
      <3>3. CASE x[1] < p.block
        BY <1>a, <3>3
      <3>4. CASE x[1] = p.block /\ x[2] < p.loop
        <4>1. PatternEnd(track, y) = LoopTime(b, x[2] + 1)
          BY <3>2, <3>4 DEF PatternEnd
        <4>2. x[2] + 1 \in Nat /\ x[2] + 1 <= p.loop
          BY <1>1, <3>1, <3>4
        <4>3. LoopTime(b, x[2] + 1) <= LoopTime(b, p.loop) /\ LoopTime(b, x[2] + 1) \in Nat
          BY <1>1, <2>1, <4>2, LoopsFollow
        <4>4. begin <= now
          BY <1>1, <1>5, <2>3, <3>1, <3>4
        <4>5. EventTime(track, y) < PatternEnd(track, y) /\ EventTime(track, y) \in Nat
          BY <3>1, TimeInPattern
        <4> QED
          BY <2>3, <4>1, <4>3, <4>4, <4>5 DEF y
      <3>5. CASE x[1] = p.block /\ x[2] = p.loop /\ x[3] < it.event
        <4>1. x[3] \in 1 .. Len(events) /\ ~(it.event <= x[3])
          BY <2>6, <3>1, <3>5 DEF events
        <4>2. x[3] \notin S
          BY <2>5, <4>1
        <4>3. x[3] \in 1 .. Len(events) + 1
          BY <2>2, <4>1
        <4>4. ~(t <= events[x[3]].anchor_tick)
          BY <4>2, <4>3
        <4>5. anchor = events[x[3]].anchor_tick /\ anchor \in Nat
          BY <2>1, <3>5, <4>1, EventsAreOrdered DEF events
        <4>6. track[x[1]].events[x[3]].delay = 0
          <5>1. x[3] \in DOMAIN track[x[1]].events
            BY <2>2, <3>5, <4>1 DEF events
          <5> QED
            BY <2>10, <3>1, <5>1 DEF Undelayed
        <4>7. EventTime(track, y) = begin + anchor
          <5>1. EventTime(track, y) = begin + anchor + 0
            BY <2>3, <3>1, <3>5, <4>6
          <5> QED
            BY <2>3, <4>5, <5>1
        <4> HIDE DEF anchor
        <4> QED
          BY <2>3, <2>4, <4>4, <4>5, <4>7 DEF y, t
      <3> QED
        BY <1>2, <2>10, <3>2, <3>3, <3>4, <3>5 DEF Earlier, y
    <2> QED
      BY <2>7, <2>9, <2>10 DEF Ahead, Visited, it
  <1> QED
    BY <1>4, <1>5

(* Looking up again after edits finds what is due next, and nothing before *)
(* it, if there are no delays.                                             *)
LEMMA ReloadedIs ==
  ASSUME NEW track \in Seq(Block), TrackInOrder(track), NEW seq, seq.now \in Nat
  PROVE  LET next == Reloaded(track, seq).next IN
         /\ Ahead(track, next, seq.now)
         /\ Undelayed(track) => Visited(track, next, seq.now)
  <1> DEFINE it == AtTime(track, seq.now)
             n == Len(track[it.block].events) + 1
             at(e) == [it EXCEPT !.event = e]
             past(e) == EventTime(track, at(e)) < seq.now
             IsNext(e) == ~past(e) /\ \A f \in it.event .. e - 1 : past(f)
             event == CHOOSE e \in it.event .. n : IsNext(e)
             next == IF PastEnd(track, it) THEN it ELSE at(event)
  <1>1. Reloaded(track, seq) = [now |-> seq.now, ignore |-> FALSE, next |-> next]
    BY DEF Reloaded
  <1>2. /\ it \in Iterators /\ (PastEnd(track, it) \/ InTrack(track, it))
        /\ ~PastEnd(track, it) => seq.now < PatternEnd(track, it)
        /\ Undelayed(track) => Visited(track, it, seq.now)
    BY AtTimeType, AtTimeIs
  <1> HIDE DEF it
  <1>a. \A e : at(e).block = it.block /\ at(e).loop = it.loop /\ at(e).event = e
    BY <1>2 DEF Iterators
  <1> HIDE DEF at
  <1>3. CASE PastEnd(track, it)
    BY <1>1, <1>2, <1>3 DEF Ahead
  <1>4. CASE ~PastEnd(track, it)
    <2>1. InTrack(track, it) /\ track[it.block] \in Block
      BY <1>2, <1>4 DEF InTrack
    <2>2. n \in Nat \ {0} /\ it.event \in 1 .. n
      <3>1. Len(track[it.block].events) \in Nat
        BY <2>1, BlockFields
      <3> QED
        BY <2>1, <3>1 DEF InTrack
    <2>3. \A e \in it.event .. n : InTrack(track, at(e))
      BY <1>a, <2>1, <2>2 DEF InTrack
    <2>4. \A e \in it.event .. n : EventTime(track, at(e)) \in Nat
      BY <2>3, TimeInPattern
    <2>5. ~past(n)
      <3>1. AtPatternEnd(track, at(n)) /\ InTrack(track, at(n)) /\ n \in it.event .. n
        <4>1. Len(track[it.block].events) \in Nat
          BY <2>1, BlockFields
        <4>2. AtPatternEnd(track, at(n))
          BY <1>a, <4>1 DEF AtPatternEnd
        <4> HIDE DEF n
        <4> QED
          BY <2>2, <2>3, <4>2
      <3>2. EventTime(track, at(n)) = PatternEnd(track, at(n))
        BY <3>1, TimeInPattern
      <3>3. PatternEnd(track, at(n)) = PatternEnd(track, it)
        BY <1>a DEF PatternEnd
      <3>4. EventTime(track, at(n)) \in Nat /\ seq.now < EventTime(track, at(n))
        BY <1>2, <1>4, <2>4, <3>1, <3>2, <3>3
      <3> QED
        BY <3>4
    <2> HIDE DEF past, n
    <2> DEFINE T == {e \in it.event .. n : ~past(e)}
    <2>6. T \subseteq Nat /\ n \in T
      BY <2>2, <2>5
    <2>7. PICK e \in T : \A f \in T : e <= f
      <3> HIDE DEF T
      <3> QED
        BY <2>6, LeastExists
    <2>8. ASSUME NEW f \in it.event .. e - 1 PROVE past(f)
      <3>1. f \in it.event .. n /\ ~(e <= f)
        BY <2>2, <2>7
      <3> QED
        BY <2>7, <3>1
    <2>9. e \in it.event .. n /\ IsNext(e)
      BY <2>7, <2>8
    <2>10. event \in it.event .. n /\ IsNext(event)
      <3> HIDE DEF IsNext
      <3> QED
        BY <2>9
    <2> HIDE DEF event, T
    <2>11. next = at(event) /\ InTrack(track, next) /\ EventTime(track, next) \in Nat
      BY <1>4, <2>3, <2>4, <2>10
    <2>12. Ahead(track, next, seq.now)
      <3>1. ~(EventTime(track, next) < seq.now)
        BY <2>10, <2>11 DEF past
      <3> QED
        BY <2>11, <3>1 DEF Ahead
    <2>13. ASSUME Undelayed(track), NEW x \in Places(track), Earlier(AtPlace(x), next)
           PROVE  EventTime(track, AtPlace(x)) < seq.now
      <3> DEFINE y == AtPlace(x)
      <3>1. CASE Earlier(y, it)
        BY <1>2, <2>13, <3>1 DEF Visited
      <3>2. CASE y.block = it.block /\ y.loop = it.loop /\ ~(y.event < it.event) /\ y.event < event
        <4>1. y.event = x[3] /\ y.event \in Nat
          BY DEF AtPlace, Places
        <4>2. y.event \in it.event .. event - 1
          BY <2>2, <2>10, <3>2, <4>1
        <4>3. past(y.event)
          BY <2>10, <4>2
        <4>4. EventTime(track, at(y.event)) = EventTime(track, y)
          BY <1>a, <3>2 DEF EventTime, AtPatternEnd, PatternBegin, PatternEnd
        <4> QED
          BY <4>3, <4>4 DEF past
      <3>3. Earlier(y, it) \/ (y.block = it.block /\ y.loop = it.loop /\ ~(y.event < it.event)
                                 /\ y.event < event)
        <4> HIDE DEF y
        <4>1. next.block = it.block /\ next.loop = it.loop /\ next.event = event
          BY <1>a, <2>11
        <4> QED
          BY <2>13, <4>1 DEF Earlier, y
      <3> QED
        BY <3>1, <3>2, <3>3
    <2> QED
      BY <1>1, <2>12, <2>13 DEF Visited
  <1> QED
    BY <1>3, <1>4

(* The next pattern begins after the end of this one, and no event lies    *)
(* between them.                                                           *)
LEMMA NextPatternIs ==
  ASSUME NEW track \in Seq(Block), TrackInOrder(track), NEW it, InTrack(track, it),
         AtPatternEnd(track, it)
  PROVE  LET q == Iterator(NextPattern(track, it), 1) IN
         /\ PastEnd(track, q) \/ (InTrack(track, q) /\ PatternEnd(track, it) <= PatternBegin(track, q))
         /\ q.event = 1
         /\ \A x \in Places(track) : Earlier(AtPlace(x), q) => Earlier(AtPlace(x), it)
  <1> DEFINE p == NextPattern(track, it)
             q == Iterator(p, 1)
             b == track[it.block]
  <1>1. q.block = p.block /\ q.loop = p.loop /\ q.event = 1
    BY DEF Iterator
  <1>2. IF it.loop + 1 < b.loop_count
        THEN p.block = it.block /\ p.loop = it.loop + 1
        ELSE p.block = it.block + 1 /\ p.loop = 0
    BY DEF NextPattern, PatternIter
  <1>3. it.block \in 1 .. Len(track) /\ it.block \in DOMAIN track /\ b \in Block
    BY DEF InTrack
  <1>4. b.loop_count \in Nat \ {0} /\ Len(b.events) \in Nat
    BY <1>3, BlockFields
  <1>5. it.loop \in 0 .. b.loop_count - 1 /\ it.event = Len(b.events) + 1
    BY TimeInPattern DEF InTrack
  <1> HIDE DEF p, q, b
  <1>6. ASSUME ~PastEnd(track, q) PROVE InTrack(track, q)
    <2>1. q.block \in DOMAIN track
      BY <1>6 DEF PastEnd, HasPattern
    <2>2. track[q.block] \in Block
      BY <2>1
    <2>3. track[q.block].loop_count \in Nat \ {0} /\ Len(track[q.block].events) \in Nat
      BY <2>2, BlockFields
    <2>4. q.loop \in 0 .. track[q.block].loop_count - 1
      BY <1>1, <1>2, <1>4, <1>5, <2>3, SMTT(30) DEF b
    <2> QED
      BY <1>1, <2>1, <2>3, <2>4 DEF InTrack
  <1>7. ASSUME ~PastEnd(track, q) PROVE PatternEnd(track, it) <= PatternBegin(track, q)
    <2>1. it.block < q.block \/ (it.block = q.block /\ it.loop < q.loop)
      BY <1>1, <1>2, <1>3, <1>4, <1>5
    <2> QED
      BY <1>6, <1>7, <2>1, PatternsFollow
  <1>8. ASSUME NEW x \in Places(track), Earlier(AtPlace(x), q) PROVE Earlier(AtPlace(x), it)
    <2> DEFINE y == AtPlace(x)
    <2>1. y.block = x[1] /\ y.loop = x[2] /\ y.event = x[3]
      BY DEF AtPlace
    <2>2. /\ x[1] \in 1 .. Len(track) /\ x[2] \in 0 .. track[x[1]].loop_count - 1 /\ x[2] \in Nat
          /\ x[3] \in 1 .. Len(track[x[1]].events)
      BY PlaceIs
    <2> HIDE DEF y
    <2>3. Earlier(y, q)
      BY <1>8 DEF y
    <2>4. x[1] < it.block \/ (x[1] = it.block /\ x[2] <= it.loop)
      <3>1. CASE it.loop + 1 < b.loop_count
        BY <1>1, <1>2, <1>3, <1>4, <1>5, <2>1, <2>2, <2>3, <3>1 DEF Earlier
      <3>2. CASE ~(it.loop + 1 < b.loop_count)
        <4>1. q.block = it.block + 1 /\ q.loop = 0 /\ q.event = 1
          BY <1>1, <1>2, <3>2
        <4>2. x[1] < it.block + 1
          BY <2>1, <2>2, <2>3, <4>1 DEF Earlier
        <4>3. x[1] < it.block \/ x[1] = it.block
          BY <1>3, <2>2, <4>2
        <4>4. x[1] = it.block => x[2] <= it.loop
          BY <1>4, <1>5, <2>2, <3>2 DEF b
        <4> QED
          BY <4>3, <4>4
      <3> QED
        BY <3>1, <3>2
    <2>5. x[1] = it.block => x[3] < it.event
      BY <1>4, <1>5, <2>2 DEF b
    <2>6. Earlier(y, it)
      BY <1>5, <2>1, <2>2, <2>4, <2>5 DEF Earlier
    <2> QED
      BY <2>6 DEF y
  <1> QED
    BY <1>1, <1>6, <1>7, <1>8 DEF q, p

(* What a round of the loop makes of p, in its five cases.                 *)
RoundCases(track, now, p, q) ==
  LET time == EventTime(track, p.it)
      over == p.done \/ PastEnd(track, p.it)
      end == AtPatternEnd(track, p.it)
  IN  /\ IsRound(q)
      /\ over => /\ q.it = p.it /\ q.out = p.out /\ q.processed = p.processed
                 /\ q.ended = p.ended /\ q.done = TRUE
      /\ ~over /\ time # now =>
           /\ q.it = p.it /\ q.processed = p.processed /\ q.ended = p.ended /\ q.done = TRUE
           /\ q.out = p.out \/ (q.out = Append(p.out, CutNote) /\ ~p.processed)
      /\ ~over /\ time = now /\ ~end =>
           /\ q.it = [p.it EXCEPT !.event = p.it.event + 1]
           /\ q.out = Append(p.out, Place(p.it)) /\ q.processed = TRUE
           /\ q.ended = p.ended /\ q.done = p.done
      /\ ~over /\ time = now /\ end /\ p.ended =>
           /\ q.it = p.it /\ q.out = p.out /\ q.processed = TRUE /\ q.ended = p.ended
           /\ q.done = TRUE
      /\ ~over /\ time = now /\ end /\ ~p.ended =>
           /\ q.it = Iterator(NextPattern(track, p.it), 1) /\ q.out = p.out
           /\ q.processed = TRUE /\ q.ended = TRUE /\ q.done = p.done

(* Each of the five branches of the loop does so.                          *)
LEMMA RoundIs ==
  ASSUME NEW track, NEW now \in Nat, NEW gap, NEW p, IsRound(p), p.it \in Iterators,
         ~PastEnd(track, p.it) => EventTime(track, p.it) \in Nat
  PROVE  RoundCases(track, now, p, Round(track, now, gap, p))
  <1> DEFINE time == EventTime(track, p.it)
             left == time - now
             over == p.done \/ PastEnd(track, p.it)
             end == AtPatternEnd(track, p.it)
             cut == /\ ~p.processed
                    /\ end \/ HasNote(track, Place(p.it))
                    /\ left = gap
             q == Round(track, now, gap, p)
  <1> USE DEF IsRound
  <1>1. q = IF over THEN [p EXCEPT !.done = TRUE]
            ELSE IF left # 0
              THEN [p EXCEPT !.done = TRUE, !.out = IF cut THEN Append(@, CutNote) ELSE @]
            ELSE IF ~end
              THEN [p EXCEPT !.processed = TRUE, !.out = Append(@, Place(p.it)),
                             !.it.event = @ + 1]
            ELSE IF p.ended THEN [p EXCEPT !.processed = TRUE, !.done = TRUE]
            ELSE [p EXCEPT !.processed = TRUE, !.ended = TRUE,
                           !.it = Iterator(NextPattern(track, @), 1)]
    BY DEF Round
  <1>2. ~over => (left = 0 <=> time = now)
    <2> HIDE DEF time
    <2> QED
      BY DEF time
  <1>3. cut => ~p.processed
    OBVIOUS
  <1> HIDE DEF q, cut, end, left
  <1>4. CASE over
    <2>1. q = [p EXCEPT !.done = TRUE]
      BY <1>1, <1>4
    <2> HIDE DEF over
    <2> QED
      BY <1>4, <2>1 DEF q, over, RoundCases
  <1>5. CASE ~over /\ time # now
    <2> DEFINE out == IF cut THEN Append(p.out, CutNote) ELSE p.out
    <2>1. q = [p EXCEPT !.done = TRUE, !.out = out]
      BY <1>1, <1>2, <1>5
    <2>2. out = p.out \/ (out = Append(p.out, CutNote) /\ ~p.processed)
      BY <1>3
    <2> HIDE DEF over, time, out
    <2>3. IsRound(q) /\ q.it = p.it /\ q.processed = p.processed /\ q.ended = p.ended
          /\ q.done = TRUE /\ q.out = out
      BY <2>1
    <2> QED
      BY <1>5, <2>2, <2>3 DEF q, over, time, RoundCases
  <1>6. CASE ~over /\ time = now /\ ~end
    <2>1. q = [p EXCEPT !.processed = TRUE, !.out = Append(@, Place(p.it)), !.it.event = @ + 1]
      BY <1>1, <1>2, <1>6
    <2> DEFINE it == [p.it EXCEPT !.event = p.it.event + 1]
    <2>2. q = [it |-> it, out |-> Append(p.out, Place(p.it)), processed |-> TRUE,
               ended |-> p.ended, done |-> p.done]
      BY <2>1
    <2> HIDE DEF over, time, it
    <2>3. IsRound(q) /\ q.it = it /\ q.processed = TRUE /\ q.ended = p.ended /\ q.done = p.done
          /\ q.out = Append(p.out, Place(p.it))
      BY <2>2
    <2> QED
      BY <1>6, <2>3 DEF q, over, time, end, it, RoundCases
  <1>7. CASE ~over /\ time = now /\ end /\ p.ended
    <2>1. q = [p EXCEPT !.processed = TRUE, !.done = TRUE]
      BY <1>1, <1>2, <1>7
    <2> HIDE DEF over, time
    <2>2. IsRound(q) /\ q.it = p.it /\ q.out = p.out /\ q.processed = TRUE /\ q.ended = p.ended
          /\ q.done = TRUE
      BY <2>1
    <2> QED
      BY <1>7, <2>2 DEF q, over, time, end, RoundCases
  <1>8. CASE ~over /\ time = now /\ end /\ ~p.ended
    <2> DEFINE it == Iterator(NextPattern(track, p.it), 1)
    <2>1. q = [p EXCEPT !.processed = TRUE, !.ended = TRUE, !.it = it]
      BY <1>1, <1>2, <1>8
    <2> HIDE DEF over, time, it
    <2>2. IsRound(q) /\ q.it = it /\ q.out = p.out /\ q.processed = TRUE /\ q.ended = TRUE
          /\ q.done = p.done
      BY <2>1
    <2> QED
      BY <1>8, <2>2 DEF q, over, time, end, it, RoundCases
  <1> QED
    BY <1>4, <1>5, <1>6, <1>7, <1>8

(* What has been played up to an iterator: events that are due now, in     *)
(* order, and perhaps a cut.                                               *)
PlayedDue(track, it, out, now) ==
  /\ \A i \in DOMAIN out : out[i] # CutNote =>
       /\ out[i] \in Places(track) /\ EventTime(track, AtPlace(out[i])) = now
       /\ Earlier(AtPlace(out[i]), it)
  /\ \A i, j \in DOMAIN out : i < j /\ out[i] # CutNote /\ out[j] # CutNote =>
       Earlier(AtPlace(out[i]), AtPlace(out[j]))

HasPlayed(out) == \E i \in DOMAIN out : out[i] # CutNote

(* The invariant of the loop of next_tick(): the iterator is ahead of now  *)
(* and in the pattern of the last event played, and the pattern that it    *)
(* has come to, if it has, begins at or after now.                         *)
RoundInv(track, now, p) ==
  /\ IsRound(p) /\ p.it \in Iterators /\ p.out \in Seq(Outs(track))
  /\ p.done \in BOOLEAN /\ p.processed \in BOOLEAN /\ p.ended \in BOOLEAN
  /\ Ahead(track, p.it, now)
  /\ PlayedDue(track, p.it, p.out, now)
  /\ p.done /\ ~PastEnd(track, p.it) => now < EventTime(track, p.it)
  /\ p.ended /\ ~PastEnd(track, p.it) => now <= PatternBegin(track, p.it)
  /\ HasPlayed(p.out) =>
       /\ p.processed /\ ~PastEnd(track, p.it)
       /\ PatternBegin(track, p.it) <= now /\ now < PatternEnd(track, p.it)

(* A cut is not an event.                                                  *)
LEMMA CutIsNoPlace ==
  ASSUME NEW track
  PROVE  CutNote \notin Places(track)
  <1> SUFFICES ASSUME CutNote \in Places(track) PROVE FALSE
    OBVIOUS
  <1>1. InTrack(track, AtPlace(CutNote)) /\ ~AtPatternEnd(track, AtPlace(CutNote))
    BY DEF Places
  <1>2. AtPlace(CutNote).event = 0
    BY DEF AtPlace, CutNote
  <1>3. AtPlace(CutNote).event \in 1 .. Len(track[AtPlace(CutNote).block].events) + 1
    BY <1>1 DEF InTrack
  <1> QED
    BY <1>2, <1>3

(* Playing one event more, or a cut, and going on from it.                 *)
LEMMA PlayedOn ==
  ASSUME NEW track, NEW now, NEW it, NEW next, NEW out \in Seq(Outs(track)),
         PlayedDue(track, it, out, now),
         \A x \in Places(track) : Earlier(AtPlace(x), it) => Earlier(AtPlace(x), next)
  PROVE  /\ PlayedDue(track, next, out, now)
         /\ PlayedDue(track, next, Append(out, CutNote), now)
         /\ HasPlayed(Append(out, CutNote)) <=> HasPlayed(out)
         /\ \A x \in Places(track) :
              AtPlace(x) = it /\ EventTime(track, it) = now /\ Earlier(it, next) =>
                PlayedDue(track, next, Append(out, x), now)
  <1>1. PlayedDue(track, next, out, now)
    BY DEF PlayedDue
  <1>2. /\ \A x : DOMAIN Append(out, x) = 1 .. Len(out) + 1
        /\ \A x : \A i \in 1 .. Len(out) + 1 :
             Append(out, x)[i] = IF i = Len(out) + 1 THEN x ELSE out[i]
        /\ Len(out) \in Nat /\ DOMAIN out = 1 .. Len(out)
    <2>1. Len(out) \in Nat /\ DOMAIN out = 1 .. Len(out)
      OBVIOUS
    <2>2. \A x : Len(Append(out, x)) = Len(out) + 1 /\ DOMAIN Append(out, x) = 1 .. Len(out) + 1
      BY <2>1
    <2>3. ASSUME NEW x, NEW i \in 1 .. Len(out) + 1
          PROVE  Append(out, x)[i] = IF i = Len(out) + 1 THEN x ELSE out[i]
      BY <2>1, <2>3
    <2> QED
      BY <2>1, <2>2, <2>3
  <1>3. \A i \in 1 .. Len(out) + 1 : i \in DOMAIN out <=> i # Len(out) + 1
    BY <1>2
  <1>4. PlayedDue(track, next, Append(out, CutNote), now)
    BY <1>1, <1>2, <1>3 DEF PlayedDue
  <1>5. HasPlayed(Append(out, CutNote)) <=> HasPlayed(out)
    <2>1. DOMAIN out \subseteq 1 .. Len(out) + 1
      BY <1>2
    <2> QED
      BY <1>2, <1>3, <2>1 DEF HasPlayed
  <1>6. ASSUME NEW x \in Places(track), AtPlace(x) = it, EventTime(track, it) = now,
               Earlier(it, next)
        PROVE  PlayedDue(track, next, Append(out, x), now)
    <2> DEFINE new == Append(out, x)
               n == Len(out) + 1
    <2>1. DOMAIN new = 1 .. n /\ \A i \in 1 .. n : new[i] = IF i = n THEN x ELSE out[i]
      BY <1>2
    <2> HIDE DEF new
    <2>2. ASSUME NEW i \in DOMAIN new, new[i] # CutNote
          PROVE  /\ new[i] \in Places(track) /\ EventTime(track, AtPlace(new[i])) = now
                 /\ Earlier(AtPlace(new[i]), next)
      BY <1>1, <1>3, <1>6, <2>1, <2>2 DEF PlayedDue
    <2>3. ASSUME NEW i \in DOMAIN new, NEW j \in DOMAIN new, i < j, new[i] # CutNote,
                 new[j] # CutNote
          PROVE  Earlier(AtPlace(new[i]), AtPlace(new[j]))
      <3>1. i \in 1 .. n /\ i # n /\ n \in Nat
        BY <1>2, <2>1, <2>3
      <3>2. i \in DOMAIN out /\ new[i] = out[i]
        BY <1>3, <2>1, <3>1
      <3>3. CASE j = n
        BY <1>6, <2>1, <2>3, <3>2, <3>3 DEF PlayedDue
      <3>4. CASE j # n
        <4>1. j \in DOMAIN out /\ new[j] = out[j]
          BY <1>3, <2>1, <3>4
        <4> QED
          BY <2>3, <3>2, <4>1 DEF PlayedDue
      <3> QED
        BY <3>3, <3>4
    <2> QED
      BY <2>2, <2>3 DEF PlayedDue, new
  <1> QED
    BY <1>1, <1>4, <1>5, <1>6

(* An iterator that stands at an event, as its place.                      *)
LEMMA PlaceOfIterator ==
  ASSUME NEW track, NEW it \in Iterators, InTrack(track, it), ~AtPatternEnd(track, it)
  PROVE  Place(it) \in Places(track) /\ AtPlace(Place(it)) = it
  <1>1. it.block \in Nat /\ it.loop \in Nat /\ it.event \in Nat
        /\ it = [block |-> it.block, loop |-> it.loop, event |-> it.event]
    BY DEF Iterators
  <1> DEFINE x == Place(it)
  <1>2. x \in Nat \X Nat \X Nat /\ x[1] = it.block /\ x[2] = it.loop /\ x[3] = it.event
    BY <1>1 DEF Place
  <1> HIDE DEF x
  <1>3. AtPlace(x) = it
    BY <1>1, <1>2 DEF AtPlace
  <1>4. x \in Places(track)
    BY <1>2, <1>3 DEF Places
  <1> QED
    BY <1>3, <1>4 DEF x

(* The event behind one of a pattern.                                      *)
LEMMA NextEventIs ==
  ASSUME NEW track \in Seq(Block), TrackInOrder(track), NEW it \in Iterators,
         InTrack(track, it), ~AtPatternEnd(track, it)
  PROVE  LET next == [it EXCEPT !.event = it.event + 1] IN
         /\ next \in Iterators /\ InTrack(track, next)
         /\ next.block = it.block /\ next.loop = it.loop /\ next.event = it.event + 1
         /\ PatternBegin(track, next) = PatternBegin(track, it)
         /\ PatternEnd(track, next) = PatternEnd(track, it)
         /\ EventTime(track, it) <= EventTime(track, next)
         /\ Earlier(it, next)
         /\ \A x \in Places(track) : Earlier(AtPlace(x), next) <=>
                                       Earlier(AtPlace(x), it) \/ x = Place(it)
  <1> DEFINE next == [it EXCEPT !.event = it.event + 1]
  <1>1. it.block \in Nat \ {0} /\ it.loop \in Nat /\ it.event \in Nat \ {0}
    BY DEF Iterators
  <1>2. next \in Iterators /\ next.block = it.block /\ next.loop = it.loop
        /\ next.event = it.event + 1
    BY <1>1 DEF Iterators
  <1> HIDE DEF next
  <1>3. InTrack(track, next)
    <2>1. it.event \in 1 .. Len(track[it.block].events)
      BY TimeInPattern
    <2>2. it.event + 1 \in 1 .. Len(track[it.block].events) + 1
      BY <1>1, <2>1
    <2> QED
      BY <1>2, <2>2 DEF InTrack
  <1>4. PatternBegin(track, next) = PatternBegin(track, it)
        /\ PatternEnd(track, next) = PatternEnd(track, it)
    BY <1>2 DEF PatternBegin, PatternEnd
  <1>5. Earlier(it, next)
    BY <1>1, <1>2 DEF Earlier
  <1>6. EventTime(track, it) <= EventTime(track, next)
    BY <1>3, <1>5, TimesFollow
  <1>7. ASSUME NEW x \in Places(track)
        PROVE  Earlier(AtPlace(x), next) <=> Earlier(AtPlace(x), it) \/ x = Place(it)
    <2>1. AtPlace(x).block = x[1] /\ AtPlace(x).loop = x[2] /\ AtPlace(x).event = x[3]
      BY DEF AtPlace
    <2>2. x \in Nat \X Nat \X Nat
      BY DEF Places
    <2>3. x = <<x[1], x[2], x[3]>> /\ x[1] \in Nat /\ x[2] \in Nat /\ x[3] \in Nat
      BY <2>2
    <2>4. x = Place(it) <=> x[1] = it.block /\ x[2] = it.loop /\ x[3] = it.event
      BY <2>3 DEF Place
    <2>5. Earlier(AtPlace(x), next) <=>
            \/ x[1] < it.block \/ (x[1] = it.block /\ x[2] < it.loop)
            \/ (x[1] = it.block /\ x[2] = it.loop /\ x[3] < it.event + 1)
      BY <1>2, <2>1 DEF Earlier
    <2>6. Earlier(AtPlace(x), it) <=>
            \/ x[1] < it.block \/ (x[1] = it.block /\ x[2] < it.loop)
            \/ (x[1] = it.block /\ x[2] = it.loop /\ x[3] < it.event)
      BY <2>1 DEF Earlier
    <2>7. x[3] < it.event + 1 <=> x[3] < it.event \/ x[3] = it.event
      BY <1>1, <2>3
    <2> QED
      BY <2>4, <2>5, <2>6, <2>7
  <1> QED
    BY <1>2, <1>3, <1>4, <1>5, <1>6, <1>7 DEF next

(* A round keeps it.                                                       *)
LEMMA RoundKeepsInv ==
  ASSUME NEW track \in Seq(Block), TrackInOrder(track), NEW now \in Nat, NEW gap,
         NEW p, RoundInv(track, now, p)
  PROVE  RoundInv(track, now, Round(track, now, gap, p))
  <1> DEFINE time == EventTime(track, p.it)
             over == p.done \/ PastEnd(track, p.it)
             end == AtPatternEnd(track, p.it)
             q == Round(track, now, gap, p)
  <1>1. /\ IsRound(p) /\ p.it \in Iterators /\ p.out \in Seq(Outs(track))
        /\ p.done \in BOOLEAN /\ p.processed \in BOOLEAN /\ p.ended \in BOOLEAN
        /\ Ahead(track, p.it, now) /\ PlayedDue(track, p.it, p.out, now)
    BY DEF RoundInv
  <1>2. ~PastEnd(track, p.it) => /\ InTrack(track, p.it) /\ now <= time /\ time \in Nat
                                 /\ PatternBegin(track, p.it) \in Nat
                                 /\ PatternEnd(track, p.it) \in Nat
    BY <1>1, TimeInPattern DEF Ahead
  <1>3. RoundCases(track, now, p, q)
    BY <1>1, <1>2, RoundIs
  <1>4. RoundOk(track, q)
    BY <1>1, RoundType DEF RoundOk
  <1>5. q.it \in Iterators /\ q.out \in Seq(Outs(track))
    BY <1>4 DEF RoundOk
  <1>a. IsRound(q)
    BY <1>3 DEF RoundCases
  <1> HIDE DEF q
  <1> SUFFICES RoundInv(track, now, q)
    BY DEF q
  <1>6. CASE over
    <2>1. /\ q.it = p.it /\ q.out = p.out /\ q.processed = p.processed
          /\ q.ended = p.ended /\ q.done = TRUE
      BY <1>3, <1>6 DEF RoundCases
    <2> QED
      BY <1>1, <1>a, <1>6, <2>1 DEF RoundInv
  <1>7. CASE ~over /\ time # now
    <2>1. /\ q.it = p.it /\ q.processed = p.processed /\ q.ended = p.ended /\ q.done = TRUE
          /\ q.out = p.out \/ q.out = Append(p.out, CutNote)
      BY <1>3, <1>7 DEF RoundCases
    <2>2. now < time
      BY <1>2, <1>7
    <2>3. PlayedDue(track, p.it, q.out, now) /\ (HasPlayed(q.out) <=> HasPlayed(p.out))
      <3>1. /\ PlayedDue(track, p.it, Append(p.out, CutNote), now)
            /\ HasPlayed(Append(p.out, CutNote)) <=> HasPlayed(p.out)
        BY <1>1, PlayedOn
      <3> QED
        BY <1>1, <2>1, <3>1
    <2> QED
      BY <1>1, <1>a, <1>5, <2>1, <2>2, <2>3 DEF RoundInv
  <1>8. CASE ~over /\ time = now /\ ~end
    <2> DEFINE next == [p.it EXCEPT !.event = p.it.event + 1]
    <2>1. /\ q.it = next /\ q.out = Append(p.out, Place(p.it)) /\ q.processed = TRUE
          /\ q.ended = p.ended /\ q.done = p.done
      BY <1>3, <1>8 DEF RoundCases
    <2>2. Place(p.it) \in Places(track) /\ AtPlace(Place(p.it)) = p.it
      BY <1>1, <1>2, <1>8, PlaceOfIterator
    <2>3. /\ InTrack(track, next) /\ next.block = p.it.block /\ next.loop = p.it.loop
          /\ PatternBegin(track, next) = PatternBegin(track, p.it)
          /\ PatternEnd(track, next) = PatternEnd(track, p.it)
          /\ time <= EventTime(track, next) /\ Earlier(p.it, next)
          /\ \A x \in Places(track) : Earlier(AtPlace(x), p.it) => Earlier(AtPlace(x), next)
      BY <1>1, <1>2, <1>8, NextEventIs
    <2> HIDE DEF next
    <2>4. PlayedDue(track, next, q.out, now)
      BY <1>1, <1>8, <2>1, <2>2, <2>3, PlayedOn
    <2>5. ~PastEnd(track, next)
      BY <1>8, <2>3 DEF PastEnd, HasPattern
    <2>6. Ahead(track, next, now)
      BY <1>8, <2>3 DEF Ahead
    <2>7. PatternBegin(track, next) <= now /\ now < PatternEnd(track, next)
      <3>1. PatternBegin(track, p.it) <= time /\ time < PatternEnd(track, p.it)
        BY <1>2, <1>8, TimeInPattern
      <3> QED
        BY <1>8, <2>3, <3>1
    <2>8. p.ended => now <= PatternBegin(track, next)
      BY <1>8, <2>3 DEF RoundInv
    <2> QED
      BY <1>1, <1>a, <1>5, <1>8, <2>1, <2>4, <2>5, <2>6, <2>7, <2>8 DEF RoundInv
  <1>9. CASE ~over /\ time = now /\ end
    <2>1. time = PatternEnd(track, p.it) /\ PatternBegin(track, p.it) < PatternEnd(track, p.it)
      BY <1>2, <1>9, TimeInPattern
    <2>2. ~p.ended
      BY <1>2, <1>9, <2>1 DEF RoundInv
    <2>3. ~HasPlayed(p.out)
      BY <1>2, <1>9, <2>1 DEF RoundInv
    <2> DEFINE next == Iterator(NextPattern(track, p.it), 1)
    <2>4. /\ q.it = next /\ q.out = p.out /\ q.processed = TRUE /\ q.ended = TRUE
          /\ q.done = p.done
      BY <1>3, <1>9, <2>2 DEF RoundCases
    <2>5. PastEnd(track, next) \/ (InTrack(track, next) /\ now <= PatternBegin(track, next))
      BY <1>2, <1>9, <2>1, NextPatternIs
    <2> HIDE DEF next
    <2>6. Ahead(track, next, now) /\ (~PastEnd(track, next) => now <= PatternBegin(track, next))
      <3>1. InTrack(track, next) => /\ PatternBegin(track, next) <= EventTime(track, next)
                                    /\ PatternBegin(track, next) \in Nat
                                    /\ EventTime(track, next) \in Nat
        BY TimeInPattern
      <3> QED
        BY <2>5, <3>1 DEF Ahead
    <2>7. PlayedDue(track, next, q.out, now)
      BY <2>3, <2>4 DEF PlayedDue, HasPlayed
    <2> QED
      BY <1>1, <1>a, <1>5, <1>9, <2>3, <2>4, <2>6, <2>7 DEF RoundInv
  <1> QED
    BY <1>6, <1>7, <1>8, <1>9

(* Every event before the iterator is over or has been played.             *)
Swept(track, now, p) ==
  \A x \in Places(track) : Earlier(AtPlace(x), p.it) =>
    EventTime(track, AtPlace(x)) < now \/ \E i \in DOMAIN p.out : p.out[i] = x

(* A round leaves no event out.                                            *)
LEMMA RoundSweeps ==
  ASSUME NEW track \in Seq(Block), TrackInOrder(track), NEW now \in Nat, NEW gap,
         NEW p, RoundInv(track, now, p), Swept(track, now, p)
  PROVE  Swept(track, now, Round(track, now, gap, p))
  <1> DEFINE time == EventTime(track, p.it)
             over == p.done \/ PastEnd(track, p.it)
             end == AtPatternEnd(track, p.it)
             q == Round(track, now, gap, p)
  <1>1. /\ IsRound(p) /\ p.it \in Iterators /\ p.out \in Seq(Outs(track))
        /\ p.done \in BOOLEAN /\ p.ended \in BOOLEAN /\ Ahead(track, p.it, now)
    BY DEF RoundInv
  <1>2. ~PastEnd(track, p.it) => InTrack(track, p.it) /\ now <= time /\ time \in Nat
    BY <1>1, TimeInPattern DEF Ahead
  <1>3. RoundCases(track, now, p, q)
    BY <1>1, <1>2, RoundIs
  <1> HIDE DEF q
  <1> SUFFICES Swept(track, now, q)
    BY DEF q
  <1>4. /\ \A x : DOMAIN p.out \subseteq DOMAIN Append(p.out, x)
        /\ \A x : \A i \in DOMAIN p.out : Append(p.out, x)[i] = p.out[i]
        /\ \A x : \E i \in DOMAIN Append(p.out, x) : Append(p.out, x)[i] = x
    <2>1. Len(p.out) \in Nat /\ DOMAIN p.out = 1 .. Len(p.out)
      BY <1>1
    <2>2. ASSUME NEW x
          PROVE  /\ DOMAIN Append(p.out, x) = 1 .. Len(p.out) + 1
                 /\ Append(p.out, x)[Len(p.out) + 1] = x
                 /\ \A i \in DOMAIN p.out : Append(p.out, x)[i] = p.out[i]
      BY <1>1, <2>1
    <2>3. Len(p.out) + 1 \in 1 .. Len(p.out) + 1 /\ 1 .. Len(p.out) \subseteq 1 .. Len(p.out) + 1
      BY <2>1
    <2> QED
      BY <2>1, <2>2, <2>3
  <1>5. CASE over \/ time # now
    <2>1. q.it = p.it /\ (q.out = p.out \/ q.out = Append(p.out, CutNote))
      BY <1>3, <1>5 DEF RoundCases
    <2> QED
      BY <1>4, <2>1 DEF Swept
  <1>6. CASE ~over /\ time = now /\ ~end
    <2> DEFINE next == [p.it EXCEPT !.event = p.it.event + 1]
    <2>1. q.it = next /\ q.out = Append(p.out, Place(p.it))
      BY <1>3, <1>6 DEF RoundCases
    <2>2. \A x \in Places(track) :
            Earlier(AtPlace(x), next) => Earlier(AtPlace(x), p.it) \/ x = Place(p.it)
      BY <1>1, <1>2, <1>6, NextEventIs
    <2> HIDE DEF next
    <2> QED
      BY <1>4, <2>1, <2>2 DEF Swept
  <1>7. CASE ~over /\ time = now /\ end
    <2>1. time = PatternEnd(track, p.it) /\ PatternBegin(track, p.it) < PatternEnd(track, p.it)
          /\ PatternBegin(track, p.it) \in Nat
      BY <1>2, <1>7, TimeInPattern
    <2>2. ~p.ended
      BY <1>2, <1>7, <2>1 DEF RoundInv
    <2> DEFINE next == Iterator(NextPattern(track, p.it), 1)
    <2>3. q.it = next /\ q.out = p.out
      BY <1>3, <1>7, <2>2 DEF RoundCases
    <2>4. \A x \in Places(track) : Earlier(AtPlace(x), next) => Earlier(AtPlace(x), p.it)
      BY <1>2, <1>7, NextPatternIs
    <2> HIDE DEF next
    <2> QED
      BY <2>3, <2>4 DEF Swept
  <1> QED
    BY <1>5, <1>6, <1>7

(* Until a pattern ends, the iterator stays in the one it began in.        *)
Stays(first, p) == ~p.ended => p.it.block = first.block /\ p.it.loop = first.loop

(* A round stays in the pattern, or ends it.                               *)
LEMMA RoundStays ==
  ASSUME NEW track \in Seq(Block), TrackInOrder(track), NEW now \in Nat, NEW gap,
         NEW p, RoundInv(track, now, p), NEW first, Stays(first, p)
  PROVE  Stays(first, Round(track, now, gap, p))
  <1> DEFINE q == Round(track, now, gap, p)
  <1>1. IsRound(p) /\ p.it \in Iterators /\ Ahead(track, p.it, now)
    BY DEF RoundInv
  <1>2. ~PastEnd(track, p.it) => EventTime(track, p.it) \in Nat
    BY <1>1, TimeInPattern DEF Ahead
  <1>3. RoundCases(track, now, p, q)
    BY <1>1, <1>2, RoundIs
  <1> DEFINE next == [p.it EXCEPT !.event = p.it.event + 1]
  <1>4. next.block = p.it.block /\ next.loop = p.it.loop
    BY <1>1 DEF Iterators
  <1> HIDE DEF q, next
  <1>5. ~q.ended => ~p.ended /\ (q.it = p.it \/ q.it = next)
    BY <1>3 DEF RoundCases, next
  <1> QED
    BY <1>4, <1>5 DEF Stays, q

(* The events and ends that the rounds have passed; each passes one more.  *)
Rank(p) == IF p.ended THEN MaxEvents + 1 + p.it.event ELSE p.it.event

Ranked(track, p, n) ==
  /\ PastEnd(track, p.it) => p.done \/ n <= 2 * MaxEvents + 2
  /\ ~p.done /\ ~PastEnd(track, p.it) => n < Rank(p)

(* A tick passes two patterns at most, with their ends.                    *)
LEMMA RankIsBounded ==
  ASSUME NEW track \in Seq(Block), NEW now, NEW p, RoundInv(track, now, p),
         ~PastEnd(track, p.it), \A k \in DOMAIN track : Len(track[k].events) <= MaxEvents
  PROVE  /\ Rank(p) \in Nat /\ Rank(p) <= 2 * MaxEvents + 2 /\ p.it.event \in Nat
         /\ p.it.event <= MaxEvents + 1
  <1>1. InTrack(track, p.it) /\ p.ended \in BOOLEAN
    BY DEF RoundInv, Ahead
  <1> DEFINE n == Len(track[p.it.block].events)
             event == p.it.event
  <1>2. n \in Nat /\ n <= MaxEvents
    <2>1. track[p.it.block] \in Block
      BY <1>1 DEF InTrack
    <2> QED
      BY <1>1, <2>1, BlockFields DEF InTrack
  <1>3. event \in 1 .. n + 1
    BY <1>1 DEF InTrack
  <1> HIDE DEF n, event
  <1>4. Rank(p) = IF p.ended THEN MaxEvents + 1 + event ELSE event
    BY DEF Rank, event
  <1>5. MaxEvents \in Nat
    BY BoundsAssumption
  <1>6. event \in Nat /\ event <= MaxEvents + 1
    BY <1>2, <1>3, <1>5
  <1> QED
    BY <1>4, <1>5, <1>6 DEF event

(* A round that goes on passes an event or an end.                         *)
LEMMA RoundRanks ==
  ASSUME NEW track \in Seq(Block), TrackInOrder(track), NEW now \in Nat, NEW gap,
         \A k \in DOMAIN track : Len(track[k].events) <= MaxEvents,
         NEW p, RoundInv(track, now, p), NEW n \in Nat, Ranked(track, p, n)
  PROVE  Ranked(track, Round(track, now, gap, p), n + 1)
  <1> DEFINE q == Round(track, now, gap, p)
             time == EventTime(track, p.it)
             over == p.done \/ PastEnd(track, p.it)
             end == AtPatternEnd(track, p.it)
  <1>1. IsRound(p) /\ p.it \in Iterators /\ Ahead(track, p.it, now)
    BY DEF RoundInv
  <1>2. ~PastEnd(track, p.it) => EventTime(track, p.it) \in Nat /\ InTrack(track, p.it)
    BY <1>1, TimeInPattern DEF Ahead
  <1>3. RoundCases(track, now, p, q)
    BY <1>1, <1>2, RoundIs
  <1>4. MaxEvents \in Nat
    BY BoundsAssumption
  <1> HIDE DEF q
  <1> SUFFICES ASSUME ~q.done PROVE Ranked(track, q, n + 1)
    BY DEF Ranked, q
  <1>5. ~over /\ time = now /\ ~(end /\ p.ended)
    BY <1>3 DEF RoundCases
  <1>6. n < Rank(p) /\ Rank(p) \in Nat /\ Rank(p) <= 2 * MaxEvents + 2 /\ p.it.event \in Nat
        /\ p.it.event <= MaxEvents + 1
    BY <1>5, RankIsBounded DEF Ranked
  <1>7. n + 1 <= 2 * MaxEvents + 2
    BY <1>4, <1>6
  <1>8. Rank(p) < Rank(q)
    <2>1. CASE ~end
      <3> DEFINE next == [p.it EXCEPT !.event = p.it.event + 1]
      <3>1. next.event = p.it.event + 1
        BY <1>1 DEF Iterators
      <3> HIDE DEF next
      <3>2. q.it = next /\ q.ended = p.ended
        BY <1>3, <1>5, <2>1 DEF RoundCases, next
      <3> QED
        BY <1>4, <1>6, <3>1, <3>2 DEF Rank
    <2>2. CASE end
      <3> DEFINE next == Iterator(NextPattern(track, p.it), 1)
      <3>1. next.event = 1
        BY DEF Iterator
      <3> HIDE DEF next
      <3>2. q.it = next /\ q.ended = TRUE /\ ~p.ended
        BY <1>3, <1>5, <2>2 DEF RoundCases, next
      <3> QED
        BY <1>4, <1>6, <3>1, <3>2 DEF Rank
    <2> QED
      BY <2>1, <2>2
  <1>9. Rank(q) \in Nat
    <2>1. q.it.event \in Nat
      <3>1. RoundInv(track, now, q)
        BY RoundKeepsInv DEF q
      <3> QED
        BY <3>1 DEF RoundInv, Iterators
    <2> QED
      BY <1>4, <2>1 DEF Rank
  <1> QED
    BY <1>6, <1>7, <1>8, <1>9 DEF Ranked

(* The rounds of a tick, one by one.                                       *)
LEMMA RoundsAre ==
  ASSUME NEW track, NEW seq, NEW gap
  PROVE  /\ Rounds(track, seq, gap)[0] =
              [it |-> seq.next, out |-> <<>>, processed |-> FALSE, ended |-> FALSE, done |-> FALSE]
         /\ \A m \in 1 .. MaxRounds :
              Rounds(track, seq, gap)[m] =
                Round(track, seq.now, gap, Rounds(track, seq, gap)[m - 1])
  <1> DEFINE n == MaxRounds
             f == CHOOSE f : Rounded(f, n, track, seq, gap)
  <1>1. Rounds(track, seq, gap) = f
    BY DEF Rounds, Rounded
  <1>2. n \in Nat
    BY BoundsAssumption DEF MaxRounds
  <1>3. Rounded(f, n, track, seq, gap)
    <2> HIDE DEF n
    <2> QED
      BY <1>2, RoundedExists
  <1> HIDE DEF f
  <1>4. 0 \in 0 .. n /\ \A m \in 1 .. n : m \in 0 .. n /\ m # 0
    <2> HIDE DEF n
    <2> QED
      BY <1>2
  <1> HIDE DEF n
  <1>5. f[0] = [it |-> seq.next, out |-> <<>>, processed |-> FALSE, ended |-> FALSE, done |-> FALSE]
    BY <1>3, <1>4 DEF Rounded
  <1>6. \A m \in 1 .. n : f[m] = Round(track, seq.now, gap, f[m - 1])
    BY <1>3, <1>4 DEF Rounded
  <1> QED
    BY <1>1, <1>5, <1>6 DEF n

(* The rounds of a tick that begins with all that is due ahead.            *)
LEMMA RoundsKeepInv ==
  ASSUME NEW track \in Seq(Block), TrackInOrder(track), NEW seq, seq.now \in Nat,
         \A k \in DOMAIN track : Len(track[k].events) <= MaxEvents,
         seq.next \in Iterators, Ahead(track, seq.next, seq.now), NEW gap
  PROVE  LET round == Rounds(track, seq, gap) IN
         /\ \A n \in 0 .. MaxRounds :
              /\ RoundInv(track, seq.now, round[n]) /\ Stays(seq.next, round[n])
              /\ Visited(track, seq.next, seq.now) => Swept(track, seq.now, round[n])
         /\ round[MaxRounds].done
  <1> DEFINE round == Rounds(track, seq, gap)
             N == MaxRounds
             now == seq.now
             all == Visited(track, seq.next, now)
             S == {n \in 0 .. N :
                     /\ RoundInv(track, now, round[n]) /\ Stays(seq.next, round[n])
                     /\ all => Swept(track, now, round[n])
                     /\ Ranked(track, round[n], n)}
  <1>1. N \in Nat /\ MaxEvents \in Nat /\ N = 2 * MaxEvents + 3
    BY BoundsAssumption DEF MaxRounds
  <1>2. /\ round[0] = [it |-> seq.next, out |-> <<>>, processed |-> FALSE, ended |-> FALSE,
                       done |-> FALSE]
        /\ \A m \in 1 .. N : round[m] = Round(track, now, gap, round[m - 1])
    BY RoundsAre
  <1>3. now \in Nat
    OBVIOUS
  <1> HIDE DEF round, N, now, all
  <1>4. 0 \in S
    <2> DEFINE p == round[0]
    <2>1. p.it = seq.next /\ p.out = <<>> /\ p.processed = FALSE /\ p.ended = FALSE /\ p.done = FALSE
          /\ IsRound(p)
      BY <1>2 DEF IsRound
    <2> HIDE DEF p
    <2>2. p.out \in Seq(Outs(track)) /\ DOMAIN p.out = {}
      BY <2>1
    <2>3. RoundInv(track, now, p)
      BY <2>1, <2>2 DEF RoundInv, PlayedDue, HasPlayed, now
    <2>4. Stays(seq.next, p) /\ (all => Swept(track, now, p))
      BY <2>1 DEF Stays, Swept, Visited, all, now
    <2>5. Ranked(track, p, 0)
      <3>1. p.it.event \in Nat \ {0}
        BY <2>1 DEF Iterators
      <3> QED
        BY <1>1, <2>1, <3>1 DEF Ranked, Rank
    <2>6. 0 \in 0 .. N
      BY <1>1
    <2> QED
      BY <2>3, <2>4, <2>5, <2>6 DEF p
  <1>5. ASSUME NEW m \in 1 .. N, m - 1 \in S PROVE m \in S
    <2> DEFINE p == round[m - 1]
               q == round[m]
    <2>1. /\ RoundInv(track, now, p) /\ Stays(seq.next, p) /\ (all => Swept(track, now, p))
          /\ Ranked(track, p, m - 1)
      BY <1>5
    <2>2. q = Round(track, now, gap, p) /\ m \in 0 .. N /\ m - 1 \in Nat /\ m = (m - 1) + 1
      BY <1>1, <1>2
    <2> HIDE DEF p, q
    <2>3. RoundInv(track, now, q)
      BY <1>3, <2>1, <2>2, RoundKeepsInv
    <2>4. Stays(seq.next, q)
      BY <1>3, <2>1, <2>2, RoundStays
    <2>5. all => Swept(track, now, q)
      BY <1>3, <2>1, <2>2, RoundSweeps
    <2>6. Ranked(track, q, (m - 1) + 1)
      BY <1>3, <2>1, <2>2, RoundRanks
    <2> QED
      BY <2>2, <2>3, <2>4, <2>5, <2>6 DEF q
  <1>6. \A m \in 0 .. N : m \in S
    <2> HIDE DEF S
    <2> QED
      BY <1>1, <1>4, <1>5, CountUp
  <1>7. round[N].done
    <2> DEFINE p == round[N]
    <2>1. N \in S
      BY <1>1, <1>6
    <2>2. RoundInv(track, now, p) /\ Ranked(track, p, N)
      BY <2>1
    <2> HIDE DEF p
    <2>3. p.done \in BOOLEAN
      BY <2>2 DEF RoundInv
    <2>4. CASE PastEnd(track, p.it)
      BY <1>1, <2>2, <2>3, <2>4 DEF Ranked, p
    <2>5. CASE ~PastEnd(track, p.it)
      <3>1. Rank(p) \in Nat /\ Rank(p) <= 2 * MaxEvents + 2
        BY <2>2, <2>5, RankIsBounded
      <3> QED
        BY <1>1, <2>2, <2>3, <2>5, <3>1 DEF Ranked, p
    <2> QED
      BY <2>4, <2>5
  <1> QED
    BY <1>6, <1>7 DEF round, N, now, all

-----------------------------------------------------------------------------
(* A sequencer that all that is due lies ahead of.                         *)
SeqAhead(track, seq) == SeqOk(seq) /\ Ahead(track, seq.next, seq.now)

SeqVisited(track, seq) == Visited(track, seq.next, seq.now)

(* A sequencer that waits for an event in the past.                        *)
SeqHeld(track, seq) ==
  SeqOk(seq) /\ InTrack(track, seq.next) /\ EventTime(track, seq.next) < seq.now

(* The tracks of documents.                                                *)
LEMMA TracksAre ==
  ASSUME DocumentsInOrder, NEW doc \in Documents, NEW c \in Channels
  PROVE  /\ doc.tracks[c] \in Seq(Block) /\ TrackInOrder(doc.tracks[c])
         /\ \A k \in DOMAIN doc.tracks[c] : Len(doc.tracks[c][k].events) <= MaxEvents
         /\ NoDelays => Undelayed(doc.tracks[c])
         /\ doc.note_gap_ticks \in Nat
  <1>1. NoDelays => Undelayed(doc.tracks[c])
    BY DEF NoDelays, Undelayed
  <1> QED
    BY <1>1, DocumentsAssumption DEF DocumentsInOrder

(* A tick goes on to what is due from the next tick on.                    *)
LEMMA NextTickAhead ==
  ASSUME DocumentsInOrder, NEW doc \in Documents, NEW c \in Channels, NEW seq,
         SeqAhead(doc.tracks[c], seq)
  PROVE  LET track == doc.tracks[c]
             next == NextTick(doc, c, seq).seq
         IN  /\ SeqAhead(track, next)
             /\ NoDelays /\ SeqVisited(track, seq) => SeqVisited(track, next)
  <1> DEFINE track == doc.tracks[c]
             p == Rounds(track, seq, doc.note_gap_ticks)[MaxRounds]
             looped == LoopsSong(doc, c, seq.now + 1)
             next == NextTick(doc, c, seq).seq
             now == seq.now
  <1>1. /\ track \in Seq(Block) /\ TrackInOrder(track) /\ (NoDelays => Undelayed(track))
        /\ \A k \in DOMAIN track : Len(track[k].events) <= MaxEvents
    BY TracksAre
  <1>2. /\ next.now = (IF looped THEN 0 ELSE now + 1)
        /\ next.next = (IF looped THEN AtTime(track, 0) ELSE p.it)
    BY DEF NextTick
  <1>3. now \in Nat /\ seq.next \in Iterators /\ Ahead(track, seq.next, seq.now)
    BY DEF SeqAhead, SeqOk
  <1>4. SeqOk(next)
    BY NextTickType DEF SeqAhead
  <1>5. /\ RoundInv(track, now, p) /\ p.done
        /\ SeqVisited(track, seq) => Swept(track, now, p)
    <2>1. MaxRounds \in 0 .. MaxRounds
      BY BoundsAssumption DEF MaxRounds
    <2> HIDE DEF track
    <2> QED
      BY <1>1, <1>3, <2>1, RoundsKeepInv DEF SeqVisited
  <1> HIDE DEF track, p, looped, next
  <1>6. CASE looped
    <2>1. next.now = 0 /\ next.next = AtTime(track, 0)
      BY <1>2, <1>6
    <2>2. /\ Ahead(track, AtTime(track, 0), 0)
          /\ Undelayed(track) => Visited(track, AtTime(track, 0), 0)
      BY <1>1, AtTimeIs
    <2> QED
      BY <1>1, <1>4, <2>1, <2>2 DEF SeqAhead, SeqVisited, track, next
  <1>7. CASE ~looped
    <2>1. next.now = now + 1 /\ next.next = p.it
      BY <1>2, <1>7
    <2>2. Ahead(track, p.it, now + 1)
      <3>1. CASE PastEnd(track, p.it)
        BY <3>1 DEF Ahead
      <3>2. CASE ~PastEnd(track, p.it)
        <4>1. InTrack(track, p.it) /\ now < EventTime(track, p.it)
          BY <1>5, <3>2 DEF RoundInv, Ahead
        <4>2. EventTime(track, p.it) \in Nat
          BY <1>1, <4>1, TimeInPattern
        <4> QED
          BY <1>3, <4>1, <4>2 DEF Ahead
      <3> QED
        BY <3>1, <3>2
    <2>3. ASSUME Swept(track, now, p) PROVE Visited(track, p.it, now + 1)
      <3> SUFFICES ASSUME NEW x \in Places(track), Earlier(AtPlace(x), p.it)
                   PROVE  EventTime(track, AtPlace(x)) < now + 1
        BY DEF Visited
      <3>1. EventTime(track, AtPlace(x)) \in Nat
        <4>1. InTrack(track, AtPlace(x))
          BY <1>1, PlaceIs
        <4> QED
          BY <1>1, <4>1, TimeInPattern
      <3>2. CASE EventTime(track, AtPlace(x)) < now
        BY <1>3, <3>1, <3>2
      <3>3. CASE \E i \in DOMAIN p.out : p.out[i] = x
        <4>1. x # CutNote
          BY CutIsNoPlace
        <4>2. EventTime(track, AtPlace(x)) = now
          BY <1>5, <3>3, <4>1 DEF RoundInv, PlayedDue
        <4> QED
          BY <1>3, <4>2
      <3> QED
        BY <2>3, <3>2, <3>3 DEF Swept
    <2> QED
      BY <1>4, <1>5, <2>1, <2>2, <2>3 DEF SeqAhead, SeqVisited, track, next
  <1> QED
    BY <1>6, <1>7

(* A tick does not get past an event in the past, ...                      *)
LEMMA HeldRounds ==
  ASSUME NEW track \in Seq(Block), TrackInOrder(track), NEW seq, SeqHeld(track, seq),
         NEW gap \in Nat, NEW n \in 0 .. MaxRounds
  PROVE  LET p == Rounds(track, seq, gap)[n] IN p.it = seq.next /\ p.out = <<>> /\ ~p.ended
  <1> DEFINE round == Rounds(track, seq, gap)
             N == MaxRounds
             now == seq.now
             Stuck(p) == IsRound(p) /\ p.it = seq.next /\ p.out = <<>> /\ p.ended = FALSE
             S == {m \in 0 .. N : Stuck(round[m])}
  <1>1. N \in Nat
    BY BoundsAssumption DEF MaxRounds
  <1>2. /\ round[0] = [it |-> seq.next, out |-> <<>>, processed |-> FALSE, ended |-> FALSE,
                       done |-> FALSE]
        /\ \A m \in 1 .. N : round[m] = Round(track, now, gap, round[m - 1])
    BY RoundsAre
  <1>3. /\ now \in Nat /\ EventTime(track, seq.next) \in Nat
        /\ EventTime(track, seq.next) < now /\ ~PastEnd(track, seq.next)
    <2>1. InTrack(track, seq.next)
      BY DEF SeqHeld
    <2>2. EventTime(track, seq.next) \in Nat
      BY <2>1, TimeInPattern
    <2> QED
      BY <2>1, <2>2 DEF SeqHeld, SeqOk, PastEnd, HasPattern, InTrack
  <1> HIDE DEF round, N, now
  <1>4. 0 \in S
    <2>1. Stuck(round[0])
      BY <1>2 DEF IsRound
    <2> HIDE DEF Stuck
    <2> QED
      BY <1>1, <2>1
  <1>5. ASSUME NEW m \in 1 .. N, m - 1 \in S PROVE m \in S
    <2> DEFINE p == round[m - 1]
               q == round[m]
    <2>1. Stuck(p)
      BY <1>5
    <2>2. q = Round(track, now, gap, p) /\ m \in 0 .. N
      BY <1>1, <1>2
    <2> HIDE DEF p, q
    <2>3. EventTime(track, p.it) - now # 0 /\ EventTime(track, p.it) - now # gap
      BY <1>3, <2>1
    <2>4. q = [p EXCEPT !.done = TRUE] \/ q = [p EXCEPT !.done = TRUE, !.out = p.out]
      BY <2>2, <2>3 DEF Round
    <2>5. Stuck(q)
      BY <2>1, <2>4 DEF IsRound
    <2> HIDE DEF Stuck
    <2> QED
      BY <2>2, <2>5 DEF q
  <1>6. \A m \in 0 .. N : m \in S
    <2> HIDE DEF S
    <2> QED
      BY <1>1, <1>4, <1>5, CountUp
  <1>7. Stuck(round[n])
    BY <1>6 DEF N
  <1> QED
    BY <1>7 DEF round

(* ... and only the end of the song does, with a cut.                      *)
LEMMA HeldTick ==
  ASSUME DocumentsInOrder, NEW doc \in Documents, NEW c \in Channels, NEW seq,
         SeqHeld(doc.tracks[c], seq)
  PROVE  LET track == doc.tracks[c]
             r == NextTick(doc, c, seq)
         IN  /\ r.out = <<>> \/ r.out = <<CutNote>>
             /\ r.looped => SeqAhead(track, r.seq)
             /\ ~r.looped => SeqHeld(track, r.seq)
  <1> DEFINE track == doc.tracks[c]
             p == Rounds(track, seq, doc.note_gap_ticks)[MaxRounds]
             looped == LoopsSong(doc, c, seq.now + 1)
             r == NextTick(doc, c, seq)
             now == seq.now
  <1>1. track \in Seq(Block) /\ TrackInOrder(track) /\ doc.note_gap_ticks \in Nat
    BY TracksAre
  <1>2. /\ r.seq.now = (IF looped THEN 0 ELSE now + 1)
        /\ r.seq.next = (IF looped THEN AtTime(track, 0) ELSE p.it)
        /\ r.out = WithEndCut(track, p, looped) /\ r.looped = looped
    BY DEF NextTick
  <1>3. p.it = seq.next /\ p.out = <<>>
    <2>1. MaxRounds \in 0 .. MaxRounds
      BY BoundsAssumption DEF MaxRounds
    <2> DEFINE gap == doc.note_gap_ticks
    <2> HIDE DEF track, gap
    <2>2. gap \in Nat
      BY <1>1 DEF gap
    <2> QED
      BY <1>1, <2>1, <2>2, HeldRounds DEF track, gap
  <1>4. SeqOk(r.seq)
    BY NextTickType DEF SeqHeld
  <1> HIDE DEF track, p, looped, r
  <1>5. r.out = <<>> \/ r.out = <<CutNote>>
    BY <1>2, <1>3 DEF WithEndCut
  <1>6. ASSUME looped PROVE SeqAhead(track, r.seq)
    <2>1. Ahead(track, AtTime(track, 0), 0)
      BY <1>1, AtTimeIs
    <2> QED
      BY <1>2, <1>4, <1>6, <2>1 DEF SeqAhead
  <1>7. ASSUME ~looped PROVE SeqHeld(track, r.seq)
    <2>1. InTrack(track, seq.next) /\ EventTime(track, seq.next) < now /\ now \in Nat
      BY DEF SeqHeld, SeqOk, track
    <2>2. EventTime(track, seq.next) \in Nat
      BY <1>1, <2>1, TimeInPattern
    <2> QED
      BY <1>2, <1>3, <1>4, <1>7, <2>1, <2>2 DEF SeqHeld
  <1> QED
    BY <1>2, <1>5, <1>6, <1>7 DEF track, r

-----------------------------------------------------------------------------
(* In every state, all that is due lies ahead of the channels, but for     *)
(* those that wait for an event in the past since playback started; unless *)
(* the patterns were edited, and they look it up again before they go on.  *)
SeqIs(track, seq, waits) ==
  /\ waits => SeqHeld(track, seq)
  /\ ~waits => SeqAhead(track, seq)
  /\ NoDelays => ~waits /\ SeqVisited(track, seq)

SeqsAhead ==
  \A c \in Channels : seqs[c].next # None /\ ~modified =>
    SeqIs(Track(c), seqs[c], c \in held)

SeqsInv == SeqsOk /\ modified \in BOOLEAN /\ SeqsAhead

(* seek().                                                                 *)
LEMMA SoughtAhead ==
  ASSUME DocumentsInOrder, NEW doc \in Documents, NEW c \in Channels,
         NEW t \in 0 .. MaxTick
  PROVE  SeqIs(doc.tracks[c], Sought(doc.tracks[c], t), StartsPast(doc.tracks[c], t))
  <1> DEFINE track == doc.tracks[c]
             seq == Sought(track, t)
             it == AtTime(track, t)
  <1>1. track \in Seq(Block) /\ TrackInOrder(track) /\ (NoDelays => Undelayed(track))
    BY TracksAre
  <1>2. t \in Nat
    BY BoundsAssumption
  <1>3. seq.now = t /\ seq.next = it
    BY DEF Sought
  <1>4. StartsPast(track, t) <=> ~PastEnd(track, it) /\ EventTime(track, it) < t
    BY DEF StartsPast
  <1> HIDE DEF track
  <1>5. SeqOk(seq)
    BY <1>1, <1>2, SoughtType
  <1>6. /\ PastEnd(track, it) \/ InTrack(track, it)
        /\ Undelayed(track) => Ahead(track, it, t) /\ Visited(track, it, t)
    BY <1>1, <1>2, AtTimeIs
  <1> HIDE DEF it, seq
  <1>7. InTrack(track, it) => EventTime(track, it) \in Nat /\ ~PastEnd(track, it)
    BY <1>1, TimeInPattern DEF PastEnd, HasPattern, InTrack
  <1>8. ~StartsPast(track, t) => Ahead(track, it, t)
    BY <1>2, <1>4, <1>6, <1>7 DEF Ahead
  <1>9. Ahead(track, it, t) => ~StartsPast(track, t)
    BY <1>2, <1>4, <1>7 DEF Ahead
  <1>10. SeqIs(track, seq, StartsPast(track, t))
    BY <1>1, <1>3, <1>4, <1>5, <1>6, <1>8, <1>9 DEF SeqIs, SeqAhead, SeqHeld, SeqVisited
  <1> QED
    BY <1>10 DEF track, seq

(* doc_edited().                                                           *)
LEMMA DocEditedAhead ==
  ASSUME DocumentsInOrder, SeqsInv, NEW c \in Channels, seqs[c].next # None
  PROVE  SeqIs(Track(c), DocEdited(c), c \in held /\ ~modified)
  <1> DEFINE track == Track(c)
  <1>1. document \in Documents /\ seqs[c].now \in Nat /\ seqs[c].next \in Iterators
        /\ modified \in BOOLEAN
    BY DEF SeqsInv, SeqsOk
  <1>2. track \in Seq(Block) /\ TrackInOrder(track) /\ (NoDelays => Undelayed(track))
    BY <1>1, TracksAre DEF Track
  <1>3. CASE ~modified
    <2>1. DocEdited(c) = seqs[c]
      BY <1>3 DEF DocEdited
    <2>2. SeqIs(Track(c), seqs[c], c \in held)
      BY <1>3 DEF SeqsInv, SeqsAhead
    <2> QED
      BY <1>3, <2>1, <2>2 DEF SeqIs
  <1>4. CASE modified
    <2> DEFINE seq == Reloaded(track, seqs[c])
    <2>1. DocEdited(c) = seq
      BY <1>4 DEF DocEdited
    <2> HIDE DEF track
    <2>2. SeqOk(seq) /\ seq.now = seqs[c].now
      BY <1>1, <1>2, ReloadedType DEF SeqOk
    <2>3. /\ Ahead(track, seq.next, seqs[c].now)
          /\ Undelayed(track) => Visited(track, seq.next, seqs[c].now)
      BY <1>1, <1>2, ReloadedIs
    <2> HIDE DEF seq
    <2> QED
      BY <1>2, <1>4, <2>1, <2>2, <2>3 DEF SeqIs, SeqAhead, SeqVisited, track
  <1> QED
    BY <1>1, <1>3, <1>4

(* ChipSequencer::sequencer_tick().                                        *)
LEMMA TickAhead ==
  ASSUME DocumentsInOrder, SeqsInv, Tick
  PROVE  SeqsInv'
  <1> DEFINE r == [c \in Channels |-> NextTick(document, c, DocEdited(c))]
  <1>1. SeqsOk' /\ modified' \in BOOLEAN /\ document \in Documents
    BY TickKeepsPlaying DEF SeqsInv, SeqsOk, Tick
  <1>2. /\ seqs' = [c \in Channels |-> r[c].seq]
        /\ held' = {c \in held : ~modified /\ ~r[c].looped}
        /\ document' = document /\ Playing
    BY DEF Tick
  <1>3. ASSUME NEW c \in Channels
        PROVE  SeqIs(Track(c), seqs'[c], c \in held')
    <2>1. seqs[c].next # None
      BY <1>2 DEF Playing
    <2> DEFINE s == DocEdited(c)
               next == NextTick(document, c, s)
               waits == c \in held /\ ~modified
    <2>2. SeqIs(document.tracks[c], s, waits)
      BY <2>1, DocEditedAhead DEF Track
    <2>3. seqs'[c] = next.seq /\ (c \in held' <=> waits /\ ~next.looped)
      BY <1>2
    <2> HIDE DEF s
    <2>4. CASE ~waits
      <3>1. /\ SeqAhead(document.tracks[c], next.seq)
            /\ NoDelays /\ SeqVisited(document.tracks[c], s) =>
                 SeqVisited(document.tracks[c], next.seq)
        BY <1>1, <2>2, <2>4, NextTickAhead DEF SeqIs
      <3> HIDE DEF next, waits
      <3> QED
        BY <2>2, <2>3, <2>4, <3>1 DEF SeqIs, Track
    <2>5. CASE waits
      <3>1. /\ next.looped => SeqAhead(document.tracks[c], next.seq)
            /\ ~next.looped => SeqHeld(document.tracks[c], next.seq)
        BY <1>1, <2>2, <2>5, HeldTick DEF SeqIs
      <3> HIDE DEF next, waits
      <3> QED
        BY <2>2, <2>3, <2>5, <3>1 DEF SeqIs, Track
    <2> QED
      BY <2>4, <2>5
  <1> HIDE DEF r
  <1>4. \A c \in Channels : Track(c)' = Track(c)
    BY <1>2 DEF Track
  <1> QED
    BY <1>1, <1>3, <1>4 DEF SeqsInv, SeqsAhead

(* A timer that does not tick the sequencers may look up again.            *)
LEMMA RunDriverAhead ==
  ASSUME DocumentsInOrder, SeqsInv, RunDriver
  PROVE  SeqsInv'
  <1>1. SeqsOk' /\ modified' \in BOOLEAN /\ document \in Documents /\ modified \in BOOLEAN
    BY RunDriverKeepsPlaying DEF SeqsInv, SeqsOk, RunDriver
  <1>2. seqs' = [c \in Channels |-> DocEdited(c)] /\ document' = document
        /\ held' = IF modified THEN {} ELSE held
    BY DEF RunDriver
  <1>3. ASSUME NEW c \in Channels, seqs'[c].next # None
        PROVE  SeqIs(Track(c), seqs'[c], c \in held')
    <2>1. seqs[c].next # None
      <3>1. seqs[c].next = None => DocEdited(c).next = None
        BY DocEditedType DEF SeqsInv, SeqsOk
      <3> QED
        BY <1>2, <1>3, <3>1
    <2>2. SeqIs(Track(c), DocEdited(c), c \in held /\ ~modified)
      BY <2>1, DocEditedAhead
    <2>3. (c \in held /\ ~modified) <=> c \in held'
      BY <1>1, <1>2
    <2> QED
      BY <1>2, <2>2, <2>3 DEF SeqIs
  <1>4. \A c \in Channels : Track(c)' = Track(c)
    BY <1>2 DEF Track
  <1> QED
    BY <1>1, <1>3, <1>4 DEF SeqsInv, SeqsAhead

(* Playback starts ahead of what is due, or waits for what is not.         *)
LEMMA PlayFromAhead ==
  ASSUME DocumentsInOrder, SeqsInv, NEW t \in 0 .. MaxTick, PlayFrom(t)
  PROVE  SeqsInv'
  <1>1. SeqsOk' /\ modified' \in BOOLEAN /\ document \in Documents
    BY PlayFromPlays DEF SeqsInv, SeqsOk, PlayFrom
  <1>2. seqs' = [c \in Channels |-> Sought(Track(c), t)] /\ document' = document
        /\ held' = {c \in Channels : StartsPast(Track(c), t)}
    BY DEF PlayFrom
  <1>3. ASSUME NEW c \in Channels PROVE SeqIs(Track(c), seqs'[c], c \in held')
    <2>1. SeqIs(Track(c), Sought(Track(c), t), StartsPast(Track(c), t))
      BY <1>1, SoughtAhead DEF Track
    <2>2. c \in held' <=> StartsPast(Track(c), t)
      BY <1>2
    <2> QED
      BY <1>2, <2>1, <2>2 DEF SeqIs
  <1>4. \A c \in Channels : Track(c)' = Track(c)
    BY <1>2 DEF Track
  <1> QED
    BY <1>1, <1>3, <1>4 DEF SeqsInv, SeqsAhead

(* A stopped sequencer has nothing ahead, and an edit leaves the channels  *)
(* to look again.                                                          *)
LEMMA StopOrEditAhead ==
  /\ SeqsInv /\ StopPlayback => SeqsInv'
  /\ SeqsInv /\ Edit => SeqsInv'
  <1>1. ASSUME SeqsInv, StopPlayback PROVE SeqsInv'
    <2>1. SeqsOk' /\ modified' \in BOOLEAN
      BY <1>1, StopKeepsSeqs DEF SeqsInv, StopPlayback
    <2>2. \A c \in Channels : seqs'[c].next = None
      BY <1>1 DEF StopPlayback, Stopped
    <2> QED
      BY <2>1, <2>2 DEF SeqsInv, SeqsAhead
  <1>2. ASSUME SeqsInv, Edit PROVE SeqsInv'
    <2>1. SeqsOk' /\ modified' = TRUE
      BY <1>2, EditKeepsSeqs DEF SeqsInv, Edit
    <2> QED
      BY <2>1 DEF SeqsInv, SeqsAhead
  <1> QED
    BY <1>1, <1>2

(* What keeps the tracks and the positions keeps their order.              *)
LEMMA SameTracksAhead ==
  ASSUME SeqsInv, document' \in Documents, document'.tracks = document.tracks,
         UNCHANGED <<modified, seqs, held>>
  PROVE  SeqsInv'
  <1>1. SeqsOk' /\ modified' \in BOOLEAN
    BY EditKeepsSeqs DEF SeqsInv
  <1>2. \A c \in Channels : Track(c)' = Track(c)
    BY DEF Track
  <1> QED
    BY <1>1, <1>2 DEF SeqsInv, SeqsAhead

(* The invariant gives the assertions of each round.                       *)
LEMMA AheadInOrder ==
  ASSUME DocumentsInOrder, SeqsInv
  PROVE  OrderingHolds
  <1> SUFFICES ASSUME NEW c \in Channels, seqs[c].next # None, ~modified,
                      NEW n \in 0 .. MaxRounds
               PROVE  LET p == Rounds(Track(c), seqs[c], document.note_gap_ticks)[n] IN
                      p.done \/ PastEnd(Track(c), p.it)
                        \/ LET left == EventTime(Track(c), p.it) - seqs[c].now IN
                             /\ left >= 0 \/ seqs[c].ignore \/ c \in held
                             /\ ~(left = 0 /\ AtPatternEnd(Track(c), p.it) /\ p.ended)
    BY DEF OrderingHolds
  <1> DEFINE track == Track(c)
             now == seqs[c].now
             gap == document.note_gap_ticks
             p == Rounds(track, seqs[c], gap)[n]
             time == EventTime(track, p.it)
  <1>1. document \in Documents /\ SeqIs(track, seqs[c], c \in held)
    BY DEF SeqsInv, SeqsOk, SeqsAhead
  <1>2. /\ track \in Seq(Block) /\ TrackInOrder(track) /\ gap \in Nat
        /\ \A k \in DOMAIN track : Len(track[k].events) <= MaxEvents
    BY <1>1, TracksAre DEF Track
  <1>3. CASE c \in held
    <2>1. SeqHeld(track, seqs[c])
      BY <1>1, <1>3 DEF SeqIs
    <2> DEFINE seq == seqs[c]
    <2> HIDE DEF track, gap, seq
    <2>2. ~Rounds(track, seq, gap)[n].ended
      <3>1. SeqHeld(track, seq)
        BY <2>1 DEF seq
      <3> QED
        BY <1>2, <3>1, HeldRounds
    <2>3. ~p.ended
      BY <2>2 DEF seq
    <2> HIDE DEF p
    <2> QED
      BY <1>3, <2>3 DEF track, gap, p
  <1>4. CASE c \notin held
    <2>1. now \in Nat /\ seqs[c].next \in Iterators /\ Ahead(track, seqs[c].next, now)
      BY <1>1, <1>4 DEF SeqIs, SeqAhead, SeqOk
    <2> HIDE DEF track
    <2>2. RoundInv(track, now, p)
      <3> HIDE DEF gap
      <3> QED
        BY <1>2, <2>1, RoundsKeepInv
    <2> HIDE DEF p, now
    <2>3. ASSUME ~PastEnd(track, p.it)
          PROVE  time - now >= 0 /\ ~(time - now = 0 /\ AtPatternEnd(track, p.it) /\ p.ended)
      <3>1. InTrack(track, p.it) /\ now <= time
        BY <2>2, <2>3 DEF RoundInv, Ahead
      <3>2. /\ time \in Nat /\ PatternBegin(track, p.it) \in Nat
            /\ PatternBegin(track, p.it) < PatternEnd(track, p.it)
            /\ AtPatternEnd(track, p.it) => time = PatternEnd(track, p.it)
        BY <1>2, <3>1, TimeInPattern
      <3>3. p.ended => now <= PatternBegin(track, p.it)
        BY <2>2, <2>3 DEF RoundInv
      <3> HIDE DEF time
      <3> QED
        BY <2>1, <3>1, <3>2, <3>3
    <2> QED
      BY <2>3 DEF track, now, p
  <1> QED
    BY <1>3, <1>4

-----------------------------------------------------------------------------
(* What the channels have been told to play at a tick, and what sounds.    *)

(* One of finitely many numbers is the greatest.                           *)
LEMMA GreatestExists ==
  ASSUME NEW S, IsFiniteSet(S), S # {}, NEW f \in [S -> Nat]
  PROVE  \E x \in S : \A y \in S : f[y] <= f[x]
  <1> DEFINE HasGreatest(U) == \E x \in U : \A y \in U : f[y] <= f[x]
             T == {U \in SUBSET S : U # {} /\ ~HasGreatest(U)}
  <1>1. ASSUME T # {} PROVE FALSE
    <2>1. T \subseteq FiniteSubsetsOf(S)
      BY FS_FiniteSubsetsOfFinite
    <2>2. PICK U \in T : \A V \in T : <<V, U>> \notin StrictSubsetOrdering(S)
      <3> HIDE DEF T
      <3> QED
        BY <1>1, <2>1, FS_StrictSubsetOrderingWellFounded, WFMin
    <2>3. PICK x \in U : TRUE
      OBVIOUS
    <2> DEFINE V == U \ {x}
    <2>4. V \in SUBSET S /\ V # U /\ V \subseteq U
      BY <2>3
    <2>5. V = {} \/ HasGreatest(V)
      <3>1. <<V, U>> \in StrictSubsetOrdering(S)
        BY <2>4 DEF StrictSubsetOrdering
      <3>2. V \notin T
        BY <2>2, <3>1
      <3> QED
        BY <2>4, <3>2
    <2>6. CASE V = {}
      <3>1. \A y \in U : y = x
        BY <2>6
      <3>2. f[x] <= f[x]
        BY <2>3
      <3> QED
        BY <2>3, <3>1, <3>2
    <2>7. CASE HasGreatest(V)
      <3>1. PICK z \in V : \A y \in V : f[y] <= f[z]
        BY <2>7
      <3>2. f[x] \in Nat /\ f[z] \in Nat /\ x \in U /\ z \in U
        BY <2>3, <2>4
      <3>3. CASE f[x] <= f[z]
        <4>1. \A y \in U : f[y] <= f[z]
          BY <3>1, <3>3
        <4> QED
          BY <3>2, <4>1
      <3>4. CASE f[z] <= f[x]
        <4>1. ASSUME NEW y \in U PROVE f[y] <= f[x]
          <5>1. f[y] \in Nat
            OBVIOUS
          <5>2. y = x \/ f[y] <= f[z]
            BY <3>1
          <5> QED
            BY <3>2, <3>4, <5>1, <5>2
        <4> QED
          BY <3>2, <4>1
      <3> QED
        BY <3>2, <3>3, <3>4
    <2> QED
      BY <2>5, <2>6, <2>7
  <1> QED
    BY <1>1

(* A song is as long as its longest track.                                 *)
LEMMA SongIsAsLong ==
  ASSUME DocumentsInOrder, NEW doc \in Documents, NEW c \in Channels,
         NEW k \in DOMAIN doc.tracks[c]
  PROVE  SongLength(doc.tracks) \in Nat /\ EndTime(doc.tracks[c][k]) <= SongLength(doc.tracks)
  <1> DEFINE tracks == doc.tracks
             D == {d \in Channels : tracks[d] # <<>>}
             end(d) == EndTime(tracks[d][Len(tracks[d])])
             f == [d \in D |-> end(d)]
             S == {0} \cup {end(d) : d \in D}
  <1>1. DOMAIN tracks = Channels /\ \A d \in Channels : tracks[d] \in Seq(Block)
    BY DocumentsAssumption
  <1>2. SongLength(tracks) = Max(S)
    BY <1>1, Zenon DEF SongLength
  <1>3. \A d \in D : Len(tracks[d]) \in DOMAIN tracks[d] /\ end(d) \in Nat
    <2> SUFFICES ASSUME NEW d \in D
                 PROVE  Len(tracks[d]) \in DOMAIN tracks[d] /\ end(d) \in Nat
      OBVIOUS
    <2>1. tracks[d] \in Seq(Block) /\ tracks[d] # <<>>
      BY <1>1
    <2> DEFINE track == tracks[d]
    <2> HIDE DEF track
    <2>2. Len(track) \in DOMAIN track
      BY <2>1 DEF track
    <2>3. track[Len(track)] \in Block
      BY <2>1, <2>2 DEF track
    <2>4. EndTime(track[Len(track)]) \in Nat
      BY <2>3, LoopsFollow
    <2> QED
      BY <2>2, <2>4 DEF track
  <1>4. c \in D
    BY <1>1
  <1>5. IsFiniteSet(D)
    BY ChannelsAssumption, FS_Subset
  <1>6. f \in [D -> Nat]
    BY <1>3
  <1> HIDE DEF D
  <1>7. PICK d \in D : \A e \in D : f[e] <= f[d]
    <2> HIDE DEF f
    <2> QED
      BY <1>4, <1>5, <1>6, GreatestExists
  <1>8. \A e \in D : end(e) <= end(d) /\ end(e) \in Nat
    BY <1>3, <1>7
  <1>9. Max(S) \in S /\ \A y \in S : y <= Max(S)
    <2>1. end(d) \in S /\ \A y \in S : end(d) >= y
      BY <1>8
    <2>2. S \subseteq Nat
      BY <1>3
    <2> HIDE DEF S, end
    <2>3. Max(S) \in S /\ \A y \in S : Max(S) >= y
      BY <2>1 DEF Max
    <2> QED
      BY <2>2, <2>3
  <1>10. end(c) <= Max(S) /\ end(c) \in Nat /\ Max(S) \in Nat
    BY <1>3, <1>4, <1>9
  <1> DEFINE track == tracks[c]
             n == Len(track)
  <1>11. EndTime(track[k]) <= EndTime(track[n])
    <2>1. track \in Seq(Block) /\ TrackInOrder(track)
      BY TracksAre
    <2> HIDE DEF track
    <2>2. k \in DOMAIN track /\ n \in DOMAIN track /\ k \in 1 .. n
      BY <2>1 DEF track
    <2>3. EndTime(track[k]) \in Nat /\ EndTime(track[n]) \in Nat
          /\ track[n].begin_tick \in Nat /\ track[n].begin_tick <= EndTime(track[n])
      <3>1. track[k] \in Block /\ track[n] \in Block
        BY <2>1, <2>2
      <3> HIDE DEF n
      <3>2. 0 \in Nat /\ track[n].loop_count \in Nat /\ track[n].begin_tick \in Nat
        BY <3>1, BlockFields
      <3> QED
        BY <3>1, <3>2, LoopsFollow
    <2>4. k = n \/ EndTime(track[k]) <= track[n].begin_tick
      <3>1. k = n \/ k < n
        BY <2>2
      <3> QED
        BY <2>1, <2>2, <3>1 DEF TrackInOrder
    <2> QED
      BY <2>3, <2>4
  <1>12. EndTime(track[k]) \in Nat
    <2>1. track \in Seq(Block)
      BY <1>1
    <2>2. track[k] \in Block
      BY <2>1
    <2> HIDE DEF track
    <2>3. 0 \in Nat
      OBVIOUS
    <2> QED
      BY <2>2, <2>3, LoopsFollow
  <1> QED
    BY <1>2, <1>10, <1>11, <1>12

(* The events written at a tick, as the places of a track.                 *)
LEMMA WrittenAre ==
  ASSUME DocumentsInOrder, document \in Documents, NEW c \in Channels, NEW t \in Nat
  PROVE  Written(Track(c), t) = {x \in Places(Track(c)) : EventTime(Track(c), AtPlace(x)) = t}
  <1> DEFINE track == Track(c)
             song == SongLength(document.tracks)
             P == {<<k, loop, e>> : k \in DOMAIN track, loop \in 0 .. song, e \in 1 .. MaxEvents}
  <1>1. /\ track \in Seq(Block) /\ TrackInOrder(track)
        /\ \A k \in DOMAIN track : Len(track[k].events) <= MaxEvents
    BY TracksAre DEF Track
  <1>2. \A k \in DOMAIN track : EndTime(track[k]) <= song /\ song \in Nat
    BY SongIsAsLong DEF Track
  <1> HIDE DEF track, song
  <1>3. \A x : Iterator(PatternIter(x[1], x[2]), x[3]) = AtPlace(x)
    BY DEF Iterator, PatternIter, AtPlace
  <1>4. Written(track, t) =
          {x \in P : /\ x[2] < track[x[1]].loop_count
                     /\ x[3] <= Len(track[x[1]].events)
                     /\ EventTime(track, AtPlace(x)) = t}
    <2> DEFINE Right == {x \in P : /\ x[2] < track[x[1]].loop_count
                                  /\ x[3] <= Len(track[x[1]].events)
                                  /\ EventTime(track, AtPlace(x)) = t}
    <2>1. \A x : x \in Written(track, t) <=>
                   /\ x \in P /\ x[2] < track[x[1]].loop_count
                   /\ x[3] <= Len(track[x[1]].events)
                   /\ EventTime(track, Iterator(PatternIter(x[1], x[2]), x[3])) = t
      BY DEF Written, song
    <2> HIDE DEF P
    <2>2. \A x : x \in Written(track, t) <=> x \in Right
      BY <1>3, <2>1
    <2> QED
      BY <2>2
  <1>5. ASSUME NEW x \in P, x[2] < track[x[1]].loop_count, x[3] <= Len(track[x[1]].events)
        PROVE  x \in Places(track)
    <2>1. x[1] \in DOMAIN track /\ x[2] \in 0 .. song /\ x[3] \in 1 .. MaxEvents
          /\ x = <<x[1], x[2], x[3]>>
      OBVIOUS
    <2>2. track[x[1]] \in Block /\ x[1] \in Nat
      BY <1>1, <2>1
    <2> DEFINE n == Len(track[x[1]].events)
               loops == track[x[1]].loop_count
    <2>3. loops \in Nat /\ n \in Nat /\ x[2] \in Nat /\ x[3] \in Nat \ {0} /\ x[1] \in Nat
      BY <1>2, <2>1, <2>2, BlockFields
    <2>4. AtPlace(x).block = x[1] /\ AtPlace(x).loop = x[2] /\ AtPlace(x).event = x[3]
      BY DEF AtPlace
    <2>5. x \in Nat \X Nat \X Nat
      BY <2>1, <2>3
    <2> HIDE DEF n, loops, P
    <2>6. x[2] \in 0 .. loops - 1 /\ x[3] \in 1 .. n + 1 /\ ~(x[3] > n)
      BY <1>5, <2>3, SMTT(30) DEF n, loops
    <2> QED
      BY <2>1, <2>4, <2>5, <2>6 DEF Places, InTrack, AtPatternEnd, n, loops
  <1>6. ASSUME NEW x \in Places(track)
        PROVE  x \in P /\ x[2] < track[x[1]].loop_count /\ x[3] <= Len(track[x[1]].events)
    <2>1. /\ x[1] \in DOMAIN track /\ x[2] \in 0 .. track[x[1]].loop_count - 1 /\ x[2] \in Nat
          /\ x[3] \in 1 .. Len(track[x[1]].events) /\ x = <<x[1], x[2], x[3]>>
      BY <1>1, PlaceIs DEF Places
    <2>2. track[x[1]] \in Block
      BY <1>1, <2>1
    <2> DEFINE n == Len(track[x[1]].events)
               loops == track[x[1]].loop_count
               end == EndTime(track[x[1]])
    <2>3. loops \in Nat /\ n \in Nat /\ n <= MaxEvents /\ loops <= end /\ end <= song
          /\ end \in Nat /\ song \in Nat /\ MaxEvents \in Nat
      BY <1>1, <1>2, <2>1, <2>2, BlockFields, LoopsFollow, BoundsAssumption
    <2> HIDE DEF n, loops, end
    <2>4. x[2] \in 0 .. song /\ x[3] \in 1 .. MaxEvents /\ x[2] < loops /\ x[3] <= n
      BY <2>1, <2>3 DEF n, loops
    <2>5. x \in P
      BY <2>1, <2>4
    <2> QED
      BY <2>4, <2>5 DEF n, loops
  <1> HIDE DEF P
  <1>7. Written(track, t) = {x \in Places(track) : EventTime(track, AtPlace(x)) = t}
    BY <1>4, <1>5, <1>6
  <1> QED
    BY <1>7 DEF track

(* The rounds of a tick play what is due, each once.                       *)
LEMMA RoundsPlayDue ==
  ASSUME NEW track \in Seq(Block), TrackInOrder(track), NEW now \in Nat,
         NEW p, RoundInv(track, now, p), Swept(track, now, p), p.done
  PROVE  /\ \A x : x \in Places(track) /\ EventTime(track, AtPlace(x)) = now <=>
                     x # CutNote /\ \E k \in DOMAIN p.out : p.out[k] = x
         /\ \A i, j \in DOMAIN p.out : p.out[i] = p.out[j] /\ p.out[i] # CutNote => i = j
  <1>1. p.it \in Iterators /\ p.out \in Seq(Outs(track)) /\ PlayedDue(track, p.it, p.out, now)
        /\ (PastEnd(track, p.it) \/ (InTrack(track, p.it) /\ now < EventTime(track, p.it)))
    BY DEF RoundInv, Ahead
  <1>2. ASSUME NEW x, x # CutNote, \E k \in DOMAIN p.out : p.out[k] = x
        PROVE  x \in Places(track) /\ EventTime(track, AtPlace(x)) = now
    BY <1>1, <1>2 DEF PlayedDue
  <1>3. ASSUME NEW x \in Places(track), EventTime(track, AtPlace(x)) = now
        PROVE  x # CutNote /\ \E k \in DOMAIN p.out : p.out[k] = x
    <2> DEFINE y == AtPlace(x)
    <2>1. InTrack(track, y) /\ y.block \in Nat /\ y.loop \in Nat /\ y.event \in Nat
      <3>1. InTrack(track, y) /\ x \in Nat \X Nat \X Nat
        BY DEF Places
      <3> QED
        BY <3>1 DEF AtPlace
    <2> HIDE DEF y
    <2>2. Earlier(y, p.it)
      <3>1. CASE PastEnd(track, p.it)
        <4>1. p.it.block \in Nat \ {0} /\ p.it.block \notin 1 .. Len(track)
          BY <1>1, <3>1 DEF PastEnd, HasPattern, Iterators
        <4>2. y.block \in 1 .. Len(track)
          BY <2>1 DEF InTrack
        <4> QED
          BY <4>1, <4>2 DEF Earlier
      <3>2. CASE InTrack(track, p.it) /\ now < EventTime(track, p.it)
        <4>1. ASSUME Earlier(p.it, y) PROVE FALSE
          <5>1. EventTime(track, p.it) <= EventTime(track, y)
            BY <2>1, <3>2, <4>1, TimesFollow
          <5>2. EventTime(track, p.it) \in Nat
            BY <3>2, TimeInPattern
          <5> QED
            BY <1>3, <3>2, <5>1, <5>2 DEF y
        <4>2. ASSUME y.block = p.it.block, y.loop = p.it.loop, y.event = p.it.event PROVE FALSE
          <5>1. EventTime(track, p.it) = EventTime(track, y)
            BY <4>2 DEF EventTime, AtPatternEnd, PatternBegin, PatternEnd
          <5> QED
            BY <1>3, <3>2, <5>1 DEF y
        <4>3. p.it.block \in Nat /\ p.it.loop \in Nat /\ p.it.event \in Nat
          BY <1>1 DEF Iterators
        <4> QED
          BY <2>1, <4>1, <4>2, <4>3 DEF Earlier
      <3> QED
        BY <1>1, <3>1, <3>2
    <2>3. EventTime(track, y) < now \/ \E k \in DOMAIN p.out : p.out[k] = x
      BY <2>2 DEF Swept, y
    <2>4. x # CutNote
      BY CutIsNoPlace
    <2> QED
      BY <1>3, <2>3, <2>4 DEF y
  <1>4. ASSUME NEW i \in DOMAIN p.out, NEW j \in DOMAIN p.out, p.out[i] = p.out[j],
               p.out[i] # CutNote
        PROVE  ~(i < j)
    <2>1. p.out[i] \in Places(track)
      BY <1>1, <1>4 DEF PlayedDue
    <2>2. ASSUME i < j PROVE Earlier(AtPlace(p.out[i]), AtPlace(p.out[i]))
      BY <1>1, <1>4, <2>2 DEF PlayedDue
    <2>3. \A x \in Nat \X Nat \X Nat : ~Earlier(AtPlace(x), AtPlace(x))
      BY DEF Earlier, AtPlace
    <2> QED
      BY <2>1, <2>2, <2>3 DEF Places
  <1>5. \A i, j \in DOMAIN p.out : i < j \/ j < i \/ i = j
    <2>1. DOMAIN p.out = 1 .. Len(p.out) /\ Len(p.out) \in Nat
      BY <1>1
    <2> QED
      BY <2>1
  <1> QED
    BY <1>2, <1>3, <1>4, <1>5

(* The end of a pattern or song cuts the note that sounds, and takes no    *)
(* event away.                                                             *)
CutAtEnd(track, p, looped, out) ==
  /\ out \in Seq(Outs(track))
  /\ \A x : x # CutNote => ((\E k \in DOMAIN out : out[k] = x) <=>
                              \E k \in DOMAIN p.out : p.out[k] = x)
  /\ (\A i, j \in DOMAIN p.out : p.out[i] = p.out[j] /\ p.out[i] # CutNote => i = j) =>
       \A i, j \in DOMAIN out : out[i] = out[j] /\ out[i] # CutNote => i = j
  /\ p.ended \/ looped => \E k \in DOMAIN out : HasNote(track, out[k])

(* A cut goes before the events of the tick.                               *)
LEMMA EndCutIs ==
  ASSUME NEW track, NEW p, p.out \in Seq(Outs(track)), NEW looped
  PROVE  CutAtEnd(track, p, looped, WithEndCut(track, p, looped))
  <1> DEFINE s == p.out
             t == <<CutNote>> \o s
             out == WithEndCut(track, p, looped)
  <1>1. CutNote \in Outs(track) /\ HasNote(track, CutNote)
    BY DEF CutNote, Outs, HasNote
  <1>2. out = s \/ (out = t /\ (p.ended \/ looped))
    BY DEF WithEndCut
  <1>3. ASSUME p.ended \/ looped, out = s
        PROVE  (\E k \in DOMAIN s : HasNote(track, s[k])) \/ s = t
    BY <1>3 DEF WithEndCut
  <1> HIDE DEF out
  <1>4. /\ s \in Seq(Outs(track)) /\ Len(s) \in Nat /\ DOMAIN s = 1 .. Len(s)
        /\ t \in Seq(Outs(track)) /\ DOMAIN t = 1 .. Len(s) + 1 /\ t[1] = CutNote
        /\ \A k \in 2 .. Len(s) + 1 : t[k] = s[k - 1]
    <2>1. s \in Seq(Outs(track)) /\ Len(s) \in Nat /\ DOMAIN s = 1 .. Len(s)
      OBVIOUS
    <2> HIDE DEF s
    <2>2. <<CutNote>> \in Seq(Outs(track)) /\ Len(<<CutNote>>) = 1
      BY <1>1
    <2> QED
      BY <2>1, <2>2
  <1> HIDE DEF s, t
  <1>5. CASE out = s
    <2>1. p.ended \/ looped => \E k \in DOMAIN out : HasNote(track, out[k])
      <3>1. s # t
        <4>1. Len(s) + 1 \in DOMAIN t /\ Len(s) + 1 \notin DOMAIN s
          BY <1>4
        <4> QED
          BY <4>1
      <3> QED
        BY <1>3, <1>5, <3>1
    <2> QED
      BY <1>4, <1>5, <2>1 DEF CutAtEnd, out, s
  <1>6. CASE out = t
    <2>1. 1 \in DOMAIN t /\ HasNote(track, t[1])
      BY <1>1, <1>4
    <2>2. ASSUME NEW x, x # CutNote
          PROVE  (\E k \in DOMAIN t : t[k] = x) <=> \E k \in DOMAIN s : s[k] = x
      <3>1. ASSUME NEW k \in DOMAIN t, t[k] = x PROVE \E j \in DOMAIN s : s[j] = x
        <4>1. k \in 2 .. Len(s) + 1
          BY <1>4, <2>2, <3>1
        <4>2. k - 1 \in DOMAIN s /\ s[k - 1] = x
          BY <1>4, <3>1, <4>1
        <4> QED
          BY <4>2
      <3>2. ASSUME NEW k \in DOMAIN s, s[k] = x PROVE \E j \in DOMAIN t : t[j] = x
        <4>1. k + 1 \in 2 .. Len(s) + 1 /\ k + 1 \in DOMAIN t /\ (k + 1) - 1 = k
          BY <1>4
        <4>2. t[k + 1] = s[k]
          BY <1>4, <4>1
        <4> QED
          BY <3>2, <4>1, <4>2
      <3> QED
        BY <3>1, <3>2
    <2>3. ASSUME \A i, j \in DOMAIN s : s[i] = s[j] /\ s[i] # CutNote => i = j,
                 NEW i \in DOMAIN t, NEW j \in DOMAIN t, t[i] = t[j], t[i] # CutNote
          PROVE  i = j
      <3>1. i \in 2 .. Len(s) + 1 /\ j \in 2 .. Len(s) + 1
        BY <1>4, <2>3
      <3>2. /\ i - 1 \in DOMAIN s /\ j - 1 \in DOMAIN s
            /\ t[i] = s[i - 1] /\ t[j] = s[j - 1]
        BY <1>4, <3>1
      <3>3. i - 1 = j - 1
        BY <2>3, <3>2
      <3> QED
        BY <3>1, <3>3
    <2> QED
      BY <1>4, <1>6, <2>1, <2>2, <2>3 DEF CutAtEnd, out, s
  <1> QED
    BY <1>2, <1>5, <1>6

(* What the rounds of a tick are for a channel, and what it hands on.      *)
TickOf(c, p, looped) ==
  LET track == Track(c)
      now == seqs[c].now
      s == DocEdited(c)
  IN  /\ RoundInv(track, now, p) /\ p.done
      /\ Stays(s.next, p)
      /\ NoDelays => Swept(track, now, p)
      /\ played'[c] = WithEndCut(track, p, looped)
      /\ sounding'[c] =
           SoundAfter(c, [seq |-> seqs'[c], out |-> played'[c], looped |-> looped])
      /\ ~looped => seqs'[c].now = now + 1 /\ seqs'[c].next = p.it
      /\ times'[c] = now /\ now \in Nat

(* Every channel hands on what its rounds have found, unless it waits.     *)
LEMMA TicksAre ==
  ASSUME DocumentsInOrder, SeqsInv, Tick, NEW c \in Channels, modified \/ c \notin held
  PROVE  \E p, looped : TickOf(c, p, looped)
  <1> DEFINE s == DocEdited(c)
             gap == document.note_gap_ticks
             p == Rounds(Track(c), s, gap)[MaxRounds]
             looped == LoopsSong(document, c, s.now + 1)
             r == NextTick(document, c, s)
             now == seqs[c].now
  <1>1. /\ document \in Documents /\ seqs[c].next # None /\ now \in Nat
        /\ s.now = now
    BY EditsKeepNow DEF SeqsInv, SeqsOk, Tick, Playing
  <1>2. /\ Track(c) \in Seq(Block) /\ TrackInOrder(Track(c))
        /\ \A k \in DOMAIN Track(c) : Len(Track(c)[k].events) <= MaxEvents
    BY <1>1, TracksAre DEF Track
  <1>3. SeqAhead(Track(c), s) /\ (NoDelays => SeqVisited(Track(c), s))
    BY <1>1, DocEditedAhead DEF SeqIs
  <1>4. /\ seqs'[c] = r.seq /\ played'[c] = r.out /\ sounding'[c] = SoundAfter(c, r)
        /\ times'[c] = now
    BY Zenon DEF Tick
  <1>5. r = [seq |-> [now |-> IF looped THEN 0 ELSE s.now + 1, ignore |-> FALSE,
                      next |-> IF looped THEN AtTime(Track(c), 0) ELSE p.it],
             out |-> WithEndCut(Track(c), p, looped),
             looped |-> looped]
    BY DEF NextTick, Track
  <1> HIDE DEF s, looped, r
  <1>6. /\ r.seq.now = (IF looped THEN 0 ELSE s.now + 1)
        /\ r.seq.next = (IF looped THEN AtTime(Track(c), 0) ELSE p.it)
        /\ r.out = WithEndCut(Track(c), p, looped) /\ r.looped = looped
        /\ r = [seq |-> r.seq, out |-> r.out, looped |-> looped]
    <2> HIDE DEF p
    <2> QED
      BY <1>5
  <1>7. /\ RoundInv(Track(c), now, p) /\ p.done /\ Stays(s.next, p)
        /\ NoDelays => Swept(Track(c), now, p)
    <2>1. MaxRounds \in 0 .. MaxRounds
      BY BoundsAssumption DEF MaxRounds
    <2> HIDE DEF gap
    <2> QED
      BY <1>1, <1>2, <1>3, <2>1, RoundsKeepInv DEF SeqAhead, SeqOk, SeqVisited
  <1> HIDE DEF p
  <1>8. sounding'[c] = SoundAfter(c, [seq |-> seqs'[c], out |-> played'[c], looped |-> looped])
    BY <1>4, <1>6
  <1>9. TickOf(c, p, looped)
    BY <1>1, <1>4, <1>6, <1>7, <1>8 DEF TickOf, s
  <1> QED
    BY <1>9

(* A note that sounds began in the pattern that its channel is still in,   *)
(* one tick ago at the latest.                                             *)
NoteOf(c) ==
  /\ c \notin held /\ ~modified /\ times[c] \in Nat /\ seqs[c].now = times[c] + 1
  /\ InTrack(Track(c), seqs[c].next) /\ seqs[c].next # None
  /\ PatternBegin(Track(c), seqs[c].next) <= times[c]

NotesPlaced == \A c \in Channels : sounding[c] = "note" => NoteOf(c)

(* A cut alone is the last note.                                           *)
LEMMA CutIsLast ==
  ASSUME NEW out, out = <<>> \/ out = <<CutNote>>, NEW track
  PROVE  LET notes == {k \in DOMAIN out : HasNote(track, out[k])} IN
         notes = {} \/ out[Max(notes)] = CutNote
  <1> DEFINE notes == {k \in DOMAIN out : HasNote(track, out[k])}
  <1>1. CASE out = <<>>
    BY <1>1
  <1>2. CASE out = <<CutNote>>
    <2>1. notes \in SUBSET (1 .. 1) /\ out[1] = CutNote
      BY <1>2
    <2> HIDE DEF notes
    <2>2. ASSUME notes # {} PROVE Max(notes) \in notes
      <3>1. 1 \in Nat
        OBVIOUS
      <3> QED
        BY <2>1, <2>2, <3>1, MaxType, Zenon
    <2> QED
      BY <2>1, <2>2 DEF notes
  <1> QED
    BY <1>1, <1>2

(* A tick keeps it: the channel that leaves the pattern cuts the note.     *)
LEMMA TickPlaced ==
  ASSUME DocumentsInOrder, SeqsInv, NotesPlaced, Tick
  PROVE  NotesPlaced'
  <1> SUFFICES ASSUME NEW c \in Channels, sounding'[c] = "note" PROVE NoteOf(c)'
    BY DEF NotesPlaced
  <1> DEFINE track == Track(c)
             now == seqs[c].now
  <1>0. modified \/ c \notin held
    <2> SUFFICES ASSUME ~modified, c \in held PROVE FALSE
      OBVIOUS
    <2> DEFINE r == NextTick(document, c, DocEdited(c))
    <2>1. sounding'[c] = SoundAfter(c, r)
      BY Zenon DEF Tick
    <2>2. r.out = <<>> \/ r.out = <<CutNote>>
      <3>1. document \in Documents /\ seqs[c].next # None
        BY DEF Tick, SeqsInv, SeqsOk, Playing
      <3>2. SeqHeld(document.tracks[c], DocEdited(c))
        BY <3>1, DocEditedAhead DEF SeqIs, Track
      <3> QED
        BY <3>1, <3>2, HeldTick
    <2>3. sounding[c] # "note"
      BY DEF NotesPlaced, NoteOf
    <2> HIDE DEF r
    <2> QED
      BY <2>1, <2>2, <2>3, CutIsLast DEF SoundAfter
  <1>1. PICK p, looped : TickOf(c, p, looped)
    BY <1>0, TicksAre
  <1> DEFINE out == played'[c]
             notes == {k \in DOMAIN out : HasNote(track, out[k])}
  <1>2. /\ document \in Documents /\ document' = document /\ ~modified' /\ seqs[c].next # None
        /\ Track(c)' = track /\ c \notin held'
    BY <1>0 DEF Tick, SeqsInv, SeqsOk, Playing, Track
  <1>3. track \in Seq(Block) /\ TrackInOrder(track)
    BY <1>2, TracksAre DEF Track
  <1>4. /\ RoundInv(track, now, p) /\ Stays(DocEdited(c).next, p)
        /\ out = WithEndCut(track, p, looped)
        /\ ~looped => seqs'[c].now = now + 1 /\ seqs'[c].next = p.it
        /\ times'[c] = now /\ now \in Nat
    BY <1>1 DEF TickOf
  <1>5. sounding'[c] = IF notes = {} THEN sounding[c]
                       ELSE IF out[Max(notes)] = CutNote THEN "silent"
                       ELSE IF looped THEN "looped" ELSE "note"
    BY <1>1 DEF TickOf, SoundAfter
  <1>6. p.out \in Seq(Outs(track)) /\ p.it \in Iterators
    BY <1>4 DEF RoundInv
  <1> HIDE DEF track, now, out
  <1>7. /\ out \in Seq(Outs(track))
        /\ \A x : x # CutNote => ((\E k \in DOMAIN out : out[k] = x) <=>
                                    \E k \in DOMAIN p.out : p.out[k] = x)
        /\ p.ended \/ looped => \E k \in DOMAIN out : HasNote(track, out[k])
    <2>1. CutAtEnd(track, p, looped, out)
      BY <1>4, <1>6, EndCutIs
    <2> QED
      BY <2>1 DEF CutAtEnd
  <1>8. ASSUME ~looped, ~PastEnd(track, p.it), PatternBegin(track, p.it) <= now PROVE NoteOf(c)'
    <2>1. InTrack(track, p.it) /\ p.it # None
      <3>1. Ahead(track, p.it, now)
        BY <1>4 DEF RoundInv
      <3> QED
        BY <1>6, <1>8, <3>1, IteratorsAreSome DEF Ahead
    <2> QED
      BY <1>2, <1>4, <1>8, <2>1 DEF NoteOf
  <1>9. CASE notes # {}
    <2>1. out[Max(notes)] # CutNote /\ ~looped
      BY <1>5, <1>9
    <2>2. Max(notes) \in DOMAIN out
      <3>1. Len(out) \in Nat /\ DOMAIN out = 1 .. Len(out)
        BY <1>7
      <3>2. Max(notes) \in notes
        <4> DEFINE n == Len(out)
        <4>1. n \in Nat /\ notes \in SUBSET (1 .. n)
          BY <3>1
        <4> HIDE DEF n, notes
        <4> QED
          BY <1>9, <4>1, MaxType
      <3> QED
        BY <3>2
    <2>3. HasPlayed(p.out)
      BY <1>7, <2>1, <2>2 DEF HasPlayed
    <2> QED
      BY <1>4, <1>8, <2>1, <2>3 DEF RoundInv
  <1>10. CASE notes = {}
    <2>1. sounding[c] = "note"
      BY <1>5, <1>10
    <2>2. NoteOf(c)
      BY <2>1 DEF NotesPlaced
    <2>3. DocEdited(c) = seqs[c]
      BY <2>2 DEF NoteOf, DocEdited
    <2>4. ~looped /\ ~p.ended
      <3>1. p.ended \in BOOLEAN
        BY <1>4 DEF RoundInv
      <3>2. ~(\E k \in DOMAIN out : HasNote(track, out[k]))
        BY <1>10
      <3> QED
        BY <1>7, <3>1, <3>2
    <2> DEFINE first == seqs[c].next
    <2>5. p.it.block = first.block /\ p.it.loop = first.loop
      BY <1>4, <2>3, <2>4 DEF Stays
    <2>6. /\ InTrack(track, first) /\ PatternBegin(track, first) <= times[c]
          /\ times[c] \in Nat /\ now = times[c] + 1
      BY <2>2 DEF NoteOf, track, now
    <2> HIDE DEF first
    <2>7. PatternBegin(track, p.it) = PatternBegin(track, first)
          /\ PatternBegin(track, first) \in Nat
      BY <1>3, <2>5, <2>6, TimeInPattern DEF PatternBegin
    <2>8. ~PastEnd(track, p.it)
      BY <2>5, <2>6 DEF PastEnd, HasPattern, InTrack
    <2> QED
      BY <1>8, <2>4, <2>6, <2>7, <2>8
  <1> QED
    BY <1>9, <1>10

(* Other steps stop the notes, follow them no further, or leave them.      *)
LEMMA StepPlaced ==
  ASSUME DocumentsInOrder, SeqsInv, NotesPlaced, [Next]_vars
  PROVE  NotesPlaced'
  <1>1. ASSUME \A c \in Channels : sounding'[c] # "note" PROVE NotesPlaced'
    BY <1>1 DEF NotesPlaced
  <1>2. CASE (\E t \in 0 .. MaxTick : PlayFrom(t)) \/ StopPlayback \/ Edit
    <2>1. ASSUME NEW c \in Channels PROVE sounding'[c] # "note"
      BY <1>2 DEF PlayFrom, StopPlayback, Edit
    <2> QED
      BY <1>1, <2>1
  <1>3. CASE Tick
    BY <1>3, TickPlaced
  <1>4. CASE RunDriver
    <2> SUFFICES ASSUME NEW c \in Channels, sounding'[c] = "note" PROVE NoteOf(c)'
      BY DEF NotesPlaced
    <2>1. NoteOf(c)
      BY <1>4 DEF RunDriver, NotesPlaced
    <2>2. /\ seqs'[c] = seqs[c] /\ ~modified' /\ times' = times /\ Track(c)' = Track(c)
          /\ held' = held
      BY <1>4, <2>1 DEF RunDriver, DocEdited, NoteOf, Track
    <2> QED
      BY <2>1, <2>2 DEF NoteOf
  <1>5. CASE UNCHANGED vars
    <2>1. \A c \in Channels : Track(c)' = Track(c)
      BY <1>5 DEF vars, Track
    <2> QED
      BY <1>5, <2>1 DEF vars, NotesPlaced, NoteOf
  <1> QED
    BY <1>2, <1>3, <1>4, <1>5 DEF Next

(* In every state of the sequencer, what is due lies ahead of it.          *)
LEMMA StepAhead ==
  ASSUME DocumentsInOrder, SeqsInv, [Next]_vars
  PROVE  SeqsInv'
  <1>1. ASSUME NEW t \in 0 .. MaxTick, PlayFrom(t) PROVE SeqsInv'
    BY <1>1, PlayFromAhead
  <1>2. CASE StopPlayback \/ Edit
    BY <1>2, StopOrEditAhead
  <1>3. CASE Tick
    BY <1>3, TickAhead
  <1>4. CASE RunDriver
    BY <1>4, RunDriverAhead
  <1>5. CASE UNCHANGED vars
    <2>1. document' \in Documents /\ document'.tracks = document.tracks
          /\ UNCHANGED <<modified, seqs, held>>
      BY <1>5 DEF vars, SeqsInv, SeqsOk
    <2> QED
      BY <2>1, SameTracksAhead
  <1> QED
    BY <1>1, <1>2, <1>3, <1>4, <1>5 DEF Next

(* A sequencer that is stopped has nothing ahead.                          *)
LEMMA InitAhead == Init => SeqsInv
  <1> SUFFICES ASSUME Init PROVE SeqsInv
    OBVIOUS
  <1>1. \A c \in Channels : seqs[c].now = 0 /\ seqs[c].next = None
    BY DEF Init, Stopped
  <1>2. document \in Documents /\ modified = FALSE
    BY DEF Init
  <1>3. SeqsOk
    BY <1>1, <1>2 DEF SeqsOk
  <1>4. modified \in BOOLEAN
    BY <1>2
  <1>5. SeqsAhead
    BY <1>1 DEF SeqsAhead
  <1> QED
    BY <1>3, <1>4, <1>5 DEF SeqsInv

(* The channels of the chip keep to it too.                                *)
LEMMA ChipStepAhead ==
  ASSUME DocumentsInOrder, SeqsInv, [ChipNext]_all_vars
  PROVE  SeqsInv'
  <1>1. document \in Documents
    BY DEF SeqsInv, SeqsOk
  <1>2. ASSUME NEW t \in 0 .. MaxTick, ChipPlayFrom(t) PROVE SeqsInv'
    BY <1>2, PlayFromAhead DEF ChipPlayFrom
  <1>3. CASE ChipStop \/ EditPatterns
    BY <1>3, StopOrEditAhead DEF ChipStop, EditPatterns
  <1>4. CASE EditSamples \/ EditInstruments \/ EditLoopByte
    <2>1. PICK doc \in Documents, flagged \in BOOLEAN : EditSynth(doc, flagged)
      BY <1>4 DEF EditSamples, EditInstruments, EditLoopByte
    <2>2. document' \in Documents /\ document'.tracks = document.tracks
          /\ UNCHANGED <<modified, seqs, held>>
      BY <2>1 DEF EditSynth
    <2> QED
      BY <2>2, SameTracksAhead
  <1>5. CASE TickSequencer
    BY <1>5, TickAhead DEF TickSequencer
  <1>6. CASE RunTimer
    BY <1>6, RunDriverAhead DEF RunTimer
  <1>7. CASE EndCommands \/ LoadNextSample \/ EndLoad \/ WriteNextReg \/ EndOfTick
             \/ UNCHANGED all_vars
    <2>1. UNCHANGED vars
      BY <1>7 DEF EndCommands, LoadNextSample, EndLoad, WriteNextReg, EndOfTick, all_vars
    <2>2. document' \in Documents /\ document'.tracks = document.tracks
          /\ UNCHANGED <<modified, seqs, held>>
      BY <1>1, <2>1 DEF vars
    <2> QED
      BY <2>2, SameTracksAhead
  <1> QED
    BY <1>2, <1>3, <1>4, <1>5, <1>6, <1>7 DEF ChipNext

(* No event that a channel has come to is in the past, and no two patterns *)
(* of it end at one tick: the assertions of ChannelSequencer::next_tick()  *)
(* hold in a chip, after any edits, seeks and loops of the song, wherever  *)
(* playback starts; but the first of them not in a channel that has        *)
(* started between an early event and its tick, until the song loops or    *)
(* the patterns are edited.                                                *)
THEOREM NothingIsPast ==
  ASSUME DocumentsInOrder
  PROVE  ChipSpec => []OrderingHolds
  <1>1. InitChip => SeqsInv
    BY InitAhead DEF InitChip
  <1>2. SeqsInv /\ [ChipNext]_all_vars => SeqsInv'
    BY ChipStepAhead
  <1>3. SeqsInv => OrderingHolds
    BY AheadInOrder
  <1> QED
    BY <1>1, <1>2, <1>3, PTL DEF ChipSpec

(* A note does not sound on in the gap behind its pattern, ...             *)
THEOREM GapsStaySilent ==
  ASSUME DocumentsInOrder
  PROVE  Spec => []GapsAreSilent
  <1> DEFINE Inv == SeqsInv /\ NotesPlaced
  <1>1. Init => Inv
    BY InitAhead DEF Init, NotesPlaced
  <1>2. Inv /\ [Next]_vars => Inv'
    BY StepAhead, StepPlaced
  <1>3. Inv => GapsAreSilent
    <2> SUFFICES ASSUME SeqsInv, NotesPlaced, NEW c \in Channels, sounding[c] = "note"
                 PROVE  \E k \in DOMAIN Track(c) :
                          /\ Track(c)[k].begin_tick <= times[c]
                          /\ times[c] < EndTime(Track(c)[k])
      BY DEF GapsAreSilent
    <2> DEFINE track == Track(c)
               it == seqs[c].next
    <2>1. NoteOf(c) /\ document \in Documents
      BY DEF NotesPlaced, SeqsInv, SeqsOk
    <2>2. track \in Seq(Block) /\ TrackInOrder(track)
      BY <2>1, TracksAre DEF Track
    <2>3. /\ times[c] \in Nat /\ seqs[c].now = times[c] + 1
          /\ InTrack(track, it) /\ PatternBegin(track, it) <= times[c]
      BY <2>1 DEF NoteOf
    <2>4. seqs[c].now <= EventTime(track, it)
      <3>1. Ahead(track, it, seqs[c].now)
        BY <2>1 DEF NoteOf, SeqsInv, SeqsAhead, SeqIs, SeqAhead
      <3> QED
        BY <2>3, <3>1 DEF Ahead, PastEnd, HasPattern, InTrack
    <2> HIDE DEF track, it
    <2>5. /\ PatternBegin(track, it) \in Nat /\ PatternEnd(track, it) \in Nat
          /\ EventTime(track, it) \in Nat /\ EventTime(track, it) <= PatternEnd(track, it)
          /\ track[it.block].begin_tick <= PatternBegin(track, it)
          /\ PatternEnd(track, it) <= EndTime(track[it.block])
      BY <2>2, <2>3, TimeInPattern
    <2>6. it.block \in DOMAIN track /\ track[it.block] \in Block
      BY <2>2, <2>3 DEF InTrack
    <2>7. track[it.block].begin_tick \in Nat /\ EndTime(track[it.block]) \in Nat
      <3>1. 0 \in Nat
        OBVIOUS
      <3> QED
        BY <2>6, <3>1, BlockFields, LoopsFollow
    <2>8. track[it.block].begin_tick <= times[c] /\ times[c] < EndTime(track[it.block])
      BY <2>3, <2>4, <2>5, <2>7
    <2> QED
      BY <2>6, <2>8 DEF track
  <1> QED
    BY <1>1, <1>2, <1>3, PTL DEF Spec

(* ... and what is written at a tick is what is played at it, each event   *)
(* once: no loop of the song, seek or edit makes a channel skip an event,  *)
(* or play one twice.                                                      *)
THEOREM WhatIsWrittenPlays ==
  ASSUME DocumentsInOrder, NoDelays
  PROVE  Spec => PlaysWhatIsWritten
  <1> DEFINE Plays(c) ==
        LET events == {k \in DOMAIN played'[c] : played'[c][k] # CutNote}
        IN  /\ {played'[c][k] : k \in events} = Written(Track(c), seqs[c].now)
            /\ \A j, k \in events : played'[c][j] = played'[c][k] => j = k
  <1>1. Init => SeqsInv
    BY InitAhead
  <1>2. SeqsInv /\ [Next]_vars => SeqsInv'
    BY StepAhead
  <1>3. ASSUME SeqsInv, Tick, NEW c \in Channels PROVE Plays(c)
    <2> DEFINE track == Track(c)
               now == seqs[c].now
               out == played'[c]
    <2>1. PICK p, looped : TickOf(c, p, looped)
      <3>1. modified \/ c \notin held
        BY <1>3 DEF SeqsInv, SeqsAhead, SeqIs, Tick, Playing
      <3> QED
        BY <1>3, <3>1, TicksAre
    <2>2. document \in Documents /\ now \in Nat
      BY <1>3 DEF SeqsInv, SeqsOk
    <2>3. track \in Seq(Block) /\ TrackInOrder(track)
      BY <2>2, TracksAre DEF Track
    <2>4. /\ RoundInv(track, now, p) /\ p.done /\ Swept(track, now, p)
          /\ out = WithEndCut(track, p, looped)
      BY <2>1 DEF TickOf
    <2>5. p.out \in Seq(Outs(track))
      BY <2>4 DEF RoundInv
    <2>6. Written(track, now) = {x \in Places(track) : EventTime(track, AtPlace(x)) = now}
      BY <2>2, WrittenAre
    <2> HIDE DEF track, now, out
    <2>7. /\ \A x : x \in Places(track) /\ EventTime(track, AtPlace(x)) = now <=>
                      x # CutNote /\ \E k \in DOMAIN p.out : p.out[k] = x
          /\ \A i, j \in DOMAIN p.out : p.out[i] = p.out[j] /\ p.out[i] # CutNote => i = j
      BY <2>2, <2>3, <2>4, RoundsPlayDue
    <2>8. /\ \A x : x # CutNote => ((\E k \in DOMAIN out : out[k] = x) <=>
                                      \E k \in DOMAIN p.out : p.out[k] = x)
          /\ \A i, j \in DOMAIN out : out[i] = out[j] /\ out[i] # CutNote => i = j
      <3>1. CutAtEnd(track, p, looped, out)
        BY <2>4, <2>5, EndCutIs
      <3> QED
        BY <2>7, <3>1 DEF CutAtEnd
    <2>9. \A x : x \in Written(track, now) <=> x # CutNote /\ \E k \in DOMAIN out : out[k] = x
      BY <2>6, <2>7, <2>8
    <2> DEFINE events == {k \in DOMAIN out : out[k] # CutNote}
    <2>10. {out[k] : k \in events} = Written(track, now)
      BY <2>9
    <2>11. \A j, k \in events : out[j] = out[k] => j = k
      BY <2>8
    <2> QED
      BY <2>10, <2>11 DEF track, now, out
  <1>4. SeqsInv /\ [Next]_vars => [Tick => \A c \in Channels : Plays(c)]_vars
    BY <1>3
  <1> QED
    BY <1>1, <1>2, <1>4, PTL DEF Spec, PlaysWhatIsWritten

-----------------------------------------------------------------------------
(* Register writes: what the events of a tick make of a channel's driver,  *)
(* which value each register ends up with once a sequence of writes is     *)
(* made, and what the chip's polls of its key-on and key-off registers do  *)
(* to the voices.                                                          *)

(* Sequences of up to two elements.                                       *)
LEMMA ShortSequences ==
  ASSUME NEW S, NEW x \in S, NEW y \in S
  PROVE  /\ <<>> \in Seq(S) /\ <<x>> \in Seq(S)
         /\ <<x>> # <<>> /\ Head(<<x>>) = x /\ Tail(<<x>>) = <<>>
         /\ <<x, y>> = <<x>> \o <<y>>
         /\ <<x>> \o <<>> = <<x>>
  <1>1. <<>> \in Seq(S)
    OBVIOUS
  <1>2. <<x>> \in Seq(S)
    OBVIOUS
  <1>3. <<x>> # <<>> /\ Head(<<x>>) = x
    OBVIOUS
  <1>4. Tail(<<x>>) = <<>>
    OBVIOUS
  <1>5. <<x, y>> = <<x>> \o <<y>>
    <2> DEFINE l == <<x, y>>
               r == <<x>> \o <<y>>
    <2>1. r \in Seq(S) /\ Len(r) = 2
      BY <1>2
    <2>2. r[1] = x /\ r[2] = y
      OBVIOUS
    <2>3. l \in Seq(S) /\ Len(l) = 2 /\ l[1] = x /\ l[2] = y
      OBVIOUS
    <2> HIDE DEF l, r
    <2>4. l = r
      BY <2>1, <2>2, <2>3
    <2> QED
      BY <2>4 DEF l, r
  <1>6. <<x>> \o <<>> = <<x>>
    OBVIOUS
  <1> QED
    BY <1>1, <1>2, <1>3, <1>4, <1>5, <1>6

-----------------------------------------------------------------------------
(* Volumes a channel can have.                                             *)
Volumes == {InitialVolume} \cup {row.volume : row \in Rows}

(* The writes there can be.                                                *)
Writes ==
  [register : {"master", "dir"}, channel : {None}, value : {TRUE}]
    \cup [register : {"kon", "koff"}, channel : {None}, value : SUBSET Channels]
    \cup [register : {"v_vol"}, channel : Channels, value : Volumes]
    \cup [register : {"v_srcn"}, channel : Channels, value : SampleIndex]

VoiceRegisters == {"v_vol", "v_srcn"}

(* A write to register r of channel c, or of the chip (None).              *)
IsWrite(w, r, c) == w.register = r /\ w.channel = c

(* Register r of channel c holds x after the writes ws, if it holds old    *)
(* before them.                                                            *)
Finally(ws, r, c, old, x) ==
  \/ x = old /\ \A k \in DOMAIN ws : ~IsWrite(ws[k], r, c)
  \/ \E k \in DOMAIN ws :
       /\ IsWrite(ws[k], r, c) /\ ws[k].value = x
       /\ \A j \in DOMAIN ws : j > k => ~IsWrite(ws[j], r, c)

(* Writes of b follow those of a.                                          *)
LEMMA FinallyConcat ==
  ASSUME NEW a \in Seq(Writes), NEW b \in Seq(Writes), NEW r, NEW c, NEW x, NEW y, NEW z,
         Finally(a, r, c, x, y), Finally(b, r, c, y, z)
  PROVE  Finally(a \o b, r, c, x, z)
  <1> DEFINE ab == a \o b
  <1>1. /\ ab \in Seq(Writes) /\ DOMAIN ab = 1 .. Len(a) + Len(b)
        /\ \A k \in DOMAIN a : k \in DOMAIN ab /\ ab[k] = a[k]
        /\ \A k \in DOMAIN b : k + Len(a) \in DOMAIN ab /\ ab[k + Len(a)] = b[k]
        /\ \A k \in DOMAIN ab : k > Len(a) => k - Len(a) \in DOMAIN b /\ ab[k] = b[k - Len(a)]
        /\ \A k \in DOMAIN ab : k <= Len(a) => k \in DOMAIN a
        /\ DOMAIN a = 1 .. Len(a) /\ DOMAIN b = 1 .. Len(b) /\ Len(a) \in Nat /\ Len(b) \in Nat
    OBVIOUS
  <1> HIDE DEF ab
  <1>2. CASE y = z /\ \A k \in DOMAIN b : ~IsWrite(b[k], r, c)
    <2>1. CASE x = y /\ \A k \in DOMAIN a : ~IsWrite(a[k], r, c)
      <3>1. \A k \in DOMAIN ab : ~IsWrite(ab[k], r, c)
        BY <1>1, <1>2, <2>1
      <3> QED
        BY <1>2, <2>1, <3>1 DEF Finally, ab
    <2>2. ASSUME NEW k \in DOMAIN a, IsWrite(a[k], r, c), a[k].value = y,
                 \A j \in DOMAIN a : j > k => ~IsWrite(a[j], r, c)
          PROVE  Finally(ab, r, c, x, z)
      <3>1. k \in DOMAIN ab /\ IsWrite(ab[k], r, c) /\ ab[k].value = z
        BY <1>1, <1>2, <2>2
      <3>2. ASSUME NEW j \in DOMAIN ab, j > k PROVE ~IsWrite(ab[j], r, c)
        <4>1. CASE j <= Len(a)
          BY <1>1, <2>2, <3>2, <4>1
        <4>2. CASE j > Len(a)
          BY <1>1, <1>2, <3>2, <4>2
        <4> QED
          BY <1>1, <4>1, <4>2
      <3> QED
        BY <3>1, <3>2 DEF Finally
    <2> QED
      BY <2>1, <2>2 DEF Finally, ab
  <1>3. ASSUME NEW k \in DOMAIN b, IsWrite(b[k], r, c), b[k].value = z,
               \A j \in DOMAIN b : j > k => ~IsWrite(b[j], r, c)
        PROVE  Finally(ab, r, c, x, z)
    <2> DEFINE i == k + Len(a)
    <2>1. i \in DOMAIN ab /\ ab[i] = b[k] /\ i - Len(a) = k
      BY <1>1
    <2>2. ASSUME NEW j \in DOMAIN ab, j > i PROVE ~IsWrite(ab[j], r, c)
      <3>1. j > Len(a) /\ j - Len(a) > k
        BY <1>1, <2>2
      <3> QED
        BY <1>1, <1>3, <3>1
    <2> HIDE DEF i
    <2> QED
      BY <1>3, <2>1, <2>2 DEF Finally
  <1> QED
    BY <1>2, <1>3 DEF Finally, ab

(* The first write is made.                                                *)
LEMMA FinallyTail ==
  ASSUME NEW ws \in Seq(Writes), ws # <<>>, NEW r, NEW c, NEW old, NEW x,
         Finally(ws, r, c, old, x)
  PROVE  Finally(Tail(ws), r, c, IF IsWrite(Head(ws), r, c) THEN Head(ws).value ELSE old, x)
  <1> DEFINE t == Tail(ws)
  <1>1. /\ DOMAIN ws = 1 .. Len(ws) /\ DOMAIN t = 1 .. Len(ws) - 1 /\ Len(ws) \in Nat \ {0}
        /\ Head(ws) = ws[1]
        /\ \A k \in DOMAIN t : k + 1 \in DOMAIN ws /\ t[k] = ws[k + 1]
        /\ \A k \in DOMAIN ws : k # 1 => k - 1 \in DOMAIN t /\ t[k - 1] = ws[k]
    OBVIOUS
  <1> HIDE DEF t
  <1>2. CASE x = old /\ \A k \in DOMAIN ws : ~IsWrite(ws[k], r, c)
    <2>1. ~IsWrite(Head(ws), r, c) /\ \A k \in DOMAIN t : ~IsWrite(t[k], r, c)
      BY <1>1, <1>2
    <2> QED
      BY <1>2, <2>1 DEF Finally, t
  <1>3. ASSUME NEW k \in DOMAIN ws, IsWrite(ws[k], r, c), ws[k].value = x,
               \A j \in DOMAIN ws : j > k => ~IsWrite(ws[j], r, c)
        PROVE  Finally(t, r, c, IF IsWrite(Head(ws), r, c) THEN Head(ws).value ELSE old, x)
    <2>1. CASE k = 1
      <3>1. \A j \in DOMAIN t : ~IsWrite(t[j], r, c)
        BY <1>1, <1>3, <2>1
      <3> QED
        BY <1>1, <1>3, <2>1, <3>1 DEF Finally
    <2>2. CASE k # 1
      <3> DEFINE i == k - 1
      <3>1. i \in DOMAIN t /\ t[i] = ws[k]
        BY <1>1, <2>2
      <3>2. \A j \in DOMAIN t : j > i => ~IsWrite(t[j], r, c)
        BY <1>1, <1>3
      <3> HIDE DEF i
      <3> QED
        BY <1>3, <3>1, <3>2 DEF Finally
    <2> QED
      BY <2>1, <2>2
  <1> QED
    BY <1>2, <1>3 DEF Finally, t

(* Writes to other registers.                                              *)
LEMMA FinallyOther ==
  ASSUME NEW ws, NEW r, NEW c, NEW x, \A k \in DOMAIN ws : ~IsWrite(ws[k], r, c)
  PROVE  Finally(ws, r, c, x, x)
  BY DEF Finally

-----------------------------------------------------------------------------
(* f concatenates the first sequences, as FlattenSeq() does.               *)
Flattened(f, n, seqs_) ==
  f = [i \in 1 .. n |-> IF i = 1 THEN seqs_[i] ELSE f[i - 1] \o seqs_[i]]

(* The function by which FlattenSeq is defined exists.                     *)
LEMMA FlattenedExists ==
  ASSUME NEW ss, NEW n \in Nat
  PROVE  \E f : Flattened(f, n, ss)
  <1> DEFINE S == {m \in 0 .. n : \E f : Flattened(f, m, ss)}
             step(i, x) == IF i = 1 THEN ss[i] ELSE x \o ss[i]
  <1>1. 0 \in S
    <2> DEFINE f == [i \in 1 .. 0 |-> 0]
    <2>1. Flattened(f, 0, ss)
      BY DEF Flattened
    <2> QED
      BY <2>1
  <1>2. ASSUME NEW m \in 1 .. n, m - 1 \in S PROVE m \in S
    <2>1. PICK f : Flattened(f, m - 1, ss)
      BY <1>2
    <2>2. f = [i \in 1 .. m - 1 |-> step(i, f[i - 1])]
      BY <2>1 DEF Flattened
    <2> DEFINE g == [i \in 1 .. m |-> IF i = m THEN step(m, f[m - 1]) ELSE f[i]]
               h == [i \in 1 .. m |-> step(i, g[i - 1])]
    <2>3. ASSUME NEW i \in 1 .. m PROVE g[i] = h[i]
      <3>1. CASE i = 1
        <4>1. step(i, g[i - 1]) = ss[1] /\ step(i, f[i - 1]) = ss[1]
          BY <3>1
        <4> HIDE DEF step
        <4>2. i # m => i \in 1 .. m - 1 /\ f[i] = step(i, f[i - 1])
          BY <2>2, <3>1
        <4> QED
          BY <3>1, <4>1, <4>2
      <3>2. CASE i # 1
        <4> HIDE DEF step
        <4>1. i - 1 \in 1 .. m /\ i - 1 # m
          BY <3>2
        <4>2. g[i - 1] = f[i - 1]
          BY <4>1
        <4>3. CASE i = m
          BY <4>2, <4>3
        <4>4. CASE i # m
          <5>1. i \in 1 .. m - 1
            BY <4>4
          <5>2. f[i] = step(i, f[i - 1])
            BY <2>2, <5>1
          <5> QED
            BY <4>2, <4>4, <5>2
        <4> QED
          BY <4>3, <4>4
      <3> QED
        BY <3>1, <3>2
    <2>4. g = h
      BY <2>3
    <2>5. Flattened(g, m, ss)
      BY <2>4 DEF Flattened
    <2> QED
      BY <2>5
  <1>3. \A m \in 0 .. n : m \in S
    <2> HIDE DEF S
    <2> QED
      BY <1>1, <1>2, CountUp
  <1> QED
    BY <1>3

(* FlattenSeq appends one sequence after the other.                        *)
LEMMA FlattenSeqSteps ==
  ASSUME NEW ss, Len(ss) \in Nat \ {0}
  PROVE  \E f : /\ FlattenSeq(ss) = f[Len(ss)]
                /\ f[1] = ss[1]
                /\ \A i \in 2 .. Len(ss) : f[i] = f[i - 1] \o ss[i]
  <1> DEFINE n == Len(ss)
             f == CHOOSE f : Flattened(f, n, ss)
  <1>1. FlattenSeq(ss) = f[n]
    BY DEF FlattenSeq, Flattened
  <1>2. Flattened(f, n, ss)
    <2>1. n \in Nat
      OBVIOUS
    <2> HIDE DEF n
    <2> QED
      BY <2>1, FlattenedExists
  <1> HIDE DEF f
  <1>3. f[1] = ss[1]
    BY <1>2 DEF Flattened
  <1>4. ASSUME NEW i \in 2 .. n PROVE f[i] = f[i - 1] \o ss[i]
    <2>1. i \in 1 .. n /\ i # 1
      OBVIOUS
    <2> HIDE DEF n
    <2> QED
      BY <1>2, <2>1 DEF Flattened
  <1> QED
    BY <1>1, <1>3, <1>4

(* The channels, each once.                                                *)
LEMMA ChannelOrder ==
  LET order == SetToSeq(Channels)
      n == Cardinality(Channels)
  IN  /\ n \in Nat /\ order \in [1 .. n -> Channels]
      /\ \A i, j \in 1 .. n : order[i] = order[j] => i = j
      /\ \A c \in Channels : \E i \in 1 .. n : order[i] = c
  <1> DEFINE order == SetToSeq(Channels)
             n == Cardinality(Channels)
  <1>1. n \in Nat /\ ExistsBijection(1 .. n, Channels)
    BY ChannelsAssumption, FS_CardinalityType
  <1>2. \E f \in [1 .. n -> Channels] : IsInjective(f)
    BY <1>1 DEF ExistsBijection, Bijection, Injection
  <1>3. order \in [1 .. n -> Channels] /\ IsInjective(order)
    BY <1>2 DEF SetToSeq
  <1>4. order \in Injection(1 .. n, Channels)
    BY <1>3 DEF Injection
  <1>5. Cardinality(1 .. n) = n
    <2>1. IF 1 > n THEN Cardinality(1 .. n) = 0 ELSE Cardinality(1 .. n) = n - 1 + 1
      BY <1>1, FS_Interval, SMTT(30)
    <2> QED
      BY <1>1, <2>1
  <1> HIDE DEF order
  <1>6. order \in Surjection(1 .. n, Channels)
    BY <1>4, <1>5, ChannelsAssumption, FS_Injection
  <1> QED
    BY <1>1, <1>3, <1>6 DEF IsInjective, Surjection, order

(* The writes to the registers of a voice.                                 *)
VoiceWrites(c) == {w \in Writes : w.register \in VoiceRegisters /\ w.channel = c}
AllVoiceWrites == {w \in Writes : w.register \in VoiceRegisters}

(* The writes of the channels, one after the other, leave in the registers *)
(* of each what its own writes leave there.                                *)
LEMMA InChannelsWrites ==
  ASSUME NEW w, DOMAIN w = Channels, \A c \in Channels : w[c] \in Seq(VoiceWrites(c))
  PROVE  /\ InChannels(w) \in Seq(AllVoiceWrites)
         /\ \A c \in Channels : \A r, x, y :
              Finally(w[c], r, c, x, y) => Finally(InChannels(w), r, c, x, y)
  <1> DEFINE order == SetToSeq(Channels)
             n == Cardinality(Channels)
             ss == [k \in DOMAIN order |-> w[order[k]]]
  <1>1. /\ n \in Nat /\ order \in [1 .. n -> Channels]
        /\ \A i, j \in 1 .. n : order[i] = order[j] => i = j
        /\ \A c \in Channels : \E i \in 1 .. n : order[i] = c
    BY ChannelOrder
  <1>2. InChannels(w) = FlattenSeq(ss)
    BY DEF InChannels
  <1>3. \A c \in Channels : VoiceWrites(c) \subseteq AllVoiceWrites
    BY DEF VoiceWrites, AllVoiceWrites
  <1>4. AllVoiceWrites \subseteq Writes
    BY DEF AllVoiceWrites
  <1> HIDE DEF order, n
  <1>5. ss \in [1 .. n -> Seq(AllVoiceWrites)] /\ Len(ss) = n
        /\ \A i \in 1 .. n : ss[i] = w[order[i]]
    <2>1. \A c \in Channels : w[c] \in Seq(AllVoiceWrites)
      BY <1>3
    <2>2. ss \in [1 .. n -> Seq(AllVoiceWrites)]
      BY <1>1, <2>1
    <2> QED
      BY <1>1, <2>2
  <1> HIDE DEF ss
  <1>6. CASE n = 0
    <2>1. ss = <<>>
      BY <1>5, <1>6
    <2>2. FlattenSeq(ss) = <<>>
      BY <2>1 DEF FlattenSeq
    <2> QED
      BY <1>1, <1>2, <1>6, <2>2
  <1>7. CASE n # 0
    <2>1. PICK f : /\ FlattenSeq(ss) = f[n] /\ f[1] = ss[1]
                   /\ \A i \in 2 .. n : f[i] = f[i - 1] \o ss[i]
      <3>1. Len(ss) \in Nat \ {0}
        BY <1>1, <1>5, <1>7
      <3>2. \E f : /\ FlattenSeq(ss) = f[Len(ss)] /\ f[1] = ss[1]
                   /\ \A i \in 2 .. Len(ss) : f[i] = f[i - 1] \o ss[i]
        BY <3>1, FlattenSeqSteps
      <3>3. Len(ss) = n
        BY <1>5
      <3> QED
        BY <3>2, <3>3, Zenon
    <2>2. f[n] \in Seq(AllVoiceWrites)
      <3> DEFINE S == {i \in 0 .. n : i = 0 \/ f[i] \in Seq(AllVoiceWrites)}
      <3>1. 0 \in S
        BY <1>1
      <3>2. ASSUME NEW i \in 1 .. n, i - 1 \in S PROVE i \in S
        <4>1. CASE i = 1
          <5>1. f[i] = ss[i] /\ ss[i] \in Seq(AllVoiceWrites)
            BY <1>5, <2>1, <4>1
          <5> QED
            BY <5>1
        <4>2. CASE i # 1
          <5>1. i - 1 # 0 /\ i \in 2 .. n
            BY <1>1, <3>2, <4>2
          <5>2. f[i - 1] \in Seq(AllVoiceWrites) /\ ss[i] \in Seq(AllVoiceWrites)
            BY <1>5, <3>2, <5>1
          <5>3. f[i] = f[i - 1] \o ss[i]
            BY <2>1, <5>1
          <5>4. f[i] \in Seq(AllVoiceWrites)
            BY <5>2, <5>3
          <5> QED
            BY <5>4
        <4> QED
          BY <4>1, <4>2
      <3>3. \A i \in 0 .. n : i \in S
        <4> HIDE DEF S
        <4> QED
          BY <1>1, <3>1, <3>2, CountUp
      <3> QED
        BY <1>1, <1>7, <3>3
    <2>3. ASSUME NEW c \in Channels, NEW r, NEW x, NEW y, Finally(w[c], r, c, x, y)
          PROVE  Finally(f[n], r, c, x, y)
      <3> DEFINE met(i) == \E j \in 1 .. i : order[j] = c
                 end(i) == IF met(i) THEN y ELSE x
                 S == {i \in 0 .. n :
                         i = 0 \/ (f[i] \in Seq(Writes) /\ Finally(f[i], r, c, x, end(i)))}
      <3>1. ASSUME NEW i \in 1 .. n
            PROVE  /\ ss[i] \in Seq(Writes)
                   /\ Finally(ss[i], r, c, end(i - 1), end(i))
        <4>1. ss[i] \in Seq(Writes)
          BY <1>4, <1>5
        <4>2. CASE order[i] = c
          <5>1. met(i) /\ ~met(i - 1)
            <6>1. \A j \in 1 .. i - 1 : j \in 1 .. n /\ j # i
              BY <1>1
            <6> QED
              BY <1>1, <4>2, <6>1
          <5> QED
            BY <1>5, <2>3, <4>1, <4>2, <5>1
        <4>3. CASE order[i] # c
          <5>1. met(i) <=> met(i - 1)
            <6>1. \A j \in 1 .. i : j = i \/ j \in 1 .. i - 1
              OBVIOUS
            <6>2. \A j \in 1 .. i - 1 : j \in 1 .. i
              OBVIOUS
            <6> QED
              BY <4>3, <6>1, <6>2
          <5>2. w[order[i]] \in Seq(VoiceWrites(order[i]))
            BY <1>1
          <5>3. ASSUME NEW k \in DOMAIN ss[i] PROVE ~IsWrite(ss[i][k], r, c)
            <6>1. ss[i][k] \in VoiceWrites(order[i])
              BY <1>5, <5>2
            <6> QED
              BY <4>3, <6>1 DEF VoiceWrites, IsWrite
          <5>4. end(i - 1) = end(i)
            BY <5>1
          <5> HIDE DEF end, met
          <5> QED
            BY <4>1, <5>3, <5>4, FinallyOther
        <4> QED
          BY <4>2, <4>3
      <3>2. end(0) = x
        OBVIOUS
      <3>3. end(n) = y
        BY <1>1
      <3> HIDE DEF end
      <3>4. 0 \in S
        BY <1>1
      <3>5. ASSUME NEW i \in 1 .. n, i - 1 \in S PROVE i \in S
        <4>1. CASE i = 1
          <5>1. end(i - 1) = x
            BY <3>2, <4>1
          <5>2. f[i] = ss[i]
            BY <2>1, <4>1
          <5>3. ss[i] \in Seq(Writes) /\ Finally(ss[i], r, c, x, end(i))
            BY <3>1, <5>1
          <5> QED
            BY <5>2, <5>3
        <4>2. CASE i # 1
          <5>1. i - 1 # 0 /\ i \in 2 .. n
            BY <1>1, <3>5, <4>2
          <5>2. f[i - 1] \in Seq(Writes) /\ Finally(f[i - 1], r, c, x, end(i - 1))
            BY <3>5, <5>1
          <5>3. f[i] = f[i - 1] \o ss[i]
            BY <2>1, <5>1
          <5>4. Finally(f[i - 1] \o ss[i], r, c, x, end(i))
            BY <3>1, <5>2, FinallyConcat
          <5>5. f[i] \in Seq(Writes)
            BY <3>1, <5>2, <5>3
          <5>6. Finally(f[i], r, c, x, end(i))
            BY <5>3, <5>4
          <5> QED
            BY <5>5, <5>6
        <4> QED
          BY <4>1, <4>2
      <3>6. \A i \in 0 .. n : i \in S
        <4> HIDE DEF S
        <4> QED
          BY <1>1, <3>4, <3>5, CountUp
      <3> QED
        BY <1>1, <1>7, <3>3, <3>6
    <2> QED
      BY <1>2, <2>1, <2>2, <2>3
  <1> QED
    BY <1>6, <1>7

(* Numbers a driver may have for its instrument.                           *)
InstrOk(instr) == instr = None \/ \A doc \in Documents : instr \in DOMAIN doc.instruments

(* A channel's driver between ticks: its instrument is one of all          *)
(* documents.                                                              *)
DriverOk(d) ==
  /\ d = [instr |-> d.instr, note |-> d.note, playing |-> d.playing, volume |-> d.volume]
  /\ InstrOk(d.instr) /\ d.playing \in BOOLEAN /\ d.volume \in Volumes

RowOk(ev) == InstrOk(ev.instr) /\ (ev.volume # None => ev.volume \in Volumes)

(* The writes that set a voice to a sample in the RAM.                     *)
SrcnWrites(c, ram) ==
  {w \in Writes : w.register = "v_srcn" /\ w.channel = c /\ ram[w.value] # None}

(* A channel that had the driver d, on its way through the events.         *)
EventsOk(ram, c, d, s) ==
  /\ s = [d |-> s.d, writes |-> s.writes, kon |-> s.kon, koff |-> s.koff,
          volumes_changed |-> s.volumes_changed]
  /\ DriverOk(s.d)
  /\ s.writes \in Seq(SrcnWrites(c, ram))
  /\ s.kon \in BOOLEAN /\ s.koff \in BOOLEAN /\ s.volumes_changed \in BOOLEAN
  /\ s.kon => s.writes # <<>>
  /\ ~s.d.playing => s.koff \/ (~d.playing /\ ~s.kon)
  /\ ~s.volumes_changed => s.d.volume = d.volume

(* What a note leaves that is the first event of a tick, and its only one. *)
FirstNote(doc, s) ==
  \/ /\ s.d.playing /\ s.kon /\ ~s.koff /\ s.writes # <<>>
     /\ s.writes[Len(s.writes)].value = SampleOf(doc, s.d.instr, s.d.note)
  \/ ~s.d.playing /\ s.koff

(* One step of RunEvents.                                                  *)
RunEvent(doc, ram, c, s, ev) ==
  VolumeEvent(NoteEvent(doc, ram, c, InstrEvent(doc, ram, c, s, ev), ev), ev)

-----------------------------------------------------------------------------
(* A note that can be played plays a sample that is in the RAM.            *)
LEMMA PlayableSample ==
  ASSUME NEW doc \in Documents, NEW ram, NEW instr, InstrOk(instr), NEW note,
         Playable(doc, ram, instr, note)
  PROVE  SampleOf(doc, instr, note) \in SampleIndex /\ ram[SampleOf(doc, instr, note)] # None
  <1> DEFINE keysplit == doc.instruments[instr]
             matching == {k \in DOMAIN keysplit :
                            /\ keysplit[k].min_note <= note
                            /\ \A j \in 1 .. k - 1 : keysplit[j].min_note < keysplit[k].min_note}
             patch == FindPatch(keysplit, note)
  <1>1. instr # None /\ keysplit # None /\ patch # None /\ ram[patch.sample_idx] # None
    BY DEF Playable
  <1>2. keysplit \in Seq([min_note : Int, sample_idx : SampleIndex])
    BY <1>1, InstrumentsAssumption DEF InstrOk
  <1>3. patch = IF matching = {} THEN None ELSE keysplit[Max(matching)]
    BY DEF FindPatch
  <1>4. matching \subseteq 1 .. Len(keysplit) /\ Len(keysplit) \in Nat
    BY <1>2
  <1> HIDE DEF matching, keysplit, patch
  <1>5. Max(matching) \in 1 .. Len(keysplit)
    BY <1>1, <1>3, <1>4, MaxType
  <1>6. patch.sample_idx \in SampleIndex
    <2> DEFINE k == Max(matching)
    <2>1. patch = keysplit[k] /\ k \in 1 .. Len(keysplit)
      BY <1>1, <1>3, <1>5
    <2> HIDE DEF k
    <2>2. keysplit[k] \in [min_note : Int, sample_idx : SampleIndex]
      <3> DEFINE Patches == [min_note : Int, sample_idx : SampleIndex]
      <3>1. keysplit \in Seq(Patches)
        BY <1>2
      <3> HIDE DEF Patches
      <3>2. keysplit[k] \in Patches
        BY <2>1, <3>1
      <3> QED
        BY <3>2 DEF Patches
    <2> QED
      BY <2>1, <2>2
  <1> QED
    BY <1>1, <1>6 DEF SampleOf, patch, keysplit

(* The write that selects a loaded sample.                                 *)
LEMMA SrcnWriteType ==
  ASSUME NEW c \in Channels, NEW ram, NEW i \in SampleIndex, ram[i] # None
  PROVE  Write("v_srcn", c, i) \in SrcnWrites(c, ram) /\ Write("v_srcn", c, i).value = i
  BY DEF Write, Writes, SrcnWrites

(* try_play_note() with note_cut() for one that fails.                     *)
LEMMA PlayNoteOk ==
  ASSUME NEW doc \in Documents, NEW ram, NEW c \in Channels, NEW d, NEW s, EventsOk(ram, c, d, s)
  PROVE  LET t == PlayNote(doc, ram, c, s) IN
         /\ EventsOk(ram, c, d, t)
         /\ t.d.instr = s.d.instr /\ t.d.note = s.d.note /\ t.d.volume = s.d.volume
         /\ IF Playable(doc, ram, s.d.instr, s.d.note)
              THEN /\ t.d = s.d /\ t.kon = s.kon /\ t.koff = s.koff /\ t.writes # <<>>
                   /\ t.writes[Len(t.writes)].value = SampleOf(doc, s.d.instr, s.d.note)
              ELSE ~t.d.playing /\ t.koff /\ t.kon = s.kon
  <1> DEFINE sample == SampleOf(doc, s.d.instr, s.d.note)
             t == PlayNote(doc, ram, c, s)
  <1>1. CASE Playable(doc, ram, s.d.instr, s.d.note)
    <2>1. InstrOk(s.d.instr)
      BY DEF EventsOk, DriverOk
    <2>2. sample \in SampleIndex /\ ram[sample] # None
      BY <1>1, <2>1, PlayableSample
    <2> DEFINE w == Write("v_srcn", c, sample)
    <2>3. t = [s EXCEPT !.writes = Append(s.writes, w)]
      BY <1>1 DEF PlayNote
    <2> HIDE DEF sample
    <2>4. w \in SrcnWrites(c, ram) /\ w.value = sample
      BY <2>2, SrcnWriteType
    <2> HIDE DEF w, t
    <2>5. /\ t = [d |-> s.d, writes |-> Append(s.writes, w), kon |-> s.kon, koff |-> s.koff,
                  volumes_changed |-> s.volumes_changed]
      BY <2>3 DEF EventsOk
    <2>6. /\ t.writes \in Seq(SrcnWrites(c, ram)) /\ t.writes # <<>>
          /\ t.writes[Len(t.writes)] = w
      <3>1. t.writes = Append(s.writes, w) /\ s.writes \in Seq(SrcnWrites(c, ram))
        BY <2>5 DEF EventsOk
      <3> QED
        BY <2>4, <3>1
    <2>7. /\ t.d = s.d /\ t.kon = s.kon /\ t.koff = s.koff
          /\ t.volumes_changed = s.volumes_changed
          /\ t = [d |-> t.d, writes |-> t.writes, kon |-> t.kon, koff |-> t.koff,
                  volumes_changed |-> t.volumes_changed]
      BY <2>5
    <2>8. EventsOk(ram, c, d, t)
      BY <2>6, <2>7 DEF EventsOk
    <2> QED
      BY <1>1, <2>4, <2>6, <2>7, <2>8 DEF t, sample
  <1>2. CASE ~Playable(doc, ram, s.d.instr, s.d.note)
    <2>1. t = [s EXCEPT !.koff = TRUE, !.d.playing = FALSE]
      BY <1>2 DEF PlayNote, NoteCut
    <2> HIDE DEF t
    <2>2. s.d = [instr |-> s.d.instr, note |-> s.d.note, playing |-> s.d.playing,
                 volume |-> s.d.volume]
      BY DEF EventsOk, DriverOk
    <2>3. t.d = [s.d EXCEPT !.playing = FALSE] /\ t.koff = TRUE /\ t.kon = s.kon
          /\ t.writes = s.writes /\ t.volumes_changed = s.volumes_changed
          /\ t = [d |-> t.d, writes |-> t.writes, kon |-> t.kon, koff |-> t.koff,
                  volumes_changed |-> t.volumes_changed]
      BY <2>1 DEF EventsOk
    <2>4. t.d = [instr |-> t.d.instr, note |-> t.d.note, playing |-> t.d.playing,
                 volume |-> t.d.volume]
          /\ t.d.instr = s.d.instr /\ t.d.note = s.d.note /\ t.d.playing = FALSE
          /\ t.d.volume = s.d.volume
      BY <2>2, <2>3
    <2>5. EventsOk(ram, c, d, t)
      BY <2>3, <2>4 DEF EventsOk, DriverOk
    <2> QED
      BY <1>2, <2>3, <2>4, <2>5 DEF t
  <1> QED
    BY <1>1, <1>2

(* A channel's driver on its way, field by field.                          *)
Fields(s) == [d |-> [instr |-> s.d.instr, note |-> s.d.note, playing |-> s.d.playing,
                     volume |-> s.d.volume],
              writes |-> s.writes, kon |-> s.kon, koff |-> s.koff,
              volumes_changed |-> s.volumes_changed]

(* What changes but the writes.                                            *)
LEMMA ChangedDriver ==
  ASSUME NEW ram, NEW c, NEW d, NEW s, EventsOk(ram, c, d, s), NEW t, t = Fields(t),
         InstrOk(t.d.instr), t.d.playing \in BOOLEAN, t.d.volume \in Volumes,
         t.writes = s.writes,
         t.kon \in BOOLEAN, t.koff \in BOOLEAN, t.volumes_changed \in BOOLEAN,
         t.kon => s.writes # <<>>,
         ~t.d.playing => t.koff \/ (~d.playing /\ ~t.kon),
         ~t.volumes_changed => t.d.volume = d.volume
  PROVE  EventsOk(ram, c, d, t)
  <1>1. t.d = [instr |-> t.d.instr, note |-> t.d.note, playing |-> t.d.playing,
               volume |-> t.d.volume]
    BY DEF Fields
  <1>2. t = [d |-> t.d, writes |-> t.writes, kon |-> t.kon, koff |-> t.koff,
             volumes_changed |-> t.volumes_changed]
    BY <1>1 DEF Fields
  <1>3. DriverOk(t.d)
    BY <1>1 DEF DriverOk
  <1>4. t.writes \in Seq(SrcnWrites(c, ram))
    BY DEF EventsOk
  <1> QED
    BY <1>2, <1>3, <1>4 DEF EventsOk

(* InstrEvent keeps the invariant, and a note that was keyed on stays so.  *)
LEMMA InstrEventOk ==
  ASSUME NEW doc \in Documents, NEW ram, NEW c \in Channels, NEW d, NEW s, EventsOk(ram, c, d, s),
         NEW ev, RowOk(ev)
  PROVE  LET t == InstrEvent(doc, ram, c, s, ev) IN
         /\ EventsOk(ram, c, d, t)
         /\ ev.note # None => t.koff = s.koff
         /\ ev.note = None /\ FirstNote(doc, s) => FirstNote(doc, t)
  <1> DEFINE t == InstrEvent(doc, ram, c, s, ev)
             u == [s EXCEPT !.d.instr = ev.instr]
  <1>1. CASE ev.instr = None
    <2>1. t = s
      BY <1>1 DEF InstrEvent
    <2> HIDE DEF t
    <2>2. /\ EventsOk(ram, c, d, t)
          /\ ev.note # None => t.koff = s.koff
          /\ ev.note = None /\ FirstNote(doc, s) => FirstNote(doc, t)
      BY <2>1
    <2> QED
      BY <2>2 DEF t
  <1>2. CASE ev.instr # None
    <2>1. t = IF s.d.playing /\ ev.note = None THEN PlayNote(doc, ram, c, u) ELSE u
      BY <1>2 DEF InstrEvent
    <2> HIDE DEF t
    <2>2. DriverOk(s.d) /\ s.kon \in BOOLEAN /\ s.koff \in BOOLEAN /\ s.volumes_changed \in BOOLEAN
          /\ InstrOk(ev.instr)
      BY DEF EventsOk, RowOk
    <2>3. u = [d |-> [instr |-> ev.instr, note |-> s.d.note, playing |-> s.d.playing,
                      volume |-> s.d.volume],
               writes |-> s.writes, kon |-> s.kon, koff |-> s.koff,
               volumes_changed |-> s.volumes_changed]
      <3>1. s = [d |-> s.d, writes |-> s.writes, kon |-> s.kon, koff |-> s.koff,
                 volumes_changed |-> s.volumes_changed]
            /\ s.d = [instr |-> s.d.instr, note |-> s.d.note, playing |-> s.d.playing,
                      volume |-> s.d.volume]
        BY <2>2 DEF EventsOk, DriverOk
      <3> QED
        BY <3>1
    <2>4. EventsOk(ram, c, d, u)
      <3>1. /\ s.d.playing \in BOOLEAN /\ s.d.volume \in Volumes
            /\ s.kon => s.writes # <<>>
            /\ ~s.d.playing => s.koff \/ (~d.playing /\ ~s.kon)
            /\ ~s.volumes_changed => s.d.volume = d.volume
        BY DEF EventsOk, DriverOk
      <3>2. /\ u = Fields(u) /\ u.d.instr = ev.instr /\ u.d.playing = s.d.playing
            /\ u.d.volume = s.d.volume /\ u.writes = s.writes /\ u.kon = s.kon
            /\ u.koff = s.koff /\ u.volumes_changed = s.volumes_changed
        BY <2>3 DEF Fields
      <3> HIDE DEF u
      <3> QED
        BY <2>2, <3>1, <3>2, ChangedDriver
    <2>5. u.koff = s.koff /\ u.kon = s.kon /\ u.d.playing = s.d.playing
      BY <2>3
    <2> HIDE DEF u
    <2>6. CASE s.d.playing /\ ev.note = None
      <3>1. t = PlayNote(doc, ram, c, u)
        BY <2>1, <2>6
      <3>2. /\ EventsOk(ram, c, d, t)
            /\ t.d.instr = u.d.instr /\ t.d.note = u.d.note
            /\ IF Playable(doc, ram, u.d.instr, u.d.note)
                 THEN /\ t.d = u.d /\ t.kon = u.kon /\ t.koff = u.koff /\ t.writes # <<>>
                      /\ t.writes[Len(t.writes)].value = SampleOf(doc, u.d.instr, u.d.note)
                 ELSE ~t.d.playing /\ t.koff /\ t.kon = u.kon
        BY <2>4, <3>1, PlayNoteOk
      <3>3. FirstNote(doc, s) => FirstNote(doc, t)
        BY <2>5, <2>6, <3>2 DEF FirstNote
      <3> QED
        BY <2>6, <3>2, <3>3 DEF t
    <2>7. CASE ~(s.d.playing /\ ev.note = None)
      <3>1. t = u
        BY <2>1, <2>7
      <3>2. ev.note = None /\ FirstNote(doc, s) => FirstNote(doc, t)
        BY <2>5, <2>7, <3>1 DEF FirstNote
      <3> QED
        BY <2>4, <2>5, <3>1, <3>2 DEF t
    <2> QED
      BY <2>6, <2>7
  <1> QED
    BY <1>1, <1>2

(* NoteEvent keeps the invariant: a note plays if it can, else it is keyed *)
(* off.                                                                    *)
LEMMA NoteEventOk ==
  ASSUME NEW doc \in Documents, NEW ram, NEW c \in Channels, NEW d, NEW s, EventsOk(ram, c, d, s),
         NEW ev
  PROVE  LET t == NoteEvent(doc, ram, c, s, ev) IN
         /\ EventsOk(ram, c, d, t)
         /\ ev.note = None => t = s
         /\ ev.note # None => t.d.playing = (ev.note # Cut /\ Playable(doc, ram, t.d.instr, t.d.note))
         /\ ev.note # None /\ ~s.koff => FirstNote(doc, t)
  <1> DEFINE t == NoteEvent(doc, ram, c, s, ev)
             noted == [s EXCEPT !.d.note = ev.note]
  <1>1. DriverOk(s.d) /\ s.kon \in BOOLEAN /\ s.koff \in BOOLEAN /\ s.volumes_changed \in BOOLEAN
        /\ s = [d |-> s.d, writes |-> s.writes, kon |-> s.kon, koff |-> s.koff,
                volumes_changed |-> s.volumes_changed]
        /\ s.d = [instr |-> s.d.instr, note |-> s.d.note, playing |-> s.d.playing,
                  volume |-> s.d.volume]
        /\ InstrOk(s.d.instr) /\ s.d.playing \in BOOLEAN /\ s.d.volume \in Volumes
        /\ (s.kon => s.writes # <<>>)
        /\ (~s.d.playing => s.koff \/ (~d.playing /\ ~s.kon))
        /\ (~s.volumes_changed => s.d.volume = d.volume)
    BY DEF EventsOk, DriverOk
  <1>2. CASE ev.note = None
    <2>1. t = s
      BY <1>2, CutAssumption DEF NoteEvent
    <2> QED
      BY <1>2, <2>1
  <1>3. CASE ev.note = Cut
    <2>1. t = NoteCut(s)
      BY <1>3, CutAssumption DEF NoteEvent
    <2> HIDE DEF t
    <2>2. t = [d |-> [instr |-> s.d.instr, note |-> s.d.note, playing |-> FALSE,
                      volume |-> s.d.volume],
               writes |-> s.writes, kon |-> s.kon, koff |-> TRUE,
               volumes_changed |-> s.volumes_changed]
      BY <1>1, <2>1 DEF NoteCut
    <2>3. EventsOk(ram, c, d, t)
      <3>1. /\ t = Fields(t) /\ t.d.instr = s.d.instr /\ t.d.playing = FALSE
            /\ t.d.volume = s.d.volume /\ t.writes = s.writes /\ t.kon = s.kon
            /\ t.koff = TRUE /\ t.volumes_changed = s.volumes_changed
        BY <2>2 DEF Fields
      <3> QED
        BY <1>1, <3>1, ChangedDriver
    <2>4. t.d.playing = FALSE /\ t.koff = TRUE
      BY <2>2
    <2> QED
      BY <1>3, <2>3, <2>4, CutAssumption DEF FirstNote, t
  <1>4. CASE ev.note # None /\ ev.note # Cut /\ ~Playable(doc, ram, s.d.instr, ev.note)
    <2>1. t = NoteCut(noted)
      BY <1>4 DEF NoteEvent
    <2> HIDE DEF t
    <2>2. t = [d |-> [instr |-> s.d.instr, note |-> ev.note, playing |-> FALSE,
                      volume |-> s.d.volume],
               writes |-> s.writes, kon |-> s.kon, koff |-> TRUE,
               volumes_changed |-> s.volumes_changed]
      BY <1>1, <2>1 DEF NoteCut
    <2>3. EventsOk(ram, c, d, t)
      <3>1. /\ t = Fields(t) /\ t.d.instr = s.d.instr /\ t.d.playing = FALSE
            /\ t.d.volume = s.d.volume /\ t.writes = s.writes /\ t.kon = s.kon
            /\ t.koff = TRUE /\ t.volumes_changed = s.volumes_changed
        BY <2>2 DEF Fields
      <3> QED
        BY <1>1, <3>1, ChangedDriver
    <2>4. t.d.playing = FALSE /\ t.koff = TRUE /\ t.d.instr = s.d.instr /\ t.d.note = ev.note
      BY <2>2
    <2> QED
      BY <1>4, <2>3, <2>4 DEF FirstNote, t
  <1>5. CASE ev.note # None /\ ev.note # Cut /\ Playable(doc, ram, s.d.instr, ev.note)
    <2> DEFINE u == PlayNote(doc, ram, c, noted)
    <2>1. t = [u EXCEPT !.kon = TRUE, !.d.playing = TRUE]
      BY <1>5 DEF NoteEvent
    <2>2. noted = [d |-> [instr |-> s.d.instr, note |-> ev.note, playing |-> s.d.playing,
                          volume |-> s.d.volume],
                   writes |-> s.writes, kon |-> s.kon, koff |-> s.koff,
                   volumes_changed |-> s.volumes_changed]
      BY <1>1
    <2>3. noted.d.instr = s.d.instr /\ noted.d.note = ev.note /\ noted.koff = s.koff
      BY <2>2
    <2> HIDE DEF t, noted
    <2>4. EventsOk(ram, c, d, noted)
      <3>1. /\ noted = Fields(noted) /\ noted.d.instr = s.d.instr /\ noted.d.playing = s.d.playing
            /\ noted.d.volume = s.d.volume /\ noted.writes = s.writes /\ noted.kon = s.kon
            /\ noted.koff = s.koff /\ noted.volumes_changed = s.volumes_changed
        BY <2>2 DEF Fields
      <3> QED
        BY <1>1, <3>1, ChangedDriver
    <2>5. /\ EventsOk(ram, c, d, u)
          /\ u.d = noted.d /\ u.koff = s.koff /\ u.writes # <<>>
          /\ u.writes[Len(u.writes)].value = SampleOf(doc, s.d.instr, ev.note)
      BY <1>5, <2>3, <2>4, PlayNoteOk
    <2> HIDE DEF u
    <2>6. u = [d |-> u.d, writes |-> u.writes, kon |-> u.kon, koff |-> u.koff,
               volumes_changed |-> u.volumes_changed]
          /\ u.d = [instr |-> u.d.instr, note |-> u.d.note, playing |-> u.d.playing,
                    volume |-> u.d.volume]
          /\ InstrOk(u.d.instr) /\ u.d.volume \in Volumes /\ u.koff \in BOOLEAN
          /\ u.volumes_changed \in BOOLEAN
          /\ (~u.volumes_changed => u.d.volume = d.volume)
      BY <2>5 DEF EventsOk, DriverOk
    <2>7. t = [d |-> [instr |-> u.d.instr, note |-> u.d.note, playing |-> TRUE,
                      volume |-> u.d.volume],
               writes |-> u.writes, kon |-> TRUE, koff |-> u.koff,
               volumes_changed |-> u.volumes_changed]
      BY <2>1, <2>6
    <2>8. EventsOk(ram, c, d, t)
      <3>1. /\ t = Fields(t) /\ t.d.instr = u.d.instr /\ t.d.playing = TRUE
            /\ t.d.volume = u.d.volume /\ t.writes = u.writes /\ t.kon = TRUE
            /\ t.koff = u.koff /\ t.volumes_changed = u.volumes_changed
        BY <2>7 DEF Fields
      <3> QED
        BY <2>5, <2>6, <3>1, ChangedDriver
    <2>9. t.d.playing = TRUE /\ t.kon = TRUE /\ t.koff = s.koff /\ t.writes = u.writes
          /\ t.d.instr = s.d.instr /\ t.d.note = ev.note
      BY <2>3, <2>5, <2>7
    <2>10. ~s.koff => FirstNote(doc, t)
      BY <2>5, <2>9 DEF FirstNote
    <2>11. t.d.playing = (ev.note # Cut /\ Playable(doc, ram, t.d.instr, t.d.note))
      BY <1>5, <2>9
    <2> QED
      BY <1>5, <2>8, <2>10, <2>11 DEF t
  <1> QED
    BY <1>2, <1>3, <1>4, <1>5

(* VolumeEvent only changes the volume.                                    *)
LEMMA VolumeEventOk ==
  ASSUME NEW doc \in Documents, NEW ram, NEW c \in Channels, NEW d, NEW s, EventsOk(ram, c, d, s),
         NEW ev, RowOk(ev)
  PROVE  LET t == VolumeEvent(s, ev) IN
         /\ EventsOk(ram, c, d, t)
         /\ t.d.instr = s.d.instr /\ t.d.note = s.d.note /\ t.d.playing = s.d.playing
         /\ t.writes = s.writes /\ t.kon = s.kon /\ t.koff = s.koff
  <1> DEFINE t == VolumeEvent(s, ev)
  <1>1. DriverOk(s.d) /\ s.kon \in BOOLEAN /\ s.koff \in BOOLEAN /\ s.volumes_changed \in BOOLEAN
        /\ s = [d |-> s.d, writes |-> s.writes, kon |-> s.kon, koff |-> s.koff,
                volumes_changed |-> s.volumes_changed]
        /\ s.d = [instr |-> s.d.instr, note |-> s.d.note, playing |-> s.d.playing,
                  volume |-> s.d.volume]
        /\ InstrOk(s.d.instr) /\ s.d.playing \in BOOLEAN /\ s.d.volume \in Volumes
        /\ (s.kon => s.writes # <<>>)
        /\ (~s.d.playing => s.koff \/ (~d.playing /\ ~s.kon))
        /\ (~s.volumes_changed => s.d.volume = d.volume)
    BY DEF EventsOk, DriverOk
  <1>2. CASE ev.volume = None
    <2>1. t = s
      BY <1>2 DEF VolumeEvent
    <2> QED
      BY <2>1
  <1>3. CASE ev.volume # None
    <2>1. t = [s EXCEPT !.d.volume = ev.volume, !.volumes_changed = TRUE]
      BY <1>3 DEF VolumeEvent
    <2> HIDE DEF t
    <2>2. t = [d |-> [instr |-> s.d.instr, note |-> s.d.note, playing |-> s.d.playing,
                      volume |-> ev.volume],
               writes |-> s.writes, kon |-> s.kon, koff |-> s.koff, volumes_changed |-> TRUE]
      BY <1>1, <2>1
    <2>3. ev.volume \in Volumes
      BY <1>3 DEF RowOk
    <2>4. EventsOk(ram, c, d, t)
      <3>1. /\ t = Fields(t) /\ t.d.instr = s.d.instr /\ t.d.playing = s.d.playing
            /\ t.d.volume = ev.volume /\ t.writes = s.writes /\ t.kon = s.kon
            /\ t.koff = s.koff /\ t.volumes_changed = TRUE
        BY <2>2 DEF Fields
      <3> QED
        BY <1>1, <2>3, <3>1, ChangedDriver
    <2>5. t.d.instr = s.d.instr /\ t.d.note = s.d.note /\ t.d.playing = s.d.playing
          /\ t.writes = s.writes /\ t.kon = s.kon /\ t.koff = s.koff
      BY <2>2
    <2> QED
      BY <2>4, <2>5 DEF t
  <1> QED
    BY <1>2, <1>3

(* What one event does, of any kind.                                       *)
LEMMA RunEventOk ==
  ASSUME NEW doc \in Documents, NEW ram, NEW c \in Channels, NEW d, NEW s, EventsOk(ram, c, d, s),
         NEW ev, RowOk(ev)
  PROVE  LET t == RunEvent(doc, ram, c, s, ev) IN
         /\ EventsOk(ram, c, d, t)
         /\ ev.note # None => t.d.playing = (ev.note # Cut /\ Playable(doc, ram, t.d.instr, t.d.note))
         /\ ev.note # None /\ ~s.koff => FirstNote(doc, t)
         /\ ev.note = None /\ FirstNote(doc, s) => FirstNote(doc, t)
  <1> DEFINE u == InstrEvent(doc, ram, c, s, ev)
             v == NoteEvent(doc, ram, c, u, ev)
             t == VolumeEvent(v, ev)
  <1>0. RunEvent(doc, ram, c, s, ev) = t
    BY DEF RunEvent
  <1>1. /\ EventsOk(ram, c, d, u)
        /\ ev.note # None => u.koff = s.koff
        /\ ev.note = None /\ FirstNote(doc, s) => FirstNote(doc, u)
    BY InstrEventOk
  <1> HIDE DEF u
  <1>2. /\ EventsOk(ram, c, d, v)
        /\ ev.note = None => v = u
        /\ ev.note # None => v.d.playing = (ev.note # Cut /\ Playable(doc, ram, v.d.instr, v.d.note))
        /\ ev.note # None /\ ~u.koff => FirstNote(doc, v)
    BY <1>1, NoteEventOk
  <1> HIDE DEF v
  <1>3. /\ EventsOk(ram, c, d, t)
        /\ t.d.instr = v.d.instr /\ t.d.note = v.d.note /\ t.d.playing = v.d.playing
        /\ t.writes = v.writes /\ t.kon = v.kon /\ t.koff = v.koff
    BY <1>2, VolumeEventOk
  <1> HIDE DEF t
  <1>4. FirstNote(doc, v) => FirstNote(doc, t)
    BY <1>3 DEF FirstNote
  <1>5. ev.note # None => t.d.playing = (ev.note # Cut /\ Playable(doc, ram, t.d.instr, t.d.note))
    BY <1>2, <1>3
  <1> QED
    BY <1>0, <1>1, <1>2, <1>3, <1>4, <1>5

(* f[k] is what the first k events leave.                                  *)
Ran(f, n, doc, ram, c, d, events) ==
  f = [k \in 0 .. n |-> IF k = 0 THEN BeginEvents(d) ELSE RunEvent(doc, ram, c, f[k - 1], events[k])]

(* The recursive function in RunEvents exists.                             *)
LEMMA RanExists ==
  ASSUME NEW doc, NEW ram, NEW c, NEW d, NEW events, NEW n \in Nat
  PROVE  \E f : Ran(f, n, doc, ram, c, d, events)
  <1> DEFINE S == {m \in 0 .. n : \E f : Ran(f, m, doc, ram, c, d, events)}
             first == BeginEvents(d)
             step(k, x) == RunEvent(doc, ram, c, x, events[k])
             next(f, k) == IF k = 0 THEN first ELSE step(k, f[k - 1])
  <1>1. 0 \in S
    <2> DEFINE f == [k \in 0 .. 0 |-> first]
    <2>1. f = [k \in 0 .. 0 |-> next(f, k)]
      <3> HIDE DEF step, first
      <3> QED
        OBVIOUS
    <2> HIDE DEF f
    <2>2. Ran(f, 0, doc, ram, c, d, events)
      BY <2>1 DEF Ran
    <2> QED
      BY <2>2
  <1>2. ASSUME NEW m \in 1 .. n, m - 1 \in S PROVE m \in S
    <2>1. PICK f : Ran(f, m - 1, doc, ram, c, d, events)
      BY <1>2
    <2>2. f = [k \in 0 .. m - 1 |-> next(f, k)]
      BY <2>1 DEF Ran
    <2> DEFINE g == [k \in 0 .. m |-> IF k < m THEN f[k] ELSE step(m, f[m - 1])]
    <2> HIDE DEF step, first
    <2>3. ASSUME NEW k \in 0 .. m PROVE g[k] = next(g, k)
      <3>1. CASE k = 0
        BY <2>2, <3>1
      <3>2. CASE k # 0 /\ k < m
        <4>1. k \in 0 .. m - 1 /\ k - 1 \in 0 .. m /\ k - 1 < m
          BY <3>2
        <4>2. g[k] = f[k] /\ g[k - 1] = f[k - 1] /\ f[k] = next(f, k)
          BY <2>2, <4>1, <3>2
        <4> QED
          BY <3>2, <4>2
      <3>3. CASE k = m
        <4>1. k - 1 \in 0 .. m /\ k - 1 < m /\ k # 0
          BY <3>3
        <4> QED
          BY <3>3, <4>1
      <3> QED
        BY <3>1, <3>2, <3>3
    <2>4. g = [k \in 0 .. m |-> next(g, k)]
      BY <2>3
    <2> HIDE DEF g
    <2>5. Ran(g, m, doc, ram, c, d, events)
      BY <2>4 DEF Ran, step, first
    <2> QED
      BY <2>5
  <1>3. \A m \in 0 .. n : m \in S
    <2> HIDE DEF S
    <2> QED
      BY <1>1, <1>2, CountUp
  <1> QED
    BY <1>3

(* Before its events a driver has the invariant.                           *)
LEMMA BeginEventsOk ==
  ASSUME NEW ram, NEW c, NEW d, DriverOk(d)
  PROVE  EventsOk(ram, c, d, BeginEvents(d)) /\ ~BeginEvents(d).koff
  <1>1. BeginEvents(d).writes = <<>> /\ BeginEvents(d).d = d /\ BeginEvents(d).kon = FALSE
        /\ BeginEvents(d).koff = FALSE /\ BeginEvents(d).volumes_changed = FALSE
    BY DEF BeginEvents
  <1>2. <<>> \in Seq(SrcnWrites(c, ram))
    OBVIOUS
  <1> QED
    BY <1>1, <1>2 DEF EventsOk, BeginEvents

(* What Spc700ChannelDriver::run_driver() makes of the events of a tick.   *)
LEMMA RunEventsOk ==
  ASSUME NEW doc \in Documents, NEW ram, NEW c \in Channels, NEW d, DriverOk(d),
         NEW events, Len(events) \in Nat, \A k \in 1 .. Len(events) : RowOk(events[k])
  PROVE  LET s == RunEvents(doc, ram, c, d, events)
             n == Len(events)
         IN  /\ EventsOk(ram, c, d, s)
             /\ n = 0 => s = BeginEvents(d)
             /\ n > 0 /\ events[1].note # None /\ (\A k \in 2 .. n : events[k].note = None) =>
                  FirstNote(doc, s)
             /\ n = 1 /\ events[1].note # None =>
                  s.d.playing = (events[1].note # Cut /\ Playable(doc, ram, s.d.instr, s.d.note))
  <1> DEFINE n == Len(events)
             f == CHOOSE f : Ran(f, n, doc, ram, c, d, events)
  <1>1. RunEvents(doc, ram, c, d, events) = f[n]
    BY DEF RunEvents, Ran, RunEvent
  <1>2. Ran(f, n, doc, ram, c, d, events)
    <2>1. n \in Nat
      OBVIOUS
    <2> HIDE DEF n
    <2> QED
      BY <2>1, RanExists
  <1> HIDE DEF f
  <1>3. n \in Nat
    OBVIOUS
  <1>4. \A k \in 1 .. n : RowOk(events[k])
    OBVIOUS
  <1> HIDE DEF n
  <1>5. f[0] = BeginEvents(d)
    BY <1>2, <1>3 DEF Ran
  <1>6. \A k \in 1 .. n : f[k] = RunEvent(doc, ram, c, f[k - 1], events[k])
    <2>1. \A k \in 1 .. n : k \in 0 .. n /\ k # 0
      BY <1>3
    <2> QED
      BY <1>2, <2>1 DEF Ran
  <1>7. \A k \in 0 .. n : EventsOk(ram, c, d, f[k])
    <2> DEFINE S == {k \in 0 .. n : EventsOk(ram, c, d, f[k])}
    <2>1. 0 \in S
      <3>1. EventsOk(ram, c, d, BeginEvents(d))
        BY BeginEventsOk
      <3>2. EventsOk(ram, c, d, f[0])
        BY <1>5, <3>1
      <3> QED
        BY <1>3, <3>2
    <2>2. ASSUME NEW k \in 1 .. n, k - 1 \in S PROVE k \in S
      <3>1. EventsOk(ram, c, d, f[k - 1])
        BY <2>2
      <3>2. EventsOk(ram, c, d, f[k])
        BY <1>4, <1>6, <3>1, RunEventOk
      <3> QED
        BY <3>2
    <2>3. \A k \in 0 .. n : k \in S
      <3> HIDE DEF S
      <3> QED
        BY <1>3, <2>1, <2>2, CountUp
    <2> QED
      BY <2>3
  <1>8. ASSUME n > 0, events[1].note # None, \A k \in 2 .. n : events[k].note = None
        PROVE  FirstNote(doc, f[n])
    <2> DEFINE S == {k \in 0 .. n : k = 0 \/ FirstNote(doc, f[k])}
    <2>1. 0 \in S
      BY <1>3
    <2>2. ASSUME NEW k \in 1 .. n, k - 1 \in S PROVE k \in S
      <3>1. /\ EventsOk(ram, c, d, f[k - 1]) /\ RowOk(events[k])
            /\ f[k] = RunEvent(doc, ram, c, f[k - 1], events[k])
        BY <1>3, <1>4, <1>6, <1>7
      <3> DEFINE s == f[k - 1]
                 ev == events[k]
                 t == RunEvent(doc, ram, c, s, ev)
      <3>a. /\ ev.note # None /\ ~s.koff => FirstNote(doc, t)
            /\ ev.note = None /\ FirstNote(doc, s) => FirstNote(doc, t)
        <4>1. EventsOk(ram, c, d, s) /\ RowOk(ev)
          BY <3>1
        <4> HIDE DEF s, ev
        <4> QED
          BY <4>1, RunEventOk
      <3>b. t = f[k]
        BY <3>1
      <3> HIDE DEF t
      <3>2. CASE k = 1
        <4>1. f[k - 1] = BeginEvents(d)
          BY <1>5, <3>2
        <4>2. ~f[k - 1].koff
          BY <4>1, BeginEventsOk
        <4>3. FirstNote(doc, f[k])
          BY <1>8, <3>2, <3>a, <3>b, <4>2
        <4> QED
          BY <4>3
      <3>3. CASE k # 1
        <4>1. FirstNote(doc, f[k - 1])
          BY <1>3, <2>2, <3>3
        <4>2. events[k].note = None
          BY <1>3, <1>8, <3>3
        <4>3. FirstNote(doc, f[k])
          BY <3>a, <3>b, <4>1, <4>2
        <4> QED
          BY <4>3
      <3> QED
        BY <3>2, <3>3
    <2>3. \A k \in 0 .. n : k \in S
      <3> HIDE DEF S
      <3> QED
        BY <1>3, <2>1, <2>2, CountUp
    <2> QED
      BY <1>3, <1>8, <2>3
  <1>9. ASSUME n = 1, events[1].note # None
        PROVE  f[n].d.playing = (events[1].note # Cut /\ Playable(doc, ram, f[n].d.instr, f[n].d.note))
    <2>1. EventsOk(ram, c, d, f[0]) /\ RowOk(events[1]) /\ f[1] = RunEvent(doc, ram, c, f[0], events[1])
      BY <1>4, <1>6, <1>7, <1>9
    <2> DEFINE s == f[0]
               ev == events[1]
               t == RunEvent(doc, ram, c, s, ev)
    <2>2. ev.note # None => t.d.playing = (ev.note # Cut /\ Playable(doc, ram, t.d.instr, t.d.note))
      <3>1. EventsOk(ram, c, d, s) /\ RowOk(ev)
        BY <2>1
      <3> HIDE DEF s, ev
      <3> QED
        BY <3>1, RunEventOk
    <2>3. t = f[n]
      BY <1>9, <2>1
    <2> HIDE DEF t
    <2> QED
      BY <1>9, <2>2, <2>3
  <1>10. n = 0 => f[n] = BeginEvents(d)
    BY <1>5
  <1>11. EventsOk(ram, c, d, f[n])
    BY <1>3, <1>7
  <1> QED
    BY <1>1, <1>8, <1>9, <1>10, <1>11 DEF n

(* Registers with a flag for each channel.                                 *)
FlagRegisters == {"kon", "koff"}

(* The writes the driver makes are writes.                                 *)
LEMMA WriteTypes ==
  /\ Write("master", None, TRUE) \in Writes
  /\ Write("dir", None, TRUE) \in Writes
  /\ \A r \in FlagRegisters : \A flags \in SUBSET Channels : Write(r, None, flags) \in Writes
  /\ \A c \in Channels : \A v \in Volumes : Write("v_vol", c, v) \in VoiceWrites(c)
  BY DEF Write, Writes, FlagRegisters, VoiceWrites, VoiceRegisters

(* One write.                                                              *)
LEMMA FinallyOne ==
  ASSUME NEW r0, NEW c0, NEW v, NEW r, NEW c, NEW x
  PROVE  Finally(<<Write(r0, c0, v)>>, r, c, x, IF r = r0 /\ c = c0 THEN v ELSE x)
  <1> DEFINE ws == <<Write(r0, c0, v)>>
  <1>1. DOMAIN ws = {1} /\ ws[1].register = r0 /\ ws[1].channel = c0 /\ ws[1].value = v
    BY DEF Write
  <1> HIDE DEF ws
  <1>2. CASE r = r0 /\ c = c0
    <2>1. IsWrite(ws[1], r, c) /\ ws[1].value = v /\ \A j \in DOMAIN ws : ~(j > 1)
      BY <1>1, <1>2 DEF IsWrite
    <2> QED
      BY <1>1, <1>2, <2>1 DEF Finally, ws
  <1>3. CASE ~(r = r0 /\ c = c0)
    <2>1. \A k \in DOMAIN ws : ~IsWrite(ws[k], r, c)
      BY <1>1, <1>3 DEF IsWrite
    <2> QED
      BY <1>3, <2>1, FinallyOther DEF ws
  <1> QED
    BY <1>2, <1>3

(* FlagWrite writes its flags, or nothing.                                 *)
LEMMA FlagWriteEffect ==
  ASSUME NEW r0 \in FlagRegisters, NEW flags \in SUBSET Channels
  PROVE  /\ FlagWrite(r0, flags) \in Seq(Writes)
         /\ \A r, c, x : Finally(FlagWrite(r0, flags), r, c, x,
                           IF r = r0 /\ c = None /\ flags # {} THEN flags ELSE x)
  <1>1. CASE flags = {}
    <2>1. FlagWrite(r0, flags) = <<>>
      BY <1>1 DEF FlagWrite
    <2>2. \A r, c, x : Finally(FlagWrite(r0, flags), r, c, x, x)
      BY <2>1, FinallyOther
    <2>3. FlagWrite(r0, flags) \in Seq(Writes)
      BY <2>1
    <2> QED
      BY <1>1, <2>2, <2>3
  <1>2. CASE flags # {}
    <2>1. FlagWrite(r0, flags) = <<Write(r0, None, flags)>>
      BY <1>2 DEF FlagWrite
    <2>2. \A r, c, x : Finally(FlagWrite(r0, flags), r, c, x,
                         IF r = r0 /\ c = None THEN flags ELSE x)
      BY <2>1, FinallyOne
    <2>3. Write(r0, None, flags) \in Writes
      BY WriteTypes
    <2>4. \A r, c, x : Finally(FlagWrite(r0, flags), r, c, x,
                         IF r = r0 /\ c = None /\ flags # {} THEN flags ELSE x)
      BY <1>2, <2>2
    <2>5. FlagWrite(r0, flags) \in Seq(Writes)
      BY <2>1, <2>3
    <2> QED
      BY <2>4, <2>5
  <1> QED
    BY <1>1, <1>2

(* Writes to voices leave the other registers.                             *)
LEMMA VoiceWritesOnly ==
  ASSUME NEW ws \in Seq(AllVoiceWrites), NEW r, r \notin VoiceRegisters, NEW c, NEW x
  PROVE  Finally(ws, r, c, x, x)
  <1>1. \A k \in DOMAIN ws : ws[k] \in AllVoiceWrites
    OBVIOUS
  <1>2. \A k \in DOMAIN ws : ~IsWrite(ws[k], r, c)
    BY <1>1 DEF AllVoiceWrites, IsWrite
  <1> QED
    BY <1>2, FinallyOther

(* The writes of one channel: its samples, then its volume.                *)
LEMMA ChannelWritesEffect ==
  ASSUME NEW ram, NEW c \in Channels, NEW d, NEW s, EventsOk(ram, c, d, s)
  PROVE  /\ ChannelWrites(c, s) \in Seq(VoiceWrites(c))
         /\ Finally(ChannelWrites(c, s), "v_vol", c, d.volume, s.d.volume)
         /\ \A x : Finally(ChannelWrites(c, s), "v_srcn", c, x,
                     IF s.writes = <<>> THEN x ELSE s.writes[Len(s.writes)].value)
         /\ s.writes = <<>> /\ ~s.volumes_changed => ChannelWrites(c, s) = <<>>
  <1> DEFINE vol == IF s.volumes_changed THEN WriteVolume(c, s.d) ELSE <<>>
  <1>1. s.writes \in Seq(SrcnWrites(c, ram)) /\ s.d.volume \in Volumes
        /\ (~s.volumes_changed => s.d.volume = d.volume) /\ s.volumes_changed \in BOOLEAN
    BY DEF EventsOk, DriverOk
  <1>2. SrcnWrites(c, ram) \subseteq VoiceWrites(c) /\ VoiceWrites(c) \subseteq Writes
    BY DEF SrcnWrites, VoiceWrites, VoiceRegisters
  <1>3. s.writes \in Seq(VoiceWrites(c)) /\ s.writes \in Seq(Writes)
    BY <1>1, <1>2
  <1>4. /\ vol \in Seq(VoiceWrites(c)) /\ vol \in Seq(Writes)
        /\ Finally(vol, "v_vol", c, d.volume, s.d.volume)
        /\ \A x : Finally(vol, "v_srcn", c, x, x)
    <2>1. CASE s.volumes_changed
      <3>1. vol = <<Write("v_vol", c, s.d.volume)>>
        BY <2>1 DEF WriteVolume
      <3>2. Write("v_vol", c, s.d.volume) \in VoiceWrites(c)
        BY <1>1, WriteTypes
      <3> HIDE DEF vol
      <3>3. ASSUME NEW r, NEW x
            PROVE  Finally(vol, r, c, x, IF r = "v_vol" /\ c = c THEN s.d.volume ELSE x)
        BY <3>1, FinallyOne, Zenon
      <3>4. Finally(vol, "v_vol", c, d.volume, s.d.volume)
        BY <3>3
      <3>5. \A x : Finally(vol, "v_srcn", c, x, x)
        BY <3>3
      <3>6. vol \in Seq(VoiceWrites(c))
        BY <3>1, <3>2
      <3>7. vol \in Seq(Writes)
        BY <1>2, <3>6
      <3> QED
        BY <3>4, <3>5, <3>6, <3>7
    <2>2. CASE ~s.volumes_changed
      <3>1. vol = <<>>
        BY <2>2
      <3> HIDE DEF vol
      <3>2. \A r, x : Finally(vol, r, c, x, x)
        BY <3>1, FinallyOther
      <3>3. vol \in Seq(VoiceWrites(c)) /\ vol \in Seq(Writes)
        BY <3>1
      <3> QED
        BY <1>1, <2>2, <3>2, <3>3
    <2> QED
      BY <2>1, <2>2
  <1>5. \A k \in DOMAIN s.writes : s.writes[k].register = "v_srcn" /\ s.writes[k].channel = c
    BY <1>1 DEF SrcnWrites
  <1>6. Finally(s.writes, "v_vol", c, d.volume, d.volume)
    BY <1>5, FinallyOther DEF IsWrite
  <1>7. \A x : Finally(s.writes, "v_srcn", c, x,
                 IF s.writes = <<>> THEN x ELSE s.writes[Len(s.writes)].value)
    <2>1. CASE s.writes = <<>>
      BY <2>1, FinallyOther
    <2>2. CASE s.writes # <<>>
      <3> DEFINE n == Len(s.writes)
      <3>1. n \in DOMAIN s.writes /\ \A j \in DOMAIN s.writes : ~(j > n)
        BY <1>3, <2>2
      <3> HIDE DEF n
      <3>2. IsWrite(s.writes[n], "v_srcn", c)
        BY <1>5, <3>1 DEF IsWrite
      <3>3. \A x : Finally(s.writes, "v_srcn", c, x, s.writes[n].value)
        BY <3>1, <3>2 DEF Finally
      <3> QED
        BY <2>2, <3>3 DEF n
    <2> QED
      BY <2>1, <2>2
  <1>8. ChannelWrites(c, s) = s.writes \o vol
    BY DEF ChannelWrites
  <1>9. ChannelWrites(c, s) \in Seq(VoiceWrites(c))
    BY <1>3, <1>4, <1>8
  <1>10. Finally(ChannelWrites(c, s), "v_vol", c, d.volume, s.d.volume)
    <2> HIDE DEF vol
    <2> QED
      BY <1>3, <1>4, <1>6, <1>8, FinallyConcat
  <1>11. ASSUME NEW x
         PROVE  Finally(ChannelWrites(c, s), "v_srcn", c, x,
                  IF s.writes = <<>> THEN x ELSE s.writes[Len(s.writes)].value)
    <2> DEFINE y == IF s.writes = <<>> THEN x ELSE s.writes[Len(s.writes)].value
    <2>1. Finally(s.writes, "v_srcn", c, x, y) /\ Finally(vol, "v_srcn", c, y, y)
      BY <1>4, <1>7
    <2> HIDE DEF y, vol
    <2>2. Finally(s.writes \o vol, "v_srcn", c, x, y)
      BY <1>3, <1>4, <2>1, FinallyConcat
    <2> QED
      BY <1>8, <2>2 DEF y
  <1>12. s.writes = <<>> /\ ~s.volumes_changed => ChannelWrites(c, s) = <<>>
    BY <1>8
  <1> QED
    BY <1>9, <1>10, <1>11, <1>12

(* The channels with drivers d have run their events.                      *)
ChannelsRan(ram, d, s) ==
  DOMAIN s = Channels /\ \A c \in Channels : EventsOk(ram, c, d[c], s[c])

KeyedOn(s) == {c \in Channels : s[c].kon}
KeyedOff(s) == {c \in Channels : s[c].koff}

(* Spc700Driver::run_driver(): what its writes leave in the registers.     *)
LEMMA DriverWritesEffect ==
  ASSUME NEW ram, NEW d, NEW s, ChannelsRan(ram, d, s)
  PROVE  LET ws == DriverWrites(s)
             kon == KeyedOn(s)
             koff == KeyedOff(s)
         IN  /\ ws \in Seq(Writes)
             /\ \A x : /\ Finally(ws, "master", None, x, x)
                       /\ Finally(ws, "dir", None, x, x)
                       /\ Finally(ws, "koff", None, x, koff)
                       /\ Finally(ws, "kon", None, x, IF kon = {} THEN x ELSE kon)
             /\ \A c \in Channels :
                  /\ Finally(ws, "v_vol", c, d[c].volume, s[c].d.volume)
                  /\ \A x : Finally(ws, "v_srcn", c, x,
                              IF s[c].writes = <<>> THEN x ELSE s[c].writes[Len(s[c].writes)].value)
  <1>0. DOMAIN s = Channels /\ \A c \in Channels : EventsOk(ram, c, d[c], s[c])
    BY DEF ChannelsRan
  <1> DEFINE kon == KeyedOn(s)
             koff == KeyedOff(s)
             w == [c \in DOMAIN s |-> ChannelWrites(c, s[c])]
             a == <<Write("koff", None, {})>>
             b == InChannels(w)
             e == FlagWrite("koff", koff)
             f == FlagWrite("kon", kon)
             srcn(c, x) == IF s[c].writes = <<>> THEN x ELSE s[c].writes[Len(s[c].writes)].value
             ws == ((a \o b) \o e) \o f
  <1>1. DriverWrites(s) = ws
    <2>1. koff = {c \in DOMAIN s : s[c].koff} /\ kon = {c \in DOMAIN s : s[c].kon}
      BY <1>0 DEF KeyedOn, KeyedOff
    <2> HIDE DEF koff, kon
    <2> QED
      BY <2>1 DEF DriverWrites
  <1>2. a \in Seq(Writes) /\ \A r, c, x : Finally(a, r, c, x, IF r = "koff" /\ c = None THEN {} ELSE x)
    <2>1. Write("koff", None, {}) \in Writes
      BY WriteTypes DEF FlagRegisters
    <2> QED
      BY <2>1, FinallyOne
  <1>3. \A c \in Channels :
          /\ w[c] \in Seq(VoiceWrites(c))
          /\ Finally(w[c], "v_vol", c, d[c].volume, s[c].d.volume)
          /\ \A x : Finally(w[c], "v_srcn", c, x, srcn(c, x))
    BY <1>0, ChannelWritesEffect
  <1> HIDE DEF a
  <1>4. /\ b \in Seq(AllVoiceWrites)
        /\ \A c \in Channels : \A r, x, y : Finally(w[c], r, c, x, y) => Finally(b, r, c, x, y)
    <2>1. DOMAIN w = Channels
      BY <1>0
    <2>2. \A c \in Channels : w[c] \in Seq(VoiceWrites(c))
      BY <1>3
    <2> HIDE DEF w
    <2> QED
      BY <2>1, <2>2, InChannelsWrites
  <1> HIDE DEF w, b
  <1>5. b \in Seq(Writes) /\ \A r, c, x : r \notin VoiceRegisters => Finally(b, r, c, x, x)
    <2>1. AllVoiceWrites \subseteq Writes
      BY DEF AllVoiceWrites
    <2>2. b \in Seq(Writes)
      BY <1>4, <2>1
    <2> QED
      BY <1>4, <2>2, VoiceWritesOnly
  <1>6. koff \in SUBSET Channels /\ kon \in SUBSET Channels
    BY DEF KeyedOn, KeyedOff
  <1> HIDE DEF koff, kon
  <1>7. /\ e \in Seq(Writes)
        /\ \A r, c, x : Finally(e, r, c, x, IF r = "koff" /\ c = None /\ koff # {} THEN koff ELSE x)
    BY <1>6, FlagWriteEffect DEF FlagRegisters
  <1>8. /\ f \in Seq(Writes)
        /\ \A r, c, x : Finally(f, r, c, x, IF r = "kon" /\ c = None /\ kon # {} THEN kon ELSE x)
    BY <1>6, FlagWriteEffect DEF FlagRegisters
  <1> HIDE DEF e, f
  <1>9. a \o b \in Seq(Writes) /\ (a \o b) \o e \in Seq(Writes) /\ ws \in Seq(Writes)
    BY <1>2, <1>5, <1>7, <1>8
  <1>10. ASSUME NEW r, NEW c, NEW x, NEW x1, NEW x2, NEW x3, NEW x4,
                Finally(a, r, c, x, x1), Finally(b, r, c, x1, x2),
                Finally(e, r, c, x2, x3), Finally(f, r, c, x3, x4)
         PROVE  Finally(ws, r, c, x, x4)
    <2>1. Finally(a \o b, r, c, x, x2)
      BY <1>2, <1>5, <1>10, FinallyConcat
    <2>2. Finally((a \o b) \o e, r, c, x, x3)
      BY <1>7, <1>9, <1>10, <2>1, FinallyConcat
    <2> QED
      BY <1>8, <1>9, <1>10, <2>2, FinallyConcat
  <1> HIDE DEF ws
  <1>11. ASSUME NEW x
         PROVE  /\ Finally(ws, "master", None, x, x)
                /\ Finally(ws, "dir", None, x, x)
                /\ Finally(ws, "koff", None, x, koff)
                /\ Finally(ws, "kon", None, x, IF kon = {} THEN x ELSE kon)
    <2>1. \A r, y : r \in {"master", "dir", "koff", "kon"} => Finally(b, r, None, y, y)
      BY <1>5 DEF VoiceRegisters
    <2>2. ASSUME NEW r \in {"master", "dir"} PROVE Finally(ws, r, None, x, x)
      <3>1. Finally(a, r, None, x, x)
        BY <1>2
      <3>2. Finally(b, r, None, x, x)
        BY <2>1
      <3>3. Finally(e, r, None, x, x)
        BY <1>7
      <3>4. Finally(f, r, None, x, x)
        BY <1>8
      <3> QED
        BY <1>10, <3>1, <3>2, <3>3, <3>4
    <2>3. Finally(ws, "koff", None, x, koff)
      <3>1. Finally(a, "koff", None, x, {})
        BY <1>2
      <3>2. Finally(b, "koff", None, {}, {})
        BY <2>1
      <3>3. Finally(e, "koff", None, {}, koff)
        BY <1>7
      <3>4. Finally(f, "koff", None, koff, koff)
        BY <1>8
      <3> QED
        BY <1>10, <3>1, <3>2, <3>3, <3>4
    <2>4. Finally(ws, "kon", None, x, IF kon = {} THEN x ELSE kon)
      <3>1. Finally(a, "kon", None, x, x)
        BY <1>2
      <3>2. Finally(b, "kon", None, x, x)
        BY <2>1
      <3>3. Finally(e, "kon", None, x, x)
        BY <1>7
      <3>4. Finally(f, "kon", None, x, IF kon = {} THEN x ELSE kon)
        BY <1>8
      <3> QED
        BY <1>10, <3>1, <3>2, <3>3, <3>4
    <2> QED
      BY <2>2, <2>3, <2>4
  <1>12. ASSUME NEW c \in Channels
         PROVE  /\ Finally(ws, "v_vol", c, d[c].volume, s[c].d.volume)
                /\ \A x : Finally(ws, "v_srcn", c, x, srcn(c, x))
    <2>1. \A r, x : r \in VoiceRegisters =>
            Finally(a, r, c, x, x) /\ Finally(e, r, c, x, x) /\ Finally(f, r, c, x, x)
      BY <1>2, <1>7, <1>8 DEF VoiceRegisters
    <2>2. Finally(b, "v_vol", c, d[c].volume, s[c].d.volume)
      BY <1>3, <1>4
    <2>3. \A x : Finally(b, "v_srcn", c, x, srcn(c, x))
      BY <1>3, <1>4
    <2>4. Finally(ws, "v_vol", c, d[c].volume, s[c].d.volume)
      BY <1>10, <2>1, <2>2 DEF VoiceRegisters
    <2> HIDE DEF srcn
    <2>5. ASSUME NEW x PROVE Finally(ws, "v_srcn", c, x, srcn(c, x))
      BY <1>10, <2>1, <2>3 DEF VoiceRegisters
    <2> QED
      BY <2>4, <2>5
  <1> QED
    BY <1>1, <1>9, <1>11, <1>12 DEF kon, koff

(* restore_state().                                                        *)
LEMMA RestoreStateEffect ==
  ASSUME NEW ds, DOMAIN ds = Channels, \A c \in Channels : ds[c].volume \in Volumes
  PROVE  LET ws == RestoreState(ds) IN
         /\ ws \in Seq(Writes) /\ ws # <<>>
         /\ \A x : /\ Finally(ws, "master", None, x, TRUE)
                   /\ Finally(ws, "kon", None, x, {})
         /\ \A c \in Channels : \A x : Finally(ws, "v_vol", c, x, ds[c].volume)
  <1> DEFINE w == [c \in DOMAIN ds |-> WriteVolume(c, ds[c])]
             a == <<Write("master", None, TRUE)>>
             b == <<Write("kon", None, {})>>
             e == InChannels(w)
             ws == (a \o b) \o e
  <1>1. RestoreState(ds) = ws
    <2>1. ASSUME NEW m \in Writes, NEW k \in Writes PROVE <<m, k>> = <<m>> \o <<k>>
      BY ShortSequences
    <2>2. Write("master", None, TRUE) \in Writes /\ Write("kon", None, {}) \in Writes
      BY WriteTypes DEF FlagRegisters
    <2>3. <<Write("master", None, TRUE), Write("kon", None, {})>> = a \o b
      BY <2>1, <2>2
    <2> QED
      BY <2>3 DEF RestoreState
  <1>2. a \in Seq(Writes) /\ \A r, c, x : Finally(a, r, c, x, IF r = "master" /\ c = None THEN TRUE ELSE x)
    <2>1. Write("master", None, TRUE) \in Writes
      BY WriteTypes
    <2>2. a \in Seq(Writes)
      BY <2>1, ShortSequences
    <2>3. ASSUME NEW r, NEW c, NEW x
          PROVE  Finally(a, r, c, x, IF r = "master" /\ c = None THEN TRUE ELSE x)
      BY FinallyOne
    <2> QED
      BY <2>2, <2>3
  <1>3. b \in Seq(Writes) /\ \A r, c, x : Finally(b, r, c, x, IF r = "kon" /\ c = None THEN {} ELSE x)
    <2>1. Write("kon", None, {}) \in Writes
      BY WriteTypes DEF FlagRegisters
    <2> QED
      BY <2>1, FinallyOne
  <1>4. ASSUME NEW c \in Channels
        PROVE  w[c] \in Seq(VoiceWrites(c)) /\ \A x : Finally(w[c], "v_vol", c, x, ds[c].volume)
    <2>1. w[c] = <<Write("v_vol", c, ds[c].volume)>>
      BY DEF WriteVolume
    <2>2. Write("v_vol", c, ds[c].volume) \in VoiceWrites(c)
      BY WriteTypes
    <2> HIDE DEF w
    <2>3. \A x : Finally(w[c], "v_vol", c, x, ds[c].volume)
      BY <2>1, FinallyOne
    <2>4. w[c] \in Seq(VoiceWrites(c))
      BY <2>1, <2>2
    <2> QED
      BY <2>3, <2>4
  <1>a. Len(a) = 1
    OBVIOUS
  <1> HIDE DEF a, b
  <1>5. /\ e \in Seq(AllVoiceWrites)
        /\ \A c \in Channels : \A r, x, y : Finally(w[c], r, c, x, y) => Finally(e, r, c, x, y)
    <2>1. DOMAIN w = Channels
      OBVIOUS
    <2> HIDE DEF w
    <2> QED
      BY <1>4, <2>1, InChannelsWrites
  <1> HIDE DEF w, e
  <1>6. e \in Seq(Writes) /\ \A r, c, x : r \notin VoiceRegisters => Finally(e, r, c, x, x)
    <2>1. AllVoiceWrites \subseteq Writes
      BY DEF AllVoiceWrites
    <2>2. e \in Seq(Writes)
      BY <1>5, <2>1
    <2> QED
      BY <1>5, <2>2, VoiceWritesOnly
  <1>7. a \o b \in Seq(Writes) /\ ws \in Seq(Writes) /\ ws # <<>>
    BY <1>2, <1>3, <1>6, <1>a
  <1>8. ASSUME NEW r, NEW c, NEW x, NEW x1, NEW x2, NEW x3,
                Finally(a, r, c, x, x1), Finally(b, r, c, x1, x2), Finally(e, r, c, x2, x3)
         PROVE  Finally(ws, r, c, x, x3)
    <2>1. Finally(a \o b, r, c, x, x2)
      BY <1>2, <1>3, <1>8, FinallyConcat
    <2> QED
      BY <1>6, <1>7, <1>8, <2>1, FinallyConcat
  <1> HIDE DEF ws
  <1>9. ASSUME NEW x PROVE Finally(ws, "master", None, x, TRUE)
    <2>1. Finally(a, "master", None, x, TRUE) /\ Finally(b, "master", None, TRUE, TRUE)
          /\ Finally(e, "master", None, TRUE, TRUE)
      BY <1>2, <1>3, <1>6 DEF VoiceRegisters
    <2> QED
      BY <1>8, <2>1
  <1>10. ASSUME NEW x PROVE Finally(ws, "kon", None, x, {})
    <2>1. Finally(a, "kon", None, x, x) /\ Finally(b, "kon", None, x, {})
          /\ Finally(e, "kon", None, {}, {})
      BY <1>2, <1>3, <1>6 DEF VoiceRegisters
    <2> QED
      BY <1>8, <2>1
  <1>11. ASSUME NEW c \in Channels, NEW x PROVE Finally(ws, "v_vol", c, x, ds[c].volume)
    <2>1. Finally(a, "v_vol", c, x, x) /\ Finally(b, "v_vol", c, x, x)
          /\ Finally(e, "v_vol", c, x, ds[c].volume)
      BY <1>2, <1>3, <1>4, <1>5
    <2> QED
      BY <1>8, <2>1
  <1> QED
    BY <1>1, <1>7, <1>9, <1>10, <1>11

(* No writes leave everything as it is, and only they do.                  *)
LEMMA NoEffectNoWrites ==
  ASSUME NEW ws \in Seq(Writes), \A r, c, x : Finally(ws, r, c, x, x)
  PROVE  ws = <<>>
  <1> SUFFICES ASSUME ws # <<>> PROVE FALSE
    OBVIOUS
  <1> DEFINE n == Len(ws)
             w == ws[n]
  <1>1. n \in DOMAIN ws /\ \A k \in DOMAIN ws : k <= n
    OBVIOUS
  <1>2. IsWrite(w, w.register, w.channel)
    BY DEF IsWrite
  <1> HIDE DEF n
  <1>3. ASSUME NEW x PROVE w.value = x
    <2>1. Finally(ws, w.register, w.channel, x, x)
      OBVIOUS
    <2>2. PICK k \in DOMAIN ws : /\ IsWrite(ws[k], w.register, w.channel) /\ ws[k].value = x
                                 /\ \A j \in DOMAIN ws : j > k => ~IsWrite(ws[j], w.register, w.channel)
      BY <1>1, <1>2, <2>1 DEF Finally
    <2>3. k = n
      BY <1>1, <1>2, <2>2
    <2> QED
      BY <2>2, <2>3
  <1>4. w.value = TRUE /\ w.value = FALSE
    BY <1>3
  <1> QED
    BY <1>4

(* A timer without a tick only clears the key-off flags.                   *)
LEMMA QuietDriverWrites ==
  ASSUME NEW s, DOMAIN s = Channels, \A c \in Channels : \E d : s[c] = BeginEvents(d)
  PROVE  DriverWrites(s) = <<Write("koff", None, {})>>
  <1> DEFINE w == [c \in DOMAIN s |-> ChannelWrites(c, s[c])]
  <1>1. ASSUME NEW c \in Channels PROVE w[c] = <<>> /\ ~s[c].kon /\ ~s[c].koff
    <2>1. PICK d : s[c] = BeginEvents(d)
      OBVIOUS
    <2>2. s[c].writes = <<>> /\ s[c].volumes_changed = FALSE /\ s[c].kon = FALSE /\ s[c].koff = FALSE
      BY <2>1 DEF BeginEvents
    <2>3. ChannelWrites(c, s[c]) = <<>>
      BY <2>2 DEF ChannelWrites
    <2> QED
      BY <2>2, <2>3
  <1>2. InChannels(w) = <<>>
    <2>a. \A c \in Channels : w[c] = <<>>
      BY <1>1
    <2>b. DOMAIN w = Channels
      OBVIOUS
    <2>1. \A c \in Channels : w[c] \in Seq(VoiceWrites(c))
      <3> HIDE DEF w
      <3>1. ASSUME NEW c \in Channels PROVE w[c] \in Seq(VoiceWrites(c))
        <4>1. <<>> \in Seq(VoiceWrites(c))
          OBVIOUS
        <4> QED
          BY <2>a, <4>1
      <3> QED
        BY <3>1
    <2> HIDE DEF w
    <2> DEFINE ws == InChannels(w)
    <2>2. /\ ws \in Seq(AllVoiceWrites)
          /\ \A c \in Channels : \A r, x, y : Finally(w[c], r, c, x, y) => Finally(ws, r, c, x, y)
      BY <2>1, <2>b, InChannelsWrites
    <2> HIDE DEF ws
    <2>3. \A c \in Channels : \A r, x : Finally(ws, r, c, x, x)
      BY <2>2, <2>a, FinallyOther
    <2>4. \A k \in DOMAIN ws : ws[k] \in AllVoiceWrites
      BY <2>2
    <2>5. ASSUME NEW r, NEW c, NEW x, c \notin Channels PROVE Finally(ws, r, c, x, x)
      <3>1. \A k \in DOMAIN ws : ws[k].channel \in Channels
        <4>1. ASSUME NEW v \in AllVoiceWrites PROVE v.channel \in Channels
          BY DEF AllVoiceWrites, VoiceRegisters, Writes
        <4> QED
          BY <2>4, <4>1
      <3>2. \A k \in DOMAIN ws : ~IsWrite(ws[k], r, c)
        BY <2>5, <3>1 DEF IsWrite
      <3> QED
        BY <3>2, FinallyOther
    <2>6. ws \in Seq(Writes)
      <3>1. AllVoiceWrites \subseteq Writes
        BY DEF AllVoiceWrites
      <3> QED
        BY <2>2, <3>1
    <2>7. \A r, c, x : Finally(ws, r, c, x, x)
      BY <2>3, <2>5
    <2>8. ws = <<>>
      BY <2>6, <2>7, NoEffectNoWrites
    <2> QED
      BY <2>8 DEF ws
  <1>3. {c \in DOMAIN s : s[c].koff} = {} /\ {c \in DOMAIN s : s[c].kon} = {}
    BY <1>1
  <1> DEFINE k == Write("koff", None, {})
  <1>4. DriverWrites(s) = ((<<k>> \o <<>>) \o <<>>) \o <<>>
    BY <1>2, <1>3 DEF DriverWrites, FlagWrite
  <1>5. k \in Writes
    BY WriteTypes DEF FlagRegisters
  <1>6. ((<<k>> \o <<>>) \o <<>>) \o <<>> = <<k>>
    <2> HIDE DEF k
    <2> QED
      BY <1>5
  <1> QED
    BY <1>4, <1>6

(* The fields of the chip.                                                 *)
DspOk(d) ==
  /\ d = [master |-> d.master, dir |-> d.dir, koff |-> d.koff, new_kon |-> d.new_kon,
          kon |-> d.kon, v_vol |-> d.v_vol, v_srcn |-> d.v_srcn, voice |-> d.voice]
  /\ DOMAIN d.v_vol = Channels /\ DOMAIN d.v_srcn = Channels /\ DOMAIN d.voice = Channels

(* What a register holds, as it was written last.                          *)
Register(d, r, c) ==
  CASE r = "master" -> d.master
    [] r = "dir" -> d.dir
    [] r = "kon" -> d.new_kon
    [] r = "koff" -> d.koff
    [] r = "v_vol" -> d.v_vol[c]
    [] r = "v_srcn" -> d.v_srcn[c]

(* The registers of the chip and of its voices.                            *)
IsRegister(r, c) ==
  \/ r \in {"master", "dir", "kon", "koff"} /\ c = None
  \/ r \in VoiceRegisters /\ c \in Channels

(* A write changes its register, and no voice.                             *)
LEMMA WriteRegEffect ==
  ASSUME NEW d, DspOk(d), NEW w \in Writes
  PROVE  LET e == WriteReg(d, w) IN
         /\ DspOk(e) /\ e.voice = d.voice /\ e.kon = d.kon
         /\ \A r, c : IsRegister(r, c) =>
              Register(e, r, c) = IF IsWrite(w, r, c) THEN w.value ELSE Register(d, r, c)
  <1> DEFINE e == WriteReg(d, w)
  <1>1. CASE w.register = "kon"
    <2>1. e = [d EXCEPT !.new_kon = w.value] /\ w.channel = None
      BY <1>1 DEF WriteReg, Writes
    <2> HIDE DEF e
    <2>2. e = [master |-> d.master, dir |-> d.dir, koff |-> d.koff, new_kon |-> w.value,
               kon |-> d.kon, v_vol |-> d.v_vol, v_srcn |-> d.v_srcn, voice |-> d.voice]
      BY <2>1 DEF DspOk
    <2>3. DspOk(e) /\ e.voice = d.voice /\ e.kon = d.kon
      BY <2>2 DEF DspOk
    <2>4. /\ e.master = d.master /\ e.dir = d.dir /\ e.koff = d.koff /\ e.new_kon = w.value
          /\ e.v_vol = d.v_vol /\ e.v_srcn = d.v_srcn
      BY <2>2
    <2>5. ASSUME NEW r, NEW c, IsRegister(r, c)
          PROVE  Register(e, r, c) = IF IsWrite(w, r, c) THEN w.value ELSE Register(d, r, c)
      BY <1>1, <2>1, <2>4, <2>5 DEF Register, IsRegister, IsWrite, VoiceRegisters
    <2> QED
      BY <2>3, <2>5 DEF e
  <1>2. CASE w.register = "koff"
    <2>1. e = [d EXCEPT !.koff = w.value] /\ w.channel = None
      BY <1>2 DEF WriteReg, Writes
    <2> HIDE DEF e
    <2>2. e = [master |-> d.master, dir |-> d.dir, koff |-> w.value, new_kon |-> d.new_kon,
               kon |-> d.kon, v_vol |-> d.v_vol, v_srcn |-> d.v_srcn, voice |-> d.voice]
      BY <2>1 DEF DspOk
    <2>3. DspOk(e) /\ e.voice = d.voice /\ e.kon = d.kon
      BY <2>2 DEF DspOk
    <2>4. /\ e.master = d.master /\ e.dir = d.dir /\ e.koff = w.value /\ e.new_kon = d.new_kon
          /\ e.v_vol = d.v_vol /\ e.v_srcn = d.v_srcn
      BY <2>2
    <2>5. ASSUME NEW r, NEW c, IsRegister(r, c)
          PROVE  Register(e, r, c) = IF IsWrite(w, r, c) THEN w.value ELSE Register(d, r, c)
      BY <1>2, <2>1, <2>4, <2>5 DEF Register, IsRegister, IsWrite, VoiceRegisters
    <2> QED
      BY <2>3, <2>5 DEF e
  <1>3. CASE w.register = "master"
    <2>1. e = [d EXCEPT !.master = w.value] /\ w.channel = None
      BY <1>3 DEF WriteReg, Writes
    <2> HIDE DEF e
    <2>2. e = [master |-> w.value, dir |-> d.dir, koff |-> d.koff, new_kon |-> d.new_kon,
               kon |-> d.kon, v_vol |-> d.v_vol, v_srcn |-> d.v_srcn, voice |-> d.voice]
      BY <2>1 DEF DspOk
    <2>3. DspOk(e) /\ e.voice = d.voice /\ e.kon = d.kon
      BY <2>2 DEF DspOk
    <2>4. /\ e.master = w.value /\ e.dir = d.dir /\ e.koff = d.koff /\ e.new_kon = d.new_kon
          /\ e.v_vol = d.v_vol /\ e.v_srcn = d.v_srcn
      BY <2>2
    <2>5. ASSUME NEW r, NEW c, IsRegister(r, c)
          PROVE  Register(e, r, c) = IF IsWrite(w, r, c) THEN w.value ELSE Register(d, r, c)
      BY <1>3, <2>1, <2>4, <2>5 DEF Register, IsRegister, IsWrite, VoiceRegisters
    <2> QED
      BY <2>3, <2>5 DEF e
  <1>4. CASE w.register = "dir"
    <2>1. e = [d EXCEPT !.dir = w.value] /\ w.channel = None
      BY <1>4 DEF WriteReg, Writes
    <2> HIDE DEF e
    <2>2. e = [master |-> d.master, dir |-> w.value, koff |-> d.koff, new_kon |-> d.new_kon,
               kon |-> d.kon, v_vol |-> d.v_vol, v_srcn |-> d.v_srcn, voice |-> d.voice]
      BY <2>1 DEF DspOk
    <2>3. DspOk(e) /\ e.voice = d.voice /\ e.kon = d.kon
      BY <2>2 DEF DspOk
    <2>4. /\ e.master = d.master /\ e.dir = w.value /\ e.koff = d.koff /\ e.new_kon = d.new_kon
          /\ e.v_vol = d.v_vol /\ e.v_srcn = d.v_srcn
      BY <2>2
    <2>5. ASSUME NEW r, NEW c, IsRegister(r, c)
          PROVE  Register(e, r, c) = IF IsWrite(w, r, c) THEN w.value ELSE Register(d, r, c)
      BY <1>4, <2>1, <2>4, <2>5 DEF Register, IsRegister, IsWrite, VoiceRegisters
    <2> QED
      BY <2>3, <2>5 DEF e
  <1>5. CASE w.register = "v_vol"
    <2>1. e = [d EXCEPT !.v_vol[w.channel] = w.value] /\ w.channel \in Channels
      BY <1>5 DEF WriteReg, Writes
    <2> HIDE DEF e
    <2> DEFINE vol == [d.v_vol EXCEPT ![w.channel] = w.value]
    <2>2. e = [master |-> d.master, dir |-> d.dir, koff |-> d.koff, new_kon |-> d.new_kon,
               kon |-> d.kon, v_vol |-> vol, v_srcn |-> d.v_srcn, voice |-> d.voice]
      BY <2>1 DEF DspOk
    <2>a. DOMAIN vol = Channels /\ \A c \in Channels : vol[c] = IF c = w.channel THEN w.value ELSE d.v_vol[c]
      BY <2>1 DEF DspOk
    <2> HIDE DEF vol
    <2>4. /\ e.master = d.master /\ e.dir = d.dir /\ e.koff = d.koff /\ e.new_kon = d.new_kon
          /\ e.v_vol = vol /\ e.v_srcn = d.v_srcn
      BY <2>2
    <2>3. DspOk(e) /\ e.voice = d.voice /\ e.kon = d.kon
      BY <2>2, <2>a DEF DspOk
    <2>5. ASSUME NEW r, NEW c, IsRegister(r, c)
          PROVE  Register(e, r, c) = IF IsWrite(w, r, c) THEN w.value ELSE Register(d, r, c)
      BY <1>5, <2>1, <2>4, <2>5, <2>a DEF Register, IsRegister, IsWrite, VoiceRegisters
    <2> QED
      BY <2>3, <2>5 DEF e
  <1>6. CASE w.register = "v_srcn"
    <2>1. e = [d EXCEPT !.v_srcn[w.channel] = w.value] /\ w.channel \in Channels
      BY <1>6 DEF WriteReg, Writes
    <2> HIDE DEF e
    <2> DEFINE srcn == [d.v_srcn EXCEPT ![w.channel] = w.value]
    <2>2. e = [master |-> d.master, dir |-> d.dir, koff |-> d.koff, new_kon |-> d.new_kon,
               kon |-> d.kon, v_vol |-> d.v_vol, v_srcn |-> srcn, voice |-> d.voice]
      BY <2>1 DEF DspOk
    <2>a. DOMAIN srcn = Channels /\ \A c \in Channels : srcn[c] = IF c = w.channel THEN w.value ELSE d.v_srcn[c]
      BY <2>1 DEF DspOk
    <2> HIDE DEF srcn
    <2>4. /\ e.master = d.master /\ e.dir = d.dir /\ e.koff = d.koff /\ e.new_kon = d.new_kon
          /\ e.v_vol = d.v_vol /\ e.v_srcn = srcn
      BY <2>2
    <2>3. DspOk(e) /\ e.voice = d.voice /\ e.kon = d.kon
      BY <2>2, <2>a DEF DspOk
    <2>5. ASSUME NEW r, NEW c, IsRegister(r, c)
          PROVE  Register(e, r, c) = IF IsWrite(w, r, c) THEN w.value ELSE Register(d, r, c)
      BY <1>6, <2>1, <2>4, <2>5, <2>a DEF Register, IsRegister, IsWrite, VoiceRegisters
    <2> QED
      BY <2>3, <2>5 DEF e
  <1>7. w.register \in {"kon", "koff", "master", "dir", "v_vol", "v_srcn"}
    BY DEF Writes
  <1> QED
    BY <1>1, <1>2, <1>3, <1>4, <1>5, <1>6, <1>7

(* A poll keys voices on and off, and writes no register but the key-on.   *)
LEMMA PollEffect ==
  ASSUME NEW d, DspOk(d)
  PROVE  LET p == Poll(d)
             kon == d.new_kon \ d.kon
         IN  /\ DspOk(p)
             /\ p.master = d.master /\ p.dir = d.dir /\ p.koff = d.koff
             /\ p.v_vol = d.v_vol /\ p.v_srcn = d.v_srcn
             /\ p.new_kon = kon /\ p.kon = kon
             /\ \A c \in Channels :
                  p.voice[c] = IF c \in kon THEN d.v_srcn[c]
                               ELSE IF c \in d.koff THEN None ELSE d.voice[c]
  <1> DEFINE kon == d.new_kon \ d.kon
             voice == [c \in Channels |-> IF c \in kon THEN d.v_srcn[c]
                                          ELSE IF c \in d.koff THEN None ELSE d.voice[c]]
             p == Poll(d)
  <1>1. p = [d EXCEPT !.new_kon = kon, !.kon = kon, !.voice = voice]
    BY DEF Poll
  <1>2. DOMAIN voice = Channels
        /\ \A c \in Channels : voice[c] = IF c \in kon THEN d.v_srcn[c]
                                          ELSE IF c \in d.koff THEN None ELSE d.voice[c]
    OBVIOUS
  <1> HIDE DEF voice, p
  <1>3. p = [master |-> d.master, dir |-> d.dir, koff |-> d.koff, new_kon |-> kon,
             kon |-> kon, v_vol |-> d.v_vol, v_srcn |-> d.v_srcn, voice |-> voice]
    <2> HIDE DEF kon
    <2> QED
      BY <1>1 DEF DspOk
  <1>4. /\ p.master = d.master /\ p.dir = d.dir /\ p.koff = d.koff
        /\ p.v_vol = d.v_vol /\ p.v_srcn = d.v_srcn
        /\ p.new_kon = kon /\ p.kon = kon /\ p.voice = voice
    <2> HIDE DEF kon
    <2> QED
      BY <1>3
  <1>5. DspOk(p)
    <2> HIDE DEF kon
    <2> QED
      BY <1>2, <1>3, <1>4 DEF DspOk
  <1> QED
    BY <1>2, <1>4, <1>5 DEF p

(* f[k] is the chip after k polls.                                         *)
Polled(f, n, d) == f = [k \in 0 .. n |-> IF k = 0 THEN d ELSE Poll(f[k - 1])]

(* The recursive function in RunClocks exists.                             *)
LEMMA PolledExists == ASSUME NEW d, NEW n \in Nat PROVE \E f : Polled(f, n, d)
  <1> DEFINE S == {m \in 0 .. n : \E f : Polled(f, m, d)}
             next(f, k) == IF k = 0 THEN d ELSE Poll(f[k - 1])
  <1>1. 0 \in S
    <2> DEFINE f == [k \in 0 .. 0 |-> d]
    <2>1. f = [k \in 0 .. 0 |-> next(f, k)]
      OBVIOUS
    <2> HIDE DEF f
    <2>2. Polled(f, 0, d)
      BY <2>1 DEF Polled
    <2> QED
      BY <2>2
  <1>2. ASSUME NEW m \in 1 .. n, m - 1 \in S PROVE m \in S
    <2>1. PICK f : Polled(f, m - 1, d)
      BY <1>2
    <2>2. f = [k \in 0 .. m - 1 |-> next(f, k)]
      BY <2>1 DEF Polled
    <2> DEFINE g == [k \in 0 .. m |-> IF k < m THEN f[k] ELSE Poll(f[m - 1])]
    <2>3. ASSUME NEW k \in 0 .. m PROVE g[k] = next(g, k)
      <3>1. CASE k = 0
        BY <2>2, <3>1
      <3>2. CASE k # 0 /\ k < m
        <4>1. k \in 0 .. m - 1 /\ k - 1 \in 0 .. m /\ k - 1 < m
          BY <3>2
        <4>2. g[k] = f[k] /\ g[k - 1] = f[k - 1] /\ f[k] = next(f, k)
          BY <2>2, <4>1, <3>2
        <4> QED
          BY <3>2, <4>2
      <3>3. CASE k = m
        <4>1. k - 1 \in 0 .. m /\ k - 1 < m /\ k # 0
          BY <3>3
        <4> QED
          BY <3>3, <4>1
      <3> QED
        BY <3>1, <3>2, <3>3
    <2>4. g = [k \in 0 .. m |-> next(g, k)]
      BY <2>3
    <2> HIDE DEF g
    <2>5. Polled(g, m, d)
      BY <2>4 DEF Polled
    <2> QED
      BY <2>5
  <1>3. \A m \in 0 .. n : m \in S
    <2> HIDE DEF S
    <2> QED
      BY <1>1, <1>2, CountUp
  <1> QED
    BY <1>3

(* Polls write no register but the key-on.                                 *)
SameRegisters(d, e) ==
  /\ e.master = d.master /\ e.dir = d.dir /\ e.koff = d.koff
  /\ e.v_vol = d.v_vol /\ e.v_srcn = d.v_srcn

(* A chip that runs: at the first poll it keys on the new voices, and at   *)
(* the next it keys off those to key off, also if they were just keyed on. *)
LEMMA RunClocksEffect ==
  ASSUME NEW d, DspOk(d), NEW n \in Nat
  PROVE  LET e == RunClocks(d, n) IN
         /\ DspOk(e) /\ SameRegisters(d, e)
         /\ n = 0 => e = d
         /\ d.kon = {} /\ d.new_kon = {} /\ n >= 1 =>
              /\ e.kon = {} /\ e.new_kon = {}
              /\ \A c \in Channels : e.voice[c] = IF c \in d.koff THEN None ELSE d.voice[c]
         /\ d.kon = {} /\ n >= 2 =>
              /\ e.kon = {} /\ e.new_kon = {}
              /\ \A c \in Channels :
                   e.voice[c] = IF c \in d.koff THEN None
                                ELSE IF c \in d.new_kon THEN d.v_srcn[c] ELSE d.voice[c]
  <1> DEFINE f == CHOOSE f : Polled(f, n, d)
  <1>1. RunClocks(d, n) = f[n]
    BY DEF RunClocks, Polled
  <1>2. Polled(f, n, d)
    BY PolledExists
  <1> HIDE DEF f
  <1>3. f[0] = d /\ \A k \in 1 .. n : f[k] = Poll(f[k - 1])
    <2>1. 0 \in 0 .. n /\ \A k \in 1 .. n : k \in 0 .. n /\ k # 0
      OBVIOUS
    <2> QED
      BY <1>2, <2>1 DEF Polled
  <1>4. \A k \in 0 .. n : DspOk(f[k]) /\ SameRegisters(d, f[k])
    <2> DEFINE S == {k \in 0 .. n : DspOk(f[k]) /\ SameRegisters(d, f[k])}
    <2>1. 0 \in S
      BY <1>3 DEF SameRegisters
    <2>2. ASSUME NEW k \in 1 .. n, k - 1 \in S PROVE k \in S
      <3>1. f[k] = Poll(f[k - 1]) /\ DspOk(f[k - 1]) /\ SameRegisters(d, f[k - 1])
        BY <1>3, <2>2
      <3>2. DspOk(f[k]) /\ SameRegisters(d, f[k])
        BY <3>1, PollEffect DEF SameRegisters
      <3> QED
        BY <3>2
    <2>3. \A k \in 0 .. n : k \in S
      <3> HIDE DEF S
      <3> QED
        BY <2>1, <2>2, CountUp
    <2> QED
      BY <2>3
  <1>5. ASSUME d.kon = {}, n >= 1
        PROVE  /\ f[1].kon = d.new_kon /\ f[1].new_kon = d.new_kon
               /\ \A c \in Channels :
                    f[1].voice[c] = IF c \in d.new_kon THEN d.v_srcn[c]
                                    ELSE IF c \in d.koff THEN None ELSE d.voice[c]
    <2>1. f[1] = Poll(d)
      <3>1. 1 \in 1 .. n /\ 1 - 1 = 0
        BY <1>5
      <3> QED
        BY <1>3, <3>1
    <2>2. d.new_kon \ d.kon = d.new_kon
      BY <1>5
    <2> DEFINE kon == d.new_kon \ d.kon
    <2>3. /\ Poll(d).kon = kon /\ Poll(d).new_kon = kon
          /\ \A c \in Channels :
               Poll(d).voice[c] = IF c \in kon THEN d.v_srcn[c]
                                  ELSE IF c \in d.koff THEN None ELSE d.voice[c]
      BY PollEffect
    <2>4. kon = d.new_kon
      BY <2>2
    <2> HIDE DEF kon
    <2> QED
      BY <2>1, <2>3, <2>4
  <1>6. ASSUME d.kon = {}, NEW m \in 1 .. n, d.new_kon = {} \/ m >= 2
        PROVE  /\ f[m].kon = {} /\ f[m].new_kon = {}
               /\ \A c \in Channels :
                    f[m].voice[c] = IF c \in d.koff THEN None
                                    ELSE IF c \in d.new_kon THEN d.v_srcn[c] ELSE d.voice[c]
    <2> DEFINE voice(c) == IF c \in d.koff THEN None
                           ELSE IF c \in d.new_kon THEN d.v_srcn[c] ELSE d.voice[c]
               S == {k \in 0 .. n :
                       (k = 1 /\ d.new_kon = {}) \/ k >= 2 =>
                          /\ f[k].kon = {} /\ f[k].new_kon = {}
                          /\ \A c \in Channels : f[k].voice[c] = voice(c)}
    <2>1. 0 \in S
      OBVIOUS
    <2>2. ASSUME NEW k \in 1 .. n, k - 1 \in S PROVE k \in S
      <3>1. f[k] = Poll(f[k - 1]) /\ DspOk(f[k - 1]) /\ SameRegisters(d, f[k - 1])
        <4>1. k - 1 \in 0 .. n
          OBVIOUS
        <4> QED
          BY <1>3, <1>4, <4>1
      <3>2. /\ f[k].kon = f[k - 1].new_kon \ f[k - 1].kon
            /\ f[k].new_kon = f[k - 1].new_kon \ f[k - 1].kon
            /\ \A c \in Channels :
                 f[k].voice[c] = IF c \in f[k - 1].new_kon \ f[k - 1].kon THEN d.v_srcn[c]
                                 ELSE IF c \in d.koff THEN None ELSE f[k - 1].voice[c]
        BY <3>1, PollEffect DEF SameRegisters
      <3>3. CASE k = 1 /\ d.new_kon = {}
        <4>1. n >= 1
          OBVIOUS
        <4>2. /\ f[k].kon = {} /\ f[k].new_kon = {}
              /\ \A c \in Channels : f[k].voice[c] = voice(c)
          BY <1>5, <1>6, <3>3, <4>1
        <4> QED
          BY <4>2
      <3>4. CASE k = 2
        <4>1. n >= 1 /\ k - 1 = 1
          BY <3>4
        <4>2. /\ f[k - 1].kon = d.new_kon /\ f[k - 1].new_kon = d.new_kon
              /\ \A c \in Channels :
                   f[k - 1].voice[c] = IF c \in d.new_kon THEN d.v_srcn[c]
                                       ELSE IF c \in d.koff THEN None ELSE d.voice[c]
          BY <1>5, <1>6, <4>1
        <4>3. f[k - 1].new_kon \ f[k - 1].kon = {}
          BY <4>2
        <4>4. /\ f[k].kon = {} /\ f[k].new_kon = {}
              /\ \A c \in Channels : f[k].voice[c] = voice(c)
          BY <3>2, <4>2, <4>3
        <4> QED
          BY <4>4
      <3>5. CASE k > 2
        <4>1. k - 1 >= 2
          BY <3>5
        <4>2. /\ f[k - 1].kon = {} /\ f[k - 1].new_kon = {}
              /\ \A c \in Channels : f[k - 1].voice[c] = voice(c)
          BY <2>2, <4>1
        <4>3. f[k - 1].new_kon \ f[k - 1].kon = {}
          BY <4>2
        <4>4. /\ f[k].kon = {} /\ f[k].new_kon = {}
              /\ \A c \in Channels : f[k].voice[c] = voice(c)
          BY <3>2, <4>2, <4>3
        <4> QED
          BY <4>4
      <3>6. CASE k = 1 /\ d.new_kon # {}
        BY <3>6
      <3> QED
        BY <3>3, <3>4, <3>5, <3>6
    <2>3. \A k \in 0 .. n : k \in S
      <3> HIDE DEF S
      <3> QED
        BY <2>1, <2>2, CountUp
    <2>4. m \in S
      <3> HIDE DEF S
      <3>1. m \in 0 .. n
        OBVIOUS
      <3> QED
        BY <2>3, <3>1
    <2>5. (m = 1 /\ d.new_kon = {}) \/ m >= 2
      BY <1>6
    <2> QED
      BY <2>4, <2>5
  <1>7. DspOk(f[n]) /\ SameRegisters(d, f[n])
    BY <1>4
  <1>8. n = 0 => f[n] = d
    BY <1>3
  <1>9. ASSUME d.kon = {}, d.new_kon = {}, n >= 1
        PROVE  /\ f[n].kon = {} /\ f[n].new_kon = {}
               /\ \A c \in Channels : f[n].voice[c] = IF c \in d.koff THEN None ELSE d.voice[c]
    <2>1. n \in 1 .. n
      BY <1>9
    <2> QED
      BY <1>6, <1>9, <2>1
  <1>10. ASSUME d.kon = {}, n >= 2
         PROVE  /\ f[n].kon = {} /\ f[n].new_kon = {}
                /\ \A c \in Channels :
                     f[n].voice[c] = IF c \in d.koff THEN None
                                     ELSE IF c \in d.new_kon THEN d.v_srcn[c] ELSE d.voice[c]
    <2>1. n \in 1 .. n
      BY <1>10
    <2> QED
      BY <1>6, <1>10, <2>1
  <1> QED
    BY <1>1, <1>7, <1>8, <1>9, <1>10

(* Writes in the queue wait for no poll or for one.                        *)
QueuedWrites == [write : Writes, time_before : {0, 1}]

(* The writes that wait in the queue.                                      *)
Pending(ws) == [k \in DOMAIN ws |-> ws[k].write]

(* What register r of channel c holds once the queue is written.           *)
Ends(r, c, x) == Finally(Pending(writes), r, c, Register(dsp, r, c), x)

(* No write waits for a poll.                                              *)
NoTimes(ws) == \A k \in DOMAIN ws : ws[k].time_before = 0

(* The first write and the rest of the queue.                              *)
LEMMA PendingType ==
  ASSUME NEW ws \in Seq(QueuedWrites)
  PROVE  /\ Pending(ws) \in Seq(Writes) /\ Len(Pending(ws)) = Len(ws)
         /\ ws # <<>> =>
              /\ Pending(ws) # <<>> /\ Head(Pending(ws)) = Head(ws).write
              /\ Pending(Tail(ws)) = Tail(Pending(ws))
              /\ Tail(ws) \in Seq(QueuedWrites)
              /\ Head(ws) \in QueuedWrites
         /\ ws = <<>> => Pending(ws) = <<>>
  <1> DEFINE n == Len(ws)
  <1>1. n \in Nat /\ DOMAIN ws = 1 .. n /\ \A k \in 1 .. n : ws[k] \in QueuedWrites
    OBVIOUS
  <1>2. \A k \in 1 .. n : ws[k].write \in Writes
    BY <1>1 DEF QueuedWrites
  <1> HIDE DEF n
  <1>3. Pending(ws) \in [1 .. n -> Writes]
    BY <1>1, <1>2 DEF Pending
  <1>4. Pending(ws) \in Seq(Writes) /\ Len(Pending(ws)) = n
    BY <1>1, <1>3
  <1>5. ASSUME ws # <<>>
        PROVE  /\ Pending(ws) # <<>> /\ Head(Pending(ws)) = Head(ws).write
               /\ Pending(Tail(ws)) = Tail(Pending(ws))
               /\ Tail(ws) \in Seq(QueuedWrites)
               /\ Head(ws) \in QueuedWrites
    <2>1. n >= 1 /\ Head(ws) = ws[1]
      BY <1>5 DEF n
    <2>2. Pending(ws) # <<>> /\ Head(Pending(ws)) = Pending(ws)[1] /\ Pending(ws)[1] = ws[1].write
      <3>1. Pending(ws) # <<>> /\ Head(Pending(ws)) = Pending(ws)[1]
        BY <1>1, <1>4, <2>1
      <3>2. 1 \in DOMAIN ws
        BY <1>1, <2>1
      <3> QED
        BY <3>1, <3>2 DEF Pending
    <2> DEFINE t == Tail(ws)
               u == Tail(Pending(ws))
    <2>3. t \in Seq(QueuedWrites) /\ DOMAIN t = 1 .. n - 1 /\ \A k \in 1 .. n - 1 : t[k] = ws[k + 1]
      BY <1>5 DEF n
    <2>4. u \in Seq(Writes) /\ DOMAIN u = 1 .. n - 1 /\ \A k \in 1 .. n - 1 : u[k] = Pending(ws)[k + 1]
      BY <1>1, <1>4, <2>2
    <2> HIDE DEF t, u
    <2>5. \A k \in 1 .. n - 1 : u[k] = t[k].write
      <3>1. ASSUME NEW k \in 1 .. n - 1 PROVE u[k] = t[k].write
        <4>1. k + 1 \in DOMAIN ws
          BY <1>1
        <4>2. Pending(ws)[k + 1] = ws[k + 1].write
          BY <4>1 DEF Pending
        <4> QED
          BY <2>3, <2>4, <4>2
      <3> QED
        BY <3>1
    <2>6. u = [k \in 1 .. n - 1 |-> t[k].write]
      <3>1. u = [k \in 1 .. n - 1 |-> u[k]]
        BY <2>4
      <3> QED
        BY <2>5, <3>1
    <2>7. Pending(t) = u
      BY <2>3, <2>6 DEF Pending
    <2>8. Head(ws) \in QueuedWrites
      BY <1>1, <2>1
    <2> QED
      BY <2>1, <2>2, <2>3, <2>7, <2>8 DEF t, u
  <1>6. ws = <<>> => Pending(ws) = <<>>
    BY DEF Pending
  <1> QED
    BY <1>4, <1>5, <1>6 DEF n

(* Queued() appends to the queue.                                          *)
LEMMA QueuedEffect ==
  ASSUME writes \in Seq(QueuedWrites), accum \in {0, 1}, NEW new \in Seq(Writes)
  PROVE  /\ Queued(new) \in Seq(QueuedWrites)
         /\ Pending(Queued(new)) = Pending(writes) \o new
         /\ NoTimes(writes) /\ accum = 0 => NoTimes(Queued(new))
         /\ new # <<>> => Queued(new) # <<>>
  <1> DEFINE timed == [k \in DOMAIN new |->
                         [write |-> new[k], time_before |-> IF k = 1 THEN accum ELSE 0]]
             q == Queued(new)
             m == Len(writes)
             n == Len(new)
  <1>1. m \in Nat /\ n \in Nat /\ DOMAIN writes = 1 .. m /\ DOMAIN new = 1 .. n
        /\ \A k \in 1 .. n : new[k] \in Writes
    OBVIOUS
  <1>2. /\ timed \in Seq(QueuedWrites) /\ Len(timed) = n
        /\ \A k \in 1 .. n : timed[k].write = new[k]
        /\ \A k \in 1 .. n : accum = 0 => timed[k].time_before = 0
    <2>1. ASSUME NEW k \in 1 .. n
          PROVE  timed[k] \in QueuedWrites /\ timed[k].write = new[k]
                 /\ (accum = 0 => timed[k].time_before = 0)
      <3>1. timed[k] = [write |-> new[k], time_before |-> IF k = 1 THEN accum ELSE 0]
        BY <1>1
      <3> HIDE DEF timed
      <3>2. timed[k].write = new[k] /\ (accum = 0 => timed[k].time_before = 0)
        BY <3>1
      <3>3. timed[k] \in QueuedWrites
        BY <1>1, <3>1 DEF QueuedWrites
      <3> QED
        BY <3>2, <3>3
    <2>2. DOMAIN timed = 1 .. n
      BY <1>1
    <2>3. timed = [k \in 1 .. n |-> timed[k]]
      BY <1>1
    <2> HIDE DEF timed, n
    <2>4. timed \in [1 .. n -> QueuedWrites]
      BY <2>1, <2>2, <2>3
    <2>5. timed \in Seq(QueuedWrites) /\ Len(timed) = n
      BY <1>1, <2>4
    <2> QED
      BY <2>1, <2>5
  <1>3. q = writes \o timed
    BY DEF Queued
  <1> HIDE DEF timed, q
  <1>4. /\ q \in Seq(QueuedWrites) /\ DOMAIN q = 1 .. m + n /\ Len(q) = m + n
        /\ \A k \in 1 .. m : q[k] = writes[k]
        /\ \A k \in m + 1 .. m + n : q[k] = timed[k - m]
    <2>1. q \in Seq(QueuedWrites)
      BY <1>2, <1>3
    <2>2. Len(q) = m + n
      <3>1. timed \in Seq(QueuedWrites) /\ Len(timed) = n
        BY <1>2
      <3>2. Len(writes \o timed) = Len(writes) + Len(timed)
        <4> HIDE DEF m, n
        <4> QED
          BY <3>1
      <3> QED
        BY <1>3, <3>1, <3>2
    <2>5. DOMAIN q = 1 .. m + n
      BY <2>1, <2>2
    <2>3. \A k \in 1 .. m : q[k] = writes[k]
      BY <1>2, <1>3
    <2>4. ASSUME NEW k \in m + 1 .. m + n PROVE q[k] = timed[k - m]
      BY <1>2, <1>3
    <2> QED
      BY <2>1, <2>2, <2>3, <2>4, <2>5
  <1>5. Pending(q) = Pending(writes) \o new
    <2> DEFINE p == Pending(writes)
               r == p \o new
    <2>1. p \in Seq(Writes) /\ Len(p) = m /\ \A k \in 1 .. m : p[k] = writes[k].write
      <3>1. \A k \in 1 .. m : p[k] = writes[k].write
        BY <1>1 DEF Pending
      <3> QED
        BY <3>1, PendingType
    <2> HIDE DEF p
    <2>2. /\ r \in Seq(Writes) /\ Len(r) = m + n
          /\ \A k \in 1 .. m : r[k] = p[k]
          /\ \A k \in m + 1 .. m + n : r[k] = new[k - m]
      BY <2>1
    <2> HIDE DEF r, m, n
    <2>3. Pending(q) \in Seq(Writes) /\ Len(Pending(q)) = m + n
          /\ \A k \in 1 .. m + n : Pending(q)[k] = q[k].write
      <3>1. \A k \in 1 .. m + n : Pending(q)[k] = q[k].write
        BY <1>4 DEF Pending
      <3> QED
        BY <1>4, <3>1, PendingType
    <2>4. ASSUME NEW k \in 1 .. m + n PROVE Pending(q)[k] = r[k]
      <3>1. CASE k <= m
        <4>1. k \in 1 .. m
          BY <1>1, <3>1
        <4>2. Pending(q)[k] = q[k].write /\ q[k] = writes[k]
          BY <1>4, <2>3, <4>1
        <4>3. r[k] = p[k] /\ p[k] = writes[k].write
          BY <2>1, <2>2, <4>1
        <4> QED
          BY <4>2, <4>3
      <3>2. CASE k > m
        <4>1. k \in m + 1 .. m + n /\ k - m \in 1 .. n
          BY <1>1, <3>2
        <4>2. Pending(q)[k] = timed[k - m].write
          BY <1>4, <2>3, <4>1
        <4>3. timed[k - m].write = new[k - m]
          BY <1>2, <4>1
        <4>4. r[k] = new[k - m]
          BY <2>2, <4>1
        <4> QED
          BY <4>2, <4>3, <4>4
      <3> QED
        BY <1>1, <3>1, <3>2
    <2>5. Pending(q) = r
      <3> DEFINE z == Pending(q)
      <3>1. z \in Seq(Writes) /\ Len(z) = Len(r) /\ r \in Seq(Writes)
            /\ \A k \in 1 .. Len(z) : z[k] = r[k]
        BY <2>2, <2>3, <2>4
      <3> HIDE DEF z
      <3>2. z = r
        BY <3>1
      <3> QED
        BY <3>2 DEF z
    <2> QED
      BY <2>5 DEF r, p
  <1>6. ASSUME NoTimes(writes), accum = 0 PROVE NoTimes(q)
    <2>1. ASSUME NEW k \in DOMAIN q PROVE q[k].time_before = 0
      <3>1. CASE k <= m
        <4>1. k \in 1 .. m
          BY <1>1, <1>4, <3>1
        <4> QED
          BY <1>1, <1>4, <1>6, <4>1 DEF NoTimes
      <3>2. CASE k > m
        <4>1. k \in m + 1 .. m + n /\ k - m \in 1 .. n
          BY <1>1, <1>4, <3>2
        <4> QED
          BY <1>2, <1>4, <1>6, <4>1
      <3> QED
        BY <1>1, <1>4, <3>1, <3>2
    <2> QED
      BY <2>1 DEF NoTimes
  <1>7. new # <<>> => q # <<>>
    <2>1. new # <<>> => n > 0
      BY <1>1
    <2>2. m + n > 0 => q # <<>>
      BY <1>4
    <2> QED
      BY <1>1, <2>1, <2>2
  <1> QED
    BY <1>4, <1>5, <1>6, <1>7 DEF q

(* Every register ends at some value.                                      *)
LEMMA FinallyExists ==
  ASSUME NEW ws \in Seq(Writes), NEW r, NEW c, NEW old
  PROVE  \E x : Finally(ws, r, c, old, x)
  <1> DEFINE n == Len(ws)
             T == {j \in Nat : n - j \in 1 .. n /\ IsWrite(ws[n - j], r, c)}
  <1>1. n \in Nat /\ DOMAIN ws = 1 .. n
    OBVIOUS
  <1>2. CASE \A k \in DOMAIN ws : ~IsWrite(ws[k], r, c)
    BY <1>2, FinallyOther
  <1>3. ASSUME NEW k \in DOMAIN ws, IsWrite(ws[k], r, c) PROVE \E x : Finally(ws, r, c, old, x)
    <2> HIDE DEF n
    <2>1. n - k \in T
      <3>1. n - k \in Nat /\ n - (n - k) = k
        BY <1>1, <1>3
      <3> QED
        BY <1>1, <1>3, <3>1
    <2>2. PICK j \in T : \A i \in T : j <= i
      <3>1. T # {} /\ T \in SUBSET Nat
        BY <2>1
      <3> HIDE DEF T
      <3> QED
        BY <3>1, LeastExists
    <2> DEFINE l == n - j
    <2>3. l \in 1 .. n /\ IsWrite(ws[l], r, c)
      BY <2>2
    <2>4. ASSUME NEW i \in 1 .. n, i > l PROVE ~IsWrite(ws[i], r, c)
      <3>1. n - i \in Nat /\ n - (n - i) = i
        BY <1>1
      <3>2. ~(j <= n - i)
        BY <1>1, <2>2, <2>4
      <3>3. n - i \notin T
        BY <2>2, <3>2
      <3> QED
        BY <3>1, <3>3
    <2> HIDE DEF l
    <2>5. Finally(ws, r, c, old, ws[l].value)
      BY <1>1, <2>3, <2>4 DEF Finally
    <2> QED
      BY <2>5
  <1> QED
    BY <1>2, <1>3

-----------------------------------------------------------------------------
(* The instance.                                                           *)

(* Documents as far as the loader sees them.                               *)
SamplesOk(samples) ==
  \A i \in SampleIndex : samples[i] # None =>
    /\ samples[i].size \in Nat /\ samples[i].loop_byte \in Nat
    /\ samples[i].loop_byte < samples[i].size \/ samples[i].loop_byte = 0
    /\ \A addr \in 0 .. SPC_MEMORY_SIZE : Loaded(addr, samples[i]) # None

DirectoryEnd(samples) == SAMPLE_DIR + FirstUnusedSlot(samples) * SAMPLE_DIR_ENTRY_SIZE

(* What is loaded in slot i by the time the next address is addr.          *)
SlotOk(samples, ram, addr, i) ==
  /\ ram[i].start \in Nat /\ ram[i].loop \in Nat /\ ram[i].end \in Nat
  /\ DirectoryEnd(samples) <= ram[i].start
  /\ ram[i].start \in EndsBefore(samples, ram, i)
  /\ ram[i].start <= ram[i].loop /\ ram[i].loop < ram[i].end
  /\ ram[i].end <= addr
  /\ ram[i].end <= SPC_MEMORY_SIZE
  /\ samples[i] # None
  /\ ram[i].brr = samples[i].brr

InOrder(ram) ==
  \A i, j \in SampleIndex :
    i < j /\ ram[i] # None /\ ram[j] # None => ram[i].end <= ram[j].start

(* Sample i does not fit behind those before it.                           *)
NoRoom(samples, ram, i) ==
  \E addr \in EndsBefore(samples, ram, i) : addr + samples[i].size > SPC_MEMORY_SIZE

(* The loop invariant of reload_samples().                                 *)
LoaderInv(samples, l) ==
  /\ l = [i |-> l.i, addr |-> l.addr, ram |-> l.ram]
  /\ l.i \in Nat
  /\ l.addr \in Nat
  /\ DirectoryEnd(samples) <= l.addr
  /\ DOMAIN l.ram = SampleIndex
  /\ \A i \in SampleIndex : l.ram[i] # None =>
       i < l.i /\ i < FirstUnusedSlot(samples) /\ SlotOk(samples, l.ram, l.addr, i)
  /\ InOrder(l.ram)
  /\ l.addr \in EndsBefore(samples, l.ram, l.i)
  /\ \A i \in SampleIndex :
       i < l.i /\ samples[i] # None /\ samples[i].size > 0 /\ l.ram[i] = None =>
         NoRoom(samples, l.ram, i)

(* The loader is not the document's only while an edit waits for the end   *)
(* of the commands.                                                        *)
RamInv ==
  /\ document \in Documents
  /\ pc \in {"loading", "commands", "timer", "running"}
  /\ after_load \in {"commands", "timer"}
  /\ pc = "loading" \/ ~samples_modified => LoaderInv(document.samples, loader)
  /\ pc # "loading" /\ ~samples_modified => NothingLeftOut(document.samples, loader.ram)

-----------------------------------------------------------------------------
(* The samples of documents, of any size, loop inside themselves or at 0.  *)
LEMMA DocumentSamplesOk == ASSUME NEW d \in Documents PROVE SamplesOk(d.samples)
  BY SamplesAssumption, NoneAssumption DEF SamplesOk

(* The slot behind the last sample in use.                                 *)
LEMMA FirstUnusedSlotType ==
  ASSUME NEW samples
  PROVE  /\ FirstUnusedSlot(samples) \in 0 .. MAX_SAMPLES
         /\ \A i \in SampleIndex : i >= FirstUnusedSlot(samples) => samples[i] = None
         /\ FirstUnusedSlot(samples) # 0 =>
              /\ FirstUnusedSlot(samples) - 1 \in SampleIndex
              /\ samples[FirstUnusedSlot(samples) - 1] # None
  <1> DEFINE IsLast(i) == samples[i] # None
                            /\ \A j \in SampleIndex : j > i => samples[j] = None
  <1>1. CASE \A i \in SampleIndex : samples[i] = None
    BY <1>1, MaxSamplesAssumption DEF FirstUnusedSlot
  <1>2. CASE ~\A i \in SampleIndex : samples[i] = None
    <2> DEFINE Distances == {n \in Nat : /\ MAX_SAMPLES - 1 - n \in SampleIndex
                                         /\ samples[MAX_SAMPLES - 1 - n] # None}
    <2>1. PICK k \in SampleIndex : samples[k] # None
      BY <1>2
    <2>2. MAX_SAMPLES - 1 - k \in Nat /\ MAX_SAMPLES - 1 - (MAX_SAMPLES - 1 - k) = k
      BY MaxSamplesAssumption DEF SampleIndex
    <2>3. MAX_SAMPLES - 1 - k \in Distances /\ Distances \subseteq Nat
      BY <2>1, <2>2
    <2>4. Distances # {}
      BY <2>3
    <2> HIDE DEF Distances
    <2>5. PICK n \in Distances : \A m \in Distances : n <= m
      <3>1. PICK n \in Distances : \A m \in Distances : ~(<<m, n>> \in OpToRel(<, Nat))
        BY <2>3, <2>4, NatLessThanWellFounded, WFMin
      <3>2. ASSUME NEW m \in Distances PROVE n <= m
        <4>1. m \in Nat /\ n \in Nat
          BY <2>3
        <4>2. ~(m < n)
          BY <3>1, <4>1 DEF OpToRel
        <4> QED
          BY <4>1, <4>2
      <3> QED
        BY <3>2
    <2> DEFINE i == MAX_SAMPLES - 1 - n
    <2>6. n \in Nat /\ i \in SampleIndex /\ samples[i] # None
      BY <2>5 DEF Distances
    <2>7. ASSUME NEW j \in SampleIndex, j > i PROVE samples[j] = None
      <3>1. MAX_SAMPLES - 1 - j \in Nat /\ MAX_SAMPLES - 1 - (MAX_SAMPLES - 1 - j) = j
            /\ MAX_SAMPLES - 1 - j < n
        BY <2>6, <2>7, MaxSamplesAssumption DEF SampleIndex
      <3>2. MAX_SAMPLES - 1 - j \notin Distances
        BY <2>3, <2>5, <2>6, <3>1
      <3> QED
        BY <3>1, <3>2 DEF Distances
    <2>8. \E x \in SampleIndex : IsLast(x)
      BY <2>6, <2>7
    <2>9. FirstUnusedSlot(samples) = 1 + CHOOSE x \in SampleIndex : IsLast(x)
      BY <1>2 DEF FirstUnusedSlot
    <2> HIDE DEF IsLast
    <2> DEFINE last == CHOOSE x \in SampleIndex : IsLast(x)
    <2>10. last \in SampleIndex /\ IsLast(last)
      BY <2>8
    <2>11. samples[last] # None /\ \A j \in SampleIndex : j > last => samples[j] = None
      BY <2>10 DEF IsLast
    <2>12. FirstUnusedSlot(samples) = 1 + last
      BY <2>9
    <2> HIDE DEF last
    <2> QED
      BY <2>10, <2>11, <2>12, MaxSamplesAssumption DEF SampleIndex
  <1> QED
    BY <1>1, <1>2

(* Products of naturals grow with their factors.                           *)
LEMMA TimesMonotonic ==
  ASSUME NEW a \in Nat, NEW b \in Nat, NEW e \in Nat, a <= b
  PROVE  a * e \in Nat /\ b * e \in Nat /\ a * e <= b * e
  <1>1. PICK d \in Nat : b = a + d
    <2>1. b - a \in Nat /\ b = a + (b - a)
      OBVIOUS
    <2> QED
      BY <2>1
  <1>2. (a + d) * e = a * e + d * e
    OBVIOUS
  <1>3. a * e \in Nat /\ d * e \in Nat
    OBVIOUS
  <1> QED
    BY <1>1, <1>2, <1>3

(* The directory reaches up to where the samples begin.                    *)
LEMMA DirectoryType ==
  ASSUME NEW samples
  PROVE  /\ DirectoryEnd(samples) \in Nat
         /\ \A i \in SampleIndex : i < FirstUnusedSlot(samples) =>
              /\ SAMPLE_DIR + (i + 1) * SAMPLE_DIR_ENTRY_SIZE \in Nat
              /\ SAMPLE_DIR + (i + 1) * SAMPLE_DIR_ENTRY_SIZE <= DirectoryEnd(samples)
  <1> DEFINE first == FirstUnusedSlot(samples)
  <1>1. first \in Nat
    BY FirstUnusedSlotType, MaxSamplesAssumption
  <1>2. SAMPLE_DIR \in Nat /\ SAMPLE_DIR_ENTRY_SIZE \in Nat
    BY SampleDirAssumption
  <1>3. DirectoryEnd(samples) = SAMPLE_DIR + first * SAMPLE_DIR_ENTRY_SIZE
    BY DEF DirectoryEnd
  <1> HIDE DEF first
  <1>4. first * SAMPLE_DIR_ENTRY_SIZE \in Nat
    BY <1>1, <1>2, TimesMonotonic
  <1>5. ASSUME NEW i \in SampleIndex, i < first
        PROVE  /\ (i + 1) * SAMPLE_DIR_ENTRY_SIZE \in Nat
               /\ (i + 1) * SAMPLE_DIR_ENTRY_SIZE <= first * SAMPLE_DIR_ENTRY_SIZE
    <2>1. i + 1 \in Nat /\ i + 1 <= first
      BY <1>1, <1>5, MaxSamplesAssumption DEF SampleIndex
    <2> QED
      BY <1>1, <1>2, <2>1, TimesMonotonic
  <1>6. ASSUME NEW i \in SampleIndex, i < first
        PROVE  /\ SAMPLE_DIR + (i + 1) * SAMPLE_DIR_ENTRY_SIZE \in Nat
               /\ SAMPLE_DIR + (i + 1) * SAMPLE_DIR_ENTRY_SIZE <= DirectoryEnd(samples)
    BY <1>2, <1>3, <1>4, <1>5, <1>6
  <1> QED
    BY <1>2, <1>3, <1>4, <1>6 DEF first

(* A reload begins with nothing loaded.                                    *)
LEMMA BeginLoadInv == ASSUME NEW samples PROVE LoaderInv(samples, BeginLoad(samples))
  <1>1. DirectoryEnd(samples) \in Nat
    BY DirectoryType
  <1> DEFINE l == BeginLoad(samples)
  <1>2. l = [i |-> 0, addr |-> DirectoryEnd(samples), ram |-> EmptyRam]
    BY DEF BeginLoad, DirectoryEnd
  <1>3. l.i = 0 /\ l.addr = DirectoryEnd(samples) /\ l.ram = EmptyRam
        /\ l = [i |-> l.i, addr |-> l.addr, ram |-> l.ram]
    BY <1>2
  <1>4. DOMAIN l.ram = SampleIndex /\ \A i \in SampleIndex : l.ram[i] = None
    BY <1>3 DEF EmptyRam
  <1> HIDE DEF l
  <1>5. LoaderInv(samples, l)
    BY <1>1, <1>3, <1>4, MaxSamplesAssumption
       DEF LoaderInv, InOrder, EndsBefore, DirectoryEnd, SampleIndex
  <1> QED
    BY <1>5 DEF l

(* Slots from i on have no part in where a sample may begin before them.   *)
LEMMA EndsBeforeSame ==
  ASSUME NEW samples, NEW ram, NEW new, NEW i \in Nat, i <= MAX_SAMPLES,
         \A j \in SampleIndex : j < i => ram[j] = new[j]
  PROVE  EndsBefore(samples, ram, i) = EndsBefore(samples, new, i)
  <1>1. \A j \in 0 .. i - 1 : j \in SampleIndex /\ j < i
    BY MaxSamplesAssumption DEF SampleIndex
  <1>2. \A j \in 0 .. i - 1 : ram[j] = new[j]
    BY <1>1
  <1> QED
    BY <1>2 DEF EndsBefore

(* The ends of the first samples are among those of more.                  *)
LEMMA EndsBeforeGrows ==
  ASSUME NEW samples, NEW ram, NEW i \in Nat, NEW j \in Nat, i <= j
  PROVE  EndsBefore(samples, ram, i) \subseteq EndsBefore(samples, ram, j)
  <1>1. 0 .. i - 1 \subseteq 0 .. j - 1
    OBVIOUS
  <1> QED
    BY <1>1 DEF EndsBefore

(* The end of a sample is among those of the samples up to it.             *)
LEMMA EndIsBefore ==
  ASSUME NEW samples, NEW ram, NEW i \in Nat, ram[i] # None
  PROVE  ram[i].end \in EndsBefore(samples, ram, i + 1)
  <1>1. i \in {k \in 0 .. (i + 1) - 1 : ram[k] # None}
    OBVIOUS
  <1> QED
    BY <1>1 DEF EndsBefore

(* Loading a sample, or skipping it, keeps the loop invariant.             *)
LEMMA LoadSampleInv ==
  ASSUME NEW samples, SamplesOk(samples), NEW l, LoaderInv(samples, l), ~LoadEnds(samples, l)
  PROVE  LoaderInv(samples, LoadSample(samples, l))
  <1> DEFINE sample == samples[l.i]
             m == LoadSample(samples, l)
  <1>1. FirstUnusedSlot(samples) \in 0 .. MAX_SAMPLES /\ l.i \in Nat
        /\ l.i < FirstUnusedSlot(samples)
    BY FirstUnusedSlotType DEF LoaderInv, LoadEnds
  <1>2. l.i \in SampleIndex
    BY <1>1, MaxSamplesAssumption DEF SampleIndex
  <1>3. l.addr \in Nat /\ DirectoryEnd(samples) \in Nat /\ SPC_MEMORY_SIZE \in Nat
        /\ DirectoryEnd(samples) <= l.addr
    BY DirectoryType, DirectoryFitsAssumption DEF LoaderInv
  <1>4. CASE sample # None /\ Fits(sample, l.addr)
    <2>1. sample.size \in Nat /\ sample.loop_byte \in 0 .. sample.size - 1
      BY <1>2, <1>4 DEF SamplesOk, Fits
    <2> DEFINE new == Loaded(l.addr, sample)
    <2>2. m = [i |-> l.i + 1, addr |-> l.addr + sample.size,
               ram |-> [l.ram EXCEPT ![l.i] = new]]
      BY <1>4 DEF LoadSample
    <2>3. m.i = l.i + 1 /\ m.addr = l.addr + sample.size
          /\ m = [i |-> m.i, addr |-> m.addr, ram |-> m.ram]
          /\ DOMAIN m.ram = SampleIndex /\ m.ram[l.i] = new
          /\ \A i \in SampleIndex : i # l.i => m.ram[i] = l.ram[i]
      BY <1>2, <2>2 DEF LoaderInv
    <2>4. new.start = l.addr /\ new.end = l.addr + sample.size
          /\ new.loop = l.addr + sample.loop_byte /\ new.brr = sample.brr
      BY DEF Loaded
    <2>6a. new # None
      BY <1>2, <1>3, <1>4 DEF SamplesOk, LoadEnds
    <2> HIDE DEF new, m
    <2> DEFINE Same(i) == EndsBefore(samples, m.ram, i) = EndsBefore(samples, l.ram, i)
    <2>a. ASSUME NEW i \in Nat, i <= l.i PROVE Same(i)
      <3>1. \A j \in SampleIndex : j < i => m.ram[j] = l.ram[j]
        BY <1>1, <2>3, <2>a, MaxSamplesAssumption DEF SampleIndex
      <3>2. i <= MAX_SAMPLES
        BY <1>1, <2>a, MaxSamplesAssumption
      <3> QED
        BY <3>1, <3>2, EndsBeforeSame
    <2> HIDE DEF Same
    <2>5. SlotOk(samples, m.ram, m.addr, l.i)
      <3>1. new.start \in EndsBefore(samples, m.ram, l.i)
        BY <1>1, <2>4, <2>a DEF LoaderInv, Same
      <3> QED
        BY <1>3, <1>4, <2>1, <2>3, <2>4, <3>1 DEF SlotOk, Fits
    <2>6. ASSUME NEW i \in SampleIndex, m.ram[i] # None
          PROVE  i < m.i /\ i < FirstUnusedSlot(samples) /\ SlotOk(samples, m.ram, m.addr, i)
      <3>1. CASE i = l.i
        BY <1>1, <2>3, <2>5, <3>1
      <3>2. CASE i # l.i
        <4>1. i < l.i /\ i < FirstUnusedSlot(samples) /\ SlotOk(samples, l.ram, l.addr, i)
              /\ m.ram[i] = l.ram[i]
          BY <2>3, <2>6, <3>2 DEF LoaderInv
        <4>2. i \in Int
          BY MaxSamplesAssumption DEF SampleIndex
        <4>3. SlotOk(samples, m.ram, m.addr, i)
          <5>1. i \in Nat /\ i <= l.i
            BY <1>1, <4>1, MaxSamplesAssumption DEF SampleIndex
          <5>2. Same(i)
            BY <2>a, <5>1
          <5> QED
            BY <1>3, <2>1, <2>3, <4>1, <5>2 DEF SlotOk, Same
        <4> QED
          BY <1>1, <2>3, <4>1, <4>2, <4>3
      <3> QED
        BY <3>1, <3>2
    <2>7. InOrder(m.ram)
      <3> SUFFICES ASSUME NEW i \in SampleIndex, NEW j \in SampleIndex,
                          i < j, m.ram[i] # None, m.ram[j] # None
                   PROVE  m.ram[i].end <= m.ram[j].start
        BY DEF InOrder
      <3>1. CASE j = l.i
        <4>1. i # l.i /\ m.ram[i] = l.ram[i]
          BY <2>3, <3>1, MaxSamplesAssumption DEF SampleIndex
        <4>2. l.ram[i].end <= l.addr
          BY <4>1 DEF LoaderInv, SlotOk
        <4> QED
          BY <2>3, <2>4, <3>1, <4>1, <4>2
      <3>2. CASE i = l.i
        <4>1. j # l.i /\ m.ram[j] = l.ram[j]
          BY <2>3, <3>2, MaxSamplesAssumption DEF SampleIndex
        <4>2. j < l.i
          BY <4>1 DEF LoaderInv
        <4> QED
          BY <3>2, <4>2, MaxSamplesAssumption DEF SampleIndex
      <3>3. CASE i # l.i /\ j # l.i
        <4>1. m.ram[i] = l.ram[i] /\ m.ram[j] = l.ram[j]
          BY <2>3, <3>3
        <4> QED
          BY <4>1 DEF LoaderInv, InOrder
      <3> QED
        BY <3>1, <3>2, <3>3
    <2>8. m.i \in Nat /\ m.addr \in Nat /\ DirectoryEnd(samples) <= m.addr
      BY <1>1, <1>3, <2>1, <2>3
    <2>9. m.addr \in EndsBefore(samples, m.ram, m.i)
      <3>1. m.ram[l.i] # None /\ m.ram[l.i].end = m.addr
        BY <2>3, <2>4, <2>6a
      <3> QED
        BY <1>1, <2>3, <3>1, EndIsBefore
    <2>10. ASSUME NEW i \in SampleIndex, i < m.i, samples[i] # None, samples[i].size > 0,
                  m.ram[i] = None
           PROVE  NoRoom(samples, m.ram, i)
      <3>1. i # l.i
        BY <2>3, <2>10, <2>6a
      <3>2. i \in Nat /\ i < l.i /\ l.ram[i] = None
        BY <1>1, <2>3, <2>10, <3>1, MaxSamplesAssumption DEF SampleIndex
      <3>3. NoRoom(samples, l.ram, i) /\ Same(i)
        BY <1>1, <2>10, <2>a, <3>2 DEF LoaderInv
      <3> QED
        BY <3>3 DEF NoRoom, Same
    <2>11. LoaderInv(samples, m)
      BY <2>3, <2>6, <2>7, <2>8, <2>9, <2>10 DEF LoaderInv
    <2> QED
      BY <2>11 DEF m
  <1>5. CASE ~(sample # None /\ Fits(sample, l.addr))
    <2>1. l = [i |-> l.i, addr |-> l.addr, ram |-> l.ram]
      BY DEF LoaderInv
    <2>2. m = [i |-> l.i + 1, addr |-> l.addr, ram |-> l.ram]
      BY <1>5, <2>1 DEF LoadSample
    <2>3. m.i = l.i + 1 /\ m.addr = l.addr /\ m.ram = l.ram
          /\ m = [i |-> m.i, addr |-> m.addr, ram |-> m.ram]
      BY <2>2
    <2> HIDE DEF m
    <2>4. \A i \in SampleIndex : i \in Int
      BY MaxSamplesAssumption DEF SampleIndex
    <2>5. ASSUME NEW i \in SampleIndex, m.ram[i] # None
          PROVE  i < m.i /\ i < FirstUnusedSlot(samples) /\ SlotOk(samples, m.ram, m.addr, i)
      BY <1>1, <2>3, <2>4, <2>5 DEF LoaderInv
    <2>6. m.addr \in EndsBefore(samples, m.ram, m.i)
      <3>1. EndsBefore(samples, m.ram, l.i) \subseteq EndsBefore(samples, m.ram, l.i + 1)
        BY <1>1, EndsBeforeGrows
      <3> QED
        BY <2>3, <3>1 DEF LoaderInv
    <2>7. ASSUME sample # None, sample.size > 0 PROVE NoRoom(samples, m.ram, l.i)
      <3>1. sample.size \in Nat /\ sample.loop_byte \in 0 .. sample.size - 1
        BY <1>2, <2>7 DEF SamplesOk
      <3>2. l.addr + sample.size > SPC_MEMORY_SIZE
        BY <1>3, <1>5, <2>7, <3>1 DEF Fits
      <3>3. l.addr \in EndsBefore(samples, m.ram, l.i)
        BY <2>3 DEF LoaderInv
      <3> QED
        BY <3>2, <3>3 DEF NoRoom
    <2>8. ASSUME NEW i \in SampleIndex, i < m.i, samples[i] # None, samples[i].size > 0,
                 m.ram[i] = None
          PROVE  NoRoom(samples, m.ram, i)
      <3>1. CASE i = l.i
        BY <2>7, <2>8, <3>1
      <3>2. CASE i # l.i
        <4>1. i < l.i
          BY <1>1, <2>3, <2>4, <2>8, <3>2
        <4> QED
          BY <2>3, <2>8, <4>1 DEF LoaderInv
      <3> QED
        BY <3>1, <3>2
    <2>9. LoaderInv(samples, m)
      BY <1>1, <2>3, <2>5, <2>6, <2>8 DEF LoaderInv
    <2> QED
      BY <2>9 DEF m
  <1> QED
    BY <1>4, <1>5

(* The loop ends at the last sample, or with a RAM that is full.           *)
LEMMA LoadEndsInv ==
  ASSUME NEW samples, SamplesOk(samples), NEW l, LoaderInv(samples, l), LoadEnds(samples, l)
  PROVE  NothingLeftOut(samples, l.ram)
  <1> SUFFICES ASSUME NEW i \in SampleIndex, samples[i] # None, samples[i].size > 0,
                      l.ram[i] = None
               PROVE  NoRoom(samples, l.ram, i)
    BY DEF NothingLeftOut, NoRoom
  <1>1. FirstUnusedSlot(samples) \in Nat /\ i \in Nat /\ l.i \in Nat
    BY FirstUnusedSlotType, MaxSamplesAssumption DEF SampleIndex, LoaderInv
  <1>2. i < FirstUnusedSlot(samples)
    BY <1>1, FirstUnusedSlotType
  <1>3. CASE i < l.i
    BY <1>3 DEF LoaderInv
  <1>4. CASE l.i <= i
    <2>1. l.addr >= SPC_MEMORY_SIZE
      BY <1>1, <1>2, <1>4 DEF LoadEnds
    <2>2. l.addr \in EndsBefore(samples, l.ram, i)
      <3>1. EndsBefore(samples, l.ram, l.i) \subseteq EndsBefore(samples, l.ram, i)
        BY <1>1, <1>4, EndsBeforeGrows
      <3> QED
        BY <3>1 DEF LoaderInv
    <2>3. samples[i].size \in Nat /\ samples[i].size > 0
      BY DEF SamplesOk
    <2>4. l.addr + samples[i].size > SPC_MEMORY_SIZE
      BY <2>1, <2>3, DirectoryFitsAssumption DEF LoaderInv
    <2> QED
      BY <2>2, <2>4 DEF NoRoom
  <1> QED
    BY <1>1, <1>3, <1>4

(* What was loaded, and left out, is so for samples that only loop         *)
(* elsewhere.                                                              *)
LEMMA LoopsAside ==
  ASSUME NEW samples, NEW new, NEW l, LoaderInv(samples, l), NothingLeftOut(samples, l.ram),
         \A i \in SampleIndex :
           /\ new[i] = None <=> samples[i] = None
           /\ new[i] # None => new[i].size = samples[i].size /\ new[i].brr = samples[i].brr
  PROVE  LoaderInv(new, l) /\ NothingLeftOut(new, l.ram)
  <1>1. FirstUnusedSlot(new) = FirstUnusedSlot(samples)
    <2> DEFINE a == FirstUnusedSlot(new)
               b == FirstUnusedSlot(samples)
    <2>1. /\ a \in 0 .. MAX_SAMPLES /\ b \in 0 .. MAX_SAMPLES
          /\ \A i \in SampleIndex : (i >= a => new[i] = None) /\ (i >= b => samples[i] = None)
          /\ a # 0 => a - 1 \in SampleIndex /\ new[a - 1] # None
          /\ b # 0 => b - 1 \in SampleIndex /\ samples[b - 1] # None
      BY FirstUnusedSlotType
    <2> HIDE DEF a, b
    <2>2. ~(a - 1 >= b) \/ a = 0
      BY <2>1
    <2>3. ~(b - 1 >= a) \/ b = 0
      BY <2>1
    <2>4. a = b
      BY <2>1, <2>2, <2>3, MaxSamplesAssumption
    <2> QED
      BY <2>4 DEF a, b
  <1>2. DirectoryEnd(new) = DirectoryEnd(samples)
    BY <1>1 DEF DirectoryEnd
  <1>3. \A ram, i : EndsBefore(new, ram, i) = EndsBefore(samples, ram, i)
    BY <1>1 DEF EndsBefore
  <1>4. \A ram : \A i \in SampleIndex :
          samples[i] # None => (NoRoom(new, ram, i) <=> NoRoom(samples, ram, i))
    BY <1>3 DEF NoRoom
  <1>5. ASSUME NEW i \in SampleIndex, l.ram[i] # None
        PROVE  i < l.i /\ i < FirstUnusedSlot(new) /\ SlotOk(new, l.ram, l.addr, i)
    BY <1>1, <1>2, <1>3, <1>5 DEF LoaderInv, SlotOk
  <1>6. ASSUME NEW i \in SampleIndex, i < l.i, new[i] # None, new[i].size > 0, l.ram[i] = None
        PROVE  NoRoom(new, l.ram, i)
    BY <1>4, <1>6 DEF LoaderInv
  <1>7. LoaderInv(new, l)
    BY <1>2, <1>3, <1>5, <1>6 DEF LoaderInv
  <1>8. NothingLeftOut(new, l.ram)
    BY <1>3 DEF NothingLeftOut
  <1> QED
    BY <1>7, <1>8

-----------------------------------------------------------------------------
(* The invariant holds when the chip is set up.                            *)
LEMMA InitRamInv == InitChip => RamInv
  BY BeginLoadInv DEF InitChip, Init, RamInv

(* Each command keeps the samples, or tells that they changed.             *)
LEMMA StepRamInv == RamInv /\ [ChipNext]_all_vars => RamInv'
  <1> SUFFICES ASSUME RamInv, [ChipNext]_all_vars PROVE RamInv'
    OBVIOUS
  <1> USE DEF RamInv
  <1>1. ASSUME NEW t, ChipPlayFrom(t) PROVE RamInv'
    BY <1>1, BeginLoadInv DEF ChipPlayFrom, PlayFrom, ReloadSamples
  <1>2. CASE ChipStop
    BY <1>2 DEF ChipStop, StopPlayback
  <1>3. CASE EditPatterns
    <2>1. document' \in Documents /\ document'.samples = document.samples
          /\ UNCHANGED <<pc, after_load, samples_modified, loader>>
      BY <1>3 DEF EditPatterns, Edit
    <2> QED
      BY <2>1
  <1>4. CASE EditSamples
    <2>1. PICK doc \in Documents : EditSynth(doc, TRUE)
      BY <1>4 DEF EditSamples
    <2>2. pc = "commands" /\ UNCHANGED <<pc, after_load>> /\ samples_modified' /\ document' = doc
      BY <2>1 DEF EditSynth, TakeCommand
    <2> QED
      BY <2>1, <2>2
  <1>5. CASE EditInstruments
    <2>1. PICK doc \in Documents : doc.samples = document.samples /\ EditSynth(doc, FALSE)
      BY <1>5 DEF EditInstruments
    <2>2. document' = doc /\ samples_modified' = (samples_modified \/ FALSE)
          /\ UNCHANGED <<pc, after_load, loader>>
      BY <2>1 DEF EditSynth
    <2>3. document'.samples = document.samples /\ document' \in Documents
      BY <2>1, <2>2
    <2>4. ~samples_modified' => ~samples_modified
      BY <2>2
    <2> QED
      BY <2>2, <2>3, <2>4
  <1>5a. CASE EditLoopByte
    <2>1. PICK doc \in Documents, i \in SampleIndex :
            /\ document.samples[i] # None /\ doc.samples[i] # None
            /\ \A j \in SampleIndex : j # i => doc.samples[j] = document.samples[j]
            /\ doc.samples[i].size = document.samples[i].size
            /\ doc.samples[i].brr = document.samples[i].brr
            /\ EditSynth(doc, FALSE)
      BY <1>5a DEF EditLoopByte
    <2>2. /\ document' = doc /\ (samples_modified' <=> samples_modified)
          /\ pc = "commands" /\ UNCHANGED <<pc, after_load, loader>>
      BY <2>1 DEF EditSynth, TakeCommand
    <2>3. \A j \in SampleIndex :
            /\ doc.samples[j] = None <=> document.samples[j] = None
            /\ doc.samples[j] # None => /\ doc.samples[j].size = document.samples[j].size
                                       /\ doc.samples[j].brr = document.samples[j].brr
      BY <2>1
    <2>4. ~samples_modified => LoaderInv(doc.samples, loader)
                                 /\ NothingLeftOut(doc.samples, loader.ram)
      BY <2>2, <2>3, LoopsAside
    <2> QED
      BY <2>1, <2>2, <2>4
  <1>6. CASE EndCommands
    <2>1. UNCHANGED document
      BY <1>6 DEF EndCommands, vars
    <2>2. CASE samples_modified
      BY <1>6, <2>1, <2>2, BeginLoadInv DEF EndCommands, ReloadSamples
    <2>3. CASE ~samples_modified
      BY <1>6, <2>1, <2>3 DEF EndCommands
    <2> QED
      BY <2>2, <2>3
  <1>7. CASE LoadNextSample
    <2>1. pc = "loading" /\ ~LoadEnds(document.samples, loader)
          /\ loader' = LoadSample(document.samples, loader)
          /\ UNCHANGED <<document, pc, after_load>>
      BY <1>7 DEF LoadNextSample, vars
    <2>2. SamplesOk(document.samples)
      BY DocumentSamplesOk
    <2>3. LoaderInv(document.samples, loader')
      BY <2>1, <2>2, LoadSampleInv
    <2> QED
      BY <2>1, <2>3
  <1>8. CASE EndLoad
    <2>1. pc = "loading" /\ pc' = after_load /\ UNCHANGED <<document, after_load, loader>>
          /\ LoadEnds(document.samples, loader)
      BY <1>8 DEF EndLoad, vars
    <2>2. NothingLeftOut(document.samples, loader.ram)
      BY <2>1, DocumentSamplesOk, LoadEndsInv
    <2> QED
      BY <2>1, <2>2
  <1>9. CASE TickSequencer
    BY <1>9 DEF TickSequencer, StartChip, Tick
  <1>10. CASE RunTimer
    BY <1>10 DEF RunTimer, StartChip, RunDriver
  <1>11. CASE WriteNextReg
    BY <1>11 DEF WriteNextReg, vars
  <1>12. CASE EndOfTick
    BY <1>12 DEF EndOfTick, vars
  <1>13. CASE UNCHANGED all_vars
    BY <1>13 DEF all_vars, vars, chip_vars
  <1> QED
    BY <1>1, <1>2, <1>3, <1>4, <1>5, <1>5a, <1>6, <1>7, <1>8, <1>9, <1>10, <1>11, <1>12,
       <1>13
       DEF ChipNext

(* After a reload, the invariant says what the property asks for.          *)
LEMMA RamInvImplies == RamInv => RamMatchesDocument
  <1> SUFFICES ASSUME RamInv, pc # "loading", ~samples_modified
               PROVE  /\ RamLayout(document.samples, loader.ram)
                      /\ NothingLeftOut(document.samples, loader.ram)
                      /\ \A i \in SampleIndex : loader.ram[i] # None =>
                           /\ document.samples[i] # None
                           /\ loader.ram[i].brr = document.samples[i].brr
    BY DEF RamMatchesDocument
  <1> DEFINE samples == document.samples
             ram == loader.ram
  <1>1. LoaderInv(samples, loader)
    BY DEF RamInv
  <1> HIDE DEF samples
  <1>2. DirectoryEnd(samples) \in Nat
    BY DirectoryType
  <1>3. ASSUME NEW i \in SampleIndex, ram[i] # None
        PROVE  i < FirstUnusedSlot(samples) /\ SlotOk(samples, ram, loader.addr, i)
    BY <1>1, <1>3 DEF LoaderInv
  <1> HIDE DEF ram
  <1>4. ASSUME NEW i \in SampleIndex, ram[i] # None
        PROVE  /\ ram[i].start \in EndsBefore(samples, ram, i)
               /\ SAMPLE_DIR + (i + 1) * SAMPLE_DIR_ENTRY_SIZE <= ram[i].start
               /\ ram[i].start <= ram[i].loop /\ ram[i].loop < ram[i].end
               /\ ram[i].end <= SPC_MEMORY_SIZE
               /\ samples[i] # None
               /\ ram[i].brr = samples[i].brr
    <2>1. SlotOk(samples, ram, loader.addr, i)
      BY <1>3, <1>4
    <2>2. SAMPLE_DIR + (i + 1) * SAMPLE_DIR_ENTRY_SIZE \in Nat
          /\ SAMPLE_DIR + (i + 1) * SAMPLE_DIR_ENTRY_SIZE <= DirectoryEnd(samples)
      BY <1>3, <1>4, DirectoryType
    <2>3. ram[i].start \in Nat
      BY <2>1 DEF SlotOk
    <2>4. DirectoryEnd(samples) <= ram[i].start
      BY <2>1 DEF SlotOk
    <2>5. SAMPLE_DIR + (i + 1) * SAMPLE_DIR_ENTRY_SIZE <= ram[i].start
      <3> DEFINE x == SAMPLE_DIR + (i + 1) * SAMPLE_DIR_ENTRY_SIZE
      <3>1. x \in Nat /\ x <= DirectoryEnd(samples)
        BY <2>2
      <3> HIDE DEF x
      <3>2. x <= ram[i].start
        BY <1>2, <2>3, <2>4, <3>1
      <3> QED
        BY <3>2 DEF x
    <2> QED
      BY <2>1, <2>4, <2>5 DEF SlotOk
  <1>5. InOrder(ram)
    BY <1>1 DEF LoaderInv, ram
  <1>6. RamLayout(samples, ram)
    BY <1>4, <1>5 DEF RamLayout, InOrder
  <1>7. NothingLeftOut(samples, ram)
    BY DEF RamInv, samples, ram
  <1> QED
    BY <1>4, <1>6, <1>7 DEF samples, ram

(* Whenever the samples are not being reloaded or waiting for that, the    *)
(* RAM holds data of samples the document has, behind their directory      *)
(* entries, without overlap, each loop inside its sample, and has no room  *)
(* for a sample that is left out.                                          *)
THEOREM RamIsDocuments == ChipSpec => []RamMatchesDocument
  BY InitRamInv, StepRamInv, RamInvImplies, PTL DEF ChipSpec

-----------------------------------------------------------------------------
(* What sounds. Between the timers the writes that wait leave no voice     *)
(* keyed on (Between). The writes of a timer either wait for no poll       *)
(* (NoWait), or they follow a key-off of all channels and the last of them *)
(* waits for the poll that makes it heard (Wait, then Silent).             *)

(* The types of the chip's state.                                          *)
ChipTypes ==
  /\ SeqsOk
  /\ pc \in {"loading", "commands", "timer", "running"}
  /\ after_load \in {"commands", "timer"}
  /\ DOMAIN drivers = Channels /\ \A c \in Channels : DriverOk(drivers[c])
  /\ writes \in Seq(QueuedWrites) /\ accum \in {0, 1} /\ clocks \in Nat
  /\ DspOk(dsp)

(* A chip that was reset.                                                  *)
LEMMA ResetDspOk ==
  /\ DspOk(ResetDsp)
  /\ ResetDsp.kon = {} /\ \A c \in Channels : ResetDsp.voice[c] = None
  BY DEF ResetDsp, DspOk

(* A driver starts in its invariant.                                       *)
LEMMA NewDriverOk == DriverOk(NewChannelDriver)
  BY DEF NewChannelDriver, DriverOk, InstrOk, Volumes

(* Volumes are the initial one or some row's.                              *)
LEMMA DriversVolumes ==
  ASSUME NEW ds, \A c \in Channels : DriverOk(ds[c])
  PROVE  \A c \in Channels : ds[c].volume \in Volumes
  BY DEF DriverOk

(* The rows of events that a track has.                                    *)
LEMMA RowsOk ==
  ASSUME document \in Documents, NEW c \in Channels, NEW x \in Outs(Track(c))
  PROVE  RowOk(RowOf(c, x)) /\ (HasNote(Track(c), x) <=> RowOf(c, x).note # None)
  <1> DEFINE row == Track(c)[x[1]].events[x[3]].v
  <1>1. CASE x = CutNote
    BY <1>1, CutAssumption DEF RowOf, RowOk, InstrOk, HasNote
  <1>2. CASE x # CutNote
    <2>1. x[1] \in DOMAIN Track(c) /\ x[3] \in DOMAIN Track(c)[x[1]].events
      BY <1>2 DEF Outs
    <2>2. row \in Rows
      <3>1. Track(c)[x[1]] \in Block
        BY <2>1, DocumentTracks DEF Track
      <3> DEFINE events == Track(c)[x[1]].events
      <3>2. events \in Seq(Event)
        BY <3>1, BlockFields
      <3> HIDE DEF events
      <3>3. events[x[3]] \in Event
        <4>1. x[3] \in DOMAIN events
          BY <2>1 DEF events
        <4> QED
          BY <3>2, <4>1
      <3>4. events[x[3]].v \in Rows
        BY <3>3 DEF Event
      <3> QED
        BY <3>4 DEF events
    <2> HIDE DEF row
    <2>3. RowOk(row)
      <3>1. InstrOk(row.instr)
        BY <2>2, InstrumentsAssumption DEF InstrOk
      <3>2. row.volume \in Volumes
        BY <2>2 DEF Volumes
      <3> QED
        BY <3>1, <3>2 DEF RowOk
    <2>4. RowOf(c, x) = row
      BY <1>2 DEF RowOf, row
    <2>5. HasNote(Track(c), x) <=> row.note # None
      BY <1>2 DEF HasNote, row
    <2> QED
      BY <2>3, <2>4, <2>5
  <1> QED
    BY <1>1, <1>2

(* The events that the channels hand to the driver.                        *)
EventsOf(c, rows) == [k \in DOMAIN rows |-> RowOf(c, rows[k])]

(* The events of a tick's rows, one for one.                               *)
LEMMA EventsOfRows ==
  ASSUME document \in Documents, NEW c \in Channels, NEW rows \in Seq(Outs(Track(c)))
  PROVE  LET events == EventsOf(c, rows) IN
         /\ Len(events) = Len(rows) /\ Len(rows) \in Nat
         /\ \A k \in 1 .. Len(rows) :
              /\ RowOk(events[k]) /\ events[k] = RowOf(c, rows[k])
              /\ HasNote(Track(c), rows[k]) <=> events[k].note # None
  <1> DEFINE n == Len(rows)
             events == EventsOf(c, rows)
             S == {RowOf(c, x) : x \in Outs(Track(c))}
  <1>1. n \in Nat /\ DOMAIN rows = 1 .. n /\ \A k \in 1 .. n : rows[k] \in Outs(Track(c))
    OBVIOUS
  <1> HIDE DEF n
  <1>2. events \in [1 .. n -> S] /\ \A k \in 1 .. n : events[k] = RowOf(c, rows[k])
    BY <1>1 DEF EventsOf
  <1> HIDE DEF S, events
  <1>3. Len(events) = n
    BY <1>1, <1>2
  <1>4. ASSUME NEW k \in 1 .. n
        PROVE  /\ RowOk(events[k])
               /\ HasNote(Track(c), rows[k]) <=> events[k].note # None
    BY <1>1, <1>2, RowsOk
  <1> QED
    BY <1>1, <1>2, <1>3, <1>4 DEF n, events

(* After its events a driver has its invariant.                            *)
LEMMA DriverOfRan ==
  ASSUME NEW ram, NEW c, NEW d, NEW s, EventsOk(ram, c, d, s)
  PROVE  DriverOk(s.d)
  BY DEF EventsOk

(* A run of the driver.                                                    *)
RanEvents(events) ==
  [c \in Channels |-> RunEvents(document, loader.ram, c, drivers[c], events[c])]

(* What run_driver() makes of the events: drivers and writes.              *)
LEMMA RunSpcEffect ==
  ASSUME ChipTypes, NEW events,
         \A c \in Channels : /\ Len(events[c]) \in Nat
                             /\ \A k \in 1 .. Len(events[c]) : RowOk(events[c][k]),
         RunSpc700Driver(events)
  PROVE  LET s == RanEvents(events)
             ws == DriverWrites(s)
         IN  /\ DOMAIN s = Channels
             /\ \A c \in Channels : EventsOk(loader.ram, c, drivers[c], s[c])
             /\ drivers' = [c \in Channels |-> s[c].d]
             /\ DOMAIN drivers' = Channels /\ \A c \in Channels : DriverOk(drivers'[c])
             /\ ws \in Seq(Writes)
             /\ writes' = Queued(ws) /\ accum' = 0
             /\ writes' \in Seq(QueuedWrites) /\ Pending(writes') = Pending(writes) \o ws
             /\ NoTimes(writes) /\ accum = 0 => NoTimes(writes')
  <1> DEFINE s == RanEvents(events)
             ws == DriverWrites(s)
  <1>1. DOMAIN s = Channels
        /\ \A c \in Channels : s[c] = RunEvents(document, loader.ram, c, drivers[c], events[c])
    BY DEF RanEvents
  <1>2. drivers' = [c \in Channels |-> s[c].d] /\ writes' = Queued(ws) /\ accum' = 0
    BY DEF RunSpc700Driver, RanEvents, WriteAll
  <1> HIDE DEF s
  <1>3. \A c \in Channels : EventsOk(loader.ram, c, drivers[c], s[c])
    <2>1. document \in Documents /\ \A c \in Channels : DriverOk(drivers[c])
      BY DEF ChipTypes, SeqsOk
    <2> QED
      BY <1>1, <2>1, RunEventsOk
  <1>4. ws \in Seq(Writes)
    BY <1>1, <1>3, DriverWritesEffect DEF ChannelsRan
  <1> HIDE DEF ws
  <1>5. /\ Queued(ws) \in Seq(QueuedWrites) /\ Pending(Queued(ws)) = Pending(writes) \o ws
        /\ NoTimes(writes) /\ accum = 0 => NoTimes(Queued(ws))
    BY <1>4, QueuedEffect DEF ChipTypes
  <1>6. DOMAIN drivers' = Channels /\ \A c \in Channels : DriverOk(drivers'[c])
    BY <1>2, <1>3, DriverOfRan
  <1> QED
    BY <1>1, <1>2, <1>3, <1>4, <1>5, <1>6 DEF s, ws

(* reload_samples().                                                       *)
LEMMA ReloadTypes ==
  ASSUME ChipTypes, NEW doc, NEW ds, NEW after, DOMAIN ds = Channels,
         \A c \in Channels : DriverOk(ds[c]), ReloadSamples(doc, ds, after)
  PROVE  LET ws == RestoreState(ds) IN
         /\ ws \in Seq(Writes)
         /\ writes' \in Seq(QueuedWrites) /\ Pending(writes') = Pending(writes) \o ws
         /\ accum' = 0 /\ DspOk(dsp')
         /\ NoTimes(writes) /\ accum = 0 => NoTimes(writes')
  <1> DEFINE ws == RestoreState(ds)
  <1>1. writes' = Queued(ws) /\ accum' = 0 /\ dsp' = ResetDsp
    BY DEF ReloadSamples, WriteAll
  <1>2. ws \in Seq(Writes)
    BY DriversVolumes, RestoreStateEffect
  <1> HIDE DEF ws
  <1>3. /\ Queued(ws) \in Seq(QueuedWrites) /\ Pending(Queued(ws)) = Pending(writes) \o ws
        /\ NoTimes(writes) /\ accum = 0 => NoTimes(Queued(ws))
    BY <1>2, QueuedEffect DEF ChipTypes
  <1> QED
    BY <1>1, <1>2, <1>3, ResetDspOk DEF ws

(* The event loop does not wait longer than until the end of the tick.     *)
LEMMA TimeUntilWriteType ==
  ASSUME NEW w \in QueuedWrites, clocks \in Nat
  PROVE  /\ TimeUntilWrite(w) \in Nat /\ TimeUntilWrite(w) <= clocks
         /\ clocks >= 1 => TimeUntilWrite(w) = w.time_before
  <1>1. w.time_before \in {0, 1}
    BY DEF QueuedWrites
  <1> DEFINE S == {w.time_before, clocks}
  <1>2. S # {} /\ S \in SUBSET Nat
    BY <1>1
  <1> HIDE DEF S
  <1>3. Min(S) \in S /\ \A y \in S : Min(S) <= y
    BY <1>2, MinIsLeast
  <1>4. TimeUntilWrite(w) = Min(S)
    BY DEF TimeUntilWrite, S
  <1> HIDE DEF TimeUntilWrite
  <1>5. TimeUntilWrite(w) \in {w.time_before, clocks} /\ TimeUntilWrite(w) <= clocks
        /\ TimeUntilWrite(w) <= w.time_before
    BY <1>3, <1>4 DEF S
  <1> QED
    BY <1>1, <1>5

(* ChipTypes is inductive: it holds initially ...                          *)
LEMMA InitTypes == InitChip => ChipTypes
  <1> SUFFICES ASSUME InitChip PROVE ChipTypes
    OBVIOUS
  <1>1. SeqsOk
    BY DEF InitChip, Init, SeqsOk, Stopped
  <1>2. DOMAIN drivers = Channels /\ \A c \in Channels : DriverOk(drivers[c])
    BY NewDriverOk DEF InitChip
  <1>3. writes \in Seq(QueuedWrites)
    <2> DEFINE ws == RestoreState(drivers)
    <2>1. ws \in Seq(Writes)
      BY <1>2, DriversVolumes, RestoreStateEffect
    <2>2. writes = [k \in DOMAIN ws |-> [write |-> ws[k], time_before |-> 0]]
      BY DEF InitChip
    <2> HIDE DEF ws
    <2> DEFINE n == Len(ws)
    <2>3. n \in Nat /\ DOMAIN ws = 1 .. n /\ \A k \in 1 .. n : ws[k] \in Writes
      BY <2>1
    <2> HIDE DEF n
    <2>4. \A k \in 1 .. n : [write |-> ws[k], time_before |-> 0] \in QueuedWrites
      BY <2>3 DEF QueuedWrites
    <2>5. writes \in [1 .. n -> QueuedWrites]
      BY <2>2, <2>3, <2>4
    <2> QED
      BY <2>3, <2>5
  <1> QED
    BY <1>1, <1>2, <1>3, ResetDspOk DEF InitChip, ChipTypes

(* ... and every step keeps it.                                            *)
LEMMA StepTypes == ChipTypes /\ [ChipNext]_all_vars => ChipTypes'
  <1> SUFFICES ASSUME ChipTypes, [ChipNext]_all_vars PROVE ChipTypes'
    OBVIOUS
  <1>0. /\ SeqsOk /\ document \in Documents
        /\ pc \in {"loading", "commands", "timer", "running"}
        /\ after_load \in {"commands", "timer"}
        /\ DOMAIN drivers = Channels /\ \A c \in Channels : DriverOk(drivers[c])
        /\ writes \in Seq(QueuedWrites) /\ accum \in {0, 1} /\ clocks \in Nat
        /\ DspOk(dsp)
    BY DEF ChipTypes, SeqsOk
  <1>1. ASSUME NEW t \in 0 .. MaxTick, ChipPlayFrom(t) PROVE ChipTypes'
    <2>1. SeqsOk'
      BY <1>0, <1>1, PlayFromPlays DEF ChipPlayFrom
    <2>2. DOMAIN drivers' = Channels /\ \A c \in Channels : DriverOk(drivers'[c])
      BY <1>1, NewDriverOk DEF ChipPlayFrom
    <2>3. writes' \in Seq(QueuedWrites) /\ accum' = 0 /\ DspOk(dsp')
      <3>1. ReloadSamples(document, drivers', "commands")
        BY <1>1 DEF ChipPlayFrom
      <3> QED
        BY <2>2, <3>1, ReloadTypes
    <2>4. pc' = "loading" /\ after_load' = "commands" /\ clocks' = clocks
      BY <1>1 DEF ChipPlayFrom, ReloadSamples
    <2> QED
      BY <1>0, <2>1, <2>2, <2>3, <2>4 DEF ChipTypes
  <1>2. CASE ChipStop
    <2>1. SeqsOk'
      BY <1>0, <1>2, StopKeepsSeqs DEF ChipStop
    <2>2. writes' \in Seq(QueuedWrites)
      <3> DEFINE koff == Write("koff", None, Channels)
      <3>1. koff \in Writes
        BY WriteTypes DEF FlagRegisters
      <3>2. writes' = Queued(<<koff>>)
        BY <1>2 DEF ChipStop
      <3> HIDE DEF koff
      <3>3. <<koff>> \in Seq(Writes)
        BY <3>1
      <3> QED
        BY <1>0, <3>2, <3>3, QueuedEffect
    <2> QED
      BY <1>0, <1>2, <2>1, <2>2 DEF ChipStop, ChipTypes
  <1>3. CASE EditPatterns
    <2>1. UNCHANGED seqs /\ document' \in Documents
      BY <1>3 DEF EditPatterns, Edit
    <2>2. SeqsOk'
      BY <1>0, <2>1, EditKeepsSeqs
    <2> QED
      BY <1>0, <1>3, <2>2 DEF EditPatterns, ChipTypes
  <1>4. ASSUME NEW doc \in Documents, NEW flagged, EditSynth(doc, flagged) PROVE ChipTypes'
    <2>1. UNCHANGED seqs /\ document' \in Documents
      BY <1>4 DEF EditSynth
    <2>2. SeqsOk'
      BY <1>0, <2>1, EditKeepsSeqs
    <2> QED
      BY <1>0, <1>4, <2>2 DEF EditSynth, ChipTypes
  <1>5. CASE EndCommands
    <2>1. SeqsOk' /\ drivers' = drivers /\ clocks' = clocks
      BY <1>0, <1>5, EditKeepsSeqs DEF EndCommands, vars
    <2>2. CASE samples_modified
      <3>1. ReloadSamples(document, drivers, "timer")
        BY <1>5, <2>2 DEF EndCommands
      <3>2. writes' \in Seq(QueuedWrites) /\ accum' = 0 /\ DspOk(dsp')
        BY <1>0, <3>1, ReloadTypes
      <3>3. pc' = "loading" /\ after_load' = "timer"
        BY <3>1 DEF ReloadSamples
      <3> QED
        BY <1>0, <2>1, <3>2, <3>3 DEF ChipTypes
    <2>3. CASE ~samples_modified
      BY <1>0, <1>5, <2>1, <2>3 DEF EndCommands, ChipTypes
    <2> QED
      BY <2>2, <2>3
  <1>6. CASE LoadNextSample
    <2>1. SeqsOk'
      BY <1>0, <1>6, EditKeepsSeqs DEF LoadNextSample, vars
    <2> QED
      BY <1>0, <1>6, <2>1 DEF LoadNextSample, ChipTypes
  <1>7. CASE EndLoad
    <2>1. SeqsOk'
      BY <1>0, <1>7, EditKeepsSeqs DEF EndLoad, vars
    <2>2. writes' \in Seq(QueuedWrites) /\ accum' = 0
      <3> DEFINE dir == Write("dir", None, TRUE)
      <3>1. dir \in Writes
        BY WriteTypes
      <3>2. writes' = Queued(<<dir>>) /\ accum' = 0
        BY <1>7 DEF EndLoad, WriteAll
      <3> HIDE DEF dir
      <3>3. <<dir>> \in Seq(Writes)
        BY <3>1
      <3> QED
        BY <1>0, <3>2, <3>3, QueuedEffect
    <2> QED
      BY <1>0, <1>7, <2>1, <2>2 DEF EndLoad, ChipTypes
  <1>8. CASE TickSequencer
    <2> DEFINE events == [c \in Channels |-> EventsOf(c, played'[c])]
    <2>1. SeqsOk' /\ \A c \in Channels : played'[c] \in Seq(Outs(Track(c)))
      BY <1>0, <1>8, TickKeepsPlaying DEF TickSequencer
    <2>2. RunSpc700Driver(events)
      BY <1>8 DEF TickSequencer, EventsOf
    <2>3. ASSUME NEW c \in Channels
          PROVE  Len(events[c]) \in Nat /\ \A k \in 1 .. Len(events[c]) : RowOk(events[c][k])
      BY <1>0, <2>1, EventsOfRows
    <2> HIDE DEF events
    <2>4. /\ DOMAIN drivers' = Channels /\ \A c \in Channels : DriverOk(drivers'[c])
          /\ writes' \in Seq(QueuedWrites) /\ accum' = 0
      BY <2>2, <2>3, RunSpcEffect
    <2>5. pc' = "running" /\ after_load' = after_load /\ clocks' \in Nat /\ dsp' = dsp
      BY <1>8, ClocksPerTimerAssumption DEF TickSequencer, StartChip
    <2> QED
      BY <1>0, <2>1, <2>4, <2>5 DEF ChipTypes
  <1>9. CASE RunTimer
    <2> DEFINE events == [c \in Channels |-> <<>>]
    <2>1. SeqsOk'
      BY <1>0, <1>9, RunDriverKeepsPlaying DEF RunTimer
    <2>2. RunSpc700Driver(events)
      BY <1>9 DEF RunTimer
    <2>3. ASSUME NEW c \in Channels
          PROVE  Len(events[c]) \in Nat /\ \A k \in 1 .. Len(events[c]) : RowOk(events[c][k])
      OBVIOUS
    <2> HIDE DEF events
    <2>4. /\ DOMAIN drivers' = Channels /\ \A c \in Channels : DriverOk(drivers'[c])
          /\ writes' \in Seq(QueuedWrites) /\ accum' = 0
      BY <2>2, <2>3, RunSpcEffect
    <2>5. pc' = "running" /\ after_load' = after_load /\ clocks' \in Nat /\ dsp' = dsp
      BY <1>9, ClocksPerTimerAssumption DEF RunTimer, StartChip
    <2> QED
      BY <1>0, <2>1, <2>4, <2>5 DEF ChipTypes
  <1>10. CASE WriteNextReg
    <2> DEFINE w == Head(writes)
               time == TimeUntilWrite(w)
    <2>1. SeqsOk'
      BY <1>0, <1>10, EditKeepsSeqs DEF WriteNextReg, vars
    <2>2. w \in QueuedWrites /\ Tail(writes) \in Seq(QueuedWrites)
      BY <1>0, <1>10, PendingType DEF WriteNextReg
    <2>3. w.write \in Writes
      BY <2>2 DEF QueuedWrites
    <2>4. time \in Nat /\ time <= clocks
      BY <1>0, <2>2, TimeUntilWriteType
    <2>5. /\ dsp' = WriteReg(RunClocks(dsp, time), w.write)
          /\ clocks' = clocks - time /\ writes' = Tail(writes)
          /\ UNCHANGED <<pc, after_load, drivers, accum>>
      BY <1>10 DEF WriteNextReg
    <2> HIDE DEF w, time
    <2>6. DspOk(dsp')
      <3>1. DspOk(RunClocks(dsp, time))
        BY <1>0, <2>4, RunClocksEffect
      <3> QED
        BY <2>3, <2>5, <3>1, WriteRegEffect
    <2> QED
      BY <1>0, <2>1, <2>2, <2>4, <2>5, <2>6 DEF ChipTypes
  <1>11. CASE EndOfTick
    <2>1. SeqsOk'
      BY <1>0, <1>11, EditKeepsSeqs DEF EndOfTick, vars
    <2>2. DspOk(dsp')
      BY <1>0, <1>11, RunClocksEffect DEF EndOfTick
    <2>3. writes' \in Seq(QueuedWrites)
      BY <1>11 DEF EndOfTick
    <2> QED
      BY <1>0, <1>11, <2>1, <2>2, <2>3 DEF EndOfTick, ChipTypes
  <1>12. CASE UNCHANGED all_vars
    <2>1. SeqsOk'
      BY <1>0, <1>12, EditKeepsSeqs DEF all_vars, vars
    <2> QED
      BY <1>0, <1>12, <2>1 DEF all_vars, chip_vars, ChipTypes
  <1> QED
    BY <1>1, <1>2, <1>3, <1>4, <1>5, <1>6, <1>7, <1>8, <1>9, <1>10, <1>11, <1>12
       DEF ChipNext, EditSamples, EditInstruments, EditLoopByte

(* Sample x is in the RAM.                                                 *)
Good(x) == x \in SampleIndex /\ loader.ram[x] # None

(* The notes of a tick, and what a voice that plays x makes of them.       *)
NotesOk(c, x) ==
  LET d == drivers[c]
      rows == played[c]
  IN  {k \in DOMAIN rows : HasNote(Track(c), rows[k])} = {1} =>
        /\ x = IF d.playing THEN SampleOf(document, d.instr, d.note) ELSE None
        /\ Len(rows) = 1 =>
             (d.playing <=> /\ RowOf(c, rows[1]).note # Cut
                            /\ Playable(document, loader.ram, d.instr, d.note))

(* A voice that plays x at the end of the tick is as it should be.         *)
VoiceOk(c, x) ==
  /\ x # None => Good(x) /\ drivers[c].playing /\ Playing
  /\ NotesOk(c, x)

(* The chip is set up, or will be by the writes that wait.                 *)
SetUp ==
  /\ \A c \in Channels : dsp.voice[c] # None => Good(dsp.voice[c]) /\ dsp.dir /\ dsp.master
  /\ Ends("master", None, TRUE)
  /\ pc # "loading" => Ends("dir", None, TRUE)
  /\ \A c \in Channels : Ends("v_vol", c, drivers[c].volume)

(* Between the timers.                                                     *)
Between ==
  /\ NoTimes(writes)
  /\ dsp.kon = {} /\ Ends("kon", None, {})
  /\ accum = 1 =>
       pc # "loading" /\ ~Playing /\ writes # <<>> /\ Ends("koff", None, Channels)
  /\ \A c \in Channels : dsp.voice[c] # None =>
       pc # "loading" /\ drivers[c].playing /\ (accum = 0 => Playing)
  /\ pc = "commands" => \A c \in Channels : NotesOk(c, dsp.voice[c])
  /\ pc = "loading" /\ after_load = "commands" => \A c \in Channels : played[c] = <<>>

(* Nothing waits for a poll.                                               *)
NoWait ==
  /\ NoTimes(writes)
  /\ dsp.kon = {} /\ clocks >= 2
  /\ \E kon, koff :
       /\ Ends("kon", None, kon) /\ Ends("koff", None, koff)
       /\ \A c \in Channels : \E v :
            /\ Ends("v_srcn", c, v)
            /\ VoiceOk(c, IF c \in koff THEN None ELSE IF c \in kon THEN v ELSE dsp.voice[c])

(* The writes that follow a key-off of all channels wait for a poll.       *)
Wait ==
  /\ \A k \in DOMAIN writes : writes[k].time_before = IF k = Len(writes) THEN 1 ELSE 0
  /\ dsp.kon = {} /\ clocks >= 2
  /\ \E front \in Seq(Writes) :
       /\ Pending(writes) = front \o <<Write("koff", None, {})>>
       /\ Finally(front, "kon", None, dsp.new_kon, {})
       /\ Finally(front, "koff", None, dsp.koff, Channels)
  /\ \A c \in Channels : NotesOk(c, None)

(* All writes are made, and nothing sounds.                                *)
Silent ==
  /\ writes = <<>> /\ clocks >= 1
  /\ dsp.kon = {} /\ dsp.new_kon = {}
  /\ \A c \in Channels : dsp.voice[c] = None /\ NotesOk(c, None)

(* The inductive invariant, by phase.                                      *)
SoundInv ==
  ~late =>
    /\ SetUp
    /\ pc # "running" => Between
    /\ pc = "running" => accum = 0 /\ (NoWait \/ Wait \/ Silent)

-----------------------------------------------------------------------------
(* With no writes left, registers hold what they end up with.              *)
LEMMA EmptyEnds ==
  ASSUME NEW r, NEW c, NEW old, NEW x
  PROVE  Finally(<<>>, r, c, old, x) <=> x = old
  BY DEF Finally

(* New writes follow those that wait.                                      *)
LEMMA NewEnds ==
  ASSUME ChipTypes, NEW ws \in Seq(Writes), Pending(writes') = Pending(writes) \o ws,
         NEW r, NEW c, Register(dsp', r, c) = Register(dsp, r, c),
         NEW x, NEW y, Ends(r, c, x), Finally(ws, r, c, x, y)
  PROVE  Ends(r, c, y)'
  <1>1. Pending(writes) \in Seq(Writes)
    BY PendingType DEF ChipTypes
  <1>2. Finally(Pending(writes) \o ws, r, c, Register(dsp, r, c), y)
    BY <1>1, FinallyConcat DEF Ends
  <1> QED
    BY <1>2 DEF Ends

(* Every register of the chip ends up with some value.                     *)
LEMMA EndsExists == ASSUME ChipTypes, NEW r, NEW c PROVE \E x : Ends(r, c, x)
  <1>1. Pending(writes) \in Seq(Writes)
    BY PendingType DEF ChipTypes
  <1> QED
    BY <1>1, FinallyExists DEF Ends

(* A reset while nothing waits.                                            *)
LEMMA ReloadSound ==
  ASSUME ChipTypes, NEW doc, NEW ds, NEW after, DOMAIN ds = Channels,
         \A c \in Channels : DriverOk(ds[c]), ReloadSamples(doc, ds, after), drivers' = ds,
         after = "commands" => \A c \in Channels : played'[c] = <<>>
  PROVE  SoundInv'
  <1> SUFFICES ASSUME ~late' PROVE SetUp' /\ Between' /\ pc' = "loading"
    BY DEF SoundInv
  <1> DEFINE ws == RestoreState(ds)
  <1>1. /\ pc' = "loading" /\ after_load' = after /\ dsp' = ResetDsp
        /\ late' = (accum > 0 \/ \E k \in DOMAIN writes : writes[k].time_before > 0)
    BY DEF ReloadSamples
  <1>2. NoTimes(writes) /\ accum = 0
    <2>1. accum \in {0, 1} /\ \A k \in DOMAIN writes : writes[k] \in QueuedWrites
      BY DEF ChipTypes
    <2>2. \A k \in DOMAIN writes : writes[k].time_before \in {0, 1}
      BY <2>1 DEF QueuedWrites
    <2>3. ~(accum > 0) /\ \A k \in DOMAIN writes : ~(writes[k].time_before > 0)
      BY <1>1
    <2>4. accum = 0
      BY <2>1, <2>3
    <2>5. NoTimes(writes)
      BY <2>2, <2>3 DEF NoTimes
    <2> QED
      BY <2>4, <2>5
  <1>3. /\ ws \in Seq(Writes) /\ Pending(writes') = Pending(writes) \o ws
        /\ accum' = 0 /\ NoTimes(writes')
    BY <1>2, ReloadTypes
  <1>4. /\ \A x : Finally(ws, "master", None, x, TRUE) /\ Finally(ws, "kon", None, x, {})
        /\ \A c \in Channels : \A x : Finally(ws, "v_vol", c, x, ds[c].volume)
    BY DriversVolumes, RestoreStateEffect
  <1> HIDE DEF ws
  <1>5. ASSUME NEW r, NEW c, NEW y, \A x : Finally(ws, r, c, x, y) PROVE Ends(r, c, y)'
    <2>1. Pending(writes) \in Seq(Writes)
      BY PendingType DEF ChipTypes
    <2>2. PICK x : Finally(Pending(writes), r, c, Register(dsp', r, c), x)
      BY <2>1, FinallyExists
    <2>3. Finally(Pending(writes) \o ws, r, c, Register(dsp', r, c), y)
      BY <1>3, <1>5, <2>1, <2>2, FinallyConcat
    <2> QED
      BY <1>3, <2>3 DEF Ends
  <1>6. dsp'.kon = {} /\ \A c \in Channels : dsp'.voice[c] = None
    BY <1>1, ResetDspOk
  <1>7. SetUp'
    <2>1. Ends("master", None, TRUE)'
      BY <1>4, <1>5
    <2>2. ASSUME NEW c \in Channels PROVE Ends("v_vol", c, drivers[c].volume)'
      <3>1. Ends("v_vol", c, ds[c].volume)'
        BY <1>4, <1>5
      <3> QED
        BY <3>1 DEF Ends
    <2> QED
      BY <1>1, <1>6, <2>1, <2>2 DEF SetUp
  <1>8. Between'
    <2>1. Ends("kon", None, {})'
      BY <1>4, <1>5
    <2> QED
      BY <1>1, <1>3, <1>6, <2>1 DEF Between
  <1> QED
    BY <1>1, <1>7, <1>8

(* The invariant holds when the callbacks start.                           *)
LEMMA InitSound == InitChip => SoundInv
  <1> SUFFICES ASSUME InitChip PROVE SetUp /\ Between /\ pc = "loading"
    BY DEF SoundInv
  <1> DEFINE ws == RestoreState(drivers)
  <1>1. ChipTypes
    BY InitTypes
  <1>2. /\ pc = "loading" /\ dsp = ResetDsp /\ accum = 0
        /\ writes = [k \in DOMAIN ws |-> [write |-> ws[k], time_before |-> 0]]
        /\ \A c \in Channels : played[c] = <<>>
    BY DEF InitChip, Init
  <1>3. /\ ws \in Seq(Writes)
        /\ \A x : Finally(ws, "master", None, x, TRUE) /\ Finally(ws, "kon", None, x, {})
        /\ \A c \in Channels : \A x : Finally(ws, "v_vol", c, x, drivers[c].volume)
    BY <1>1, DriversVolumes, RestoreStateEffect DEF ChipTypes
  <1> HIDE DEF ws
  <1>4. NoTimes(writes)
    BY <1>2 DEF NoTimes
  <1>5. Pending(writes) = ws
    <2>1. Pending(writes) = [k \in DOMAIN ws |-> ws[k]]
      BY <1>2 DEF Pending
    <2>2. ws = [k \in DOMAIN ws |-> ws[k]]
      BY <1>3
    <2> QED
      BY <2>1, <2>2
  <1>6. dsp.kon = {} /\ \A c \in Channels : dsp.voice[c] = None
    BY <1>2, ResetDspOk
  <1>7. /\ Ends("master", None, TRUE) /\ Ends("kon", None, {})
        /\ \A c \in Channels : Ends("v_vol", c, drivers[c].volume)
    BY <1>3, <1>5 DEF Ends
  <1>8. SetUp
    BY <1>2, <1>6, <1>7 DEF SetUp
  <1>9. Between
    BY <1>2, <1>4, <1>6, <1>7 DEF Between
  <1> QED
    BY <1>2, <1>8, <1>9

(* Commands are run and samples are loaded between the timers.             *)
LEMMA BetweenFacts ==
  ASSUME SoundInv, ~late, pc # "running"
  PROVE  SetUp /\ Between
  BY DEF SoundInv

(* Time accumulates for one poll at most.                                  *)
LEMMA AccumIsOne == ASSUME ChipTypes PROVE accum # 0 => accum = 1
  BY DEF ChipTypes

(* Where no note was played, nothing is asked of the voice.                *)
LEMMA NoNotes == ASSUME NEW c, played'[c] = <<>> PROVE NotesOk(c, dsp.voice[c])'
  <1>1. DOMAIN played'[c] = {}
    OBVIOUS
  <1> QED
    BY <1>1 DEF NotesOk

(* stop_playback() leaves all voices to be keyed off.                      *)
LEMMA StopSound == ASSUME ChipTypes, SoundInv, ChipStop PROVE SoundInv'
  <1> SUFFICES ASSUME ~late' PROVE SetUp' /\ Between' /\ pc' = "commands"
    BY DEF SoundInv
  <1> DEFINE koff == Write("koff", None, Channels)
             ws == <<koff>>
  <1>1. /\ pc = "commands" /\ pc' = "commands" /\ dsp' = dsp /\ late' = late /\ accum' = 1
        /\ drivers' = drivers /\ loader' = loader /\ after_load' = after_load
        /\ writes' = Queued(ws)
        /\ Playing
        /\ seqs' = [c \in Channels |-> Stopped]
        /\ \A c \in Channels : played'[c] = <<>>
    BY DEF ChipStop, TakeCommand, StopPlayback
  <1>2. SetUp /\ Between /\ accum = 0
    <2>1. SetUp /\ Between
      BY <1>1, BetweenFacts
    <2> QED
      BY <1>1, <2>1, AccumIsOne DEF Between
  <1>3. koff \in Writes
    BY WriteTypes DEF FlagRegisters
  <1>4. \A r, c, x : Finally(ws, r, c, x, IF r = "koff" /\ c = None THEN Channels ELSE x)
    <2>1. ASSUME NEW r, NEW c, NEW x
          PROVE  Finally(ws, r, c, x, IF r = "koff" /\ c = None THEN Channels ELSE x)
      BY FinallyOne
    <2> QED
      BY <2>1
  <1> HIDE DEF koff
  <1>5. ws \in Seq(Writes) /\ ws # <<>>
    BY <1>3
  <1> HIDE DEF ws
  <1>6. /\ Pending(writes') = Pending(writes) \o ws
        /\ NoTimes(writes') /\ writes' # <<>>
    BY <1>1, <1>2, <1>5, QueuedEffect DEF ChipTypes, Between
  <1>7. ASSUME NEW r, NEW c, NEW x, Ends(r, c, x), ~(r = "koff" /\ c = None) PROVE Ends(r, c, x)'
    <2>1. Finally(ws, r, c, x, x)
      BY <1>4, <1>7
    <2>2. Register(dsp', r, c) = Register(dsp, r, c)
      BY <1>1
    <2> QED
      BY <1>5, <1>6, <1>7, <2>1, <2>2, NewEnds
  <1>8. Ends("koff", None, Channels)'
    <2>1. PICK x : Ends("koff", None, x)
      BY EndsExists
    <2>2. Finally(ws, "koff", None, x, Channels)
      BY <1>4
    <2>3. Register(dsp', "koff", None) = Register(dsp, "koff", None)
      BY <1>1
    <2> QED
      BY <1>5, <1>6, <2>1, <2>2, <2>3, NewEnds
  <1>9. SetUp'
    <2>1. Ends("master", None, TRUE)' /\ Ends("dir", None, TRUE)'
      BY <1>1, <1>2, <1>7 DEF SetUp
    <2>2. ASSUME NEW c \in Channels PROVE Ends("v_vol", c, drivers[c].volume)'
      <3>1. Ends("v_vol", c, drivers[c].volume)
        BY <1>2 DEF SetUp
      <3>2. PICK v : v = drivers[c].volume
        OBVIOUS
      <3>3. Ends("v_vol", c, v)'
        BY <1>7, <3>1, <3>2
      <3> QED
        BY <1>1, <3>2, <3>3 DEF Ends
    <2>3. \A c \in Channels : dsp'.voice[c] # None =>
            /\ dsp'.voice[c] \in SampleIndex /\ loader'.ram[dsp'.voice[c]] # None
            /\ dsp'.dir /\ dsp'.master
      BY <1>1, <1>2 DEF SetUp, Good
    <2> QED
      BY <2>1, <2>2, <2>3 DEF SetUp, Good
  <1>10. Between'
    <2>1. Ends("kon", None, {})'
      BY <1>2, <1>7 DEF Between
    <2>2. ~Playing'
      <3>1. PICK c \in Channels : TRUE
        BY ChannelsAssumption
      <3>2. seqs'[c].next = None
        BY <1>1 DEF Stopped
      <3> QED
        BY <3>2 DEF Playing
    <2>3. \A c \in Channels : dsp'.voice[c] # None => drivers'[c].playing
      BY <1>1, <1>2 DEF Between
    <2>4. \A c \in Channels : NotesOk(c, dsp.voice[c])'
      <3>1. \A c \in Channels : played'[c] = <<>>
        BY <1>1
      <3> QED
        BY <3>1, NoNotes
    <2>5. dsp'.kon = {}
      BY <1>1, <1>2 DEF Between
    <2> QED
      BY <1>1, <1>6, <1>8, <2>1, <2>2, <2>3, <2>4, <2>5 DEF Between
  <1> QED
    BY <1>1, <1>9, <1>10

(* Edits touch neither the driver nor the chip.                            *)
LEMMA EditSound ==
  ASSUME SoundInv, pc = "commands",
         UNCHANGED <<pc, after_load, drivers, loader, writes, accum, dsp, late>>,
         UNCHANGED seqs, \A c \in Channels : played'[c] = <<>>
  PROVE  SoundInv'
  <1> SUFFICES ASSUME ~late' PROVE SetUp' /\ Between' /\ pc' = "commands"
    BY DEF SoundInv
  <1>1. SetUp /\ Between
    BY BetweenFacts
  <1>2. SetUp'
    BY <1>1 DEF SetUp, Ends, Good
  <1>3. Between'
    <2>1. Playing' <=> Playing
      BY DEF Playing
    <2>2. Ends("kon", None, {})' /\ (accum' = 1 => Ends("koff", None, Channels)')
      BY <1>1 DEF Between, Ends
    <2>3. \A c \in Channels : NotesOk(c, dsp.voice[c])'
      BY NoNotes
    <2> QED
      BY <1>1, <2>1, <2>2, <2>3 DEF Between
  <1> QED
    BY <1>2, <1>3

(* Edits of patterns, samples, instruments and loops keep the invariant.   *)
LEMMA CommandsSound ==
  /\ ChipTypes /\ SoundInv /\ EditPatterns => SoundInv'
  /\ ChipTypes /\ SoundInv /\ EditSamples => SoundInv'
  /\ ChipTypes /\ SoundInv /\ EditInstruments => SoundInv'
  /\ ChipTypes /\ SoundInv /\ EditLoopByte => SoundInv'
  <1>1. ChipTypes /\ SoundInv /\ EditPatterns => SoundInv'
    BY EditSound DEF EditPatterns, TakeCommand, Edit
  <1>2. ASSUME SoundInv, NEW doc, NEW flagged, EditSynth(doc, flagged) PROVE SoundInv'
    BY <1>2, EditSound DEF EditSynth, TakeCommand
  <1> QED
    BY <1>1, <1>2 DEF EditSamples, EditInstruments, EditLoopByte

(* Playing from somewhere resets the chip.                                 *)
LEMMA PlayFromSound ==
  ASSUME ChipTypes, NEW t, ChipPlayFrom(t)
  PROVE  SoundInv'
  <1>1. ReloadSamples(document, drivers', "commands")
        /\ drivers' = [c \in Channels |-> NewChannelDriver]
        /\ \A c \in Channels : played'[c] = <<>>
    BY DEF ChipPlayFrom, PlayFrom
  <1>2. DOMAIN drivers' = Channels /\ \A c \in Channels : DriverOk(drivers'[c])
    BY <1>1, NewDriverOk
  <1> QED
    BY <1>1, <1>2, ReloadSound

(* After the commands samples may be reloaded.                             *)
LEMMA EndCommandsSound == ASSUME ChipTypes, SoundInv, EndCommands PROVE SoundInv'
  <1>1. CASE samples_modified
    <2>1. ReloadSamples(document, drivers, "timer") /\ drivers' = drivers
      BY <1>1 DEF EndCommands
    <2>2. DOMAIN drivers = Channels /\ \A c \in Channels : DriverOk(drivers[c])
      BY DEF ChipTypes
    <2> QED
      BY <2>1, <2>2, ReloadSound
  <1>2. CASE ~samples_modified
    <2> SUFFICES ASSUME ~late' PROVE SetUp' /\ Between' /\ pc' = "timer"
      BY DEF SoundInv
    <2>1. /\ pc = "commands" /\ pc' = "timer"
          /\ UNCHANGED <<after_load, drivers, loader, writes, accum, dsp, late, seqs, played>>
      BY <1>2 DEF EndCommands, vars
    <2>2. SetUp /\ Between
      BY <2>1, BetweenFacts
    <2>3. SetUp'
      BY <2>1, <2>2 DEF SetUp, Ends, Good
    <2>4. Between'
      <3>1. Playing' <=> Playing
        BY <2>1 DEF Playing
      <3>2. Ends("kon", None, {})' /\ (accum' = 1 => Ends("koff", None, Channels)')
        BY <2>1, <2>2 DEF Between, Ends
      <3> QED
        BY <2>1, <2>2, <3>1, <3>2 DEF Between
    <2> QED
      BY <2>1, <2>3, <2>4
  <1> QED
    BY <1>1, <1>2

(* Loading a sample touches the RAM while nothing sounds.                  *)
LEMMA LoadNextSound == ASSUME SoundInv, LoadNextSample PROVE SoundInv'
  <1> SUFFICES ASSUME ~late' PROVE SetUp' /\ Between' /\ pc' = "loading"
    BY DEF SoundInv
  <1>1. /\ pc = "loading" /\ pc' = "loading"
        /\ UNCHANGED <<after_load, drivers, writes, accum, dsp, late, seqs, played>>
    BY DEF LoadNextSample, vars
  <1>2. SetUp /\ Between
    BY <1>1, BetweenFacts
  <1>3. \A c \in Channels : dsp.voice[c] = None
    BY <1>1, <1>2 DEF Between
  <1>4. SetUp'
    BY <1>1, <1>2, <1>3 DEF SetUp, Ends
  <1>5. Between'
    <2>1. accum' # 1
      BY <1>1, <1>2 DEF Between
    <2>2. Ends("kon", None, {})'
      BY <1>1, <1>2 DEF Between, Ends
    <2> QED
      BY <1>1, <1>2, <1>3, <2>1, <2>2 DEF Between
  <1> QED
    BY <1>1, <1>4, <1>5

(* The directory is set once the samples are there.                        *)
LEMMA EndLoadSound == ASSUME ChipTypes, SoundInv, EndLoad PROVE SoundInv'
  <1> SUFFICES ASSUME ~late' PROVE SetUp' /\ Between' /\ pc' \in {"commands", "timer"}
    BY DEF SoundInv
  <1> DEFINE dir == Write("dir", None, TRUE)
             ws == <<dir>>
  <1>1. /\ pc = "loading" /\ pc' = after_load /\ after_load \in {"commands", "timer"}
        /\ UNCHANGED <<after_load, drivers, loader, dsp, late, seqs, played>>
        /\ writes' = Queued(ws) /\ accum' = 0
    BY DEF EndLoad, WriteAll, vars, ChipTypes
  <1>2. SetUp /\ Between /\ accum = 0
    <2>1. SetUp /\ Between
      BY <1>1, BetweenFacts
    <2> QED
      BY <1>1, <2>1, AccumIsOne DEF Between
  <1>3. dir \in Writes
    BY WriteTypes
  <1>4. \A r, c, x : Finally(ws, r, c, x, IF r = "dir" /\ c = None THEN TRUE ELSE x)
    <2>1. ASSUME NEW r, NEW c, NEW x
          PROVE  Finally(ws, r, c, x, IF r = "dir" /\ c = None THEN TRUE ELSE x)
      BY FinallyOne
    <2> QED
      BY <2>1
  <1> HIDE DEF dir
  <1>5. ws \in Seq(Writes)
    BY <1>3
  <1> HIDE DEF ws
  <1>6. Pending(writes') = Pending(writes) \o ws /\ NoTimes(writes')
    BY <1>1, <1>2, <1>5, QueuedEffect DEF ChipTypes, Between
  <1>7. ASSUME NEW r, NEW c, NEW x, Ends(r, c, x), ~(r = "dir" /\ c = None) PROVE Ends(r, c, x)'
    <2>1. Finally(ws, r, c, x, x)
      BY <1>4, <1>7
    <2>2. Register(dsp', r, c) = Register(dsp, r, c)
      BY <1>1
    <2> QED
      BY <1>5, <1>6, <1>7, <2>1, <2>2, NewEnds
  <1>8. Ends("dir", None, TRUE)'
    <2>1. PICK x : Ends("dir", None, x)
      BY EndsExists
    <2>2. Finally(ws, "dir", None, x, TRUE)
      BY <1>4
    <2>3. Register(dsp', "dir", None) = Register(dsp, "dir", None)
      BY <1>1
    <2> QED
      BY <1>5, <1>6, <2>1, <2>2, <2>3, NewEnds
  <1>a. \A c \in Channels : dsp'.voice[c] = None
    BY <1>1, <1>2 DEF Between
  <1>9. SetUp'
    <2>1. Ends("master", None, TRUE)'
      BY <1>1, <1>2, <1>7 DEF SetUp
    <2>2. ASSUME NEW c \in Channels PROVE Ends("v_vol", c, drivers[c].volume)'
      <3>1. Ends("v_vol", c, drivers[c].volume)
        BY <1>2 DEF SetUp
      <3>2. PICK v : v = drivers[c].volume
        OBVIOUS
      <3>3. Ends("v_vol", c, v)'
        BY <1>7, <3>1, <3>2
      <3> QED
        BY <1>1, <3>2, <3>3 DEF Ends
    <2> QED
      BY <1>8, <1>a, <2>1, <2>2 DEF SetUp
  <1>10. Between'
    <2>1. Ends("kon", None, {})'
      BY <1>2, <1>7 DEF Between
    <2>2. pc' = "commands" => \A c \in Channels : NotesOk(c, dsp.voice[c])'
      <3>1. pc' = "commands" => \A c \in Channels : played'[c] = <<>>
        BY <1>1, <1>2 DEF Between
      <3> QED
        BY <3>1, NoNotes
    <2>3. dsp'.kon = {} /\ pc' # "loading"
      BY <1>1, <1>2 DEF Between
    <2> QED
      BY <1>1, <1>6, <1>a, <2>1, <2>2, <2>3 DEF Between
  <1> QED
    BY <1>1, <1>9, <1>10

(* Channel c with driver d runs the rows of a tick: v is the sample that   *)
(* is written for its voice, which plays old before and x after it.        *)
Ticking(c, rows, d, s, old, v, x) ==
  /\ rows \in Seq(Outs(Track(c))) /\ DriverOk(d)
  /\ s = RunEvents(document, loader.ram, c, d, EventsOf(c, rows))
  /\ old # None => Good(old) /\ d.playing
  /\ s.writes # <<>> => v = s.writes[Len(s.writes)].value
  /\ x = IF s.koff THEN None ELSE IF s.kon THEN v ELSE old

(* That voice plays the note of the tick, or nothing.                      *)
LEMMA TickedVoice ==
  ASSUME document \in Documents, NEW c \in Channels,
         NEW rows, NEW d, NEW s, NEW old, NEW v, NEW x, Ticking(c, rows, d, s, old, v, x)
  PROVE  /\ x # None => Good(x) /\ s.d.playing
         /\ {k \in DOMAIN rows : HasNote(Track(c), rows[k])} = {1} =>
              /\ x = IF s.d.playing THEN SampleOf(document, s.d.instr, s.d.note) ELSE None
              /\ Len(rows) = 1 =>
                   (s.d.playing <=> /\ RowOf(c, rows[1]).note # Cut
                                    /\ Playable(document, loader.ram, s.d.instr, s.d.note))
  <1> DEFINE events == EventsOf(c, rows)
             n == Len(rows)
  <1> USE DEF Ticking
  <1>1. /\ Len(events) = n /\ n \in Nat
        /\ \A k \in 1 .. n :
             /\ RowOk(events[k]) /\ events[k] = RowOf(c, rows[k])
             /\ HasNote(Track(c), rows[k]) <=> events[k].note # None
    BY EventsOfRows
  <1>2. DOMAIN rows = 1 .. n
    OBVIOUS
  <1> HIDE DEF events
  <1>3. /\ EventsOk(loader.ram, c, d, s)
        /\ n > 0 /\ events[1].note # None /\ (\A k \in 2 .. n : events[k].note = None) =>
             FirstNote(document, s)
        /\ n = 1 /\ events[1].note # None =>
             s.d.playing = (events[1].note # Cut
                            /\ Playable(document, loader.ram, s.d.instr, s.d.note))
    <2>1. s = RunEvents(document, loader.ram, c, d, events)
      BY DEF events
    <2> HIDE DEF n
    <2>2. Len(events) \in Nat /\ \A k \in 1 .. Len(events) : RowOk(events[k])
      BY <1>1
    <2>3. /\ EventsOk(loader.ram, c, d, s)
          /\ Len(events) > 0 /\ events[1].note # None
               /\ (\A k \in 2 .. Len(events) : events[k].note = None) => FirstNote(document, s)
          /\ Len(events) = 1 /\ events[1].note # None =>
               s.d.playing = (events[1].note # Cut
                              /\ Playable(document, loader.ram, s.d.instr, s.d.note))
      BY <2>1, <2>2, RunEventsOk
    <2>4. Len(events) = n
      BY <1>1
    <2> QED
      BY <2>3, <2>4
  <1> HIDE DEF n
  <1>4. s.writes # <<>> => Good(v)
    <2>1. s.writes \in Seq(SrcnWrites(c, loader.ram))
      BY <1>3 DEF EventsOk
    <2>2. s.writes # <<>> => s.writes[Len(s.writes)] \in SrcnWrites(c, loader.ram)
      BY <2>1
    <2>3. \A w \in SrcnWrites(c, loader.ram) : w.value \in SampleIndex /\ loader.ram[w.value] # None
      BY DEF SrcnWrites, Writes
    <2> QED
      BY <2>2, <2>3 DEF Good
  <1>5. /\ s.kon => s.writes # <<>>
        /\ ~s.d.playing => s.koff \/ (~d.playing /\ ~s.kon)
    BY <1>3 DEF EventsOk
  <1>6. x # None => Good(x) /\ s.d.playing
    BY <1>4, <1>5
  <1>7. ASSUME {k \in DOMAIN rows : HasNote(Track(c), rows[k])} = {1}
        PROVE  FirstNote(document, s) /\ n > 0 /\ events[1].note # None
    <2>1. 1 \in 1 .. n /\ HasNote(Track(c), rows[1])
      BY <1>2, <1>7
    <2>2. \A k \in 2 .. n : ~HasNote(Track(c), rows[k])
      <3>1. \A k \in 2 .. n : k \in DOMAIN rows /\ k # 1
        BY <1>1, <1>2
      <3> QED
        BY <1>7, <3>1
    <2>3. \A k \in 2 .. n : k \in 1 .. n
      BY <1>1
    <2> QED
      BY <1>1, <1>3, <2>1, <2>2, <2>3
  <1>8. FirstNote(document, s) =>
          x = IF s.d.playing THEN SampleOf(document, s.d.instr, s.d.note) ELSE None
    BY DEF FirstNote
  <1>9. n = 1 => events[1] = RowOf(c, rows[1])
    BY <1>1
  <1> QED
    BY <1>3, <1>6, <1>7, <1>8, <1>9 DEF n

(* A tick's writes make its notes sound.                                   *)
LEMMA TickSound == ASSUME ChipTypes, SoundInv, TickSequencer PROVE SoundInv'
  <1> SUFFICES ASSUME ~late' PROVE SetUp' /\ accum' = 0 /\ NoWait' /\ pc' = "running"
    BY DEF SoundInv
  <1> DEFINE events == [c \in Channels |-> EventsOf(c, played'[c])]
             s == RanEvents(events)
             ws == DriverWrites(s)
             kon == KeyedOn(s)
             koff == KeyedOff(s)
  <1>1. /\ pc = "timer" /\ pc' = "running" /\ clocks' = ClocksPerTimer
        /\ UNCHANGED <<loader, dsp, late, document>>
        /\ Playing /\ RunSpc700Driver(events)
    BY DEF TickSequencer, StartChip, Tick, EventsOf
  <1>2. SetUp /\ Between /\ accum = 0
    <2>1. SetUp /\ Between
      BY <1>1, BetweenFacts
    <2> QED
      BY <1>1, <2>1, AccumIsOne DEF Between
  <1>3. /\ document \in Documents /\ \A c \in Channels : DriverOk(drivers[c])
        /\ \A c \in Channels : played'[c] \in Seq(Outs(Track(c)))
        /\ Playing'
    <2>1. SeqsOk /\ document \in Documents /\ \A c \in Channels : DriverOk(drivers[c])
      BY DEF ChipTypes, SeqsOk
    <2> QED
      BY <2>1, TickKeepsPlaying DEF TickSequencer
  <1>4. ASSUME NEW c \in Channels
        PROVE  Len(events[c]) \in Nat /\ \A k \in 1 .. Len(events[c]) : RowOk(events[c][k])
    BY <1>3, EventsOfRows
  <1>a. \A c \in Channels : events[c] = EventsOf(c, played'[c])
    OBVIOUS
  <1> HIDE DEF events
  <1>5. /\ DOMAIN s = Channels
        /\ \A c \in Channels : EventsOk(loader.ram, c, drivers[c], s[c])
        /\ drivers' = [c \in Channels |-> s[c].d]
        /\ ws \in Seq(Writes) /\ accum' = 0
        /\ Pending(writes') = Pending(writes) \o ws
        /\ NoTimes(writes')
    BY <1>1, <1>2, <1>4, RunSpcEffect DEF Between
  <1>6. \A c \in Channels :
          s[c] = RunEvents(document, loader.ram, c, drivers[c], EventsOf(c, played'[c]))
    BY <1>a DEF RanEvents
  <1> HIDE DEF s
  <1>c. ChannelsRan(loader.ram, drivers, s)
    BY <1>5 DEF ChannelsRan
  <1>7. /\ \A x : /\ Finally(ws, "master", None, x, x)
                  /\ Finally(ws, "dir", None, x, x)
                  /\ Finally(ws, "koff", None, x, koff)
                  /\ Finally(ws, "kon", None, x, IF kon = {} THEN x ELSE kon)
        /\ \A c \in Channels :
             /\ Finally(ws, "v_vol", c, drivers[c].volume, s[c].d.volume)
             /\ \A x : Finally(ws, "v_srcn", c, x,
                         IF s[c].writes = <<>> THEN x ELSE s[c].writes[Len(s[c].writes)].value)
    BY <1>c, DriverWritesEffect
  <1> HIDE DEF ws
  <1>b. \A c \in Channels : (c \in kon <=> s[c].kon) /\ (c \in koff <=> s[c].koff)
    BY DEF KeyedOn, KeyedOff
  <1> HIDE DEF kon, koff
  <1>8. ASSUME NEW r, NEW c, NEW x, NEW y, Ends(r, c, x), Finally(ws, r, c, x, y)
        PROVE  Ends(r, c, y)'
    <2>1. Register(dsp', r, c) = Register(dsp, r, c)
      BY <1>1
    <2> QED
      BY <1>5, <1>8, <2>1, NewEnds
  <1>9. SetUp'
    <2>1. Ends("master", None, TRUE)' /\ Ends("dir", None, TRUE)'
      BY <1>1, <1>2, <1>7, <1>8 DEF SetUp
    <2>2. ASSUME NEW c \in Channels PROVE Ends("v_vol", c, drivers[c].volume)'
      <3>1. Ends("v_vol", c, drivers[c].volume)
        BY <1>2 DEF SetUp
      <3>2. PICK v : v = s[c].d.volume
        OBVIOUS
      <3>3. Ends("v_vol", c, v)'
        BY <1>7, <1>8, <3>1, <3>2
      <3> QED
        BY <1>5, <3>2, <3>3 DEF Ends
    <2>3. \A c \in Channels : dsp'.voice[c] # None =>
            /\ dsp'.voice[c] \in SampleIndex /\ loader'.ram[dsp'.voice[c]] # None
            /\ dsp'.dir /\ dsp'.master
      BY <1>1, <1>2 DEF SetUp, Good
    <2> QED
      BY <2>1, <2>2, <2>3 DEF SetUp, Good
  <1>10. PICK k1 : Ends("kon", None, k1)' /\ k1 = kon
    <2>1. PICK k1 : k1 = kon
      OBVIOUS
    <2>2. Ends("kon", None, {})
      BY <1>2 DEF Between
    <2>3. Finally(ws, "kon", None, {}, k1)
      BY <1>7, <2>1
    <2>4. Ends("kon", None, k1)'
      BY <1>8, <2>2, <2>3
    <2> QED
      BY <2>1, <2>4
  <1>11. PICK k0 : Ends("koff", None, k0)' /\ k0 = koff
    <2>1. PICK k0 : k0 = koff
      OBVIOUS
    <2>2. PICK x : Ends("koff", None, x)
      BY EndsExists
    <2>3. Finally(ws, "koff", None, x, k0)
      BY <1>7, <2>1
    <2>4. Ends("koff", None, k0)'
      BY <1>8, <2>2, <2>3
    <2> QED
      BY <2>1, <2>4
  <1>12. ASSUME NEW c \in Channels
         PROVE  \E v : /\ Ends("v_srcn", c, v)'
                       /\ VoiceOk(c, IF c \in k0 THEN None
                                     ELSE IF c \in k1 THEN v ELSE dsp.voice[c])'
    <2>1. PICK v0 : Ends("v_srcn", c, v0)
      BY EndsExists
    <2>2. PICK v : v = IF s[c].writes = <<>> THEN v0 ELSE s[c].writes[Len(s[c].writes)].value
      OBVIOUS
    <2>3. Ends("v_srcn", c, v)'
      <3>1. Finally(ws, "v_srcn", c, v0, v)
        BY <1>7, <2>2
      <3> QED
        BY <1>8, <2>1, <3>1
    <2>4. PICK x : x = IF s[c].koff THEN None ELSE IF s[c].kon THEN v ELSE dsp.voice[c]
      OBVIOUS
    <2>5. /\ x # None => Good(x) /\ s[c].d.playing
          /\ {k \in DOMAIN played'[c] : HasNote(Track(c), played'[c][k])} = {1} =>
               /\ x = IF s[c].d.playing THEN SampleOf(document, s[c].d.instr, s[c].d.note)
                      ELSE None
               /\ Len(played'[c]) = 1 =>
                    (s[c].d.playing <=>
                       /\ RowOf(c, played'[c][1]).note # Cut
                       /\ Playable(document, loader.ram, s[c].d.instr, s[c].d.note))
      <3>1. PICK rows \in Seq(Outs(Track(c))) : rows = played'[c]
        BY <1>3
      <3>2. DriverOk(drivers[c])
            /\ (dsp.voice[c] # None => Good(dsp.voice[c]) /\ drivers[c].playing)
        BY <1>2, <1>3 DEF SetUp, Between
      <3>3. s[c] = RunEvents(document, loader.ram, c, drivers[c], EventsOf(c, rows))
        BY <1>6, <3>1
      <3>4. s[c].writes # <<>> => v = s[c].writes[Len(s[c].writes)].value
        BY <2>2
      <3>5. PICK t : t = s[c]
        OBVIOUS
      <3>7. PICK d : d = drivers[c]
        OBVIOUS
      <3>8. PICK old : old = dsp.voice[c]
        OBVIOUS
      <3>9. Ticking(c, rows, d, t, old, v, x)
        BY <2>4, <3>2, <3>3, <3>4, <3>5, <3>7, <3>8 DEF Ticking
      <3>6. /\ x # None => Good(x) /\ t.d.playing
            /\ {k \in DOMAIN rows : HasNote(Track(c), rows[k])} = {1} =>
                 /\ x = IF t.d.playing THEN SampleOf(document, t.d.instr, t.d.note) ELSE None
                 /\ Len(rows) = 1 =>
                      (t.d.playing <=> /\ RowOf(c, rows[1]).note # Cut
                                       /\ Playable(document, loader.ram, t.d.instr, t.d.note))
        BY <1>3, <3>9, TickedVoice
      <3> QED
        BY <3>1, <3>5, <3>6
    <2>6. drivers'[c] = s[c].d
      BY <1>5
    <2>7. VoiceOk(c, x)'
      <3>1. (x # None => Good(x) /\ drivers[c].playing /\ Playing)'
        BY <1>1, <1>3, <2>5, <2>6 DEF Good
      <3>2. NotesOk(c, x)'
        <4>1. Track(c)' = Track(c) /\ RowOf(c, played[c][1])' = RowOf(c, played'[c][1])
          BY <1>1 DEF RowOf, Track
        <4> QED
          BY <1>1, <2>5, <2>6, <4>1 DEF NotesOk
      <3> QED
        BY <3>1, <3>2 DEF VoiceOk
    <2>8. (c \in k1 <=> s[c].kon) /\ (c \in k0 <=> s[c].koff) /\ dsp' = dsp
      BY <1>1, <1>b, <1>10, <1>11
    <2>9. x = IF c \in k0 THEN None ELSE IF c \in k1 THEN v ELSE dsp'.voice[c]
      BY <2>4, <2>8
    <2>10. VoiceOk(c, IF c \in k0 THEN None ELSE IF c \in k1 THEN v ELSE dsp.voice[c])'
      BY <2>7, <2>9 DEF VoiceOk, NotesOk, Good
    <2> QED
      BY <2>3, <2>10
  <1>13. NoWait'
    <2>1. NoTimes(writes') /\ dsp'.kon = {} /\ clocks' >= 2
      BY <1>1, <1>2, <1>5, ClocksPerTimerAssumption DEF Between
    <2> QED
      BY <1>10, <1>11, <1>12, <2>1 DEF NoWait
  <1> QED
    BY <1>1, <1>5, <1>9, <1>13

(* A timer without notes asks nothing of the voices.                       *)
LEMMA NothingPlayedNext ==
  ASSUME NEW c, NEW x, played'[c] = <<>>
  PROVE  NotesOk(c, x)'
  <1>1. DOMAIN played'[c] = {}
    OBVIOUS
  <1> QED
    BY <1>1 DEF NotesOk

(* A driver without events keeps its state, and writes no voice register.  *)
LEMMA QuietTimer ==
  ASSUME ChipTypes, RunTimer
  PROVE  LET ws == <<Write("koff", None, {})>> IN
         /\ pc = "timer" /\ pc' = "running" /\ clocks' = ClocksPerTimer
         /\ UNCHANGED <<loader, dsp, late, document>>
         /\ Playing => Playing'
         /\ \A c \in Channels : played'[c] = <<>> /\ drivers'[c] = drivers[c]
         /\ ws \in Seq(Writes) /\ writes' = Queued(ws) /\ accum' = 0
  <1> DEFINE events == [c \in Channels |-> <<>>]
             s == RanEvents(events)
  <1>1. /\ pc = "timer" /\ pc' = "running" /\ clocks' = ClocksPerTimer
        /\ UNCHANGED <<loader, dsp, late, document>>
        /\ RunDriver /\ RunSpc700Driver(events)
        /\ \A c \in Channels : played'[c] = <<>>
    BY DEF RunTimer, StartChip, RunDriver
  <1>2. Playing => Playing'
    BY <1>1, RunDriverKeepsPlaying DEF ChipTypes
  <1>3. /\ document \in Documents /\ \A c \in Channels : DriverOk(drivers[c])
    BY DEF ChipTypes, SeqsOk
  <1>4. /\ DOMAIN s = Channels
        /\ drivers' = [c \in Channels |-> s[c].d]
        /\ writes' = Queued(DriverWrites(s)) /\ accum' = 0
        /\ DriverWrites(s) \in Seq(Writes)
    <2>1. ASSUME NEW c \in Channels
          PROVE  Len(events[c]) \in Nat /\ \A k \in 1 .. Len(events[c]) : RowOk(events[c][k])
      OBVIOUS
    <2> HIDE DEF events
    <2> QED
      BY <1>1, <2>1, RunSpcEffect
  <1>5. ASSUME NEW c \in Channels PROVE s[c] = BeginEvents(drivers[c])
    <2>1. s[c] = RunEvents(document, loader.ram, c, drivers[c], <<>>)
      BY DEF RanEvents
    <2>2. PICK e : e = <<>> /\ Len(e) = 0 /\ \A k \in 1 .. Len(e) : RowOk(e[k])
      OBVIOUS
    <2>3. PICK d : d = drivers[c] /\ DriverOk(d)
      BY <1>3
    <2>4. RunEvents(document, loader.ram, c, d, e) = BeginEvents(d)
      BY <1>3, <2>2, <2>3, RunEventsOk
    <2> QED
      BY <2>1, <2>2, <2>3, <2>4
  <1> HIDE DEF s
  <1>6. \A c \in Channels : drivers'[c] = drivers[c]
    BY <1>4, <1>5 DEF BeginEvents
  <1>7. DriverWrites(s) = <<Write("koff", None, {})>>
    BY <1>4, <1>5, QuietDriverWrites
  <1> QED
    BY <1>1, <1>2, <1>4, <1>6, <1>7

(* A timer without a tick clears the key-off flags, after a poll if need   *)
(* be.                                                                     *)
LEMMA RunTimerSound == ASSUME ChipTypes, SoundInv, RunTimer PROVE SoundInv'
  <1> SUFFICES ASSUME ~late'
               PROVE SetUp' /\ accum' = 0 /\ (NoWait' \/ Wait') /\ pc' = "running"
    BY DEF SoundInv
  <1> DEFINE koff == Write("koff", None, {})
             ws == <<koff>>
  <1>1. /\ pc = "timer" /\ pc' = "running" /\ clocks' = ClocksPerTimer
        /\ UNCHANGED <<loader, dsp, late, document>>
        /\ Playing => Playing'
        /\ \A c \in Channels : played'[c] = <<>> /\ drivers'[c] = drivers[c]
        /\ ws \in Seq(Writes) /\ writes' = Queued(ws) /\ accum' = 0
    BY QuietTimer
  <1>2. SetUp /\ Between
    BY <1>1, BetweenFacts
  <1>3. writes \in Seq(QueuedWrites) /\ accum \in {0, 1} /\ Pending(writes) \in Seq(Writes)
    BY PendingType DEF ChipTypes
  <1>4. \A r, c, x : Finally(ws, r, c, x, IF r = "koff" /\ c = None THEN {} ELSE x)
    <2>1. ASSUME NEW r, NEW c, NEW x
          PROVE  Finally(ws, r, c, x, IF r = "koff" /\ c = None THEN {} ELSE x)
      BY FinallyOne
    <2> QED
      BY <2>1
  <1>5. /\ Pending(writes') = Pending(writes) \o ws
        /\ NoTimes(writes) /\ accum = 0 => NoTimes(writes')
    <2> HIDE DEF ws
    <2> QED
      BY <1>1, <1>3, QueuedEffect
  <1>6. ASSUME NEW r, NEW c, NEW x, Ends(r, c, x)
        PROVE  Ends(r, c, IF r = "koff" /\ c = None THEN {} ELSE x)'
    <2> HIDE DEF ws
    <2>1. PICK y : y = IF r = "koff" /\ c = None THEN {} ELSE x
      OBVIOUS
    <2>2. Finally(ws, r, c, x, y)
      BY <1>4, <2>1
    <2>3. Register(dsp', r, c) = Register(dsp, r, c)
      BY <1>1
    <2>4. Ends(r, c, y)'
      BY <1>1, <1>5, <1>6, <2>2, <2>3, NewEnds
    <2> QED
      BY <2>1, <2>4 DEF Ends
  <1>7. ASSUME NEW r, NEW c, NEW x, Ends(r, c, x), r # "koff" PROVE Ends(r, c, x)'
    BY <1>6, <1>7
  <1>8. SetUp'
    <2>1. Ends("master", None, TRUE)' /\ Ends("dir", None, TRUE)'
      BY <1>1, <1>2, <1>7 DEF SetUp
    <2>2. ASSUME NEW c \in Channels PROVE Ends("v_vol", c, drivers[c].volume)'
      <3>1. Ends("v_vol", c, drivers[c].volume)
        BY <1>2 DEF SetUp
      <3>2. PICK v : v = drivers[c].volume
        OBVIOUS
      <3>3. Ends("v_vol", c, v)'
        BY <1>7, <3>1, <3>2
      <3> QED
        BY <1>1, <3>2, <3>3 DEF Ends
    <2>3. \A c \in Channels : dsp'.voice[c] # None =>
            /\ dsp'.voice[c] \in SampleIndex /\ loader'.ram[dsp'.voice[c]] # None
            /\ dsp'.dir /\ dsp'.master
      BY <1>1, <1>2 DEF SetUp, Good
    <2> QED
      BY <2>1, <2>2, <2>3 DEF SetUp, Good
  <1>9. dsp'.kon = {} /\ clocks' >= 2
    BY <1>1, <1>2, ClocksPerTimerAssumption DEF Between
  <1>10. ASSUME accum = 0 PROVE NoWait'
    <2>1. NoTimes(writes')
      BY <1>2, <1>5, <1>10 DEF Between
    <2>2. PICK k1 : k1 = {} /\ Ends("kon", None, k1)'
      <3>1. Ends("kon", None, {})
        BY <1>2 DEF Between
      <3> QED
        BY <1>7, <3>1
    <2>3. PICK k0 : k0 = {} /\ Ends("koff", None, k0)'
      <3>1. PICK x : Ends("koff", None, x)
        BY EndsExists
      <3>2. PICK k0 : k0 = {}
        OBVIOUS
      <3>3. Ends("koff", None, IF "koff" = "koff" /\ None = None THEN {} ELSE x)'
        BY <1>6, <3>1
      <3>4. Ends("koff", None, k0)'
        BY <3>2, <3>3 DEF Ends
      <3> QED
        BY <3>2, <3>4
    <2>4. ASSUME NEW c \in Channels
          PROVE  \E v : /\ Ends("v_srcn", c, v)'
                        /\ VoiceOk(c, IF c \in k0 THEN None
                                      ELSE IF c \in k1 THEN v ELSE dsp.voice[c])'
      <3>1. PICK v : Ends("v_srcn", c, v)
        BY EndsExists
      <3>2. Ends("v_srcn", c, v)'
        BY <1>7, <3>1
      <3>3. PICK x : x = dsp'.voice[c]
        OBVIOUS
      <3>4. VoiceOk(c, x)'
        <4>1. x # None => /\ x \in SampleIndex /\ loader'.ram[x] # None
                          /\ drivers'[c].playing /\ Playing'
          BY <1>1, <1>2, <1>10, <3>3 DEF SetUp, Between, Good
        <4>2. NotesOk(c, x)'
          BY <1>1, NothingPlayedNext
        <4> QED
          BY <4>1, <4>2 DEF VoiceOk, Good
      <3>5. x = IF c \in k0 THEN None ELSE IF c \in k1 THEN v ELSE dsp'.voice[c]
        BY <2>2, <2>3, <3>3
      <3>6. VoiceOk(c, IF c \in k0 THEN None ELSE IF c \in k1 THEN v ELSE dsp.voice[c])'
        BY <3>4, <3>5 DEF VoiceOk, NotesOk, Good
      <3> QED
        BY <3>2, <3>6
    <2> QED
      BY <1>9, <2>1, <2>2, <2>3, <2>4 DEF NoWait
  <1>11. ASSUME accum = 1 PROVE Wait'
    <2>1. NoTimes(writes) /\ Ends("kon", None, {}) /\ Ends("koff", None, Channels)
      BY <1>2, <1>11 DEF Between
    <2>2. \A k \in DOMAIN writes' :
            writes'[k].time_before = IF k = Len(writes') THEN 1 ELSE 0
      <3> DEFINE last == [write |-> koff, time_before |-> 1]
      <3>1. writes' = writes \o <<last>>
        <4>1. DOMAIN ws = {1} /\ ws[1] = koff
          OBVIOUS
        <4>2. [k \in DOMAIN ws |-> [write |-> ws[k], time_before |-> IF k = 1 THEN accum ELSE 0]]
              = [k \in {1} |-> last]
          <5> HIDE DEF ws, koff
          <5> QED
            BY <1>11, <4>1
        <4>3. [k \in {1} |-> last] = <<last>>
          <5> HIDE DEF last
          <5> QED
            OBVIOUS
        <4> QED
          BY <1>1, <4>2, <4>3 DEF Queued
      <3>2. last.time_before = 1
        OBVIOUS
      <3> HIDE DEF last
      <3>3. /\ Len(writes') = Len(writes) + 1 /\ DOMAIN writes' = 1 .. Len(writes) + 1
            /\ \A k \in 1 .. Len(writes) + 1 :
                 writes'[k] = IF k = Len(writes) + 1 THEN last ELSE writes[k]
        BY <1>3, <3>1
      <3>4. DOMAIN writes = 1 .. Len(writes) /\ Len(writes) \in Nat
        BY <1>3
      <3> QED
        BY <2>1, <3>2, <3>3, <3>4 DEF NoTimes
    <2>3. PICK front \in Seq(Writes) : front = Pending(writes)
      BY <1>3
    <2>4. /\ Pending(writes') = front \o <<koff>>
          /\ Finally(front, "kon", None, dsp'.new_kon, {})
          /\ Finally(front, "koff", None, dsp'.koff, Channels)
      BY <1>1, <1>5, <2>1, <2>3 DEF Ends, Register
    <2>5. \A c \in Channels : NotesOk(c, None)'
      BY <1>1, NothingPlayedNext
    <2> QED
      BY <1>9, <2>2, <2>4, <2>5 DEF Wait
  <1> QED
    BY <1>1, <1>3, <1>8, <1>10, <1>11

(* A write that is made moves from the queue into its register.            *)
LEMMA WriteKeepsEnds ==
  ASSUME ChipTypes, writes # <<>>, writes' = Tail(writes),
         NEW d, DspOk(d), dsp' = WriteReg(d, Head(writes).write),
         NEW r, NEW c, IsRegister(r, c), Register(d, r, c) = Register(dsp, r, c),
         NEW x, Ends(r, c, x)
  PROVE  Ends(r, c, x)'
  <1> DEFINE ws == Pending(writes)
             w == Head(writes).write
  <1>1. /\ ws \in Seq(Writes) /\ ws # <<>> /\ Head(ws) = w
        /\ Pending(writes') = Tail(ws) /\ Head(writes) \in QueuedWrites
    BY PendingType DEF ChipTypes
  <1>2. w \in Writes
    BY <1>1 DEF QueuedWrites
  <1>3. Finally(ws, r, c, Register(dsp, r, c), x)
    BY DEF Ends
  <1> HIDE DEF ws
  <1>4. Finally(Tail(ws), r, c, IF IsWrite(w, r, c) THEN w.value ELSE Register(dsp, r, c), x)
    BY <1>1, <1>3, FinallyTail
  <1> HIDE DEF w
  <1>5. Register(dsp', r, c) = IF IsWrite(w, r, c) THEN w.value ELSE Register(dsp, r, c)
    BY <1>2, WriteRegEffect DEF w
  <1> QED
    BY <1>1, <1>4, <1>5 DEF Ends

(* The registers there are.                                                *)
LEMMA RegistersAre ==
  /\ \A r \in {"master", "dir", "kon", "koff"} : IsRegister(r, None)
  /\ \A r \in VoiceRegisters : \A c \in Channels : IsRegister(r, c)
  /\ IsRegister("master", None) /\ IsRegister("dir", None)
  /\ IsRegister("kon", None) /\ IsRegister("koff", None)
  /\ \A c \in Channels : IsRegister("v_vol", c) /\ IsRegister("v_srcn", c)
  BY DEF IsRegister, VoiceRegisters

(* The chip is set up and stays so.                                        *)
LEMMA WriteStaysOn ==
  ASSUME NEW d, DspOk(d), NEW w \in Writes
  PROVE  /\ d.master = TRUE => WriteReg(d, w).master = TRUE
         /\ d.dir = TRUE => WriteReg(d, w).dir = TRUE
  <1>1. \A r \in {"master", "dir"} : IsWrite(w, r, None) => w.value = TRUE
    BY DEF IsWrite, Writes
  <1>2. \A r \in {"master", "dir"} :
          Register(WriteReg(d, w), r, None)
            = IF IsWrite(w, r, None) THEN w.value ELSE Register(d, r, None)
    BY WriteRegEffect, RegistersAre
  <1>3. \A e : Register(e, "master", None) = e.master /\ Register(e, "dir", None) = e.dir
    BY DEF Register
  <1> QED
    BY <1>1, <1>2, <1>3

(* A write that is made keeps what the queue ends up with.                 *)
LEMMA WriteSound == ASSUME ChipTypes, SoundInv, WriteNextReg PROVE SoundInv'
  <1> SUFFICES ASSUME ~late'
               PROVE SetUp' /\ accum' = 0 /\ (NoWait' \/ Wait' \/ Silent') /\ pc' = "running"
    BY DEF SoundInv
  <1> DEFINE w == Head(writes)
             time == TimeUntilWrite(w)
             d == RunClocks(dsp, time)
  <1>1. /\ pc = "running" /\ pc' = "running" /\ writes # <<>> /\ writes' = Tail(writes)
        /\ dsp' = WriteReg(d, w.write) /\ clocks' = clocks - time
        /\ UNCHANGED <<drivers, loader, late, accum, document, seqs, played>>
    BY DEF WriteNextReg, vars
  <1>2. SetUp /\ accum = 0 /\ (NoWait \/ Wait)
    BY <1>1 DEF SoundInv, Silent
  <1>3. /\ w \in QueuedWrites /\ w.write \in Writes /\ w.time_before \in {0, 1}
        /\ DspOk(dsp) /\ clocks \in Nat /\ writes \in Seq(QueuedWrites)
    <2>1. w \in QueuedWrites
      BY <1>1, PendingType DEF ChipTypes
    <2> QED
      BY <2>1 DEF QueuedWrites, ChipTypes
  <1>4. clocks >= 2 /\ time = w.time_before
    <2>1. clocks >= 2
      BY <1>2 DEF NoWait, Wait
    <2> QED
      BY <1>3, <2>1, TimeUntilWriteType
  <1> HIDE DEF time
  <1>5. /\ DspOk(d) /\ SameRegisters(dsp, d) /\ (time = 0 => d = dsp)
    BY <1>3, <1>4, RunClocksEffect
  <1>b. dsp.kon = {} /\ dsp.new_kon = {} /\ time = 1 =>
          /\ d.kon = {} /\ d.new_kon = {}
          /\ \A c \in Channels : d.voice[c] = IF c \in dsp.koff THEN None ELSE dsp.voice[c]
    BY <1>3, <1>4, RunClocksEffect
  <1> HIDE DEF d, w
  <1>6. DspOk(dsp') /\ dsp'.voice = d.voice /\ dsp'.kon = d.kon
    BY <1>1, <1>3, <1>5, WriteRegEffect
  <1>7. ASSUME NEW r, NEW c, IsRegister(r, c), NEW x, Ends(r, c, x), time = 0 \/ r # "kon"
        PROVE  Ends(r, c, x)'
    <2>1. Register(d, r, c) = Register(dsp, r, c)
      BY <1>5, <1>7 DEF Register, SameRegisters, IsRegister, VoiceRegisters
    <2> QED
      BY <1>1, <1>5, <1>7, <2>1, WriteKeepsEnds DEF w
  <1>8. Ends("master", None, TRUE)' /\ Ends("dir", None, TRUE)'
    BY <1>1, <1>2, <1>7, RegistersAre DEF SetUp
  <1>9. ASSUME NEW c \in Channels PROVE Ends("v_vol", c, drivers[c].volume)'
    <2>1. Ends("v_vol", c, drivers[c].volume) /\ IsRegister("v_vol", c)
      BY <1>2, RegistersAre DEF SetUp
    <2>2. PICK v : v = drivers[c].volume
      OBVIOUS
    <2>3. Ends("v_vol", c, v)'
      BY <1>7, <2>1, <2>2
    <2> QED
      BY <1>1, <2>2, <2>3 DEF Ends
  <1>10. ASSUME time = 0 PROVE SetUp'
    <2>1. d = dsp
      BY <1>5, <1>10
    <2>2. \A c \in Channels : dsp'.voice[c] # None =>
            /\ dsp'.voice[c] \in SampleIndex /\ loader'.ram[dsp'.voice[c]] # None
            /\ dsp'.dir = TRUE /\ dsp'.master = TRUE
      <3>1. dsp.dir = TRUE => dsp'.dir = TRUE
        BY <1>1, <1>3, <2>1, WriteStaysOn
      <3>2. dsp.master = TRUE => dsp'.master = TRUE
        BY <1>1, <1>3, <2>1, WriteStaysOn
      <3>3. Ends("master", None, TRUE)
        BY <1>2 DEF SetUp
      <3> QED
        BY <1>1, <1>2, <1>6, <2>1, <3>1, <3>2 DEF SetUp, Good
    <2> QED
      BY <1>8, <1>9, <2>2 DEF SetUp, Good
  <1>11. CASE NoWait
    <2>1. NoTimes(writes') /\ time = 0
      <3>1. DOMAIN writes = 1 .. Len(writes) /\ Len(writes) \in Nat /\ Len(writes) >= 1
            /\ w = writes[1] /\ DOMAIN Tail(writes) = 1 .. Len(writes) - 1
            /\ \A k \in 1 .. Len(writes) - 1 : Tail(writes)[k] = writes[k + 1]
        BY <1>1, <1>3 DEF w
      <3>2. \A k \in 1 .. Len(writes) : writes[k].time_before = 0
        BY <1>11, <3>1 DEF NoWait, NoTimes
      <3>3. \A k \in 1 .. Len(writes) - 1 : k + 1 \in 1 .. Len(writes)
        BY <3>1
      <3> QED
        BY <1>1, <1>4, <3>1, <3>2, <3>3 DEF NoTimes
    <2>2. dsp'.kon = {} /\ clocks' >= 2 /\ dsp'.voice = dsp.voice
      BY <1>1, <1>3, <1>4, <1>5, <1>6, <1>11, <2>1 DEF NoWait
    <2>3. PICK kon, koff :
            /\ Ends("kon", None, kon) /\ Ends("koff", None, koff)
            /\ \A c \in Channels : \E v :
                 /\ Ends("v_srcn", c, v)
                 /\ VoiceOk(c, IF c \in koff THEN None ELSE IF c \in kon THEN v ELSE dsp.voice[c])
      BY <1>11 DEF NoWait
    <2>4. Ends("kon", None, kon)' /\ Ends("koff", None, koff)'
      BY <1>7, <2>1, <2>3, RegistersAre
    <2>5. ASSUME NEW c \in Channels
          PROVE  \E v : /\ Ends("v_srcn", c, v)'
                        /\ VoiceOk(c, IF c \in koff THEN None
                                      ELSE IF c \in kon THEN v ELSE dsp.voice[c])'
      <3>1. PICK v : /\ Ends("v_srcn", c, v)
                     /\ VoiceOk(c, IF c \in koff THEN None
                                   ELSE IF c \in kon THEN v ELSE dsp.voice[c])
        BY <2>3
      <3>2. Ends("v_srcn", c, v)'
        BY <1>7, <2>1, <3>1, RegistersAre
      <3>3. PICK x : x = IF c \in koff THEN None ELSE IF c \in kon THEN v ELSE dsp.voice[c]
        OBVIOUS
      <3>4. VoiceOk(c, x)
        BY <3>1, <3>3
      <3>5. VoiceOk(c, x)'
        <4>1. (x # None => Good(x) /\ drivers[c].playing /\ Playing)'
          BY <1>1, <3>4 DEF VoiceOk, Good, Playing
        <4>2. NotesOk(c, x)'
          BY <1>1, <3>4 DEF VoiceOk, NotesOk, RowOf, Track
        <4> QED
          BY <4>1, <4>2 DEF VoiceOk
      <3>6. VoiceOk(c, IF c \in koff THEN None ELSE IF c \in kon THEN v ELSE dsp.voice[c])'
        BY <2>2, <3>3, <3>5 DEF VoiceOk, NotesOk, Good
      <3> QED
        BY <3>2, <3>6
    <2>6. NoWait'
      BY <2>1, <2>2, <2>4, <2>5 DEF NoWait
    <2> QED
      BY <1>1, <1>2, <1>10, <2>1, <2>6
  <1>12. CASE Wait
    <2> DEFINE n == Len(writes)
               last == Write("koff", None, {})
    <2>1. /\ n \in Nat /\ n >= 1 /\ DOMAIN writes = 1 .. n /\ w = writes[1]
          /\ Len(Tail(writes)) = n - 1 /\ DOMAIN Tail(writes) = 1 .. n - 1
          /\ \A k \in 1 .. n - 1 : Tail(writes)[k] = writes[k + 1]
          /\ n = 1 => Tail(writes) = <<>>
      BY <1>1, <1>3 DEF w
    <2>2. \A k \in 1 .. n : writes[k].time_before = IF k = n THEN 1 ELSE 0
      BY <1>12, <2>1 DEF Wait
    <2>3. dsp.kon = {}
      BY <1>12 DEF Wait
    <2>4. PICK front \in Seq(Writes) :
            /\ Pending(writes) = front \o <<last>>
            /\ Finally(front, "kon", None, dsp.new_kon, {})
            /\ Finally(front, "koff", None, dsp.koff, Channels)
      BY <1>12 DEF Wait
    <2>5. /\ Len(Pending(writes)) = n /\ Pending(writes) # <<>>
          /\ Head(Pending(writes)) = w.write
          /\ Pending(Tail(writes)) = Tail(Pending(writes))
      BY <1>1, <1>3, PendingType DEF w
    <2>6. \A c \in Channels : NotesOk(c, None)'
      <3>1. \A c \in Channels : NotesOk(c, None)
        BY <1>12 DEF Wait
      <3> QED
        BY <1>1, <3>1 DEF NotesOk, RowOf, Track
    <2>7. last \in Writes
      BY WriteTypes DEF FlagRegisters
    <2> HIDE DEF last, n
    <2>8. Len(front) = n - 1
      <3>1. Len(front \o <<last>>) = Len(front) + 1 /\ Len(front) \in Nat
        BY <2>7
      <3> QED
        BY <2>1, <2>4, <2>5, <3>1
    <2>9. CASE n > 1
      <3>1. time = 0
        BY <1>4, <2>1, <2>2, <2>9
      <3>2. front # <<>> /\ Head(front) = w.write /\ Pending(writes') = Tail(front) \o <<last>>
        <4>1. front # <<>>
          BY <2>1, <2>8, <2>9
        <4>2. Head(front \o <<last>>) = Head(front)
              /\ Tail(front \o <<last>>) = Tail(front) \o <<last>>
          BY <2>7, <4>1
        <4> QED
          BY <1>1, <2>4, <2>5, <4>1, <4>2
      <3>3. d = dsp /\ dsp'.kon = {} /\ clocks' >= 2
        BY <1>1, <1>3, <1>4, <1>5, <1>6, <2>3, <3>1
      <3>4. ASSUME NEW r \in {"kon", "koff"}, NEW x,
                   Finally(front, r, None, Register(dsp, r, None), x)
            PROVE  Finally(Tail(front), r, None, Register(dsp', r, None), x)
        <4>1. Register(dsp', r, None)
                = IF IsWrite(w.write, r, None) THEN w.write.value ELSE Register(dsp, r, None)
          BY <1>1, <1>3, <3>3, WriteRegEffect, RegistersAre
        <4> QED
          BY <3>2, <3>4, <4>1, FinallyTail
      <3>5. /\ Finally(Tail(front), "kon", None, dsp'.new_kon, {})
            /\ Finally(Tail(front), "koff", None, dsp'.koff, Channels)
        <4>1. \A e : Register(e, "kon", None) = e.new_kon /\ Register(e, "koff", None) = e.koff
          BY DEF Register
        <4> QED
          BY <2>4, <3>4, <4>1
      <3>6. \A k \in DOMAIN writes' : writes'[k].time_before = IF k = Len(writes') THEN 1 ELSE 0
        <4>1. \A k \in 1 .. n - 1 : k + 1 \in 1 .. n /\ (k + 1 = n <=> k = n - 1)
          BY <2>1
        <4> QED
          BY <1>1, <2>1, <2>2, <4>1
      <3>7. Tail(front) \in Seq(Writes)
        BY <3>2
      <3>8. Wait'
        BY <2>6, <3>2, <3>3, <3>5, <3>6, <3>7 DEF Wait, last
      <3> QED
        BY <1>1, <1>2, <1>10, <3>1, <3>8
    <2>10. CASE n = 1
      <3>1. time = 1 /\ writes' = <<>> /\ front = <<>>
        BY <1>1, <1>4, <2>1, <2>2, <2>8, <2>10
      <3>2. dsp.new_kon = {} /\ dsp.koff = Channels
        BY <2>4, <3>1, EmptyEnds
      <3>3. d.kon = {} /\ d.new_kon = {} /\ \A c \in Channels : d.voice[c] = None
        BY <1>b, <2>3, <3>1, <3>2
      <3>4. dsp'.kon = {} /\ (\A c \in Channels : dsp'.voice[c] = None) /\ clocks' >= 1
        BY <1>1, <1>3, <1>4, <1>6, <3>1, <3>3
      <3>5. dsp'.new_kon = {}
        <4>1. w.write = last
          <5>1. Head(<<>> \o <<last>>) = last
            BY <2>7
          <5> QED
            BY <2>4, <2>5, <3>1, <5>1
        <4>2. ~IsWrite(w.write, "kon", None)
          BY <4>1 DEF IsWrite, last, Write
        <4>3. Register(dsp', "kon", None) = Register(d, "kon", None)
          BY <1>1, <1>3, <1>5, <4>2, WriteRegEffect, RegistersAre
        <4> QED
          BY <3>3, <4>3 DEF Register
      <3>6. Silent'
        BY <2>6, <3>1, <3>4, <3>5 DEF Silent
      <3>7. SetUp'
        BY <1>8, <1>9, <3>4 DEF SetUp
      <3> QED
        BY <1>1, <1>2, <3>6, <3>7
    <2> QED
      BY <2>1, <2>9, <2>10
  <1> QED
    BY <1>2, <1>11, <1>12

(* At the end of the tick the chip has polled what was written.            *)
LEMMA EndOfTickSound == ASSUME ChipTypes, SoundInv, EndOfTick PROVE SoundInv'
  <1> SUFFICES ASSUME ~late' PROVE SetUp' /\ Between' /\ pc' = "commands"
    BY DEF SoundInv
  <1>1. /\ pc = "running" /\ pc' = "commands"
        /\ writes # <<>> => TimeUntilWrite(Head(writes)) > clocks
        /\ dsp' = RunClocks(dsp, clocks) /\ writes' = <<>> /\ accum' = 0
        /\ UNCHANGED <<drivers, loader, late, document, seqs, played>>
    BY DEF EndOfTick, vars
  <1>2. SetUp /\ (NoWait \/ Wait \/ Silent)
    BY <1>1 DEF SoundInv
  <1>3. DspOk(dsp) /\ clocks \in Nat /\ writes \in Seq(QueuedWrites)
    BY DEF ChipTypes
  <1>4. writes = <<>> /\ Pending(writes) = <<>>
    <2>1. ASSUME writes # <<>> PROVE FALSE
      <3>1. PICK t : t = TimeUntilWrite(Head(writes))
        OBVIOUS
      <3>2. Head(writes) \in QueuedWrites
        BY <1>3, <2>1, PendingType
      <3>3. t \in Nat /\ t <= clocks
        BY <1>3, <3>1, <3>2, TimeUntilWriteType
      <3> QED
        BY <1>1, <1>3, <2>1, <3>1, <3>3
    <2> QED
      BY <1>3, <2>1, PendingType
  <1>5. /\ DspOk(dsp') /\ SameRegisters(dsp, dsp')
        /\ dsp.kon = {} /\ dsp.new_kon = {} /\ clocks >= 1 =>
             /\ dsp'.kon = {} /\ dsp'.new_kon = {}
             /\ \A c \in Channels : dsp'.voice[c] = IF c \in dsp.koff THEN None ELSE dsp.voice[c]
        /\ dsp.kon = {} /\ clocks >= 2 =>
             /\ dsp'.kon = {} /\ dsp'.new_kon = {}
             /\ \A c \in Channels :
                  dsp'.voice[c] = IF c \in dsp.koff THEN None
                                  ELSE IF c \in dsp.new_kon THEN dsp.v_srcn[c] ELSE dsp.voice[c]
    BY <1>1, <1>3, RunClocksEffect
  <1>6. \A r, c, x : Ends(r, c, x) <=> x = Register(dsp, r, c)
    BY <1>4, EmptyEnds DEF Ends
  <1>7. \A r, c, x : Ends(r, c, x)' <=> x = Register(dsp', r, c)
    <2>1. Pending(writes') = <<>>
      BY <1>1, <1>4
    <2> QED
      BY <2>1, EmptyEnds DEF Ends
  <1>8. /\ dsp'.kon = {} /\ dsp'.new_kon = {}
        /\ \A c \in Channels :
             /\ dsp'.voice[c] # None => /\ dsp'.voice[c] \in SampleIndex
                                        /\ loader'.ram[dsp'.voice[c]] # None
                                        /\ drivers'[c].playing /\ Playing'
             /\ NotesOk(c, dsp.voice[c])'
    <2>1. CASE NoWait
      <3>1. PICK kon, koff :
              /\ Ends("kon", None, kon) /\ Ends("koff", None, koff)
              /\ \A c \in Channels : \E v :
                   /\ Ends("v_srcn", c, v)
                   /\ VoiceOk(c, IF c \in koff THEN None ELSE IF c \in kon THEN v ELSE dsp.voice[c])
        BY <2>1 DEF NoWait
      <3>2. kon = dsp.new_kon /\ koff = dsp.koff
        BY <1>6, <3>1 DEF Register
      <3>3. \A c, v : Ends("v_srcn", c, v) => v = dsp.v_srcn[c]
        BY <1>6 DEF Register
      <3>4. dsp.kon = {} /\ clocks >= 2
        BY <2>1 DEF NoWait
      <3>5. ASSUME NEW c \in Channels
            PROVE  /\ dsp'.voice[c] # None => /\ dsp'.voice[c] \in SampleIndex
                                              /\ loader'.ram[dsp'.voice[c]] # None
                                              /\ drivers'[c].playing /\ Playing'
                   /\ NotesOk(c, dsp.voice[c])'
        <4>1. PICK x : x = dsp'.voice[c]
          OBVIOUS
        <4>2. x = IF c \in koff THEN None ELSE IF c \in kon THEN dsp.v_srcn[c] ELSE dsp.voice[c]
          BY <1>5, <3>2, <3>4, <4>1
        <4>3. VoiceOk(c, x)
          BY <3>1, <3>3, <4>2
        <4>4. x # None => /\ x \in SampleIndex /\ loader'.ram[x] # None
                          /\ drivers'[c].playing /\ Playing'
          BY <1>1, <4>3 DEF VoiceOk, Good, Playing
        <4>5. NotesOk(c, x)'
          BY <1>1, <4>3 DEF VoiceOk, NotesOk, RowOf, Track
        <4>6. NotesOk(c, dsp.voice[c])'
          BY <4>1, <4>5 DEF NotesOk
        <4> QED
          BY <4>1, <4>4, <4>6
      <3> QED
        BY <1>5, <3>4, <3>5
    <2>2. CASE Wait
      <3>1. PICK front \in Seq(Writes) : Pending(writes) = front \o <<Write("koff", None, {})>>
        BY <2>2 DEF Wait
      <3>2. Write("koff", None, {}) \in Writes
        BY WriteTypes DEF FlagRegisters
      <3>3. front \o <<Write("koff", None, {})>> # <<>>
        <4> DEFINE last == Write("koff", None, {})
        <4> HIDE DEF last
        <4>1. Len(front \o <<last>>) = Len(front) + 1 /\ Len(front) \in Nat
          BY <3>2 DEF last
        <4>2. front \o <<last>> # <<>>
          BY <4>1
        <4> QED
          BY <4>2 DEF last
      <3> QED
        BY <1>4, <3>1, <3>3
    <2>3. CASE Silent
      <3>1. /\ dsp.kon = {} /\ dsp.new_kon = {} /\ clocks >= 1
            /\ \A c \in Channels : dsp.voice[c] = None /\ NotesOk(c, None)
        BY <2>3 DEF Silent
      <3>2. dsp'.kon = {} /\ dsp'.new_kon = {} /\ \A c \in Channels : dsp'.voice[c] = None
        BY <1>5, <3>1
      <3>3. \A c \in Channels : NotesOk(c, dsp.voice[c])'
        BY <1>1, <3>1, <3>2 DEF NotesOk, RowOf, Track
      <3> QED
        BY <3>2, <3>3
    <2> QED
      BY <1>2, <2>1, <2>2, <2>3
  <1>9. SetUp'
    <2>1. \A r \in {"master", "dir", "v_vol"} : \A c : Register(dsp', r, c) = Register(dsp, r, c)
      BY <1>5 DEF SameRegisters, Register
    <2>2. ASSUME NEW r \in {"master", "dir", "v_vol"}, NEW c, NEW x, Ends(r, c, x)
          PROVE  Ends(r, c, x)'
      BY <1>6, <1>7, <2>1, <2>2
    <2>3. Ends("master", None, TRUE)' /\ Ends("dir", None, TRUE)'
      BY <1>1, <1>2, <2>2 DEF SetUp
    <2>4. ASSUME NEW c \in Channels PROVE Ends("v_vol", c, drivers[c].volume)'
      <3>1. Ends("v_vol", c, drivers[c].volume)
        BY <1>2 DEF SetUp
      <3>2. PICK v : v = drivers[c].volume
        OBVIOUS
      <3>3. Ends("v_vol", c, v)'
        BY <2>2, <3>1, <3>2
      <3> QED
        BY <1>1, <3>2, <3>3 DEF Ends
    <2>5. dsp'.dir = TRUE /\ dsp'.master = TRUE
      BY <1>7, <2>3 DEF Register
    <2> QED
      BY <1>8, <2>3, <2>4, <2>5 DEF SetUp, Good
  <1>10. Between'
    <2>1. Ends("kon", None, {})'
      BY <1>7, <1>8 DEF Register
    <2>2. NoTimes(writes')
      BY <1>1 DEF NoTimes
    <2> QED
      BY <1>1, <1>8, <2>1, <2>2 DEF Between
  <1> QED
    BY <1>1, <1>9, <1>10

-----------------------------------------------------------------------------
(* What holds of every state of the chip.                                  *)
ChipInv == ChipTypes /\ SoundInv

(* The invariant holds of every state that the callbacks reach.            *)
THEOREM ChipInvHolds == ChipSpec => []ChipInv
  <1>1. InitChip => ChipInv
    BY InitTypes, InitSound DEF ChipInv
  <1>2. ChipInv /\ [ChipNext]_all_vars => ChipInv'
    <2> SUFFICES ASSUME ChipTypes, SoundInv, [ChipNext]_all_vars PROVE SoundInv'
      BY StepTypes DEF ChipInv
    <2>1. CASE \E t \in 0 .. MaxTick : ChipPlayFrom(t)
      BY <2>1, PlayFromSound
    <2>2. CASE ChipStop
      BY <2>2, StopSound
    <2>3. CASE EditPatterns \/ EditSamples \/ EditInstruments \/ EditLoopByte
      BY <2>3, CommandsSound
    <2>4. CASE EndCommands
      BY <2>4, EndCommandsSound
    <2>5. CASE LoadNextSample
      BY <2>5, LoadNextSound
    <2>6. CASE EndLoad
      BY <2>6, EndLoadSound
    <2>7. CASE TickSequencer
      BY <2>7, TickSound
    <2>8. CASE RunTimer
      BY <2>8, RunTimerSound
    <2>9. CASE WriteNextReg
      BY <2>9, WriteSound
    <2>10. CASE EndOfTick
      BY <2>10, EndOfTickSound
    <2>11. CASE UNCHANGED all_vars
      <3>1. UNCHANGED <<seqs, played, document, pc, after_load, drivers, loader, writes, accum,
                        clocks, dsp, late>>
        BY <2>11 DEF all_vars, vars, chip_vars
      <3>2. (SetUp => SetUp') /\ (Between => Between')
        BY <3>1 DEF SetUp, Between, Ends, Good, NotesOk, Playing, RowOf, Track
      <3>3. \A c, x : VoiceOk(c, x)' <=> VoiceOk(c, x)
        BY <3>1 DEF VoiceOk, Good, NotesOk, Playing, RowOf, Track
      <3>4. \A r, c, x : Ends(r, c, x)' <=> Ends(r, c, x)
        BY <3>1 DEF Ends
      <3>5. ASSUME NoWait PROVE NoWait'
        <4>1. PICK kon, koff :
                /\ Ends("kon", None, kon) /\ Ends("koff", None, koff)
                /\ \A c \in Channels : \E v :
                     /\ Ends("v_srcn", c, v)
                     /\ VoiceOk(c, IF c \in koff THEN None
                                   ELSE IF c \in kon THEN v ELSE dsp.voice[c])
          BY <3>5 DEF NoWait
        <4>2. Ends("kon", None, kon)' /\ Ends("koff", None, koff)'
          BY <3>4, <4>1
        <4>3. ASSUME NEW c \in Channels
              PROVE  \E v : /\ Ends("v_srcn", c, v)'
                            /\ VoiceOk(c, IF c \in koff THEN None
                                          ELSE IF c \in kon THEN v ELSE dsp.voice[c])'
          <5>1. PICK v : /\ Ends("v_srcn", c, v)
                         /\ VoiceOk(c, IF c \in koff THEN None
                                       ELSE IF c \in kon THEN v ELSE dsp.voice[c])
            BY <4>1
          <5>2. PICK x : x = IF c \in koff THEN None ELSE IF c \in kon THEN v ELSE dsp.voice[c]
            OBVIOUS
          <5>3. Ends("v_srcn", c, v)' /\ VoiceOk(c, x)'
            BY <3>3, <3>4, <5>1, <5>2
          <5>4. VoiceOk(c, IF c \in koff THEN None ELSE IF c \in kon THEN v ELSE dsp.voice[c])'
            BY <3>1, <5>2, <5>3 DEF VoiceOk, NotesOk, Good
          <5> QED
            BY <5>3, <5>4
        <4>4. NoTimes(writes') /\ dsp'.kon = {} /\ clocks' >= 2
          BY <3>1, <3>5 DEF NoWait
        <4> QED
          BY <4>2, <4>3, <4>4 DEF NoWait
      <3>6. \A c : NotesOk(c, None)' <=> NotesOk(c, None)
        BY <3>1 DEF NotesOk, RowOf, Track
      <3>7. (Wait => Wait') /\ (Silent => Silent')
        BY <3>1, <3>6 DEF Wait, Silent
      <3> QED
        BY <3>1, <3>2, <3>5, <3>7 DEF SoundInv
    <2> QED
      BY <2>1, <2>2, <2>3, <2>4, <2>5, <2>6, <2>7, <2>8, <2>9, <2>10, <2>11 DEF ChipNext
  <1> QED
    BY <1>1, <1>2, PTL DEF ChipSpec

(* A voice only plays a sample that is in the RAM, in a chip that is set   *)
(* up, unless the chip was reset while writes waited (reload_samples()).   *)
THEOREM VoicesPlayLoaded == ChipSpec => []PlaysLoadedSamples
  <1>1. ChipInv => PlaysLoadedSamples
    BY DEF ChipInv, SoundInv, SetUp, Good, PlaysLoadedSamples
  <1> QED
    BY <1>1, ChipInvHolds, PTL

(* The one note of a tick sounds once the tick is over, in the instrument  *)
(* and with the volume the channel has then, or is silent for a reason     *)
(* (Spc700Driver::run_driver()).                                           *)
THEOREM NotesAreHeard == ChipSpec => []NotesSound
  <1>1. ASSUME ChipInv, Settled, ~late
        PROVE  \A c \in Channels : /\ dsp.v_vol[c] = drivers[c].volume
                                   /\ NotesOk(c, dsp.voice[c])
    <2>1. pc = "commands" /\ writes = <<>> /\ SetUp /\ Between
      BY <1>1 DEF ChipInv, SoundInv, Settled
    <2>2. Pending(writes) = <<>>
      BY <1>1, <2>1, PendingType DEF ChipInv, ChipTypes
    <2>3. \A c \in Channels : dsp.v_vol[c] = drivers[c].volume
      BY <2>1, <2>2, EmptyEnds DEF SetUp, Ends, Register
    <2> QED
      BY <2>1, <2>3 DEF Between
  <1>2. ChipInv => NotesSound
    BY <1>1 DEF NotesSound, NotesOk
  <1> QED
    BY <1>2, ChipInvHolds, PTL

(* After stop_playback(), and on channels whose note ended, nothing sounds *)
(* once the writes are made.                                               *)
THEOREM NothingHangs == ChipSpec => []NoHangingNotes
  <1>1. ChipInv => NoHangingNotes
    <2> SUFFICES ASSUME ChipInv, Settled, ~late, NEW c \in Channels, dsp.voice[c] # None
                 PROVE  Playing /\ drivers[c].playing
      BY DEF NoHangingNotes
    <2>1. pc = "commands" /\ writes = <<>> /\ Between /\ accum \in {0, 1}
      BY DEF ChipInv, ChipTypes, SoundInv, Settled
    <2> QED
      BY <2>1 DEF Between
  <1> QED
    BY <1>1, ChipInvHolds, PTL
=============================================================================
