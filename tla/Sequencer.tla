------------------------------ MODULE Sequencer ------------------------------
(***************************************************************************)
(* The sequencer of a chip (audio/synth/sequencer.cpp and .h): one         *)
(* ChannelSequencer per channel walks the patterns of its track            *)
(* (TrackUtil) and yields, at each tick, the events to play.               *)
(* The audio callback seeks it when playback starts, and tells it after a  *)
(* batch of edits that the document changed.                               *)
(*                                                                         *)
(* An event is its time, its Gxx delay and the other contents of its row;  *)
(* a played event is its place <<block, loop, event>> in the track.        *)
(***************************************************************************)
EXTENDS TrackUtil, Optional

CONSTANTS
  Channels,
  Documents,   \* [tracks : [Channels -> Seq(Block)], note_gap_ticks : Nat]
  Rows,        \* RowEvent: records with a note, or None
  MaxEvents,   \* events in a pattern
  MaxTick      \* bound on the ticks playback starts from

Event == [anchor_tick : Nat, delay : Int, v : Rows]
Block == [begin_tick : Nat, loop_count : Nat \ {0}, length_ticks : Nat \ {0},
          events : Seq(Event)]

ASSUME DocumentsAssumption ==
  \A d \in Documents :
    /\ d.note_gap_ticks \in Nat
    /\ d.tracks \in [Channels -> Seq(Block)]
    /\ \A c \in Channels : \A k \in DOMAIN d.tracks[c] :
         Len(d.tracks[c][k].events) <= MaxEvents

ASSUME ChannelsAssumption == IsFiniteSet(Channels) /\ Channels # {}
ASSUME BoundsAssumption == MaxEvents \in Nat /\ MaxTick \in Nat
ASSUME StoppedAssumption == None \notin [block : Nat, loop : Nat, event : Nat]

VARIABLES
  document,    \* OverallSynth::_document
  modified,    \* total_modified has Patterns
  seqs,        \* the ChannelSequencers: _now, _ignore_ordering_errors,
               \* _curr_pattern_next_ev
  times,       \* the SequencerTime each channel returned last
  played,      \* the events handed to the driver in the last step
  sounding,    \* history: what became of the last note of each channel
  held         \* history: the channels that wait for an event that was past
               \* when playback started

vars == <<document, modified, seqs, times, played, sounding, held>>

Track(c) == document.tracks[c]

-----------------------------------------------------------------------------
(* EventIterator: a pattern of the track and an event of it.               *)

Iterator(p, event) == [block |-> p.block, loop |-> p.loop, event |-> event]

(* The pattern and event at now, or the next ones.                         *)
AtTime(track, now) ==
  LET p == PatternAt(track, now)
  IN  Iterator(p, IF ~HasPattern(track, p) THEN 1
                  ELSE TickBegin(track[p.block].events, now - PatternBegin(track, p)))

PastEnd(track, it) == ~HasPattern(track, it)
AtPatternEnd(track, it) == it.event > Len(track[it.block].events)

(* The event_time of ev_get_curr_event(), the end of the pattern included. *)
EventTime(track, it) ==
  LET event == track[it.block].events[it.event]
  IN  IF AtPatternEnd(track, it) THEN PatternEnd(track, it)
      ELSE PatternBegin(track, it) + event.anchor_tick + event.delay

-----------------------------------------------------------------------------
(* ChannelSequencer::next_tick().                                          *)

CutNote == <<0, 0, 0>>
Place(it) == <<it.block, it.loop, it.event>>
HasNote(track, x) == x = CutNote \/ track[x[1]].events[x[3]].v.note # None

(* One round of the loop over the events that are due.  A round that does  *)
(* not find one ends the loop, and may cut a note early.                   *)
Round(track, now, gap, p) ==
  LET left == EventTime(track, p.it) - now
      end == AtPatternEnd(track, p.it)
      cut == /\ ~p.processed
             /\ end \/ HasNote(track, Place(p.it))
             /\ left = gap
  IN  IF p.done \/ PastEnd(track, p.it) THEN [p EXCEPT !.done = TRUE]
      ELSE IF left # 0
        THEN [p EXCEPT !.done = TRUE, !.out = IF cut THEN Append(@, CutNote) ELSE @]
      ELSE IF ~end
        THEN [p EXCEPT !.processed = TRUE, !.out = Append(@, Place(p.it)),
                       !.it.event = @ + 1]
      ELSE IF p.ended THEN [p EXCEPT !.processed = TRUE, !.done = TRUE]
      ELSE [p EXCEPT !.processed = TRUE, !.ended = TRUE, !.it = Iterator(NextPattern(track, @), 1)]

(* A tick visits two patterns at most.                                     *)
MaxRounds == 2 * MaxEvents + 3

Rounds(track, seq, gap) ==
  LET round[n \in 0 .. MaxRounds] ==
        IF n = 0
          THEN [it |-> seq.next, out |-> <<>>, processed |-> FALSE, ended |-> FALSE,
                done |-> FALSE]
          ELSE Round(track, seq.now, gap, round[n - 1])
  IN  round

(* Bug: the song loops one tick late. *)
LoopsLate(doc, c, now) == now > SongLength(doc.tracks)

(* Bug: a channel loops when its own track ends. *)
LoopsTrack(doc, c, now) ==
  LET track == doc.tracks[c] IN track = <<>> \/ now >= EndTime(track[Len(track)])

(* The sequencer of channel c seeks back to the begin of the song.         *)
LoopsSong(doc, c, now) == now >= SongLength(doc.tracks)

(* Bug: only the end of the song cuts a note. *)
CutAtSongEnd(track, p, looped) ==
  IF looped /\ ~\E k \in DOMAIN p.out : HasNote(track, p.out[k])
    THEN <<CutNote>> \o p.out ELSE p.out

(* A pattern or a song that ends cuts the running note, unless notes play. *)
WithEndCut(track, p, looped) ==
  IF (p.ended \/ looped) /\ ~\E k \in DOMAIN p.out : HasNote(track, p.out[k])
    THEN <<CutNote>> \o p.out ELSE p.out

(* The state, time and events after the tick.                              *)
NextTick(doc, c, seq) ==
  LET track == doc.tracks[c]
      p == Rounds(track, seq, doc.note_gap_ticks)[MaxRounds]
      looped == LoopsSong(doc, c, seq.now + 1)
  IN  [seq |-> [now |-> IF looped THEN 0 ELSE seq.now + 1,
                ignore |-> FALSE,
                next |-> IF looped THEN AtTime(track, 0) ELSE p.it],
       out |-> WithEndCut(track, p, looped),
       looped |-> looped]

(* seek() and doc_edited(); the latter skips what it takes for past.       *)
Sought(track, t) == [now |-> t, ignore |-> TRUE, next |-> AtTime(track, t)]

(* Bug: events delayed to before now are not skipped. *)
ReloadedEarly(track, seq) == [Sought(track, seq.now) EXCEPT !.ignore = FALSE]

Reloaded(track, seq) ==
  LET it == AtTime(track, seq.now)
      past(e) == EventTime(track, [it EXCEPT !.event = e]) < seq.now
      event == CHOOSE e \in it.event .. Len(track[it.block].events) + 1 :
                 ~past(e) /\ \A f \in it.event .. e - 1 : past(f)
  IN  [now |-> seq.now, ignore |-> FALSE,
       next |-> IF PastEnd(track, it) THEN it ELSE [it EXCEPT !.event = event]]

(* An early event is anchored at or after t, where a seek to t finds it,   *)
(* and delayed to before t.                                                *)
StartsPast(track, t) ==
  LET it == AtTime(track, t) IN ~PastEnd(track, it) /\ EventTime(track, it) < t

Stopped == [now |-> 0, ignore |-> FALSE, next |-> None]

Playing == \A c \in Channels : seqs[c].next # None

-----------------------------------------------------------------------------
Init ==
  /\ document \in Documents
  /\ modified = FALSE
  /\ seqs = [c \in Channels |-> Stopped]
  /\ times = [c \in Channels |-> None]
  /\ played = [c \in Channels |-> <<>>]
  /\ sounding = [c \in Channels |-> "silent"]
  /\ held = {}

(* ImplChipInstance::reset_state() and seek(); the driver stops all notes. *)
PlayFrom(t) ==
  /\ seqs' = [c \in Channels |-> Sought(Track(c), t)]
  /\ played' = [c \in Channels |-> <<>>]
  /\ sounding' = [c \in Channels |-> "silent"]
  /\ held' = {c \in Channels : StartsPast(Track(c), t)}
  /\ UNCHANGED <<document, modified, times>>

StopPlayback ==
  /\ Playing
  /\ seqs' = [c \in Channels |-> Stopped]
  /\ times' = [c \in Channels |-> None]
  /\ played' = [c \in Channels |-> <<>>]
  /\ sounding' = [c \in Channels |-> "silent"]
  /\ held' = {}
  /\ UNCHANGED <<document, modified>>

(* A pattern edit.  Notes that sound when the document changes under them  *)
(* are not followed any further.                                           *)
Edit ==
  /\ document' \in Documents
  /\ modified' = TRUE
  /\ sounding' = [c \in Channels |-> IF sounding[c] = "note" THEN "edited" ELSE sounding[c]]
  /\ played' = [c \in Channels |-> <<>>]
  /\ UNCHANGED <<seqs, times, held>>

(* What a callback does for the edits before it runs a timer.              *)
DocEdited(c) ==
  IF modified /\ seqs[c].next # None THEN Reloaded(Track(c), seqs[c]) ELSE seqs[c]

SoundAfter(c, r) ==
  LET notes == {k \in DOMAIN r.out : HasNote(Track(c), r.out[k])}
  IN  IF notes = {} THEN sounding[c]
      ELSE IF r.out[Max(notes)] = CutNote THEN "silent"
      ELSE IF r.looped THEN "looped" ELSE "note"

(* A timer that ticks the sequencers: ChipSequencer::sequencer_tick().     *)
Tick ==
  /\ Playing
  /\ LET r == [c \in Channels |-> NextTick(document, c, DocEdited(c))] IN
       /\ seqs' = [c \in Channels |-> r[c].seq]
       /\ played' = [c \in Channels |-> r[c].out]
       /\ sounding' = [c \in Channels |-> SoundAfter(c, r[c])]
       /\ held' = {c \in held : ~modified /\ ~r[c].looped}
  /\ times' = [c \in Channels |-> seqs[c].now]
  /\ modified' = FALSE
  /\ UNCHANGED document

(* A timer that only runs the driver.                                      *)
RunDriver ==
  /\ seqs' = [c \in Channels |-> DocEdited(c)]
  /\ held' = IF modified THEN {} ELSE held
  /\ modified' = FALSE
  /\ played' = [c \in Channels |-> <<>>]
  /\ UNCHANGED <<document, times, sounding>>

Next ==
  \/ \E t \in 0 .. MaxTick : PlayFrom(t)
  \/ StopPlayback \/ Edit \/ Tick \/ RunDriver

Spec == Init /\ [][Next]_vars

-----------------------------------------------------------------------------
TypeOK ==
  /\ document \in Documents
  /\ modified \in BOOLEAN
  /\ \A c \in Channels :
       /\ seqs[c].now \in Nat
       /\ seqs[c].ignore \in BOOLEAN
       /\ times[c] \in Nat \cup {None}
       /\ sounding[c] \in {"silent", "note", "looped", "edited"}
  /\ held \subseteq Channels

(* ChipSequencer::sequencer_tick() asserts that the channels return one    *)
(* time, though each counts and loops on its own.                          *)
ChannelsInSync == \A c, d \in Channels : times[c] = times[d] /\ seqs[c].now = seqs[d].now

(* Tracks as the assertions of next_tick() ask for: blocks do not overlap, *)
(* and the events of a pattern come in order and within it, with their Gxx *)
(* delays.                                                                 *)
EventsInOrder(block) ==
  LET time(i) == block.events[i].anchor_tick + block.events[i].delay
  IN  \A i \in DOMAIN block.events :
        /\ time(i) \in 0 .. block.length_ticks - 1
        /\ \A j \in 1 .. i - 1 : time(j) <= time(i)

TrackInOrder(track) ==
  /\ \A k \in DOMAIN track : EventsInOrder(track[k])
  /\ \A j, k \in DOMAIN track : j < k => EndTime(track[j]) <= track[k].begin_tick

DocumentsInOrder == \A d \in Documents : \A c \in Channels : TrackInOrder(d.tracks[c])

(* No event has a delay.                                                   *)
NoDelays ==
  \A d \in Documents : \A c \in Channels : \A k \in DOMAIN d.tracks[c] :
    \A i \in DOMAIN d.tracks[c][k].events : d.tracks[c][k].events[i].delay = 0

(* The assertions of next_tick(), where they hold: no two patterns end at  *)
(* one tick, and no event is in the past, whatever was edited or shortened *)
(* before; but for the channels in which playback started between an early *)
(* event and the tick it is anchored at, until the song loops or its       *)
(* patterns are edited.                                                    *)
OrderingHolds ==
  \A c \in Channels :
    LET seq == seqs[c]
        round == Rounds(Track(c), seq, document.note_gap_ticks)
    IN  seq.next # None /\ ~modified =>
          \A n \in 0 .. MaxRounds :
            round[n].done \/ PastEnd(Track(c), round[n].it)
              \/ LET left == EventTime(Track(c), round[n].it) - seq.now IN
                   /\ left >= 0 \/ seq.ignore \/ c \in held
                   /\ ~(left = 0 /\ AtPatternEnd(Track(c), round[n].it) /\ round[n].ended)

(* seek() on starting between an early event and its tick: "just play them *)
(* immediately instead of complaining about past notes, since the document *)
(* isn't invalid" (sequencer.cpp).  Either would do to keep next_tick()    *)
(* from the assertion that it makes of the next event at every tick.       *)
EarlyNotesPass ==
  \A c \in Channels :
    LET seq == seqs[c] IN
    seq.next # None /\ ~modified =>
      \/ PastEnd(Track(c), seq.next)
      \/ EventTime(Track(c), seq.next) >= seq.now \/ seq.ignore

(* The events written at a tick of the document are those played at it,    *)
(* through song loops, seeks, and edits in the middle of patterns.         *)
Written(track, t) ==
  {x \in {<<k, loop, e>> :
            k \in DOMAIN track,
            loop \in 0 .. SongLength(document.tracks), e \in 1 .. MaxEvents} :
     /\ x[2] < track[x[1]].loop_count
     /\ x[3] <= Len(track[x[1]].events)
     /\ EventTime(track, Iterator(PatternIter(x[1], x[2]), x[3])) = t}

PlaysWhatIsWritten ==
  [][Tick => \A c \in Channels :
       LET events == {k \in DOMAIN played'[c] : played'[c][k] # CutNote} IN
         /\ {played'[c][k] : k \in events} = Written(Track(c), seqs[c].now)
         /\ \A j, k \in events : played'[c][j] = played'[c][k] => j = k]_vars

(* A note does not sound on after its pattern, in the gap before the next, *)
(* unless an edit came in between or it began as the song looped.          *)
GapsAreSilent ==
  \A c \in Channels : sounding[c] = "note" =>
    \E k \in DOMAIN Track(c) :
      /\ Track(c)[k].begin_tick <= times[c]
      /\ times[c] < EndTime(Track(c)[k])
=============================================================================
