------------------------------ MODULE AdsrGraph ------------------------------
(***************************************************************************)
(* The graph of a patch's envelope in the instrument dialog                *)
(* (gui/instrument_dialog/adsr_graph.cpp): a note is simulated step by     *)
(* step, and its levels are drawn up to the right edge of the graph.       *)
(*                                                                         *)
(* An adsr is [attack_rate, decay_rate, sustain_level, decay_2].  Indices  *)
(* into the envelope count from 1.  The units and ticks of the axes and    *)
(* the zoom, which changes the time of the right edge, are left out.       *)
(***************************************************************************)
EXTENDS Integers, SequencesExt

CONSTANT LevelUnit   \* an eighth of the levels: 0x100 in the code

ASSUME LevelUnitAssumption == LevelUnit \in Nat \ {0} /\ LevelUnit % 8 = 0

Adsr ==
  [attack_rate : 0 .. 15, decay_rate : 0 .. 7, sustain_level : 0 .. 7, decay_2 : 0 .. 31]

MAX_LEVEL == 8 * LevelUnit - 1

(* PERIODS[0] is never used.                                               *)
PERIODS ==
  <<2048, 1536, 1280, 1024, 768, 640, 512, 384, 320, 256, 192, 160, 128, 96, 80, 64, 48,
    40, 32, 24, 20, 16, 12, 10, 8, 6, 5, 4, 3, 2, 1>>

Point(time, level) == [time |-> time, level |-> level]
NoPoint == Point(0, 0)

-----------------------------------------------------------------------------
(* The points get_adsr() collects.                                         *)

EnvelopeDone(s) == Last(s.envelope).time >= s.end_time
AllDone(s) == EnvelopeDone(s) /\ s.decay_begin.time > 0 /\ s.sustain_point.time > 0

(* The old level up to now, and the new one from now on.                   *)
AddPoint(s, p) ==
  IF EnvelopeDone(s) THEN s
  ELSE [s EXCEPT !.envelope = @ \o <<Point(p.time, Last(@).level), p>>]

DecayBegin(s, p) == [s EXCEPT !.decay_begin = p, !.decay_idx = Len(s.envelope)]
SustainPoint(s, p) == [s EXCEPT !.sustain_point = p, !.sustain_idx = Len(s.envelope)]

(* Bug: an envelope that has ended does not reach to the right edge. *)
EndShort(s) == [s EXCEPT !.ended = TRUE]

End(s) ==
  [s EXCEPT !.ended = TRUE,
            !.envelope = IF EnvelopeDone(s) THEN @
                         ELSE Append(@, Point(s.end_time, Last(@).level))]

-----------------------------------------------------------------------------
(* A turn of the loop of iterate_adsr().                                   *)

PeriodIdx(adsr, mode) ==
  CASE mode = "Attack" -> adsr.attack_rate * 2 + 1
    [] mode = "Decay" -> adsr.decay_rate * 2 + 16
    [] mode = "Decay2" -> adsr.decay_2

StepLevel(adsr, s) ==
  IF s.mode = "Attack"
    THEN s.level + (IF PeriodIdx(adsr, s.mode) < 31 THEN LevelUnit \div 8 ELSE 4 * LevelUnit)
    ELSE LET level == (s.level - 1) - ((s.level - 1) \div LevelUnit)
         IN  IF level < 0 THEN 0 ELSE level

(* A phase that ends does so a sample later at the level it had, but for   *)
(* the fastest attack.                                                     *)
Turn(adsr, s) ==
  LET level == StepLevel(adsr, s)
      dt == PERIODS[PeriodIdx(adsr, s.mode)]
      sustains == s.mode = "Decay" /\ level \div LevelUnit = adsr.sustain_level
      decays == s.mode = "Attack" /\ level > MAX_LEVEL
      stays == (sustains \/ decays) /\ dt # 1
      p == Point(s.time + (IF stays THEN 1 ELSE dt),
                 CASE stays -> s.level [] decays /\ ~stays -> MAX_LEVEL [] OTHER -> level)
      moved == AddPoint([s EXCEPT !.time = p.time, !.level = p.level], p)
      next == CASE decays -> [DecayBegin(moved, p) EXCEPT !.mode = "Decay"]
                [] sustains -> [SustainPoint(moved, p) EXCEPT !.mode = "Decay2"]
                [] OTHER -> moved
  IN  CASE PeriodIdx(adsr, s.mode) = 0 -> End(s)
        [] AllDone(next) -> [next EXCEPT !.ended = TRUE]
        [] ~AllDone(next) /\ p.level = 0 -> End(next)
        [] OTHER -> next

(* An attack and a decay from the highest level to 0, at a level a turn,   *)
(* in rounds of LevelUnit turns.                                           *)
MaxRounds == 8

GetAdsr(adsr, end_time) ==
  LET start == [time |-> 0, level |-> 0, mode |-> "Attack", ended |-> FALSE,
                end_time |-> end_time, envelope |-> <<NoPoint>>,
                decay_idx |-> 1, sustain_idx |-> 1,
                decay_begin |-> NoPoint, sustain_point |-> NoPoint]
      Round(begin) ==
        LET turn[n \in 0 .. LevelUnit] ==
              IF n = 0 THEN begin
              ELSE LET s == turn[n - 1] IN IF s.ended THEN s ELSE Turn(adsr, s)
        IN  turn[LevelUnit]
      round[n \in 0 .. MaxRounds] ==
        IF n = 0 THEN start
        ELSE LET s == round[n - 1] IN IF s.ended THEN s ELSE Round(s)
  IN  round[MaxRounds]

(* paintEvent(): the lines of the three phases, in colors of their own.    *)
Lines(s) ==
  <<SubSeq(s.envelope, 1, s.decay_idx),
    SubSeq(s.envelope, s.decay_idx, s.sustain_idx),
    SubSeq(s.envelope, s.sustain_idx, Len(s.envelope))>>

(* Its brushes: the background from each phase's begin to the right edge,  *)
(* the later ones over the earlier.                                        *)
Background(s, time) ==
  IF time >= s.sustain_point.time THEN 3
  ELSE IF time >= s.decay_begin.time THEN 2 ELSE 1

-----------------------------------------------------------------------------
(* What get_adsr() says it returns: points in the order of time, in steps, *)
(* from 0 to the end_time at least.                                        *)
Stairs(s) ==
  /\ Head(s.envelope) = NoPoint
  /\ EnvelopeDone(s)
  /\ \A k \in 1 .. Len(s.envelope) - 1 :
       LET p == s.envelope[k]
           q == s.envelope[k + 1]
       IN  p.time <= q.time /\ (p.time = q.time \/ p.level = q.level)

(* A phase begins at the point its index says, or past the right edge.     *)
BeginsAt(s, p, k) ==
  \/ s.envelope[k] = p
  \/ p.time > s.end_time /\ k = Len(s.envelope)

(* A phase's line is drawn over the phase's background.                    *)
OverBackground(s) ==
  \A i \in 1 .. 3 : LET line == Lines(s)[i] IN
    \A k \in 1 .. Len(line) - 1 :
      line[k].time < line[k + 1].time => Background(s, line[k].time) = i

Rises(line) == \A k \in 1 .. Len(line) - 1 : line[k].level <= line[k + 1].level
Falls(line) == \A k \in 1 .. Len(line) - 1 : line[k].level >= line[k + 1].level

(* The phases follow each other, each has its part of the envelope and its *)
(* direction, and the level is sustained where the patch says, or up to a  *)
(* step of the decay above, whose last step is not taken.                  *)
EnvelopeOk(adsr, s) ==
  LET level == s.sustain_point.level
  IN  /\ s.ended
      /\ Stairs(s)
      /\ 0 < s.decay_begin.time /\ s.decay_begin.time < s.sustain_point.time
      /\ BeginsAt(s, s.decay_begin, s.decay_idx)
      /\ BeginsAt(s, s.sustain_point, s.sustain_idx)
      /\ OverBackground(s)
      /\ Rises(Lines(s)[1]) /\ Falls(Lines(s)[2]) /\ Falls(Lines(s)[3])
      /\ adsr.sustain_level * LevelUnit <= level
      /\ level < (adsr.sustain_level + 1) * LevelUnit + 8
=============================================================================
