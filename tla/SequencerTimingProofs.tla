------------------------ MODULE SequencerTimingProofs ------------------------
(* The tempo accumulator, for every set of options and any number of       *)
(* timers: each of its invariants is inductive with the type invariant.    *)
(* The tempo dialog is a way to use it, and what the dialog shows follows  *)
(* from those invariants by arithmetic.                                    *)
EXTENDS TempoDialog, TLAPS

USE DEF CLOCKS_PER_PHASE, TIMER_BASE_FREQ, DEFAULT_SEQUENCER_PHASE

(* The products the rate is computed from are natural numbers.             *)
LEMMA ExactRateNat ==
  ASSUME NEW o \in SequencerOptions
  PROVE  ExactRate(o) \in Nat
<1> DEFINE d == o.spc_timer_period
           p == o.ticks_per_beat
           t == o.target_tempo
<1>1. d \in Nat /\ p \in Nat /\ t \in Nat
  BY DEF SequencerOptions
<1> HIDE DEF d, p, t
<1>2. d * p \in Nat
  BY <1>1
<1>3. d * p * 256 \in Nat
  BY <1>2
<1>4. d * p * 256 * t \in Nat
  BY <1>1, <1>3
<1> QED
  BY <1>4 DEF ExactRate, d, p, t

(* What calc_sequencer_rate() returns fits in a uint8_t.                   *)
LEMMA RateRange ==
  ASSUME NEW o \in SequencerOptions
  PROVE  CalcSequencerRate(o) \in 0 .. 255
<1> DEFINE e == ExactRate(o)
<1>1. e \in Nat
  BY ExactRateNat
<1> HIDE DEF e
<1>2. (2 * e + 480600) \div 961200 \in Nat
  BY <1>1
<1>3. RateUnit = 480600
  BY DEF RateUnit
<1>4. CalcSequencerRate(o) =
        IF (2 * e + 480600) \div 961200 > 255 THEN 255
        ELSE (2 * e + 480600) \div 961200
  BY <1>3 DEF CalcSequencerRate, e
<1> QED
  BY <1>2, <1>4

(* The same for the options of the model, and the clocks of a timer.       *)
LEMMA OptionsRange ==
  ASSUME NEW o \in Options
  PROVE  /\ CalcSequencerRate(o) \in 0 .. 255
         /\ CalcClocksPerTimer(o) \in Nat
<1>1. o \in SequencerOptions
  BY OptionsAssumption
<1>2. o.spc_timer_period \in Nat
  BY <1>1 DEF SequencerOptions
<1> QED
  BY <1>1, <1>2, RateRange DEF CalcClocksPerTimer

(* What recompute_tempo() leaves in the cache.                             *)
LEMMA RecomputeKeepsType ==
  ASSUME TypeOK, RecomputeTempo
  PROVE  NewStep \in 0 .. 255 /\ step' = NewStep /\ clocks' \in Nat /\ modified' \in BOOLEAN
<1>1. options \in Options
  BY DEF TypeOK
<1>2. CalcSequencerRate(options) \in 0 .. 255 /\ CalcClocksPerTimer(options) \in Nat
  BY <1>1, OptionsRange
<1> QED
  BY <1>2 DEF TypeOK, RecomputeTempo, NewStep

(* uint8_t addition stays in its byte.                                     *)
LEMMA ByteSum ==
  ASSUME NEW p \in 0 .. 255, NEW s \in 0 .. 255
  PROVE  (p + s) % 256 \in 0 .. 255
OBVIOUS

(* The initial values have their types.                                    *)
LEMMA InitTypeOK == Init => TypeOK
<1> SUFFICES ASSUME Init PROVE TypeOK
  OBVIOUS
<1>1. options \in Options
  BY DEF Init
<1>2. CalcSequencerRate(options) \in 0 .. 255 /\ CalcClocksPerTimer(options) \in Nat
  BY <1>1, OptionsRange
<1>3. step \in 0 .. 255 /\ clocks \in Nat
  BY <1>2 DEF Init
<1>4. modified \in BOOLEAN /\ running \in BOOLEAN
  BY Zenon DEF Init
<1>5. phase \in 0 .. 255
  BY DEF Init
<1>6. timers \in 0 .. MaxTimers /\ ticks \in Nat /\ advance \in Nat
  BY MaxTimersAssumption DEF Init
<1> QED
  BY <1>1, <1>3, <1>4, <1>5, <1>6, Zenon DEF TypeOK

(* The phase stays in a uint8_t, and the options in their documented ranges. *)
LEMMA NextTypeOK == TypeOK /\ [Next]_vars => TypeOK'
<1> SUFFICES ASSUME TypeOK, [Next]_vars PROVE TypeOK'
  OBVIOUS
<1>1. CASE Play
  <2>1. phase' \in 0 .. 255 /\ timers' \in 0 .. MaxTimers
    BY <1>1, MaxTimersAssumption DEF Play
  <2>2. ticks' \in Nat /\ advance' \in Nat
    BY <1>1 DEF Play
  <2>3. running' \in BOOLEAN
    BY <1>1, Zenon DEF Play
  <2>4. UNCHANGED <<options, modified, step, clocks>>
    BY <1>1 DEF Play, cacheVars
  <2> QED
    BY <2>1, <2>2, <2>3, <2>4, Zenon DEF TypeOK
<1>2. CASE Stop
  <2>1. phase' \in 0 .. 255
    BY <1>2 DEF Stop
  <2>2. running' \in BOOLEAN
    BY <1>2, Zenon DEF Stop
  <2> QED
    BY <1>2, <2>1, <2>2 DEF TypeOK, Stop, cacheVars
<1>3. CASE Edit
  <2>1. options' \in Options /\ modified' \in BOOLEAN
    BY <1>3 DEF TypeOK, Edit, SetTempo, SetBeatsPerMeasure, SetSequencerOptions,
                ChangesTempo
  <2>2. UNCHANGED <<cacheVars, phaseVars>>
    BY <1>3 DEF Edit, SetTempo, SetBeatsPerMeasure, SetSequencerOptions
  <2> QED
    BY <2>1, <2>2 DEF TypeOK, cacheVars, phaseVars
<1>4. CASE RunTimerStopped
  <2>1. RecomputeTempo /\ UNCHANGED <<options, phaseVars>>
    BY <1>4 DEF RunTimerStopped
  <2>2. step' \in 0 .. 255 /\ clocks' \in Nat /\ modified' \in BOOLEAN
    BY <2>1, RecomputeKeepsType
  <2> QED
    BY <2>1, <2>2 DEF TypeOK, phaseVars
<1>5. CASE RunTimer
  <2>1. NewStep \in 0 .. 255 /\ step' = NewStep /\ clocks' \in Nat /\ modified' \in BOOLEAN
    BY <1>5, RecomputeKeepsType DEF RunTimer
  <2>2. phase' \in 0 .. 255
    <3>1. phase' = (phase + NewStep) % 256 /\ phase \in 0 .. 255
      BY <1>5, Zenon DEF TypeOK, RunTimer, NextPhase
    <3>2. NewStep \in 0 .. 255
      BY <2>1
    <3> QED
      BY <3>1, <3>2, ByteSum, Zenon
  <2>3. timers' \in 0 .. MaxTimers /\ ticks' \in Nat /\ advance' \in Nat
    <3>1. /\ timers < MaxTimers
          /\ timers' = timers + 1
          /\ ticks' = ticks + TickCount(NewStep)
          /\ advance' = advance + NewStep
      BY <1>5, Zenon DEF RunTimer
    <3>2. timers \in 0 .. MaxTimers /\ ticks \in Nat /\ advance \in Nat
      BY Zenon DEF TypeOK
    <3>3. NewStep \in 0 .. 255
      BY <2>1
    <3>4. TickCount(NewStep) \in {0, 1}
      BY Zenon DEF TickCount
    <3>5. timers' = timers + 1 /\ timers < MaxTimers
      BY <3>1
    <3>6. timers' \in 0 .. MaxTimers
      BY <3>5, <3>2, MaxTimersAssumption
    <3>7. ticks' = ticks + TickCount(NewStep)
      BY <3>1
    <3>8. ticks' \in Nat
      BY <3>7, <3>2, <3>4
    <3>9. advance' = advance + NewStep
      BY <3>1
    <3>10. advance' \in Nat
      BY <3>9, <3>2, <3>3
    <3> QED
      BY <3>6, <3>8, <3>10
  <2> QED
    BY <1>5, <2>1, <2>2, <2>3 DEF TypeOK, RunTimer
<1>6. CASE UNCHANGED vars
  BY <1>6 DEF TypeOK, vars, cacheVars, phaseVars
<1> QED
  BY <1>1, <1>2, <1>3, <1>4, <1>5, <1>6 DEF Next

(* The types of SequencerTiming: no rate or phase leaves its byte.         *)
THEOREM TypeCorrect == Spec => []TypeOK
BY InitTypeOK, NextTypeOK, PTL DEF Spec

-----------------------------------------------------------------------------
(* An edit that does not raise the flag leaves the cached values right.    *)
LEMMA UnflaggedEdit ==
  ASSUME NEW o \in SequencerOptions, NEW q \in SequencerOptions,
         o.target_tempo = q.target_tempo,
         o.ticks_per_beat = q.ticks_per_beat,
         o.spc_timer_period = q.spc_timer_period
  PROVE  /\ CalcSequencerRate(o) = CalcSequencerRate(q)
         /\ CalcClocksPerTimer(o) = CalcClocksPerTimer(q)
BY DEF CalcSequencerRate, CalcClocksPerTimer, ExactRate

(* Whoever changes an option the cache depends on marks it modified.       *)
LEMMA NextTempoFresh == TypeOK /\ TempoFresh /\ [Next]_vars => TempoFresh'
<1> SUFFICES ASSUME TypeOK, TempoFresh, [Next]_vars, ~modified'
             PROVE  /\ step' = CalcSequencerRate(options')
                    /\ clocks' = CalcClocksPerTimer(options')
  BY DEF TempoFresh
<1>1. CASE UNCHANGED <<options, modified, cacheVars>>
  BY <1>1 DEF TempoFresh, cacheVars
<1>2. CASE SetTempo
  BY <1>2 DEF SetTempo
<1>3. CASE SetBeatsPerMeasure \/ SetSequencerOptions
  <2>1. ~modified /\ UNCHANGED cacheVars
    <3>1. CASE SetBeatsPerMeasure
      BY <3>1, Zenon DEF SetBeatsPerMeasure
    <3>2. CASE SetSequencerOptions
      BY <3>2, Zenon DEF SetSequencerOptions
    <3> QED
      BY <1>3, <3>1, <3>2
  <2>2. options \in SequencerOptions /\ options' \in SequencerOptions
    BY <1>3, OptionsAssumption DEF TypeOK, SetBeatsPerMeasure, SetSequencerOptions
  <2>3. /\ options'.target_tempo = options.target_tempo
        /\ options'.ticks_per_beat = options.ticks_per_beat
        /\ options'.spc_timer_period = options.spc_timer_period
    <3>1. CASE SetBeatsPerMeasure
      BY <3>1, <2>2 DEF SetBeatsPerMeasure, SequencerOptions
    <3>2. CASE SetSequencerOptions
      BY <3>2 DEF SetSequencerOptions, ChangesTempo
    <3> QED
      BY <1>3, <3>1, <3>2
  <2>4. /\ CalcSequencerRate(options') = CalcSequencerRate(options)
        /\ CalcClocksPerTimer(options') = CalcClocksPerTimer(options)
    BY <2>2, <2>3, UnflaggedEdit
  <2> QED
    BY <2>1, <2>4 DEF TempoFresh, cacheVars
<1>4. CASE RecomputeTempo /\ UNCHANGED options
  <2>1. CASE modified
    BY <1>4, <2>1 DEF RecomputeTempo, NewStep
  <2>2. CASE ~modified
    BY <1>4, <2>2 DEF RecomputeTempo, NewStep, TempoFresh
  <2> QED
    BY <2>1, <2>2
<1> QED
  BY <1>1, <1>2, <1>3, <1>4
  DEF Next, Edit, Play, Stop, RunTimerStopped, RunTimer, vars

(* Whatever edits are batched before a timer, it runs at the tempo of the  *)
(* document: the flags of the edits cover what the rate is computed from.  *)
THEOREM TempoFreshness == Spec => []TempoFresh
<1>1. Init => TempoFresh
  BY DEF Init, TempoFresh
<1> QED
  BY <1>1, InitTypeOK, NextTypeOK, NextTempoFresh, PTL DEF Spec

-----------------------------------------------------------------------------
(* An 8-bit addition that wraps exactly when the result is smaller.        *)
LEMMA WrapIsTick ==
  ASSUME NEW p \in 0 .. 255, NEW s \in 0 .. 255, NEW n \in {0, 1},
         n = IF (p + s) % 256 < p THEN 1 ELSE 0
  PROVE  ((p + s) % 256) + 256 * n = p + s
<1>1. CASE p + s < 256
  <2>1. (p + s) % 256 = p + s
    BY <1>1
  <2> QED
    BY <2>1
<1>2. CASE p + s >= 256
  <2>1. (p + s) % 256 = p + s - 256
    BY <1>2
  <2> QED
    BY <2>1
<1> QED
  BY <1>1, <1>2

(* A tick takes 256 out of the phase, exactly when the phase wraps.        *)
LEMMA NextPhaseAccounts ==
  TypeOK /\ PhaseAccounts /\ [Next]_vars => PhaseAccounts'
<1> SUFFICES ASSUME TypeOK, PhaseAccounts, [Next]_vars, running'
             PROVE  phase' + 256 * ticks' = 255 + advance'
  BY DEF PhaseAccounts
<1>1. CASE Play
  BY <1>1 DEF Play
<1>2. CASE UNCHANGED phaseVars
  BY <1>2 DEF PhaseAccounts, phaseVars
<1>3. CASE RunTimer
  <2>1. NewStep \in 0 .. 255
    BY <1>3, RecomputeKeepsType DEF RunTimer
  <2>2. phase' + 256 * TickCount(NewStep) = phase + NewStep
    <3>1. phase' = (phase + NewStep) % 256 /\ phase \in 0 .. 255
      BY <1>3, Zenon DEF TypeOK, RunTimer, NextPhase
    <3>2. TickCount(NewStep) = IF (phase + NewStep) % 256 < phase THEN 1 ELSE 0
      BY Zenon DEF TickCount, Ticked, NextPhase
    <3>3. ((phase + NewStep) % 256) + 256 * TickCount(NewStep) = phase + NewStep
      <4>1. /\ TickCount(NewStep) \in {0, 1}
            /\ TickCount(NewStep) = IF (phase + NewStep) % 256 < phase THEN 1 ELSE 0
        BY <3>2
      <4>2. PICK s \in 0 .. 255 : s = NewStep
        BY <2>1
      <4>3. PICK n \in {0, 1} : n = TickCount(NewStep)
        BY <4>1
      <4>4. n = IF (phase + s) % 256 < phase THEN 1 ELSE 0
        BY <4>1, <4>2, <4>3, Zenon
      <4>5. ((phase + s) % 256) + 256 * n = phase + s
        BY <3>1, <4>4, WrapIsTick
      <4> QED
        BY <4>2, <4>3, <4>5, Zenon
    <3> QED
      BY <3>1, <3>3, Zenon
  <2>3. phase + 256 * ticks = 255 + advance
    BY <1>3 DEF PhaseAccounts, RunTimer
  <2>4. ticks' = ticks + TickCount(NewStep) /\ advance' = advance + NewStep
    BY <1>3, Zenon DEF RunTimer
  <2>5. phase \in Int /\ ticks \in Int /\ advance \in Int
    BY DEF TypeOK
  <2>6. phase' \in Int
    BY NextTypeOK DEF TypeOK
  <2>7. TickCount(NewStep) \in Int
    BY DEF TickCount
  <2> QED
    BY <2>1, <2>2, <2>3, <2>4, <2>5, <2>6, <2>7
<1>4. ~Stop
  BY DEF Stop
<1> QED
  BY <1>1, <1>2, <1>3, <1>4
  DEF Next, Edit, SetTempo, SetBeatsPerMeasure, SetSequencerOptions,
      RunTimerStopped, vars

(* The accumulator neither loses nor repeats a tick, whatever tempo        *)
(* changes happen while it runs.                                           *)
THEOREM PhaseConservation == Spec => []PhaseAccounts
<1>1. Init => PhaseAccounts
  BY DEF Init, PhaseAccounts
<1> QED
  BY <1>1, InitTypeOK, NextTypeOK, NextPhaseAccounts, PTL DEF Spec

(* The first timer that advances the phase ticks the sequencer: a          *)
(* consequence of the conservation and of the initial phase.               *)
THEOREM FirstAdvanceTicks == Spec => []TicksOnceAdvanced
<1>1. TypeOK /\ PhaseAccounts => TicksOnceAdvanced
  BY DEF TypeOK, PhaseAccounts, TicksOnceAdvanced
<1> QED
  BY <1>1, TypeCorrect, PhaseConservation, PTL

-----------------------------------------------------------------------------
(* The dialog only makes edits and lets playback go on.                    *)
THEOREM DialogRefines == DialogSpec => Spec
<1>1. DialogInit => Init
  BY DEF DialogInit
<1>2. [DialogNext]_dialogVars => [Next]_vars
  <2>1. SaveDocument => Next
    BY DEF SaveDocument, Next, Edit
  <2>2. MainWindow => Next
    BY DEF MainWindow, Next, Edit
  <2>3. MakeTempoDialog \/ EditTempoDialog \/ CancelClicked => UNCHANGED vars
    BY DEF MakeTempoDialog, EditTempoDialog, CancelClicked
  <2> QED
    BY <2>1, <2>2, <2>3
    DEF DialogNext, ApplyClicked, OkClicked, Next, dialogVars
<1> QED
  BY <1>1, <1>2, PTL DEF DialogSpec, Spec

(* Division rounds down and util::math::ceildiv() rounds up.               *)
LEMMA DivBounds ==
  ASSUME NEW a \in Int, NEW b \in Nat \ {0}
  PROVE  /\ a \div b \in Int
         /\ (a \div b) * b <= a
         /\ a < (a \div b) * b + b
OBVIOUS

(* ... by less than one divisor.                                           *)
LEMMA CeilDivBounds ==
  ASSUME NEW a \in Int, NEW b \in Nat \ {0}
  PROVE  /\ CeilDiv(a, b) \in Int
         /\ a <= CeilDiv(a, b) * b
         /\ CeilDiv(a, b) * b < a + b
<1> DEFINE q == (-a) \div b
<1>1. q \in Int /\ q * b <= -a /\ -a < q * b + b
  BY DivBounds
<1>2. CeilDiv(a, b) = -q
  BY DEF CeilDiv
<1> HIDE DEF q
<1>3. (-q) * b = -(q * b) /\ q * b \in Int
  BY <1>1
<1> QED
  BY <1>1, <1>2, <1>3

(* Multiples of a positive number are ordered as their factors.            *)
LEMMA SmallerMultiple ==
  ASSUME NEW m \in Int, NEW n \in Int, NEW b \in Nat \ {0}, m * b < n * b
  PROVE  m < n
<1> SUFFICES ASSUME n <= m PROVE FALSE
  OBVIOUS
<1>1. n * b <= m * b
  OBVIOUS
<1> QED
  BY <1>1

(* The rate is the tempo asked for, in units of the rate, rounded to the   *)
(* nearest, and clamped.                                                   *)
LEMMA NearestTempo ==
  ASSUME options \in Options
  PROVE  ShowsTempo
<1> DEFINE e == ExactRate(options)
           q == (2 * e + 480600) \div 961200
           rate == CalcSequencerRate(options)
<1>1. options \in SequencerOptions
  BY OptionsAssumption
<1>2. e \in Nat
  BY <1>1, ExactRateNat
<1>3. BpmUnit(options) * options.target_tempo = e
  BY DEF BpmUnit, ExactRate
<1>4. RateUnit = 480600
  BY DEF RateUnit
<1>5. rate = IF q > 255 THEN 255 ELSE q
  BY <1>4 DEF CalcSequencerRate
<1> HIDE DEF e
<1>6. q \in Nat /\ 961200 * q <= 2 * e + 480600 /\ 2 * e + 480600 < 961200 * q + 961200
  BY <1>2
<1> HIDE DEF q, rate
<1>7. \/ rate = 255 /\ 2 * e >= 2 * (255 * 480600) + 1 * 480600
      \/ /\ 2 * e < 2 * (rate * 480600) + 1 * 480600
         /\ 2 * e >= 2 * (rate * 480600) - 1 * 480600
  BY <1>2, <1>5, <1>6
<1> QED
  BY <1>3, <1>4, <1>7 DEF ShowsTempo, BeatsPerMin, rate

(* After the first tick of a gap with phase p, n timers of step s bring    *)
(* the gap's last tick, and n is in the interval that is shown.            *)
LEMMA GapTimers ==
  ASSUME NEW s \in 1 .. 255, NEW p \in 0 .. 255, p < s, NEW g \in Nat
  PROVE  \E n \in CeilDiv(256 * g - (s - 1), s) .. CeilDiv(256 * g, s) :
           /\ (p + n * s) \div 256 >= g
           /\ n > 0 => ~((p + (n - 1) * s) \div 256 >= g)
<1> DEFINE first == CeilDiv(256 * g - (s - 1), s)
           last == CeilDiv(256 * g, s)
           exact == CeilDiv(256 * g - p, s)
<1>1. /\ first \in Int /\ first * s < 256 * g + 1
      /\ last \in Int /\ 256 * g <= last * s
      /\ exact \in Int /\ 256 * g - p <= exact * s /\ exact * s < 256 * g - p + s
  <2>1. 256 * g - (s - 1) \in Int /\ 256 * g \in Int /\ 256 * g - p \in Int
        /\ s \in Nat \ {0}
    OBVIOUS
  <2>2. first \in Int /\ first * s < 256 * g - (s - 1) + s
    BY <2>1, CeilDivBounds, ZenonT(30)
  <2>3. last \in Int /\ 256 * g <= last * s
    BY <2>1, CeilDivBounds
  <2>4. exact \in Int /\ 256 * g - p <= exact * s /\ exact * s < 256 * g - p + s
    BY <2>1, CeilDivBounds, SMTT(30)
  <2> HIDE DEF first, last, exact
  <2>5. first * s \in Int
    BY <2>2
  <2> QED
    BY <2>2, <2>3, <2>4, <2>5
<1> SUFFICES \E n \in first .. last :
               /\ (p + n * s) \div 256 >= g
               /\ n > 0 => ~((p + (n - 1) * s) \div 256 >= g)
  OBVIOUS
<1> HIDE DEF first, last, exact
<1>2. first <= exact /\ exact <= last
  <2>1. first * s < (exact + 1) * s
    <3>1. (exact + 1) * s = exact * s + s /\ exact * s \in Int /\ first * s \in Int
      BY <1>1
    <3> QED
      BY <1>1, <3>1
  <2>2. exact * s < (last + 1) * s
    <3>1. (last + 1) * s = last * s + s /\ exact * s \in Int /\ last * s \in Int
      BY <1>1
    <3> QED
      BY <1>1, <3>1
  <2>3. first < exact + 1 /\ exact < last + 1
    BY <1>1, <2>1, <2>2, SmallerMultiple
  <2> QED
    BY <1>1, <2>3
<1>3. (p + exact * s) \div 256 >= g
  <2>1. exact * s \in Int
    BY <1>1
  <2> QED
    BY <1>1, <2>1
<1>4. ~((p + (exact - 1) * s) \div 256 >= g)
  <2>1. (exact - 1) * s = exact * s - s /\ exact * s \in Int
    BY <1>1
  <2>2. p + (exact - 1) * s < 256 * g /\ p + (exact - 1) * s \in Int
    BY <1>1, <2>1
  <2> QED
    BY <2>2
<1>5. exact \in first .. last
  BY <1>1, <1>2
<1> QED
  BY <1>3, <1>4, <1>5, Zenon

(* What the dialog shows is what playback does: the nearest tempo there    *)
(* is, and for every phase the number of timers of a note gap, for all     *)
(* options and whatever was edited before.                                 *)
THEOREM DialogShowsTempo == DialogSpec => []TempoShown
<1>1. TypeOK /\ TempoFresh => TempoShown
  <2> SUFFICES ASSUME TypeOK, TempoFresh PROVE ShowsTempo /\ ShowsGap
    BY DEF TempoShown
  <2>1. ShowsTempo
    BY NearestTempo DEF TypeOK
  <2>2. ASSUME running, ~modified, step > 0, phase < step, NEW gap \in NoteGapTicks
        PROVE  LET shown == NoteGap(options, gap)
                   ticked(n) == (phase + n * step) \div 256 >= gap
               IN  \E n \in shown.begin .. shown.end :
                     ticked(n) /\ (n > 0 => ~ticked(n - 1))
    <3>1. step = CalcSequencerRate(options)
      BY <2>2 DEF TempoFresh
    <3>2. step \in 1 .. 255 /\ phase \in 0 .. 255 /\ gap \in Nat
      BY <2>2 DEF TypeOK, NoteGapTicks
    <3>3. \E n \in CeilDiv(256 * gap - (step - 1), step) .. CeilDiv(256 * gap, step) :
            /\ (phase + n * step) \div 256 >= gap
            /\ n > 0 => ~((phase + (n - 1) * step) \div 256 >= gap)
      BY <2>2, <3>2, GapTimers, ZenonT(30)
    <3> QED
      BY <3>1, <3>3 DEF NoteGap
  <2> QED
    BY <2>1, <2>2 DEF ShowsGap
<1> QED
  BY <1>1, DialogRefines, TypeCorrect, TempoFreshness, PTL
=============================================================================
