--------------------------- MODULE SequencerTiming ---------------------------
(***************************************************************************)
(* The tempo of playback.  The audio thread emulates one S-SMP timer after *)
(* another, each of a fixed number of clocks, and class SequencerTiming    *)
(* (synth.h, synth.cpp) turns a fraction of them into sequencer ticks with *)
(* an 8-bit phase accumulator.  The rate is computed from the document's   *)
(* SequencerOptions (tempo_calc.cpp) and cached; edits say with a flag     *)
(* whether it has to be computed again (edit_doc.cpp).                     *)
(*                                                                         *)
(* target_tempo is a double in the code and an integer here.               *)
(***************************************************************************)
EXTENDS Integers

CONSTANTS
  Options,    \* the SequencerOptions a document can have
  MaxTimers   \* bound on the timers run in one playback

SequencerOptions ==
  [target_tempo : Nat, ticks_per_beat : Nat, spc_timer_period : Nat,
   beats_per_measure : Nat]

ASSUME OptionsAssumption == Options \subseteq SequencerOptions
ASSUME MaxTimersAssumption == MaxTimers \in Nat

CLOCKS_PER_PHASE == 128
TIMER_BASE_FREQ == 8010

(* Bug: start like the real AMK, "resulting in a delay". *)
AMKPhase == 0
DEFAULT_SEQUENCER_PHASE == 255

CalcClocksPerTimer(o) == CLOCKS_PER_PHASE * o.spc_timer_period

(* d*p*256/60/8010 * t is ExactRate / RateUnit.                            *)
ExactRate(o) == o.spc_timer_period * o.ticks_per_beat * 256 * o.target_tempo
RateUnit == 60 * TIMER_BASE_FREQ

(* std::clamp() to [0, 255], then std::round().                            *)
CalcSequencerRate(o) ==
  LET rounded == (2 * ExactRate(o) + RateUnit) \div (2 * RateUnit)
  IN  IF rounded > 255 THEN 255 ELSE rounded

VARIABLES
  options,   \* OverallSynth::_document.sequencer_options
  modified,  \* total_modified has EngineTempo
  step,      \* _phase_step
  clocks,    \* _clocks_per_timer
  running,   \* _running
  phase,     \* _phase
  timers,    \* history: timers run since play()
  ticks,     \* history: sequencer ticks since play()
  advance    \* history: sum of the steps added to the phase since play()

cacheVars == <<step, clocks>>
phaseVars == <<running, phase, timers, ticks, advance>>
vars == <<options, modified, cacheVars, phaseVars>>

TypeOK ==
  /\ options \in Options
  /\ modified \in BOOLEAN
  /\ step \in 0 .. 255
  /\ clocks \in Nat
  /\ running \in BOOLEAN
  /\ phase \in 0 .. 255
  /\ timers \in 0 .. MaxTimers
  /\ ticks \in Nat
  /\ advance \in Nat

Init ==
  /\ options \in Options
  /\ modified = FALSE
  /\ step = CalcSequencerRate(options)
  /\ clocks = CalcClocksPerTimer(options)
  /\ running = FALSE
  /\ phase = DEFAULT_SEQUENCER_PHASE
  /\ timers = 0 /\ ticks = 0 /\ advance = 0

-----------------------------------------------------------------------------
(* The commands handled before a timer.  PlayFrom and StopPlayback         *)
(* alternate (AudioSync!TransportAlternates).                              *)

Play ==
  /\ ~running
  /\ running' = TRUE
  /\ phase' = DEFAULT_SEQUENCER_PHASE
  /\ timers' = 0 /\ ticks' = 0 /\ advance' = 0
  /\ UNCHANGED <<options, modified, cacheVars>>

Stop ==
  /\ running
  /\ running' = FALSE
  /\ phase' = DEFAULT_SEQUENCER_PHASE
  /\ UNCHANGED <<options, modified, cacheVars, timers, ticks, advance>>

(* Setter<double, get_tempo_mut, EngineTempo>.                             *)
SetTempo ==
  /\ \E o \in Options :
       /\ options' = [options EXCEPT !.target_tempo = o.target_tempo]
       /\ options' \in Options
  /\ modified' = TRUE
  /\ UNCHANGED <<cacheVars, phaseVars>>

(* Setter<int, get_measure_len_mut, 0>.                                    *)
SetBeatsPerMeasure ==
  /\ \E o \in Options :
       /\ options' = [options EXCEPT !.beats_per_measure = o.beats_per_measure]
       /\ options' \in Options
  /\ UNCHANGED <<modified, cacheVars, phaseVars>>

(* Bug: one of the fields is forgotten. *)
ChangesTempoNotPeriod(o) ==
  o.target_tempo # options.target_tempo \/ o.ticks_per_beat # options.ticks_per_beat

(* set_sequencer_options(): the flag depends on what changed.              *)
ChangesTempo(o) ==
  \/ o.target_tempo # options.target_tempo
  \/ o.ticks_per_beat # options.ticks_per_beat
  \/ o.spc_timer_period # options.spc_timer_period

SetSequencerOptions ==
  /\ options' \in Options
  /\ modified' = (modified \/ ChangesTempo(options'))
  /\ UNCHANGED <<cacheVars, phaseVars>>

-----------------------------------------------------------------------------
(* Bug: the sum is kept in an int. *)
UnwrappedPhase(s) == phase + s

(* The rest of a timer period: recompute_tempo() if asked for, then        *)
(* run_timer().  uint8_t next_phase wraps, and a wrap is a tick.           *)
NextPhase(s) == (phase + s) % 256

(* Bug: a wrap back to the same or a larger phase is tested for. *)
TickedInclusive(s) == NextPhase(s) <= phase

Ticked(s) == NextPhase(s) < phase
TickCount(s) == IF Ticked(s) THEN 1 ELSE 0

NewStep == IF modified THEN CalcSequencerRate(options) ELSE step

RecomputeTempo ==
  /\ modified' = FALSE
  /\ step' = NewStep
  /\ clocks' = IF modified THEN CalcClocksPerTimer(options) ELSE clocks

RunTimerStopped ==
  /\ ~running
  /\ RecomputeTempo
  /\ UNCHANGED <<options, phaseVars>>

RunTimer ==
  /\ running
  /\ timers < MaxTimers
  /\ RecomputeTempo
  /\ timers' = timers + 1
  /\ phase' = NextPhase(NewStep)
  /\ ticks' = ticks + TickCount(NewStep)
  /\ advance' = advance + NewStep
  /\ UNCHANGED <<options, running>>

Edit == SetTempo \/ SetBeatsPerMeasure \/ SetSequencerOptions

Next == Play \/ Stop \/ Edit \/ RunTimerStopped \/ RunTimer

Spec == Init /\ [][Next]_vars

-----------------------------------------------------------------------------
(* The cached rate and timer length are those of the document whenever no  *)
(* recomputation is asked for: the flags of the edits cover every option   *)
(* the two are computed from.                                              *)
TempoFresh ==
  ~modified => step = CalcSequencerRate(options) /\ clocks = CalcClocksPerTimer(options)

(* The accumulator conserves time.  Through any sequence of tempo changes  *)
(* in the middle of a tick, the ticks sent and the phase left add up to    *)
(* the steps taken, from the initial phase on: none is lost or repeated.   *)
PhaseAccounts == running => phase + 256 * ticks = 255 + advance

(* The initial phase ticks at the first timer that advances at all.        *)
TicksOnceAdvanced == running /\ advance > 0 => ticks > 0
=============================================================================
