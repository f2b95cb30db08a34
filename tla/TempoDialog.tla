----------------------------- MODULE TempoDialog -----------------------------
(***************************************************************************)
(* The tempo dialog (gui/tempo_dialog.cpp).  It edits a copy of the        *)
(* document's SequencerOptions while playback goes on, shows what tempo    *)
(* and note gaps they really give, and puts them in the document when OK   *)
(* or Apply is clicked.  It is modal: until it is closed, the main window  *)
(* neither edits the document nor starts or stops playback.                *)
(*                                                                         *)
(* note_gap_ticks is not part of the options here; all its values are      *)
(* looked at.                                                              *)
(***************************************************************************)
EXTENDS SequencerTiming, Optional

VARIABLE dialog    \* TempoDialogImpl::_options, or None

dialogVars == <<vars, dialog>>

NoteGapTicks == 0 .. 2

(* util::math::ceildiv().                                                  *)
CeilDiv(a, b) == -((-a) \div b)

(* Bug: a gap that ends within a timer is counted without it. *)
NoteGapFloor(o, gap) ==
  LET rate == CalcSequencerRate(o)
  IN  [begin |-> (256 * gap - (rate - 1)) \div rate, end |-> (256 * gap) \div rate]

(* update_state(): the shortest and the longest gap, in timers.  The note  *)
(* is released on some tick, which left a phase below the rate.            *)
NoteGap(o, gap) ==
  LET rate == CalcSequencerRate(o)
  IN  [begin |-> CeilDiv(256 * gap - (rate - 1), rate), end |-> CeilDiv(256 * gap, rate)]

(* calc_bpm(): the tempo of a rate is BeatsPerMin / BpmUnit.               *)
BeatsPerMin(rate) == rate * RateUnit
BpmUnit(o) == o.spc_timer_period * o.ticks_per_beat * 256

-----------------------------------------------------------------------------
MakeTempoDialog ==
  /\ dialog = None
  /\ dialog' = options
  /\ UNCHANGED vars

(* The spin boxes, whose ranges are those of valid documents.              *)
EditTempoDialog ==
  /\ dialog # None
  /\ dialog' \in {o \in Options : o.beats_per_measure = dialog.beats_per_measure} \ {dialog}
  /\ UNCHANGED vars

(* save_document() pushes set_sequencer_options().                         *)
SaveDocument ==
  /\ dialog # None
  /\ SetSequencerOptions
  /\ options' = dialog

ApplyClicked == SaveDocument /\ UNCHANGED dialog
OkClicked == SaveDocument /\ dialog' = None
CancelClicked == dialog # None /\ dialog' = None /\ UNCHANGED vars

MainWindow == dialog = None /\ (Play \/ Stop \/ SetTempo \/ SetBeatsPerMeasure)

DialogInit == Init /\ dialog = None

DialogNext ==
  \/ MakeTempoDialog \/ EditTempoDialog \/ ApplyClicked \/ OkClicked \/ CancelClicked
  \/ /\ MainWindow \/ RunTimerStopped \/ RunTimer
     /\ UNCHANGED dialog

DialogSpec == DialogInit /\ [][DialogNext]_dialogVars

-----------------------------------------------------------------------------
(* The tempo shown for the document is the nearest to the one asked for    *)
(* that there is, within half of the step that is shown, unless it is too  *)
(* high for any rate.                                                      *)
ShowsTempo ==
  LET rate == CalcSequencerRate(options)
      wanted == BpmUnit(options) * options.target_tempo
  IN  \/ rate = 255 /\ 2 * wanted >= 2 * BeatsPerMin(255) + BeatsPerMin(1)
      \/ /\ 2 * wanted < 2 * BeatsPerMin(rate) + BeatsPerMin(1)
         /\ 2 * wanted >= 2 * BeatsPerMin(rate) - BeatsPerMin(1)

(* From a tick that is sent in playback, whatever the tempo was before,    *)
(* the tick that ends a note gap comes after the number of timers shown.   *)
ShowsGap ==
  running /\ ~modified /\ step > 0 /\ phase < step =>
    \A gap \in NoteGapTicks :
      LET shown == NoteGap(options, gap)
          ticked(n) == (phase + n * step) \div 256 >= gap
      IN  \E n \in shown.begin .. shown.end :
            ticked(n) /\ (n > 0 => ~ticked(n - 1))

(* What the dialog shows of the document is what playback does.            *)
TempoShown == ShowsTempo /\ ShowsGap
=============================================================================
