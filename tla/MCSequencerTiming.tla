-------------------------- MODULE MCSequencerTiming --------------------------
(* Options whose rates are 0 (1 BPM with the default period), 1, 2, 102,   *)
(* 205 and, clamped, 255, and two measure lengths, which do not matter.    *)
EXTENDS TempoDialog

Opt(t, p, d, b) ==
  [target_tempo |-> t, ticks_per_beat |-> p, spc_timer_period |-> d,
   beats_per_measure |-> b]

MCOptions ==
  {Opt(t, 48, d, b) : t \in {1, 2, 250, 999}, d \in {16, 32}, b \in {3, 4}}
=============================================================================
