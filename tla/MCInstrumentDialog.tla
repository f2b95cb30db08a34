-------------------------- MODULE MCInstrumentDialog --------------------------
(***************************************************************************)
(* Two instruments, two samples, keysplits of up to three patches over     *)
(* three notes; one document has an instrument with no patches, which only *)
(* a file can have.                                                        *)
(***************************************************************************)
EXTENDS InstrumentDialog

MCNotes == 0 .. 2

(* From the slowest to the fastest attacks and decays, sustained at the    *)
(* lowest, the highest and the default level, or falling to 0.             *)
MCAdsrs ==
  [attack_rate : {0, 15}, decay_rate : {0, 7}, sustain_level : {0, 5, 7},
   decay_2 : {0, 7, 31}]

MCEndTimes == {1, 63, 1000, 100000, 10000000}

Patch(note, sample) == [NewPatch EXCEPT !.min_note = note, !.sample_idx = sample]

MCDocuments ==
  {[instruments |-> (0 :> <<Patch(0, 0), Patch(1, 1), Patch(1, 0)>> @@ 1 :> None),
    samples |-> {0}],
   [instruments |-> (0 :> <<>> @@ 1 :> <<Patch(2, 1), Patch(0, 0)>>),
    samples |-> {0, 1}]}
=============================================================================
