------------------------------ MODULE EditInstr ------------------------------
(***************************************************************************)
(* The edits of an instrument's keysplit (edit/edit_instr.cpp): a sequence *)
(* of patches, each with the lowest note it plays, a sample and the        *)
(* envelope of its notes, [attack_rate, decay_rate, sustain_level,         *)
(* decay_2].                                                               *)
(*                                                                         *)
(* An edit is the new keysplit, or None when there is nothing to do.       *)
(***************************************************************************)
EXTENDS Integers, SequencesExt, Optional

CONSTANT MAX_KEYSPLITS

ASSUME MaxKeysplitsAssumption == MAX_KEYSPLITS \in Nat \ {0}

DEFAULT_ADSR ==
  [attack_rate |-> 15, decay_rate |-> 0, sustain_level |-> 5, decay_2 |-> 7]

(* InstrumentPatch{}.                                                      *)
NewPatch == [min_note |-> 0, sample_idx |-> 0, adsr |-> DEFAULT_ADSR]

(* Wherever it is inserted, the patch gets the lowest note of the last one.*)
TryAddPatch(keysplit, k) ==
  IF Len(keysplit) >= MAX_KEYSPLITS THEN None
  ELSE InsertAt(keysplit, k,
         IF keysplit = <<>> THEN NewPatch
         ELSE [NewPatch EXCEPT !.min_note = Last(keysplit).min_note])

TryRemovePatch(keysplit, k) ==
  IF Len(keysplit) <= 1 THEN None ELSE RemoveAt(keysplit, k)

TryMovePatchDown(keysplit, k) ==
  IF k >= Len(keysplit) THEN None
  ELSE [keysplit EXCEPT ![k] = keysplit[k + 1], ![k + 1] = keysplit[k]]

TryMovePatchUp(keysplit, k) ==
  IF k = 1 THEN None ELSE TryMovePatchDown(keysplit, k - 1)

(* Bug: the patch only moves towards the start. *)
BubbledUp(keysplit, k) ==
  LET note(j) == keysplit[j].min_note
  IN  CHOOSE j \in 1 .. k :
        /\ \A i \in j .. k - 1 : note(i) > note(k)
        /\ j > 1 => note(j - 1) <= note(k)

(* Where the bubble sort of set_min_key() takes patch k: before all the    *)
(* higher ones right before it, or else after all the lower ones right     *)
(* after it.                                                               *)
Bubbled(keysplit, k) ==
  LET note(j) == keysplit[j].min_note
      up == CHOOSE j \in 1 .. k :
              /\ \A i \in j .. k - 1 : note(i) > note(k)
              /\ j > 1 => note(j - 1) <= note(k)
      down == CHOOSE j \in k .. Len(keysplit) :
                /\ \A i \in k + 1 .. j : note(i) < note(k)
                /\ j < Len(keysplit) => note(k) <= note(j + 1)
  IN  IF up < k THEN up ELSE down

(* The keysplit, and the place in it of the patch that was edited.         *)
SetMinKey(keysplit, k, note) ==
  LET edited == [keysplit EXCEPT ![k].min_note = note]
      j == Bubbled(edited, k)
  IN  [keysplit |-> InsertAt(RemoveAt(edited, k), j, edited[k]), patch |-> j]

SetSampleIdx(keysplit, k, sample) == [keysplit EXCEPT ![k].sample_idx = sample]

(* set_attack() and its like; field is the one they set.                   *)
SetAdsrField(keysplit, k, field, value) == [keysplit EXCEPT ![k].adsr[field] = value]

Sorted(keysplit) ==
  \A j, k \in DOMAIN keysplit : j < k => keysplit[j].min_note <= keysplit[k].min_note
=============================================================================
