------------------------------ MODULE SampleRam ------------------------------
(***************************************************************************)
(* How the SPC700 driver packs the samples of the document into the 64 KiB *)
(* of audio RAM (Spc700Driver::reload_samples()): a directory with an      *)
(* entry for each slot up to the last sample, and the samples behind it in *)
(* the order of their slots.  Samples that do not fit are left out.        *)
(*                                                                         *)
(* A loader is the state of the loop: the slot i it is at, the address of  *)
(* the next sample, and what is in the RAM, the directory and              *)
(* _samples_valid of each slot, or None.                                   *)
(***************************************************************************)
EXTENDS Integers, FiniteSetsExt, Optional

CONSTANTS
  MAX_SAMPLES,
  SPC_MEMORY_SIZE,
  SAMPLE_DIR,
  SAMPLE_DIR_ENTRY_SIZE

ASSUME MaxSamplesAssumption == MAX_SAMPLES \in Nat
ASSUME SampleDirAssumption == SAMPLE_DIR \in Nat /\ SAMPLE_DIR_ENTRY_SIZE \in Nat \ {0}
ASSUME DirectoryFitsAssumption ==
  SPC_MEMORY_SIZE \in Nat /\ SAMPLE_DIR + MAX_SAMPLES * SAMPLE_DIR_ENTRY_SIZE <= SPC_MEMORY_SIZE

SampleIndex == 0 .. MAX_SAMPLES - 1

(* Sample, its data reduced to a name for it and its size in bytes.        *)
Loaded(start, sample) ==
  [start |-> start, end |-> start + sample.size, loop |-> start + sample.loop_byte,
   brr |-> sample.brr]

(* One more than the index of the last sample.                             *)
FirstUnusedSlot(samples) ==
  IF \A i \in SampleIndex : samples[i] = None THEN 0
  ELSE 1 + CHOOSE i \in SampleIndex :
             samples[i] # None /\ \A j \in SampleIndex : j > i => samples[j] = None

EmptyRam == [i \in SampleIndex |-> None]

(* Bug: the directory has an entry for each sample, not for each slot. *)
BeginLoadBySample(samples) ==
  [i |-> 0, ram |-> EmptyRam,
   addr |-> SAMPLE_DIR + Cardinality({i \in SampleIndex : samples[i] # None})
                           * SAMPLE_DIR_ENTRY_SIZE]

BeginLoad(samples) ==
  [i |-> 0, addr |-> SAMPLE_DIR + FirstUnusedSlot(samples) * SAMPLE_DIR_ENTRY_SIZE,
   ram |-> EmptyRam]

(* The loop has a break for RAM that is entirely filled.                   *)
LoadEnds(samples, l) == l.i >= FirstUnusedSlot(samples) \/ l.addr >= SPC_MEMORY_SIZE

Fits(sample, addr) ==
  /\ sample.size > 0
  /\ addr + sample.size <= SPC_MEMORY_SIZE
  /\ addr + sample.loop_byte < SPC_MEMORY_SIZE

(* A sample that is not there, or does not fit, leaves room for the next.  *)
LoadSample(samples, l) ==
  LET sample == samples[l.i] IN
  IF sample # None /\ Fits(sample, l.addr)
    THEN [i |-> l.i + 1, addr |-> l.addr + sample.size,
          ram |-> [l.ram EXCEPT ![l.i] = Loaded(l.addr, sample)]]
    ELSE [l EXCEPT !.i = @ + 1]

-----------------------------------------------------------------------------
(* Where a sample may begin behind the directory and the samples in the    *)
(* slots before i.                                                         *)
EndsBefore(samples, ram, i) ==
  {SAMPLE_DIR + FirstUnusedSlot(samples) * SAMPLE_DIR_ENTRY_SIZE}
    \cup {ram[j].end : j \in {k \in 0 .. i - 1 : ram[k] # None}}

(* The loaded samples follow each other without overlaps or gaps inside    *)
(* the RAM, behind the directory entries of all of them, and each loops    *)
(* inside itself.                                                          *)
RamLayout(samples, ram) ==
  /\ \A i \in SampleIndex : ram[i] # None =>
       /\ SAMPLE_DIR + (i + 1) * SAMPLE_DIR_ENTRY_SIZE <= ram[i].start
       /\ ram[i].start \in EndsBefore(samples, ram, i)
       /\ ram[i].start <= ram[i].loop /\ ram[i].loop < ram[i].end
       /\ ram[i].end <= SPC_MEMORY_SIZE
  /\ \A i, j \in SampleIndex :
       i < j /\ ram[i] # None /\ ram[j] # None => ram[i].end <= ram[j].start

(* A sample is left out only if it is empty, or does not fit behind those  *)
(* before it.                                                              *)
NothingLeftOut(samples, ram) ==
  \A i \in SampleIndex : samples[i] # None /\ samples[i].size > 0 /\ ram[i] = None =>
    \E addr \in EndsBefore(samples, ram, i) : addr + samples[i].size > SPC_MEMORY_SIZE
=============================================================================
