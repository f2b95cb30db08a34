---------------------------- MODULE EditCommands ----------------------------
(***************************************************************************)
(* The document and the edit commands (src/edit/).  A command holds the    *)
(* other half of a swap: apply_swap() exchanges what it holds with a part  *)
(* of the document, so the command that made an edit undoes it, and then   *)
(* redoes it.  A command is a record of its class, the place it edits and  *)
(* the value it holds.                                                     *)
(*                                                                         *)
(* The document is kept to what the commands can get wrong: instruments    *)
(* with one patch, samples with a length and a loop point, one track whose *)
(* patterns each use one instrument, and two of the SequencerOptions.      *)
(***************************************************************************)
EXTENDS Integers, Sequences

CONSTANTS
  NSlots,     \* MAX_INSTRUMENTS and MAX_SAMPLES
  Names, Tempos, Measures,
  MaxBrr,     \* lengths a sample can have
  MaxBlocks,  \* MAX_BLOCKS_PER_TRACK
  None        \* std::nullopt

ASSUME NSlotsAssumption == NSlots \in Nat \ {0}
ASSUME MaxBlocksAssumption == MaxBlocks \in Nat
ASSUME MaxBrrAssumption == MaxBrr \in Nat

Slots == 0 .. NSlots - 1

(* MAX_EVENTS_PER_PATTERN is passed by this pattern.                       *)
Oversized == NSlots
Patterns == Slots \cup {Oversized}

Instrument == [name : Names, sample_idx : Slots]
Sample == [name : Names, brr : 0 .. MaxBrr, loop_byte : Nat]
SequencerOptions == [target_tempo : Tempos, beats_per_measure : Measures]
Document ==
  [options : SequencerOptions,
   instruments : [Slots -> Instrument \cup {None}],
   samples : [Slots -> Sample \cup {None}],
   blocks : Seq(Slots)]

(* An empty slot is neither an instrument nor a sample.                    *)
ASSUME NoneAssumption == None \notin Instrument /\ None \notin Sample

InstrumentAt(d, i) == d.instruments[i] # None
SampleAt(d, i) == d.samples[i] # None

-----------------------------------------------------------------------------
(* Swapping two slots, and renaming them wherever they are referred to.    *)

Swapped(f, a, b) == [f EXCEPT ![a] = f[b], ![b] = f[a]]

(* Bug: the second test is not an "else" of the first. *)
RenamedTwice(a, b, i) ==
  LET j == IF i = a THEN b ELSE i IN IF j = b THEN a ELSE j

Renamed(a, b, i) == IF i = a THEN b ELSE IF i = b THEN a ELSE i

(* sequence_swap_instruments().                                            *)
SequenceSwapInstruments(blocks, a, b) ==
  [k \in DOMAIN blocks |-> Renamed(a, b, blocks[k])]

(* instrument_swap_samples().                                              *)
InstrumentSwapSamples(instruments, a, b) ==
  [i \in Slots |->
     IF instruments[i] = None THEN None
     ELSE [instruments[i] EXCEPT !.sample_idx = Renamed(a, b, @)]]

InsertBlock(blocks, k, p) ==
  SubSeq(blocks, 1, k - 1) \o <<p>> \o SubSeq(blocks, k, Len(blocks))

EraseBlock(blocks, k) ==
  SubSeq(blocks, 1, k - 1) \o SubSeq(blocks, k + 1, Len(blocks))

-----------------------------------------------------------------------------
Command(class, at, value) == [class |-> class, at |-> at, value |-> value]

(* The release_assert()s of apply_swap(), and its vector accesses.         *)
Applicable(c, d) ==
  /\ c.class = "AddRemoveInstrument" => (c.value = None) = InstrumentAt(d, c.at)
  /\ c.class = "AddRemoveSample" => (c.value = None) = SampleAt(d, c.at)
  /\ c.class \in {"RenameInstrument", "SetPatch"} => InstrumentAt(d, c.at)
  /\ c.class \in {"RenameSample", "SetSampleMetadata"} => SampleAt(d, c.at)
  /\ c.class \in {"EditPattern", "RemoveBlock"} => c.at \in DOMAIN d.blocks
  /\ c.class = "AddBlock" => c.at \in 1 .. Len(d.blocks) + 1

(* The four swaps of slots return early when the slots are one.            *)
SwapSlots(d, c, swapped) == IF c.at[1] = c.at[2] THEN d ELSE swapped

(* apply_swap(): the document after it ...                                 *)
DocAfter(c, d) ==
  CASE c.class = "SetTempo" -> [d EXCEPT !.options.target_tempo = c.value]
    [] c.class = "SetBeatsPerMeasure" ->
         [d EXCEPT !.options.beats_per_measure = c.value]
    [] c.class = "SetSequencerOptions" -> [d EXCEPT !.options = c.value]
    [] c.class = "AddRemoveInstrument" -> [d EXCEPT !.instruments[c.at] = c.value]
    [] c.class = "RenameInstrument" -> [d EXCEPT !.instruments[c.at].name = c.value]
    [] c.class = "SetPatch" -> [d EXCEPT !.instruments[c.at].sample_idx = c.value]
    [] c.class \in {"AddRemoveSample", "ReplaceSample"} ->
         [d EXCEPT !.samples[c.at] = c.value]
    [] c.class = "RenameSample" -> [d EXCEPT !.samples[c.at].name = c.value]
    [] c.class = "SetSampleMetadata" ->
         [d EXCEPT !.samples[c.at] = [c.value EXCEPT !.brr = d.samples[c.at].brr]]
    [] c.class = "EditPattern" ->
         IF c.value = Oversized THEN d ELSE [d EXCEPT !.blocks[c.at] = c.value]
    [] c.class = "AddBlock" -> [d EXCEPT !.blocks = InsertBlock(@, c.at, c.value)]
    [] c.class = "RemoveBlock" -> [d EXCEPT !.blocks = EraseBlock(@, c.at)]
    [] c.class = "SwapInstruments" ->
         SwapSlots(d, c, [d EXCEPT
           !.instruments = Swapped(@, c.at[1], c.at[2]),
           !.blocks = SequenceSwapInstruments(@, c.at[1], c.at[2])])
    [] c.class = "SwapSamples" ->
         SwapSlots(d, c, [d EXCEPT
           !.samples = Swapped(@, c.at[1], c.at[2]),
           !.instruments = InstrumentSwapSamples(@, c.at[1], c.at[2])])
    [] c.class = "SwapInstrumentsCached" ->
         SwapSlots(d, c, [d EXCEPT !.instruments = Swapped(@, c.at[1], c.at[2]),
                                   !.blocks = c.value])
    [] c.class = "SwapSamplesCached" ->
         SwapSlots(d, c, [d EXCEPT !.samples = Swapped(@, c.at[1], c.at[2]),
                                   !.instruments = c.value])
    [] OTHER -> d

(* ... and the command.                                                    *)
CmdAfter(c, d) ==
  CASE c.class = "SetTempo" -> [c EXCEPT !.value = d.options.target_tempo]
    [] c.class = "SetBeatsPerMeasure" ->
         [c EXCEPT !.value = d.options.beats_per_measure]
    [] c.class = "SetSequencerOptions" -> [c EXCEPT !.value = d.options]
    [] c.class = "AddRemoveInstrument" -> [c EXCEPT !.value = d.instruments[c.at]]
    [] c.class = "RenameInstrument" -> [c EXCEPT !.value = d.instruments[c.at].name]
    [] c.class = "SetPatch" -> [c EXCEPT !.value = d.instruments[c.at].sample_idx]
    [] c.class \in {"AddRemoveSample", "ReplaceSample"} ->
         [c EXCEPT !.value = d.samples[c.at]]
    [] c.class = "RenameSample" -> [c EXCEPT !.value = d.samples[c.at].name]
    [] c.class = "SetSampleMetadata" ->
         [c EXCEPT !.value = [d.samples[c.at] EXCEPT !.brr = c.value.brr]]
    [] c.class = "EditPattern" ->
         IF c.value = Oversized THEN c ELSE [c EXCEPT !.value = d.blocks[c.at]]
    [] c.class = "AddBlock" -> Command("RemoveBlock", c.at, None)
    [] c.class = "RemoveBlock" -> Command("AddBlock", c.at, d.blocks[c.at])
    [] OTHER -> c

(* The overrides of clone_for_audio() compute the references in advance.   *)
CloneForAudio(c, d) ==
  CASE c.class = "SwapInstruments" ->
         Command("SwapInstrumentsCached", c.at,
                 SequenceSwapInstruments(d.blocks, c.at[1], c.at[2]))
    [] c.class = "SwapSamples" ->
         Command("SwapSamplesCached", c.at,
                 InstrumentSwapSamples(d.instruments, c.at[1], c.at[2]))
    [] OTHER -> c

(* Override::SkipHistory.                                                  *)
SaveInHistory(c) == c.class \notin {"SetPatch", "SetSampleMetadata"}

(* Bug: the path is not compared. *)
CanMergeSameClass(c, prev) ==
  /\ prev.class = c.class
  /\ c.class \in {"SetTempo", "SetBeatsPerMeasure", "RenameInstrument", "RenameSample"}

CanMerge(c, prev) ==
  /\ prev.class = c.class
  /\ \/ c.class \in {"SetTempo", "SetBeatsPerMeasure"}
     \/ c.class \in {"RenameInstrument", "RenameSample"} /\ prev.at = c.at
=============================================================================
