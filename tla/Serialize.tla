------------------------------ MODULE Serialize ------------------------------
(***************************************************************************)
(* Saving a document in a file and loading one (serialize.cpp), with the   *)
(* checks of doc/validate.cpp that make what is loaded fit for use.        *)
(*                                                                         *)
(* A document has a slot for each sample and instrument and a column for   *)
(* each effect; a file has lists, which another program may have written   *)
(* with any length and any values.  Slots and columns are counted from 1.  *)
(* Names, detunes, a patch's sample and an event's note, instrument and    *)
(* volume are carried over unchanged and left out; so are the warnings.    *)
(* Of the parameters of a patch's envelope the attack stands for all four. *)
(***************************************************************************)
EXTENDS Integers, SequencesExt, FiniteSetsExt, Optional

CONSTANTS
  Unrecognized, Corrupt,   \* files that are not modules, and damaged ones
  OptionRange,             \* the least and greatest value of each sequencer option
  CHROMATIC_COUNT, MAX_TUNING_FREQ, EqualTemperament,
  MAX_SAMPLE_RATE, DEFAULT_SAMPLE_RATE, DEFAULT_ROOT_KEY,
  MAX_ATTACK_RATE,
  MAX_SAMPLES, MAX_INSTRUMENTS, MAX_KEYSPLITS,
  MAX_NCHIP, NChan,        \* NChan: the channels of an SPC700
  MAX_EFFECTS_PER_EVENT, MAX_EVENTS_PER_PATTERN, MAX_BLOCKS_PER_TRACK,
  MAX_TICK

-----------------------------------------------------------------------------
(* What a file can hold (serialize/document.capnp).                        *)

Samples == [brr_size : Nat, loop_byte : Nat, sample_rate : Nat, root_key : Nat]
Patches == [min_note : Nat, attack_rate : Nat]
Effects == [name : Nat \X Nat, value : Nat]
FileEvents == [anchor_tick : Int, effects : Seq(Effects)]
Blocks(patterns) ==
  [begin_tick : Int, loop_count : Nat, length_ticks : Int, events : patterns]
FileTracks == [n_effect_col : Nat, blocks : Seq(Blocks(Seq(FileEvents)))]

FileModules ==
  [options : [DOMAIN OptionRange -> Int], frequency_table : Seq(Int),
   accidental_mode : {"Sharp", "Flat", "Unknown"}, effect_name_chars : Nat,
   samples : Seq(Samples \cup {None}), instruments : Seq(Seq(Patches) \cup {None}),
   chips : Seq({"SPC700", "Unknown"}), sequence : Seq(Seq(FileTracks)), ticks_per_row : Int]

NoName == <<0, 0>>

(* What a document holds: the types of doc.h, and the ranges its readers   *)
(* count on.                                                               *)
Among(slots, values) == [1 .. slots -> values \cup {None}]
UpTo(max, values) == {list \in Seq(values) : Len(list) <= max}

LoopInside(sample) == sample.loop_byte < sample.brr_size \/ sample.loop_byte = 0

DocSamples ==
  {s \in Samples : /\ s.sample_rate <= MAX_SAMPLE_RATE
                   /\ s.root_key < CHROMATIC_COUNT
                   /\ LoopInside(s)}
DocPatches ==
  {p \in Patches : p.min_note < CHROMATIC_COUNT /\ p.attack_rate <= MAX_ATTACK_RATE}
DocEffects == {e \in Effects : e.name # NoName}
DocEvents ==
  {e \in [anchor_tick : Int, effects : Among(MAX_EFFECTS_PER_EVENT, DocEffects)] :
     e.anchor_tick <= MAX_TICK}

Sorted(events) ==
  \A i, j \in DOMAIN events : i < j => events[i].anchor_tick <= events[j].anchor_tick

DocPatterns == {events \in UpTo(MAX_EVENTS_PER_PATTERN, DocEvents) : Sorted(events)}
DocTracks ==
  [n_effect_col : 1 .. MAX_EFFECTS_PER_EVENT,
   blocks : UpTo(MAX_BLOCKS_PER_TRACK, Blocks(DocPatterns))]

DocOptions ==
  {options \in [DOMAIN OptionRange -> Int] :
     \A f \in DOMAIN OptionRange : options[f] \in OptionRange[f].min .. OptionRange[f].max}

DocSequences == Seq({tracks \in Seq(DocTracks) : Len(tracks) = NChan})

Documents ==
  {d \in [options : DocOptions,
          frequency_table : [1 .. CHROMATIC_COUNT -> 0 .. MAX_TUNING_FREQ],
          accidental_mode : {"Sharp", "Flat"}, effect_name_chars : {1, 2},
          samples : Among(MAX_SAMPLES, DocSamples),
          instruments : Among(MAX_INSTRUMENTS, UpTo(MAX_KEYSPLITS, DocPatches)),
          chips : UpTo(MAX_NCHIP, {"SPC700"}), sequence : DocSequences] :
     Len(d.chips) > 0 /\ Len(d.sequence) = Len(d.chips)}

ASSUME LimitsAssumption ==
  /\ {MAX_TUNING_FREQ, MAX_SAMPLE_RATE, MAX_ATTACK_RATE, MAX_SAMPLES, MAX_INSTRUMENTS,
      MAX_NCHIP, MAX_EVENTS_PER_PATTERN, MAX_BLOCKS_PER_TRACK, MAX_TICK} \subseteq Nat
  /\ {CHROMATIC_COUNT, MAX_KEYSPLITS, NChan, MAX_EFFECTS_PER_EVENT} \subseteq Nat \ {0}

ASSUME RangesAssumption ==
  \A f \in DOMAIN OptionRange :
    OptionRange[f].min \in Int /\ OptionRange[f].max \in Int
      /\ OptionRange[f].min <= OptionRange[f].max

ASSUME DefaultsAssumption ==
  /\ EqualTemperament \in [1 .. CHROMATIC_COUNT -> 0 .. MAX_TUNING_FREQ]
  /\ DEFAULT_SAMPLE_RATE \in 0 .. MAX_SAMPLE_RATE
  /\ DEFAULT_ROOT_KEY \in 0 .. CHROMATIC_COUNT - 1

ASSUME NoneAssumption ==
  /\ {None, Unrecognized, Corrupt} \cap FileModules = {}
  /\ None \notin Samples \cup Seq(Patches) \cup Effects

-----------------------------------------------------------------------------
(* Saving.                                                                 *)

(* The list of a row of slots, up to the last one in use (leading_size()). *)
SavedSlots(slots) ==
  LET used == {i \in DOMAIN slots : slots[i] # None}
  IN  [i \in 1 .. (IF used = {} THEN 0 ELSE Max(used)) |-> slots[i]]

SavedEffect(effect) ==
  IF effect = None THEN [name |-> NoName, value |-> 0] ELSE effect

(* Bug: the list ends at the first empty column. *)
SavedEventGapless(event) ==
  LET empty == {i \in DOMAIN event.effects : event.effects[i] = None}
  IN  [event EXCEPT !.effects =
         IF empty = {} THEN @ ELSE SubSeq(@, 1, Min(empty) - 1)]

SavedEvent(event) ==
  LET effects == SavedSlots(event.effects)
  IN  [event EXCEPT !.effects = [i \in DOMAIN effects |-> SavedEffect(effects[i])]]

SavedTrack(track) ==
  [track EXCEPT !.blocks =
     [b \in DOMAIN track.blocks |->
        [track.blocks[b] EXCEPT !.events =
           [e \in DOMAIN @ |-> SavedEvent(@[e])]]]]

(* serialize_impl().                                                       *)
Saved(doc, ticks_per_row) ==
  [options |-> doc.options, frequency_table |-> doc.frequency_table,
   accidental_mode |-> doc.accidental_mode, effect_name_chars |-> doc.effect_name_chars,
   samples |-> SavedSlots(doc.samples), instruments |-> SavedSlots(doc.instruments),
   chips |-> doc.chips,
   sequence |-> [chip \in DOMAIN doc.sequence |->
                   [chan \in DOMAIN doc.sequence[chip] |->
                      SavedTrack(doc.sequence[chip][chan])]],
   ticks_per_row |-> ticks_per_row]

-----------------------------------------------------------------------------
(* Loading, with the values that are out of range replaced.                *)

(* CLAMP_WARN; a NaN counts as too low.                                    *)
Clamped(v, range) == Max({range.min, Min({v, range.max})})

(* CLAMP_UNSIGNED_DEFAULT.                                                 *)
Defaulted(v, max, default) == IF v <= max THEN v ELSE default

Truncated(list, max) == SubSeq(list, 1, Min({Len(list), max}))

(* The slots of a row that a list fills: what is past the row is left.     *)
FilledSlots(list, max) == {i \in 1 .. max : i \in DOMAIN list /\ list[i] # None}

LoadedOptions(options) ==
  [f \in DOMAIN OptionRange |-> Clamped(options[f], OptionRange[f])]

LoadedFrequencyTable(table) ==
  [i \in 1 .. CHROMATIC_COUNT |->
     IF i <= Len(table) /\ table[i] \in 0 .. MAX_TUNING_FREQ THEN table[i]
     ELSE EqualTemperament[i]]

(* Bug: the loop point of a file is trusted. *)
LoadedSampleUnchecked(sample) ==
  [sample EXCEPT !.sample_rate = Defaulted(@, MAX_SAMPLE_RATE, DEFAULT_SAMPLE_RATE),
                 !.root_key = Defaulted(@, CHROMATIC_COUNT - 1, DEFAULT_ROOT_KEY)]

LoadedSample(sample) ==
  [sample EXCEPT !.sample_rate = Defaulted(@, MAX_SAMPLE_RATE, DEFAULT_SAMPLE_RATE),
                 !.root_key = Defaulted(@, CHROMATIC_COUNT - 1, DEFAULT_ROOT_KEY),
                 !.loop_byte = IF @ >= sample.brr_size THEN 0 ELSE @]

LoadedSamples(list) ==
  [i \in 1 .. MAX_SAMPLES |->
     IF i \in FilledSlots(list, MAX_SAMPLES) THEN LoadedSample(list[i]) ELSE None]

LoadedPatch(patch) ==
  [patch EXCEPT !.min_note = Defaulted(@, CHROMATIC_COUNT - 1, 0),
                !.attack_rate = Defaulted(@, MAX_ATTACK_RATE, MAX_ATTACK_RATE)]

LoadedKeysplit(keysplit) ==
  LET patches == Truncated(keysplit, MAX_KEYSPLITS)
  IN  [k \in DOMAIN patches |-> LoadedPatch(patches[k])]

LoadedInstruments(list) ==
  [i \in 1 .. MAX_INSTRUMENTS |->
     IF i \in FilledSlots(list, MAX_INSTRUMENTS) THEN LoadedKeysplit(list[i]) ELSE None]

(* validate_effect() only warns.                                           *)
LoadedEffect(effect) == IF effect.name = NoName THEN None ELSE effect

LoadedEvent(event) ==
  [event EXCEPT !.anchor_tick = Min({@, MAX_TICK}),
                !.effects =
                  [i \in 1 .. MAX_EFFECTS_PER_EVENT |->
                     IF i \in DOMAIN @ THEN LoadedEffect(@[i]) ELSE None]]

(* The stable sort of validate_events(), which leaves events in order as   *)
(* they are.                                                               *)
InOrder(events) ==
  LET Before(i, j) ==
        \/ events[i].anchor_tick < events[j].anchor_tick
        \/ events[i].anchor_tick = events[j].anchor_tick /\ i < j
      Rank(i) == Cardinality({j \in DOMAIN events : Before(j, i)}) + 1
  IN  [k \in DOMAIN events |-> events[CHOOSE i \in DOMAIN events : Rank(i) = k]]

LoadedBlock(block) ==
  LET events == Truncated(block.events, MAX_EVENTS_PER_PATTERN)
  IN  [block EXCEPT !.events = InOrder([e \in DOMAIN events |-> LoadedEvent(events[e])])]

(* validate_pattern() and validate_track_block(); a block that starts      *)
(* anywhere after MAX_TICK ends there too.                                 *)
BlockFits(block) ==
  /\ block.length_ticks \in 0 .. MAX_TICK
  /\ block.loop_count <= MAX_TICK
  /\ block.begin_tick >= 0
  /\ block.begin_tick + block.loop_count * block.length_ticks <= MAX_TICK

LoadedTrack(track) ==
  LET blocks == Truncated(track.blocks, MAX_BLOCKS_PER_TRACK)
  IN  [blocks |-> [b \in DOMAIN blocks |-> LoadedBlock(blocks[b])],
       n_effect_col |-> Clamped(track.n_effect_col,
                                [min |-> 1, max |-> MAX_EFFECTS_PER_EVENT])]

ChipsFit(chips) ==
  /\ Len(chips) \in 1 .. MAX_NCHIP
  /\ \A i \in DOMAIN chips : chips[i] = "SPC700"

(* Every chip has tracks for its channels, and every block that is kept    *)
(* fits on the timeline: if not, the file is refused.                      *)
SequenceFits(sequence, chips) ==
  /\ Len(sequence) = Len(chips)
  /\ \A i \in DOMAIN sequence :
       /\ Len(sequence[i]) = NChan
       /\ \A chan \in DOMAIN sequence[i] :
            \A b \in DOMAIN sequence[i][chan].blocks :
              b <= MAX_BLOCKS_PER_TRACK => BlockFits(sequence[i][chan].blocks[b])

LoadedDocument(file) ==
  [options |-> LoadedOptions(file.options),
   frequency_table |-> LoadedFrequencyTable(file.frequency_table),
   accidental_mode |->
     IF file.accidental_mode \in {"Sharp", "Flat"} THEN file.accidental_mode ELSE "Sharp",
   effect_name_chars |->
     IF file.effect_name_chars \in {1, 2} THEN file.effect_name_chars ELSE 1,
   samples |-> LoadedSamples(file.samples),
   instruments |-> LoadedInstruments(file.instruments),
   chips |-> file.chips,
   sequence |-> [chip \in DOMAIN file.sequence |->
                   [chan \in DOMAIN file.sequence[chip] |->
                      LoadedTrack(file.sequence[chip][chan])]]]

(* There is a module in the file, and it is not refused.                   *)
Loads(file) ==
  /\ file \notin {None, Unrecognized, Corrupt}
  /\ ChipsFit(file.chips)
  /\ SequenceFits(file.sequence, file.chips)

(* load_from_path(): the document and the metadata, or None.               *)
Loaded(file) ==
  IF Loads(file)
  THEN [document |-> LoadedDocument(file), ticks_per_row |-> file.ticks_per_row]
  ELSE None
=============================================================================
