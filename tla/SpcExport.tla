------------------------------ MODULE SpcExport ------------------------------
(***************************************************************************)
(* Exporting a document as an SPC file (spc_export.cpp): samples,          *)
(* instruments and music are compiled to objects in the formats of the     *)
(* AddMusicK driver, and linked (Linker) into the audio RAM of the file.   *)
(*                                                                         *)
(* The music is the code's placeholder: channel c plays one note with      *)
(* instrument c, on beat c.  The envelope, gain and tuning of a patch are  *)
(* blanks, and the texts and constants of the file's header are left out.  *)
(***************************************************************************)
EXTENDS Linker, Spc700Driver

CONSTANTS
  Documents,
  MAX_SAMPLES, MAX_INSTRUMENTS,
  AMK_SAMPLE_MAX, AMK_INSTR_MAX,
  ChannelSymbols,   \* Symbol::Channel0 and so on
  DRIVER_SIZE,
  Note(_)           \* the note that channel c plays

Channels == 0 .. Len(ChannelSymbols) - 1

VARIABLES
  document,
  objects,          \* what has yet to be linked: objects, and Align
  sample_dir_reg,   \* the DSP register with the page of the sample directory
  result            \* ExportSpcResult, or "linking"

vars == <<linkerVars, document, objects, sample_dir_reg, result>>

Bytes(values) == [k \in DOMAIN values |-> Byte(values[k])]

NewObject(symbol, cells) == [symbol |-> symbol, cells |-> cells]

LeadingSize(slots) ==
  LET used == {i \in DOMAIN slots : slots[i] # None}
  IN  IF used = {} THEN 0 ELSE Max(used) + 1

-----------------------------------------------------------------------------
(* compile_samples(): the sample directory, and the bank behind it.        *)

UsedSamples(doc) == 0 .. LeadingSize(doc.samples) - 1

SampleSize(doc, i) == IF doc.samples[i] = None THEN 0 ELSE doc.samples[i].size

SampleBegin(doc, i) ==
  LET size(j) == SampleSize(doc, j) IN MapThenSumSet(size, 0 .. i - 1)

SamplesCompile(doc) ==
  /\ LeadingSize(doc.samples) <= AMK_SAMPLE_MAX + 1
  /\ \A i \in UsedSamples(doc) :
       doc.samples[i] # None => SampleBegin(doc, i) + SampleSize(doc, i) <= ARAM_SIZE - 1

SampleDir(doc) ==
  LET sample(i) == doc.samples[i - 1]
      begin(i) == SampleBegin(doc, i - 1)
  IN  NewObject(None, FlattenSeq(
        [i \in 1 .. LeadingSize(doc.samples) |->
           IF sample(i) = None THEN Pointer("SampleBank", 0) \o Pointer("SampleBank", 0)
           ELSE Pointer("SampleBank", begin(i))
                  \o Pointer("SampleBank", begin(i) + sample(i).loop_byte)]))

SampleBank(doc) ==
  NewObject("SampleBank", FlattenSeq(
    [i \in 1 .. LeadingSize(doc.samples) |->
       [k \in 1 .. SampleSize(doc, i - 1) |-> Byte(doc.samples[i - 1].brr)]]))

-----------------------------------------------------------------------------
(* compile_instrs(): the patches of all instruments, one after the other.  *)

UsedInstruments(doc) == 0 .. LeadingSize(doc.instruments) - 1

Patches(doc, i) == IF doc.instruments[i] = None THEN <<>> ELSE doc.instruments[i]

AmkBegin(doc, i) ==
  LET size(j) == Len(Patches(doc, j)) IN MapThenSumSet(size, 0 .. i - 1)

InstrumentsCompile(doc) ==
  \A i \in UsedInstruments(doc) :
    doc.instruments[i] # None => AmkBegin(doc, i) + Len(Patches(doc, i)) <= AMK_INSTR_MAX

PATCH_SIZE == 6

CompiledPatch(patch) == Bytes(<<patch.sample_idx, 0, 0, 0, 0, 0>>)

CompiledInstruments(doc) ==
  NewObject(None, FlattenSeq(
    [i \in 1 .. LeadingSize(doc.instruments) |->
       FlattenSeq([k \in DOMAIN Patches(doc, i - 1) |->
                     CompiledPatch(Patches(doc, i - 1)[k])])]))

(* Bug: the order of the patches does not matter. *)
AmkInstrumentUnordered(doc, i, note) ==
  LET matching == {k \in DOMAIN Patches(doc, i) : Patches(doc, i)[k].min_note <= note}
  IN  IF matching = {} THEN None ELSE AmkBegin(doc, i) + Max(matching) - 1

(* InstrumentMap::amk_instrument(): a patch that is not higher than those  *)
(* before it is skipped, and the last one that is not above the note wins. *)
AmkInstrument(doc, i, note) ==
  LET patches == Patches(doc, i)
      in_order == {k \in DOMAIN patches :
                     \A j \in 1 .. k - 1 : patches[j].min_note < patches[k].min_note}
      matching == {k \in in_order : patches[k].min_note <= note}
  IN  IF matching = {} THEN None ELSE AmkBegin(doc, i) + Max(matching) - 1

-----------------------------------------------------------------------------
(* compile_music() and compile_frames().                                   *)

REST == 199
INSTRUMENT == 218
END_OF_TRACK == 0

(* The velocity table and tempo, the volume, the note length and the pan.  *)
TrackHeader(c) ==
  (IF c = 0 THEN <<250, 6, 1, 226, 60>> ELSE <<>>)
    \o <<231, 255, 48, 127, 219, IF c * 4 > 16 THEN c * 4 + 4 ELSE c * 4>>

Beat(doc, c, beat) ==
  LET instrument == AmkInstrument(doc, c, Note(c))
  IN  IF beat # c \/ instrument = None THEN <<REST>>
      ELSE <<INSTRUMENT, instrument, Note(c) - 60 + 128 + 36>>

ChannelObject(doc, c) ==
  NewObject(ChannelSymbols[c + 1], Bytes(
    TrackHeader(c) \o FlattenSeq([b \in 1 .. Cardinality(Channels) |-> Beat(doc, c, b - 1)])
      \o <<END_OF_TRACK>>))

(* One pattern, played for ever.                                           *)
Frames ==
  NewObject("Frames", Pointer("Patterns", 0) \o Bytes(<<255, 0>>) \o Pointer("Frames", 0))

PatternTable ==
  NewObject("Patterns", FlattenSeq([k \in DOMAIN ChannelSymbols |->
                                      Pointer(ChannelSymbols[k], 0)]))

-----------------------------------------------------------------------------
(* build_spc().                                                            *)

(* A call of align_address() between the objects.                         *)
Align == [symbol |-> "align"]

Driver == NewObject(None, Bytes([k \in 1 .. DRIVER_SIZE |-> 0]))

Compiled(doc) ==
  <<Driver, Frames, CompiledInstruments(doc), PatternTable>>
    \o [k \in DOMAIN ChannelSymbols |-> ChannelObject(doc, k - 1)]
    \o <<Align, SampleDir(doc), SampleBank(doc)>>

Init ==
  /\ LinkerInit
  /\ document \in Documents
  /\ objects = <<>>
  /\ sample_dir_reg = 0
  /\ result = "none"

(* build_spc() is over; the document is edited before the next export.     *)
Edit ==
  /\ result \in {"ok", "failed"}
  /\ NewLinker
  /\ document' \in Documents
  /\ objects' = <<>>
  /\ sample_dir_reg' = 0
  /\ result' = "none"

(* What cannot be compiled is not linked.                                  *)
Export ==
  /\ result = "none"
  /\ IF SamplesCompile(document) /\ InstrumentsCompile(document)
     THEN objects' = Compiled(document) /\ result' = "linking"
     ELSE objects' = <<>> /\ result' = "failed"
  /\ UNCHANGED <<linkerVars, document, sample_dir_reg>>

Link ==
  /\ objects # <<>>
  /\ Head(objects) # Align
  /\ AddObject(Head(objects))
  /\ objects' = Tail(objects)
  /\ UNCHANGED <<document, sample_dir_reg, result>>

(* An object that cannot be added ends the export; no file is written.     *)
LinkFails ==
  /\ objects # <<>>
  /\ Head(objects) # Align
  /\ ~CanAdd(Head(objects))
  /\ objects' = <<>>
  /\ result' = "failed"
  /\ UNCHANGED <<linkerVars, document, sample_dir_reg>>

AlignSamples ==
  /\ objects # <<>>
  /\ Head(objects) = Align
  /\ AlignAddress
  /\ sample_dir_reg' = (current_address' \div PAGE_SIZE) % (ARAM_SIZE \div PAGE_SIZE)
  /\ objects' = Tail(objects)
  /\ UNCHANGED <<document, result>>

Finalize ==
  /\ result = "linking"
  /\ objects = <<>>
  /\ result' = IF Resolved THEN "ok" ELSE "failed"
  /\ UNCHANGED <<linkerVars, document, objects, sample_dir_reg>>

Next == Edit \/ Export \/ Link \/ LinkFails \/ AlignSamples \/ Finalize

Spec == Init /\ [][Next]_vars

-----------------------------------------------------------------------------
(* What the exported driver finds when it follows the pointers from the    *)
(* frames, which are right behind its code and in front of the patches.    *)
FramesAddress == START_ADDRESS + DRIVER_SIZE
PatchesAddress == FramesAddress + Len(Frames.cells)

BeatAddress(c) ==
  LET patterns == aram[FramesAddress]
      track == aram[patterns + 2 * c]
  IN  track + Len(TrackHeader(c)) + c

ExportedPatch(c) == PatchesAddress + PATCH_SIZE * aram[BeatAddress(c) + 1]

DirEntry(sample) == sample_dir_reg * PAGE_SIZE + 4 * sample

(* The export plays each note as the program itself does (Spc700Driver):   *)
(* not at all if the instrument has no patch for it, or else with the same *)
(* patch's sample, whose directory entry leads to its data and loop point. *)
SampleIsExported(i) ==
  LET begin == aram[DirEntry(i)]
      sample == document.samples[i]
  IN  /\ \A k \in 0 .. sample.size - 1 : aram[begin + k] = sample.brr
      /\ aram[DirEntry(i) + 2] = begin + sample.loop_byte

ExportPlaysSamePatch ==
  result = "ok" =>
    \A c \in Channels :
      LET instrument == document.instruments[c]
          patch == IF instrument = None THEN None ELSE FindPatch(instrument, Note(c))
      IN  IF patch = None THEN aram[BeatAddress(c)] = REST
          ELSE /\ aram[BeatAddress(c)] = INSTRUMENT
               /\ aram[ExportedPatch(c)] = patch.sample_idx
               /\ document.samples[patch.sample_idx] # None =>
                    SampleIsExported(patch.sample_idx)
=============================================================================
