------------------------------- MODULE History -------------------------------
(***************************************************************************)
(* The undo history of the GUI thread (gui/history.cpp), the edits the     *)
(* panels send to it (the factory functions of src/edit/), and the copy of *)
(* each edit that AudioComponent sends to the audio thread.  The queue     *)
(* runs the copies in order (AudioSync!MirrorWhenCaughtUp), so the         *)
(* document the audio thread reaches once it has caught up is kept here.   *)
(***************************************************************************)
EXTENDS EditCommands

CONSTANTS
  InitialDocuments,   \* the documents that are opened
  FileNames,          \* base names of the sample files that are imported
  MaxEdits            \* bound on the edits pushed

ASSUME InitialDocumentsAssumption == InitialDocuments \subseteq Document
ASSUME NamesAssumption == Names # {}
ASSUME FileNamesAssumption == FileNames \subseteq Names
ASSUME MaxEditsAssumption == MaxEdits \in Nat

(* A document that is opened is new, or was read by Serialize, which takes *)
(* an empty sample and makes a loop point outside the data 0               *)
(* (Files!DocumentInRange).                                                *)
LoopInside(sample) == sample.loop_byte < sample.brr \/ sample.loop_byte = 0

ASSUME InitialLoopsAssumption ==
  \A d \in InitialDocuments : \A i \in Slots : SampleAt(d, i) => LoopInside(d.samples[i])

VARIABLES
  document,     \* History::_document
  undo_stack, redo_stack, dirty,
  saved,        \* history: the document last opened or saved
  audio,        \* OverallSynth::_document after every edit sent so far
  edits         \* history: edits pushed

vars == <<document, undo_stack, redo_stack, dirty, saved, audio, edits>>

TypeOK ==
  /\ document \in Document /\ saved \in Document /\ audio \in Document
  /\ dirty \in BOOLEAN
  /\ edits \in 0 .. MaxEdits
  /\ Len(undo_stack) + Len(redo_stack) <= edits

Top(stack) == stack[Len(stack)]

(* Bug: the command is taken from the stack but left on it. *)
NotPopped(stack) == stack

Popped(stack) == SubSeq(stack, 1, Len(stack) - 1)

Init ==
  /\ document \in InitialDocuments
  /\ undo_stack = <<>> /\ redo_stack = <<>>
  /\ dirty = FALSE
  /\ saved = document /\ audio = document
  /\ edits = 0

-----------------------------------------------------------------------------
(* Bug: the copy is made after the edit is applied. *)
SendAfterApply(c) ==
  audio' = DocAfter(CloneForAudio(c, DocAfter(c, document)), audio)

(* The copy is made of the command, and of the document, before the        *)
(* command is applied; the audio thread applies it to its own document.    *)
Send(c) == audio' = DocAfter(CloneForAudio(c, document), audio)

Merges(c) == undo_stack # <<>> /\ CanMerge(c, Top(undo_stack))

(* Bug: the redo stack is kept. *)
PushKeepsRedo(c) ==
  /\ undo_stack' = IF SaveInHistory(c) /\ ~Merges(c)
                   THEN Append(undo_stack, CmdAfter(c, document)) ELSE undo_stack
  /\ redo_stack' = redo_stack

(* History::push() after apply_swap().                                     *)
PushTracked(c) ==
  /\ undo_stack' = IF SaveInHistory(c) /\ ~Merges(c)
                   THEN Append(undo_stack, CmdAfter(c, document)) ELSE undo_stack
  /\ redo_stack' = IF SaveInHistory(c) THEN <<>> ELSE redo_stack

(* AudioComponent::push_edit().                                            *)
PushEdit(c) ==
  /\ edits < MaxEdits
  /\ edits' = edits + 1
  /\ Send(c)
  /\ document' = DocAfter(c, document)
  /\ dirty' = TRUE
  /\ PushTracked(c)
  /\ UNCHANGED saved

Undo ==
  /\ undo_stack # <<>>
  /\ LET c == Top(undo_stack) IN
       /\ Send(c)
       /\ document' = DocAfter(c, document)
       /\ undo_stack' = Popped(undo_stack)
       /\ redo_stack' = Append(redo_stack, CmdAfter(c, document))
  /\ dirty' = TRUE
  /\ UNCHANGED <<saved, edits>>

Redo ==
  /\ redo_stack # <<>>
  /\ LET c == Top(redo_stack) IN
       /\ Send(c)
       /\ document' = DocAfter(c, document)
       /\ redo_stack' = Popped(redo_stack)
       /\ undo_stack' = Append(undo_stack, CmdAfter(c, document))
  /\ dirty' = TRUE
  /\ UNCHANGED <<saved, edits>>

(* save_impl() that succeeds, then mark_saved(); one that fails changes    *)
(* nothing.                                                                *)
Save ==
  /\ saved' = document
  /\ dirty' = FALSE
  /\ UNCHANGED <<document, undo_stack, redo_stack, audio, edits>>

(* open_document(): a new History, and an audio thread restarted with its  *)
(* document.  should_close_document() lets unsaved changes be discarded.   *)
OpenDocument ==
  /\ document' \in InitialDocuments
  /\ undo_stack' = <<>> /\ redo_stack' = <<>>
  /\ dirty' = FALSE
  /\ saved' = document' /\ audio' = document'
  /\ UNCHANGED edits

-----------------------------------------------------------------------------
(* The edits the panels make: tempo and options ...                        *)
EditOptions ==
  \/ \E t \in Tempos : PushEdit(Command("SetTempo", 0, t))
  \/ \E m \in Measures : PushEdit(Command("SetBeatsPerMeasure", 0, m))
  \/ \E o \in SequencerOptions : PushEdit(Command("SetSequencerOptions", 0, o))

(* ... instruments: get_empty_idx() finds the first empty slot from a      *)
(* place the user selects, that is any empty slot ...                      *)
AddInstrument(i, instrument) ==
  /\ ~InstrumentAt(document, i)
  /\ PushEdit(Command("AddRemoveInstrument", i, instrument))

(* new_instrument() always takes the same name.                            *)
NewInstrument == [name |-> CHOOSE n \in Names : TRUE, sample_idx |-> 0]

TryAddInstrument == \E i \in Slots : AddInstrument(i, NewInstrument)

TryCloneInstrument ==
  \E i, old \in Slots :
    /\ InstrumentAt(document, old)
    /\ AddInstrument(i, document.instruments[old])

EditInstrument ==
  \E i \in Slots :
    /\ InstrumentAt(document, i)
    /\ \/ PushEdit(Command("AddRemoveInstrument", i, None))
       \/ \E n \in Names : PushEdit(Command("RenameInstrument", i, n))
       \/ \E s \in Slots : PushEdit(Command("SetPatch", i, s))

SwapInstruments == \E a, b \in Slots : PushEdit(Command("SwapInstruments", <<a, b>>, None))

(* ... samples ...                                                         *)
AddSample(i, sample) ==
  /\ ~SampleAt(document, i)
  /\ PushEdit(Command("AddRemoveSample", i, sample))

(* Bug: the loop point is not compared with the data. *)
KeptLoop(loop, brr) == loop

(* A loop point outside the data becomes 0.                                *)
LoopFor(loop, brr) == IF loop < brr THEN loop ELSE 0

(* import_sample(), over the selected slot, empty or not, or into an empty *)
(* one.  The file may have a header with a loop point, whatever it is;     *)
(* without one the loop point of the sample that is replaced is kept.      *)
LoadSample ==
  \E i \in Slots, n \in FileNames, brr \in 1 .. MaxBrr, header \in (0 .. MaxBrr) \cup {None} :
    LET old == document.samples[i]
        loop == IF header # None THEN header
                ELSE IF old # None THEN old.loop_byte ELSE 0
        sample == [name |-> n, brr |-> brr, loop_byte |-> LoopFor(loop, brr)]
    IN  AddSample(i, sample) \/ PushEdit(Command("ReplaceSample", i, sample))

TryCloneSample ==
  \E i, old \in Slots :
    /\ SampleAt(document, old)
    /\ AddSample(i, document.samples[old])

(* The spin box of the loop point ends at the last block of the sample, or *)
(* at 0.                                                                   *)
SetLoopByte(i) ==
  \E loop \in {0} \cup 0 .. document.samples[i].brr - 1 :
    PushEdit(Command("SetSampleMetadata", i,
      [document.samples[i] EXCEPT !.brr = 0, !.loop_byte = loop]))

EditSample ==
  \E i \in Slots :
    /\ SampleAt(document, i)
    /\ \/ PushEdit(Command("AddRemoveSample", i, None))
       \/ \E n \in Names : PushEdit(Command("RenameSample", i, n))
       \/ SetLoopByte(i)

SwapSamples == \E a, b \in Slots : PushEdit(Command("SwapSamples", <<a, b>>, None))

(* ... and patterns; an edit may also only remember the cursor.            *)
EditPattern ==
  \/ PushEdit(Command("Null", 0, None))
  \/ \E k \in DOMAIN document.blocks, p \in Patterns :
       PushEdit(Command("EditPattern", k, p))
  \/ /\ Len(document.blocks) < MaxBlocks
     /\ \E k \in 1 .. Len(document.blocks) + 1, p \in Slots :
          PushEdit(Command("AddBlock", k, p))

Edit ==
  \/ EditOptions \/ EditPattern
  \/ TryAddInstrument \/ TryCloneInstrument \/ EditInstrument \/ SwapInstruments
  \/ LoadSample \/ TryCloneSample \/ EditSample \/ SwapSamples

Next == Edit \/ Undo \/ Redo \/ Save \/ OpenDocument

Spec == Init /\ [][Next]_vars

-----------------------------------------------------------------------------
TopApplies(stack) ==
  stack # <<>> =>
    /\ Applicable(Top(stack), document)
    /\ Applicable(CloneForAudio(Top(stack), document), audio)

(* Whatever was edited, undone, redone or changed without history since,   *)
(* the next undo and the next redo meet the release_assert()s of           *)
(* apply_swap() and stay inside its vectors, in both threads.              *)
EditsApply == TopApplies(undo_stack) /\ TopApplies(redo_stack)

(* The audio thread's document becomes the GUI's: the precomputed copies   *)
(* of the swaps do there what the swaps do here, also when undone.         *)
AudioMatches == audio = document

(* is_dirty() is false only for a document that is the one on disk: this   *)
(* is what lets should_close_document() drop it without a question.        *)
CleanMeansSaved == ~dirty => document = saved

(* edit_common.h asks undo followed by redo to be a no-op, also when       *)
(* untracked edits came after the command undone.                          *)
UndoRedoIsNoop ==
  undo_stack # <<>> =>
    LET c == Top(undo_stack)
        r == CmdAfter(c, document)
    IN  /\ DocAfter(r, DocAfter(c, document)) = document
        /\ CmdAfter(r, DocAfter(c, document)) = c

(* A sample with data loops inside it, as Spc700Driver::reload_samples()   *)
(* asserts: imports that keep a loop point, and undo and redo that bring   *)
(* loop points and data back together, leave none outside.                 *)
LoopsInsideSamples ==
  \A i \in Slots : SampleAt(document, i) => LoopInside(document.samples[i])
=============================================================================
