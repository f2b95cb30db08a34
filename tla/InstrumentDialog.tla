--------------------------- MODULE InstrumentDialog ---------------------------
(***************************************************************************)
(* The panels that follow the document's instruments and samples: the      *)
(* instrument list (gui/instrument_list.cpp), the instrument dialog        *)
(* (gui/instrument_dialog.cpp) and the sample dialog                       *)
(* (gui/sample_dialog.cpp), and the end of a StateTransaction              *)
(* (gui/main_window.cpp), which reloads them.                              *)
(*                                                                         *)
(* Rows are counted from 1 in the patch list and from 0 elsewhere.         *)
(***************************************************************************)
EXTENDS EditInstr, AdsrGraph, FiniteSetsExt

CONSTANTS
  MAX_INSTRUMENTS, MAX_SAMPLES,
  Notes,          \* the notes the spin box is set to
  Adsrs,          \* the envelopes the sliders can be set to
  EndTimes,       \* the right edges of the graph, at any size and zoom
  Documents,      \* the documents that are opened
  MaxEdits        \* bound on the edits pushed

ASSUME SlotsAssumption ==
  MAX_INSTRUMENTS \in Nat \ {0} /\ MAX_SAMPLES \in Nat \ {0}

ASSUME AdsrsAssumption == DEFAULT_ADSR \in Adsrs /\ Adsrs \subseteq Adsr

InstrumentSlots == 0 .. MAX_INSTRUMENTS - 1
SampleSlots == 0 .. MAX_SAMPLES - 1

(* Documents as far as the panels see them.                                *)
Patches == [min_note : Nat, sample_idx : SampleSlots, adsr : Adsrs]
Keysplits == Seq(Patches)
DocumentStates ==
  [instruments : [InstrumentSlots -> Keysplits \cup {None}], samples : SUBSET SampleSlots]

ASSUME DocumentsAssumption == Documents \subseteq DocumentStates /\ Notes \subseteq Nat

(* An open instrument dialog, and an open sample dialog.                   *)
PatchView == [min_note : Nat, sample_idx : SampleSlots, adsr : Adsr]
Dialogs ==
  [curr_patch : Nat \ {0}, keysplit_size : Nat, prev_sample : SampleSlots \cup {None},
   patch : PatchView, visible : SUBSET SampleSlots]
SampleDialogs == [curr_sample : SampleSlots, show_empty : BOOLEAN]

ASSUME NoneAssumption ==
  None \notin Nat \cup Keysplits \cup Dialogs \cup SampleDialogs

VARIABLES
  document,         \* instruments: keysplits or None; samples: the ones present
  undo_stack, redo_stack,
  instrument,       \* StateComponent::_instrument
  show_empty,       \* _show_empty_slots of the instrument list
  dialog,           \* _maybe_instr_dialog, or None
  sample_dialog,    \* _maybe_sample_dialog, or None
  edits             \* history: edits pushed

vars == <<document, undo_stack, redo_stack, instrument, show_empty, dialog,
          sample_dialog, edits>>

panels == [instr |-> dialog, sample |-> sample_dialog]

Keysplit == document.instruments[instrument]

-----------------------------------------------------------------------------
(* Reloading the panels; doc and instr are the document and the instrument *)
(* a transaction leaves.                                                   *)

(* size_t(-1), the current row of a list with no selection.                *)
NoRow == MAX_KEYSPLITS + 1

BlankPatch ==
  [NewPatch EXCEPT !.adsr = [field \in DOMAIN DEFAULT_ADSR |-> 0]]

CurrSample(keysplit, row) ==
  IF row > Len(keysplit) THEN None ELSE keysplit[row].sample_idx

UpdateSampleDialog(p, sample) ==
  [instr |-> [p.instr EXCEPT !.prev_sample = sample],
   sample |-> IF None \in {p.sample, sample} THEN p.sample
              ELSE [p.sample EXCEPT !.curr_sample = sample]]

(* Bug: the selected row is kept when the list gets shorter. *)
ReloadKeysplitUnclamped(keysplit, p, move) ==
  LET row == IF move = None THEN p.instr.curr_patch ELSE move
      sample == CurrSample(keysplit, row)
      moved == [p EXCEPT !.instr.curr_patch = row, !.instr.keysplit_size = Len(keysplit)]
  IN  IF move # None \/ row # p.instr.curr_patch \/ sample # p.instr.prev_sample
      THEN UpdateSampleDialog(moved, sample) ELSE moved

(* Bug: only a patch that is moved to is shown in the sample dialog. *)
ReloadKeysplitQuietly(keysplit, p, move) ==
  LET wanted == IF move = None THEN p.instr.curr_patch ELSE move
      row == IF keysplit = <<>> THEN NoRow ELSE Min({wanted, Len(keysplit)})
      sample == CurrSample(keysplit, row)
      moved == [p EXCEPT !.instr.curr_patch = row, !.instr.keysplit_size = Len(keysplit),
                         !.instr.prev_sample = sample]
  IN  IF move # None THEN UpdateSampleDialog(moved, sample) ELSE moved

ReloadKeysplit(keysplit, p, move) ==
  LET wanted == IF move = None THEN p.instr.curr_patch ELSE move
      row == IF keysplit = <<>> THEN NoRow ELSE Min({wanted, Len(keysplit)})
      sample == CurrSample(keysplit, row)
      moved == [p EXCEPT !.instr.curr_patch = row, !.instr.keysplit_size = Len(keysplit)]
  IN  IF move # None \/ row # p.instr.curr_patch \/ sample # p.instr.prev_sample
      THEN UpdateSampleDialog(moved, sample) ELSE moved

(* What the right half of the dialog shows, and the samples the combo box  *)
(* offers.                                                                 *)
ReloadCurrentPatch(doc, keysplit, p) ==
  LET row == p.instr.curr_patch
      patch == IF row > Len(keysplit) THEN BlankPatch ELSE keysplit[row]
  IN  [p EXCEPT !.instr.patch = patch,
                !.instr.visible = doc.samples \cup {patch.sample_idx}]

ReloadInstrDialog(doc, instr, p, switched) ==
  LET keysplit == doc.instruments[instr]
  IN  IF p.instr = None THEN p
      ELSE IF keysplit = None THEN [p EXCEPT !.instr = None]
      ELSE ReloadCurrentPatch(doc, keysplit,
             ReloadKeysplit(keysplit, p, IF switched THEN 1 ELSE None))

(* SampleDialog::reload_state(); None: show the same sample.               *)
ReloadSampleDialog(p, sample) ==
  IF None \in {p.sample, sample} THEN p
  ELSE [p EXCEPT !.sample.curr_sample = sample]

(* ~StateTransaction() for a transaction that edits the document.          *)
Commit(doc, instr, p, switched, sample) ==
  LET reloaded == ReloadSampleDialog(ReloadInstrDialog(doc, instr, p, switched), sample)
  IN  /\ document' = doc
      /\ instrument' = instr
      /\ dialog' = reloaded.instr
      /\ sample_dialog' = reloaded.sample

(* One that only calls set_instrument().                                   *)
SwitchInstrument(instr) ==
  /\ Commit(document, instr, panels, TRUE, None)
  /\ UNCHANGED <<undo_stack, redo_stack, edits, show_empty>>

-----------------------------------------------------------------------------
(* Commands, and the history they are kept in.                             *)

Renamed(i, a, b) == IF i = a THEN b ELSE IF i = b THEN a ELSE i

SwapSamples(doc, a, b) ==
  [instruments |->
     [i \in InstrumentSlots |->
        IF doc.instruments[i] = None THEN None
        ELSE [k \in DOMAIN doc.instruments[i] |->
                [doc.instruments[i][k] EXCEPT !.sample_idx = Renamed(@, a, b)]]],
   samples |-> {Renamed(s, a, b) : s \in doc.samples}]

SwapInstruments(doc, a, b) ==
  [doc EXCEPT !.instruments[a] = doc.instruments[b],
              !.instruments[b] = doc.instruments[a]]

(* apply_swap(): the document it leaves, and the command that undoes it.   *)
Applied(c, doc) ==
  CASE c.kind = "instrument" -> [doc EXCEPT !.instruments[c.index] = c.value]
    [] c.kind = "sample" ->
         [doc EXCEPT !.samples = IF c.value THEN @ \cup {c.index} ELSE @ \ {c.index}]
    [] c.kind = "swap_instruments" -> SwapInstruments(doc, c.index, c.value)
    [] c.kind = "swap_samples" -> SwapSamples(doc, c.index, c.value)
    [] c.kind = "other" -> doc

Undoing(c, doc) ==
  CASE c.kind = "instrument" -> [c EXCEPT !.value = doc.instruments[c.index]]
    [] c.kind = "sample" -> [c EXCEPT !.value = c.index \in doc.samples]
    [] OTHER -> c

Command(kind, index, value) == [kind |-> kind, index |-> index, value |-> value]

(* push_edit() of a command that is saved in the history.                  *)
Push(c) ==
  /\ edits < MaxEdits
  /\ edits' = edits + 1
  /\ undo_stack' = Append(undo_stack, Undoing(c, document))
  /\ redo_stack' = <<>>

PushAndCommit(c, instr, p, switched, sample) ==
  /\ Push(c)
  /\ Commit(Applied(c, document), instr, p, switched, sample)

Undo ==
  /\ undo_stack # <<>>
  /\ LET c == Last(undo_stack) IN
       /\ undo_stack' = Front(undo_stack)
       /\ redo_stack' = Append(redo_stack, Undoing(c, document))
       /\ Commit(Applied(c, document), instrument, panels, FALSE, None)
  /\ UNCHANGED <<show_empty, edits>>

Redo ==
  /\ redo_stack # <<>>
  /\ LET c == Last(redo_stack) IN
       /\ redo_stack' = Front(redo_stack)
       /\ undo_stack' = Append(undo_stack, Undoing(c, document))
       /\ Commit(Applied(c, document), instrument, panels, FALSE, None)
  /\ UNCHANGED <<show_empty, edits>>

(* A rename, or an edit of something these panels do not show.             *)
OtherEdit ==
  /\ PushAndCommit(Command("other", 0, 0), instrument, panels, FALSE, None)
  /\ UNCHANGED show_empty

(* update_all() sets the flags that close both dialogs.                    *)
OpenDocument ==
  /\ document' \in Documents
  /\ instrument' = 0
  /\ undo_stack' = <<>> /\ redo_stack' = <<>>
  /\ dialog' = None /\ sample_dialog' = None
  /\ UNCHANGED <<show_empty, edits>>

-----------------------------------------------------------------------------
(* The instrument dialog.  The keysplit edits are not saved in the history.*)

(* The edit is applied, some handlers reload the list and move to a row    *)
(* themselves, and the transaction ends.                                   *)
EditKeysplit(keysplit, move) ==
  LET doc == [document EXCEPT !.instruments[instrument] = keysplit]
  IN  /\ edits < MaxEdits
      /\ edits' = edits + 1
      /\ Commit(doc, instrument,
           IF move = None THEN panels ELSE ReloadKeysplit(keysplit, panels, move),
           FALSE, None)
      /\ UNCHANGED <<undo_stack, redo_stack, show_empty>>

(* The buttons that edit a patch are disabled when none is selected.       *)
PatchSelected == dialog # None /\ dialog.curr_patch <= Len(Keysplit)

AddPatch ==
  /\ dialog # None
  /\ LET row == dialog.keysplit_size + 1
         keysplit == TryAddPatch(Keysplit, row)
     IN  keysplit # None /\ EditKeysplit(keysplit, row)

RemovePatch ==
  /\ PatchSelected
  /\ LET keysplit == TryRemovePatch(Keysplit, dialog.curr_patch)
     IN  keysplit # None /\ EditKeysplit(keysplit, None)

MovePatchUp ==
  /\ PatchSelected
  /\ LET keysplit == TryMovePatchUp(Keysplit, dialog.curr_patch)
     IN  keysplit # None /\ EditKeysplit(keysplit, dialog.curr_patch - 1)

MovePatchDown ==
  /\ PatchSelected
  /\ LET keysplit == TryMovePatchDown(Keysplit, dialog.curr_patch)
     IN  keysplit # None /\ EditKeysplit(keysplit, dialog.curr_patch + 1)

(* A spin box reports a value that differs from the one it shows.          *)
OnSetMinKey ==
  /\ PatchSelected
  /\ \E note \in Notes \ {dialog.patch.min_note} :
       LET edit == SetMinKey(Keysplit, dialog.curr_patch, note)
       IN  EditKeysplit(edit.keysplit, edit.patch)

(* widget_changed(): the combo box of samples.                             *)
OnSetSample ==
  /\ PatchSelected
  /\ \E sample \in dialog.visible \ {dialog.patch.sample_idx} :
       EditKeysplit(SetSampleIdx(Keysplit, dialog.curr_patch, sample), None)

(* The same for the slider and the spin box of each field of the envelope. *)
OnSetAdsr ==
  /\ PatchSelected
  /\ \E adsr \in Adsrs, field \in DOMAIN DEFAULT_ADSR :
       /\ adsr[field] # dialog.patch.adsr[field]
       /\ adsr = [dialog.patch.adsr EXCEPT ![field] = adsr[field]]
       /\ EditKeysplit(SetAdsrField(Keysplit, dialog.curr_patch, field, adsr[field]), None)

(* A list with no patches has a row that says so.                          *)
OnPatchChanged ==
  /\ dialog # None
  /\ \E row \in 1 .. Max({1, Len(Keysplit)}) \ {dialog.curr_patch} :
       LET p == ReloadCurrentPatch(document, Keysplit,
                  UpdateSampleDialog([panels EXCEPT !.instr.curr_patch = row],
                                     CurrSample(Keysplit, row)))
       IN  dialog' = p.instr /\ sample_dialog' = p.sample
  /\ UNCHANGED <<document, undo_stack, redo_stack, instrument, show_empty, edits>>

NewDialog ==
  [curr_patch |-> 1, keysplit_size |-> 0, prev_sample |-> None,
   patch |-> BlankPatch, visible |-> {}]

ShowInstrDialog ==
  /\ dialog = None
  /\ Keysplit # None
  /\ Commit(document, instrument, [panels EXCEPT !.instr = NewDialog], TRUE, None)
  /\ UNCHANGED <<undo_stack, redo_stack, show_empty, edits>>

CloseInstrDialog ==
  /\ dialog # None
  /\ dialog' = None
  /\ UNCHANGED <<document, undo_stack, redo_stack, instrument, show_empty,
                 sample_dialog, edits>>

-----------------------------------------------------------------------------
(* The instrument list.                                                    *)

(* get_empty_idx(), and the slot try_remove_...() moves to, in a list of   *)
(* which the slots "filled" are in use.                                    *)
EmptySlots(slots, filled, begin) == {i \in slots \ filled : i >= begin}

NextFilled(filled, i) ==
  LET after == {j \in filled : j > i}
      before == {j \in filled : j < i}
  IN  IF after # {} THEN Min(after) ELSE IF before # {} THEN Max(before) ELSE i

FilledInstruments == {i \in InstrumentSlots : document.instruments[i] # None}

(* on_add() and on_clone().                                                *)
AddInstrument ==
  LET empty == EmptySlots(InstrumentSlots, FilledInstruments,
                          IF show_empty THEN instrument ELSE 0)
  IN  /\ empty # {}
      /\ \E keysplit \in {<<NewPatch>>, Keysplit} \ {None} :
           PushAndCommit(Command("instrument", Min(empty), keysplit), Min(empty),
                         panels, TRUE, None)
      /\ UNCHANGED show_empty

(* instrument_deleted() closes the dialog whatever else happens.           *)
RemoveInstrument ==
  /\ Keysplit # None
  /\ PushAndCommit(Command("instrument", instrument, None),
       IF show_empty THEN instrument ELSE NextFilled(FilledInstruments, instrument),
       [panels EXCEPT !.instr = None], FALSE, None)
  /\ UNCHANGED show_empty

VisibleInstruments == IF show_empty THEN InstrumentSlots ELSE FilledInstruments

(* on_selection_changed().                                                 *)
SelectInstrument ==
  \E i \in VisibleInstruments \ {instrument} : SwitchInstrument(i)

(* dropMimeData(): the dragged instrument stays the current one.           *)
DropInstrument ==
  /\ \E drag, replace \in VisibleInstruments :
       /\ drag # replace
       /\ PushAndCommit(Command("swap_instruments", drag, replace), replace,
                        panels, TRUE, None)
  /\ UNCHANGED show_empty

OnShowEmpty ==
  /\ show_empty' = ~show_empty
  /\ UNCHANGED <<document, undo_stack, redo_stack, instrument, dialog,
                 sample_dialog, edits>>

(* A digit typed in an instrument column of the pattern editor.            *)
TypeInstrument ==
  /\ \E i \in InstrumentSlots :
       PushAndCommit(Command("other", 0, 0), i, panels, TRUE, None)
  /\ UNCHANGED show_empty

-----------------------------------------------------------------------------
(* The sample dialog.                                                      *)

(* From the menu with no sample, from the instrument dialog with its own.  *)
ShowSampleDialog ==
  /\ \E sample \in {None} \cup (IF dialog = None THEN {}
                                ELSE {CurrSample(Keysplit, dialog.curr_patch)}) :
       sample_dialog' =
         IF sample_dialog = None
         THEN [curr_sample |-> IF sample = None THEN 0 ELSE sample, show_empty |-> FALSE]
         ELSE ReloadSampleDialog(panels, sample).sample
  /\ UNCHANGED <<document, undo_stack, redo_stack, instrument, show_empty, dialog, edits>>

CloseSampleDialog ==
  /\ sample_dialog # None
  /\ sample_dialog' = None
  /\ UNCHANGED <<document, undo_stack, redo_stack, instrument, show_empty, dialog, edits>>

VisibleSamples == IF sample_dialog.show_empty THEN SampleSlots ELSE document.samples

(* on_row_changed().                                                       *)
SelectSample ==
  /\ sample_dialog # None
  /\ \E sample \in VisibleSamples :
       sample_dialog' = [sample_dialog EXCEPT !.curr_sample = sample]
  /\ UNCHANGED <<document, undo_stack, redo_stack, instrument, show_empty, dialog, edits>>

OnShowEmptySamples ==
  /\ sample_dialog # None
  /\ sample_dialog' = [sample_dialog EXCEPT !.show_empty = ~@]
  /\ UNCHANGED <<document, undo_stack, redo_stack, instrument, show_empty, dialog, edits>>

(* The handlers move to another sample before the transaction ends.        *)
EditSamples(c, sample) ==
  /\ PushAndCommit(c, instrument, [panels EXCEPT !.sample.curr_sample = sample],
                   FALSE, None)
  /\ UNCHANGED show_empty

(* import_sample() and on_clone() into an empty slot.                      *)
AddSample ==
  /\ sample_dialog # None
  /\ LET empty == EmptySlots(SampleSlots, document.samples,
                    IF sample_dialog.show_empty THEN sample_dialog.curr_sample ELSE 0)
     IN  /\ empty # {}
         /\ EditSamples(Command("sample", Min(empty), TRUE), Min(empty))

(* import_sample() over the current slot.                                  *)
ReplaceSample ==
  /\ sample_dialog # None
  /\ LET sample == sample_dialog.curr_sample
     IN  EditSamples(Command("sample", sample, TRUE), sample)

RemoveSample ==
  /\ sample_dialog # None
  /\ LET sample == sample_dialog.curr_sample IN
       /\ sample \in document.samples
       /\ EditSamples(Command("sample", sample, FALSE),
            IF sample_dialog.show_empty THEN sample
            ELSE NextFilled(document.samples, sample))

(* dropMimeData(), which tells the transaction which sample to show.       *)
DropSample ==
  /\ sample_dialog # None
  /\ \E drag, replace \in VisibleSamples :
       /\ drag # replace
       /\ PushAndCommit(Command("swap_samples", drag, replace), instrument, panels,
                        FALSE, replace)
  /\ UNCHANGED show_empty

-----------------------------------------------------------------------------
Init ==
  /\ document \in Documents
  /\ undo_stack = <<>> /\ redo_stack = <<>>
  /\ instrument = 0
  /\ show_empty = FALSE
  /\ dialog = None /\ sample_dialog = None
  /\ edits = 0

Next ==
  \/ Undo \/ Redo \/ OtherEdit \/ OpenDocument
  \/ AddPatch \/ RemovePatch \/ MovePatchUp \/ MovePatchDown
  \/ OnSetMinKey \/ OnSetSample \/ OnSetAdsr \/ OnPatchChanged
  \/ ShowInstrDialog \/ CloseInstrDialog
  \/ AddInstrument \/ RemoveInstrument \/ SelectInstrument \/ DropInstrument
  \/ OnShowEmpty \/ TypeInstrument
  \/ ShowSampleDialog \/ CloseSampleDialog \/ SelectSample \/ OnShowEmptySamples
  \/ AddSample \/ ReplaceSample \/ RemoveSample \/ DropSample

Spec == Init /\ [][Next]_vars

-----------------------------------------------------------------------------
(* Whether the graph draws the whole of an envelope, at each zoom.         *)
Envelopes ==
  [adsr \in Adsrs |-> \A s \in {GetAdsr(adsr, time) : time \in EndTimes} : EnvelopeOk(adsr, s)]

(* An open instrument dialog shows what the document has: its instrument   *)
(* exists, the row it edits is a patch of it (or there is none), it knows  *)
(* how long the keysplit is, and the patch, the sample it last told the    *)
(* sample dialog of and the samples it offers are the current ones.  Its   *)
(* handlers index the keysplit and the offered samples with these and the  *)
(* edits assert that they are in range.                                    *)
DialogShowsPatch ==
  dialog # None =>
    /\ Keysplit # None
    /\ dialog.keysplit_size = Len(Keysplit)
    /\ IF Keysplit = <<>> THEN dialog.prev_sample = None
       ELSE /\ dialog.curr_patch \in 1 .. Len(Keysplit)
            /\ dialog.patch = Keysplit[dialog.curr_patch]
            /\ dialog.prev_sample = dialog.patch.sample_idx
            /\ dialog.visible = document.samples \cup {dialog.patch.sample_idx}

(* And the graph draws the whole envelope of the patch.                    *)
DialogInSync ==
  /\ DialogShowsPatch
  /\ dialog # None /\ Keysplit # <<>> => Envelopes[dialog.patch.adsr]

(* After an edit of the keysplit the patch that was edited is the one      *)
(* selected, and the other patches keep their order: a later edit goes to  *)
(* the patch the user sees selected, although it may have moved.  Only     *)
(* moving a patch can bring a sorted keysplit out of order.                *)
KeysplitEdited ==
  /\ dialog # None
  /\ edits' # edits
  /\ undo_stack' = undo_stack
  /\ redo_stack' = redo_stack

EditsFollowPatch ==
  [][KeysplitEdited =>
       LET row == dialog.curr_patch
           before == Keysplit
           after == Keysplit'
       IN  /\ CASE Len(after) > Len(before) -> RemoveAt(after, row') = before
                [] Len(after) = Len(before) ->
                     RemoveAt(after, row') = RemoveAt(before, row)
                [] OTHER -> /\ after = RemoveAt(before, row)
                            /\ row' = Min({row, Len(after)})
           /\ Sorted(before) /\ ~Sorted(after) => after[row'] = before[row]]_vars

(* When an open instrument dialog comes to another sample (another patch   *)
(* or instrument is selected, the patch gets another sample, an undo       *)
(* renames it), an open sample dialog shows that sample too.  Only swapping*)
(* samples in the sample dialog leaves it at the sample that was dropped.  *)
SamplesSwapped ==
  edits' # edits /\ undo_stack' # <<>> /\ Last(undo_stack').kind = "swap_samples"

SampleDialogFollows ==
  [][/\ dialog' # None /\ sample_dialog # None /\ sample_dialog' # None
     /\ dialog = None \/ dialog.prev_sample # dialog'.prev_sample
     /\ dialog'.prev_sample # None
     /\ ~SamplesSwapped
     => sample_dialog'.curr_sample = dialog'.prev_sample]_vars
=============================================================================
