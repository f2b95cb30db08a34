-------------------------------- MODULE Files --------------------------------
(***************************************************************************)
(* New, open, save, save as and quit in the main window                    *)
(* (gui/main_window.cpp), with the questions each asks, and the files they *)
(* read and write (Serialize).  A question blocks the rest of the GUI      *)
(* until it is answered.  A save writes a new file beside the old one and  *)
(* then renames it, may fail before that, and the program may be killed at *)
(* any time.                                                               *)
(***************************************************************************)
EXTENDS Serialize

CONSTANTS
  Paths,
  InitialDisks,      \* what the paths may hold before the program starts
  NewDocument,       \* sample_docs::new_document()
  DEFAULT_TICKS_PER_ROW,
  RowHeights,        \* the heights the user chooses
  NewSample,         \* a sample that is imported
  NewBlock,          \* a block that is created, at any tick up to MAX_TICK
  MaxEdits           \* bound on the edits made

ASSUME PathsAssumption == None \notin Paths \cup {"new", "open", "quit", "crash"}

ASSUME DisksAssumption ==
  InitialDisks \subseteq [Paths -> FileModules \cup {None, Unrecognized, Corrupt}]

ASSUME NewAssumption ==
  /\ NewDocument \in Documents /\ DEFAULT_TICKS_PER_ROW \in Int /\ RowHeights \subseteq Int
  /\ NewSample \in DocSamples
  /\ NewBlock \in Blocks(DocPatterns)

VARIABLES
  disk,            \* the file at each path, or None
  document, dirty, \* History
  file_path,       \* _file_path; None: untitled
  ticks_per_row,   \* of the pattern editor
  screen,          \* what the user sees: the main window, or a dialog
  action,          \* what is to follow a save or a discard, or None
  target,          \* the path that is being written, or None
  discarded,       \* history: the user answered "Discard" to the last question
  edits            \* history: edits made

vars == <<disk, document, dirty, file_path, ticks_per_row, screen, action, target,
          discarded, edits>>

-----------------------------------------------------------------------------
(* Replacing the document.                                                 *)

(* set_row_height().                                                       *)
RowHeight(height) == Max({1, Min({height, 48})})

OpenDocument(doc, height, path) ==
  /\ document' = doc
  /\ dirty' = FALSE
  /\ file_path' = path
  /\ ticks_per_row' = RowHeight(height)

Idle ==
  /\ screen' = "main"
  /\ action' = None
  /\ target' = None

(* The part of on_new(), on_open() and closeEvent() after                  *)
(* should_close_document() has returned true.                              *)
Proceed(what) ==
  CASE what = "new" ->
         /\ OpenDocument(NewDocument, DEFAULT_TICKS_PER_ROW, None)
         /\ Idle
    [] what = "open" ->
         /\ screen' = "choosing"
         /\ action' = what
         /\ target' = None
         /\ UNCHANGED <<document, dirty, file_path, ticks_per_row>>
    [] what = "quit" ->
         /\ screen' = "closed"
         /\ action' = what
         /\ target' = None
         /\ UNCHANGED <<document, dirty, file_path, ticks_per_row>>

Close ==
  /\ screen = "main"
  /\ \E what \in {"new", "open", "quit"} :
       IF dirty
       THEN /\ screen' = "asking" /\ action' = what
            /\ UNCHANGED <<document, dirty, file_path, ticks_per_row, target>>
       ELSE Proceed(what)
  /\ discarded' = FALSE
  /\ UNCHANGED <<disk, edits>>

Cancel ==
  /\ screen \in {"asking", "naming", "choosing"}
  /\ Idle
  /\ UNCHANGED <<disk, document, dirty, file_path, ticks_per_row, discarded, edits>>

Discard ==
  /\ screen = "asking"
  /\ Proceed(action)
  /\ discarded' = TRUE
  /\ UNCHANGED <<disk, edits>>

(* open_path(): a file that does not load leaves everything as it is.      *)
Open ==
  /\ screen = "choosing"
  /\ \E path \in Paths :
       LET file == Loaded(disk[path])
       IN  IF file = None THEN UNCHANGED <<document, dirty, file_path, ticks_per_row>>
           ELSE OpenDocument(file.document, file.ticks_per_row, path)
  /\ Idle
  /\ UNCHANGED <<disk, discarded, edits>>

-----------------------------------------------------------------------------
(* Saving.                                                                 *)

(* on_save(), from the menu or from the question.                          *)
Save ==
  /\ screen \in {"main", "asking"}
  /\ IF file_path = None THEN screen' = "naming" /\ target' = None
     ELSE screen' = "writing" /\ target' = file_path
  /\ UNCHANGED <<disk, document, dirty, file_path, ticks_per_row, action, discarded, edits>>

SaveAs ==
  /\ screen = "main"
  /\ screen' = "naming"
  /\ UNCHANGED <<disk, document, dirty, file_path, ticks_per_row, action, target,
                 discarded, edits>>

PickName ==
  /\ screen = "naming"
  /\ target' \in Paths
  /\ screen' = "writing as"
  /\ UNCHANGED <<disk, document, dirty, file_path, ticks_per_row, action, discarded, edits>>

Writing == screen \in {"writing", "writing as"}

(* The new file is written, synced and renamed; the document is marked as  *)
(* saved, and what the save was asked for goes on.                         *)
Commit ==
  /\ Writing
  /\ disk' = [disk EXCEPT ![target] = Saved(document, ticks_per_row)]
  /\ IF action = "new" THEN Proceed(action)
     ELSE /\ dirty' = FALSE
          /\ file_path' = target
          /\ target' = None
          /\ screen' = CASE action = None -> "main" [] action = "open" -> "choosing"
                         [] action = "quit" -> "closed"
          /\ UNCHANGED <<document, ticks_per_row, action>>
  /\ UNCHANGED <<discarded, edits>>

(* Bug: a save that fails is taken for one that succeeded. *)
FailUnnoticed ==
  /\ Writing
  /\ dirty' = FALSE
  /\ screen' = CASE action = None -> "main" [] action = "open" -> "choosing"
                 [] OTHER -> "closed"
  /\ target' = None
  /\ UNCHANGED <<disk, document, file_path, ticks_per_row, action, discarded, edits>>

(* Bug: the file is written in place, and fails half way. *)
FailInPlace ==
  /\ Writing
  /\ disk' = [disk EXCEPT ![target] = Corrupt]
  /\ IF screen = "writing as"
     THEN /\ screen' = "naming" /\ target' = None /\ UNCHANGED action
     ELSE Idle
  /\ UNCHANGED <<document, dirty, file_path, ticks_per_row, discarded, edits>>

(* save_to_path() returns an error: save as asks for another name, save    *)
(* gives up.                                                               *)
Fail ==
  /\ Writing
  /\ IF screen = "writing as"
     THEN /\ screen' = "naming" /\ target' = None /\ UNCHANGED action
     ELSE Idle
  /\ UNCHANGED <<disk, document, dirty, file_path, ticks_per_row, discarded, edits>>

-----------------------------------------------------------------------------
(* What the panels edit, at the ends of the ranges their widgets allow.    *)

EditedOptions ==
  {[document EXCEPT !.options[f] = OptionRange[f][end]] :
     f \in DOMAIN OptionRange, end \in {"min", "max"}}

EditedSamples ==
  {[document EXCEPT !.samples[i] = IF @ = None THEN NewSample ELSE None] :
     i \in 1 .. MAX_SAMPLES}

EditedInstruments ==
  {[document EXCEPT !.instruments[i] =
      IF @ = None THEN <<[min_note |-> CHROMATIC_COUNT - 1,
                          attack_rate |-> MAX_ATTACK_RATE]>> ELSE None] :
     i \in 1 .. MAX_INSTRUMENTS}

NewEffect == [name |-> <<1, 2>>, value |-> 0]

(* An effect is set or cleared in any column of the first event.           *)
EditedEffects ==
  LET blocks == document.sequence[1][1].blocks IN
  IF blocks = <<>> THEN {}
  ELSE IF blocks[1].events = <<>> THEN {}
  ELSE {[document EXCEPT !.sequence[1][1].blocks[1].events[1].effects[col] =
           IF @ = None THEN NewEffect ELSE None] : col \in 1 .. MAX_EFFECTS_PER_EVENT}

(* A block is created after the ones there are.                            *)
EditedBlocks ==
  LET blocks == document.sequence[1][1].blocks
      end == IF blocks = <<>> THEN 0
             ELSE LET b == Last(blocks) IN b.begin_tick + b.loop_count * b.length_ticks
  IN  IF Len(blocks) = MAX_BLOCKS_PER_TRACK THEN {}
      ELSE {[document EXCEPT !.sequence[1][1].blocks =
               Append(@, [NewBlock EXCEPT !.begin_tick = t])] : t \in {end, MAX_TICK}}

Edit ==
  /\ screen = "main"
  /\ edits < MaxEdits
  /\ edits' = edits + 1
  /\ document' \in EditedOptions \cup EditedSamples \cup EditedInstruments
                    \cup EditedEffects \cup EditedBlocks
  /\ dirty' = TRUE
  /\ UNCHANGED <<disk, file_path, ticks_per_row, screen, action, target, discarded>>

(* Not an edit: the document stays clean.                                  *)
SetRowHeight ==
  /\ screen = "main"
  /\ \E height \in RowHeights : ticks_per_row' = RowHeight(height)
  /\ UNCHANGED <<disk, document, dirty, file_path, screen, action, target, discarded, edits>>

-----------------------------------------------------------------------------
(* The program is killed.                                                  *)
Crash ==
  /\ screen # "closed"
  /\ screen' = "closed"
  /\ action' = "crash"
  /\ target' = None
  /\ UNCHANGED <<disk, document, dirty, file_path, ticks_per_row, discarded, edits>>

(* It is started, with a new document and then, if one was named, a file.  *)
Start ==
  /\ screen = "closed"
  /\ \/ OpenDocument(NewDocument, DEFAULT_TICKS_PER_ROW, None)
     \/ \E path \in Paths :
          LET file == Loaded(disk[path])
          IN  /\ file # None
              /\ OpenDocument(file.document, file.ticks_per_row, path)
  /\ Idle
  /\ UNCHANGED <<disk, discarded, edits>>

Init ==
  /\ disk \in InitialDisks
  /\ document = NewDocument /\ dirty = FALSE
  /\ file_path = None
  /\ ticks_per_row = DEFAULT_TICKS_PER_ROW
  /\ screen = "main"
  /\ action = None /\ target = None
  /\ discarded = FALSE
  /\ edits = 0

Next ==
  \/ Close \/ Cancel \/ Discard \/ Open
  \/ Save \/ SaveAs \/ PickName \/ Commit \/ Fail
  \/ Edit \/ SetRowHeight \/ Crash \/ Start

Spec == Init /\ [][Next]_vars

-----------------------------------------------------------------------------
(* A document with a block that ends after MAX_TICK: the editor makes one  *)
(* where the cursor is at the end of the timeline, and the file does not   *)
(* load.                                                                   *)
Overlong(doc) == ~SequenceFits(doc.sequence, doc.chips)

(* A titled document with no unsaved changes is what opening its file      *)
(* again would give: saving and loading lose nothing the panels can edit,  *)
(* and nothing the checks of a load have put in place of bad values.       *)
CleanMeansOnDisk ==
  ~dirty /\ file_path # None /\ screen # "closed" =>
    \/ Overlong(document)
    \/ /\ Loads(disk[file_path])
       /\ Loaded(disk[file_path]).document = document

(* What is opened, whatever the file held, and what the panels make of it, *)
(* keeps the ranges that validation brings files into and that the         *)
(* sequencer, the driver and the editors then use unchecked: tempo and     *)
(* timer are never 0, a loop point is inside its sample or at its begin,   *)
(* notes have frequencies, each chip has its tracks, events are in order.  *)
(* The sizes of samples are not among them: validate_sample() only warns.  *)
TracksInRange ==
  \A chip \in DOMAIN document.sequence : \A chan \in DOMAIN document.sequence[chip] :
    LET track == document.sequence[chip][chan]
    IN  /\ track.n_effect_col \in 1 .. MAX_EFFECTS_PER_EVENT
        /\ Len(track.blocks) <= MAX_BLOCKS_PER_TRACK
        /\ \A b \in DOMAIN track.blocks :
             LET events == track.blocks[b].events
             IN  /\ Len(events) <= MAX_EVENTS_PER_PATTERN
                 /\ \A i, j \in DOMAIN events :
                      i < j => events[i].anchor_tick <= events[j].anchor_tick
                 /\ \A i \in DOMAIN events :
                      /\ events[i].anchor_tick <= MAX_TICK
                      /\ DOMAIN events[i].effects = 1 .. MAX_EFFECTS_PER_EVENT

DocumentInRange ==
  /\ \A f \in DOMAIN OptionRange :
       document.options[f] \in OptionRange[f].min .. OptionRange[f].max
  /\ document.effect_name_chars \in {1, 2}
  /\ \A key \in 1 .. CHROMATIC_COUNT :
       document.frequency_table[key] \in 0 .. MAX_TUNING_FREQ
  /\ \A i \in 1 .. MAX_SAMPLES :
       LET sample == document.samples[i]
       IN  sample # None => /\ LoopInside(sample)
                            /\ sample.root_key < CHROMATIC_COUNT
  /\ \A i \in 1 .. MAX_INSTRUMENTS :
       LET keysplit == document.instruments[i]
       IN  keysplit # None =>
             /\ Len(keysplit) <= MAX_KEYSPLITS
             /\ \A k \in DOMAIN keysplit : keysplit[k].min_note < CHROMATIC_COUNT
  /\ Len(document.sequence) = Len(document.chips)
  /\ \A chip \in DOMAIN document.sequence : Len(document.sequence[chip]) = NChan
  /\ TracksInRange

(* The document is replaced, or the program ends other than by a crash,    *)
(* only when the user chose to discard it, when it is as it was when       *)
(* created, or when some file gives it back.                               *)
Replaced == document' # document \/ (screen' = "closed" /\ action' = "quit")

Recoverable ==
  \/ document = NewDocument
  \/ \E path \in Paths :
       Loads(disk'[path]) /\ Loaded(disk'[path]).document = document

LossIsChosen ==
  [][Replaced /\ screen # "closed" /\ edits' = edits =>
       discarded' \/ Recoverable \/ Overlong(document)]_vars

(* A file that can be loaded stays one through saves that fail and crashes *)
(* in the middle of them.                                                  *)
FilesStayLoadable ==
  [][\A path \in Paths :
       Loads(disk[path]) => Loads(disk'[path]) \/ Overlong(document)]_vars
=============================================================================
