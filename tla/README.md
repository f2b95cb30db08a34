# TLA+ specifications of exotracker

exotracker is a music tracker for the SNES sound chip: a Qt program whose GUI
thread edits a document and whose audio thread plays it by emulating the chip.
These modules model the parts of it that have state, or whose arithmetic goes
wrong in ways a unit test hardly reaches: the protocol between the two threads,
the clock of playback, the sequencer, driver and chip, the undo history, the
pattern editor and what it draws, the dialogs, files and their validation, and
the export of songs. Sources are named relative to `src/src/`. `PROJECT.json`
maps every definition to the lines it models.

## 1. The system

| component | state | operations | hard behaviour |
|---|---|---|---|
| Command queue (`cmd_queue`) | a linked list of `AudioCommand` with a stub node, `_begin`, `_end` | `push`, `pop`, `clear` | the audio thread walks the list while the GUI appends and frees nodes |
| AudioComponent (`gui/main_window.cpp`) | the queue, `_audio_state`, the audio handle | `setup_audio`, `restart_audio_thread`, `gc_command_queue`, `play_from`, `stop_play`, `send_edit`, `undo`, `redo`, `maybe_seq_time` | what the GUI knows of the audio thread is old; restarts with commands pending |
| OverallSynth (`audio/synth`) | its own document, `_seen_command`, `_maybe_seq_time`, the chips | once per emulated timer: handle all new commands, recompute what they invalidate, run a timer, publish time and position | batches of edits, seeks and stops; two atomics published one after the other |
| Audio output (`audio/output`) | an RtAudio stream | `make`, the callback, destruction | `make` fails; destruction waits for a callback |
| SequencerTiming (`audio/synth`, `audio/tempo_calc`) | an 8-bit phase, the cached rate and timer length | `play`, `stop`, `recompute_tempo`, `run_timer` | wrap-around, rates of 0 and 255, stale caches |
| Sequencer (`audio/synth/sequencer`, `doc_util`) | per channel: `_now`, the next event | `seek`, `next_tick`, `doc_edited`, `stop_playback` | gaps, pattern loops, song loops, note cuts, edits and seeks at any tick |
| Chip instance, driver, chip (`audio/synth/chip_instance*`, `spc700*`) | register writes and their times, audio RAM, what each channel plays, voices | commands, `run_driver`, `reload_samples`, `run_chip_for` | writes wait for the chip's polls, a reset does not; packing of samples; notes under edits |
| History (`gui/history`) | the document, undo and redo stacks, the dirty flag | `push`, `try_undo`, `try_redo`, `mark_saved` | merged edits, edits kept out of the history, copies for the audio thread |
| Edit commands (`edit/`) | the other half of a swap | `apply_swap`, `can_merge`, `clone_for_audio`, `save_in_history`, `modified`; the builders | a command meets the document in a state other than the one it was made in |
| Pattern editor (`gui/pattern_editor`, `gui/move_cursor`) | cursor, selection, edit mode, row height | keys, drawing | searches over gaps, loops and partly visible patterns; blocks made in gaps |
| Instrument list, instrument dialog, sample dialog | selected rows, what was last shown | edits of lists, keysplits, envelopes; reloading at the end of a transaction | copies of what the document had; dialogs that move each other |
| Tempo dialog | a copy of the options | edit, apply, cancel | shows what playback will do from the same arithmetic |
| Main window and files (`gui/main_window`, `serialize`, `doc/validate`) | path, dirty document, modal questions | new, open, save, save as, quit | failed saves, crashes, files of other programs |
| SPC export (`spc_export`, `spc_export/link`) | the linked RAM, pending relocations | compile, link, align, finalize | pointers before and after their symbols; two ways to find a patch |
| Configuration, application | - | start-up, key bindings | none with state |

The threads interact only through the list's `next` pointers (release stores,
acquire loads) and the two atomics `_seen_command` and `_maybe_seq_time`. All
other state belongs to one thread. The GUI waits for the audio thread only to
destroy it. Within the audio thread the synth calls the sequencer, the sequencer
hands events to the driver, and the driver queues register writes for the
emulated chip. Within the GUI thread every panel makes an edit command, which is
copied for the audio thread, applied, and given to the history; when the
transaction ends the panels reload what they show.

What makes each part correct: the list is never followed to a freed node, no
command is lost, repeated or reordered, the two documents and everything cached
from them agree when used, the cursor is not moved by an old time (threads); no
tick is lost or repeated at any tempo, and the dialog tells the truth about it
(timing); events written are the events played, channels stay in step, notes end,
voices only play what is loaded (sequencer, driver, chip); undo and redo move
along one line of states and every command applies where it is applied (history);
an edit changes the cell under the cursor and nothing else, tracks stay in order,
the screen shows the song (pattern editor); dialogs show and edit what the user
sees selected (dialogs); work is lost only by choice, a save loses nothing and no
file takes a document out of its ranges (files); the exported RAM holds every object with
every pointer moved once and plays the same samples (export).

## 2. The modules

| module | models | checked / proved by |
|---|---|---|
| `AudioSync` | command queue, AudioComponent, command loop of OverallSynth, life of the audio thread | `MCAudioSync`, `AudioSyncProofs` |
| `AudioSyncInv` | the inductive invariant of `AudioSync` | `AudioSyncProofs` |
| `Playback` | abstract: an in-order command service with two documents | - |
| `AudioSyncRefinement` | the mapping from `AudioSync` to `Playback` | `MCAudioSync`, `MCAudioSyncRefinement`, `AudioSyncProofs` |
| `SequencerTiming` | class SequencerTiming, tempo calculation, tempo edits | `SequencerTimingProofs` |
| `TempoDialog` | the tempo dialog, on `SequencerTiming` | `MCSequencerTiming`, `SequencerTimingProofs` |
| `TrackUtil` | iterators over patterns, searches for events | through the modules below |
| `Sequencer` | ChannelSequencer, ChipSequencer | `MCSequencer`, `MCChipInstance`, `ChipInstanceProofs` |
| `SampleRam` | the packing of samples into audio RAM | `MCChipInstance`, `ChipInstanceProofs` |
| `Spc700Driver` | from events to register writes | `MCChipInstance`, `ChipInstanceProofs` |
| `ChipInstance` | composes the three: commands of a callback, register queue, timer, chip | `MCChipInstance`, `ChipInstanceProofs` |
| `EditCommands` | the document and the classes of edit commands | through `History`; `HistoryProofs` |
| `History` | the stacks, the panels' edits, the copies for the audio thread | `MCHistory`, `HistoryProofs` |
| `LinearUndo` | abstract: a line of document states | - |
| `HistoryRefinement` | the mapping from `History` to `LinearUndo` | `MCHistory`, `HistoryProofs` |
| `TimeUtil` | measures, beats, rows | `MCPatternEditor`, `PatternEditorProofs` |
| `EditPattern` | what a key does to a track | `MCPatternEditor`, `PatternEditorProofs` |
| `MoveCursor` | where a key moves the cursor | `MCPatternEditor`, `PatternEditorProofs` |
| `PatternEditor` | keys, cursor, selection, zoom | `MCPatternEditor`, `PatternEditorProofs` |
| `PatternDrawing` | what is drawn where | `MCPatternEditor` |
| `EditInstr` | edits of a keysplit | `MCInstrumentDialog`, `InstrumentDialogProofs` |
| `AdsrGraph` | the envelope a patch's graph draws | `MCInstrumentDialog` |
| `InstrumentDialog` | instrument list, instrument and sample dialogs, the end of a transaction | `MCInstrumentDialog`, `InstrumentDialogProofs` |
| `Serialize` | what is saved, what is loaded from any file | `MCFiles`, `FilesProofs` |
| `Files` | new, open, save, quit, failures, crashes | `MCFiles`, `FilesProofs` |
| `Linker` | the linker of the export | `MCSpcExport`, `LinkerProofs` |
| `SpcExport` | the compiled objects, an export | `MCSpcExport` |
| `Optional` | the value of an empty optional | - |

Definitions called `Bug: ...` are mutated forms of the definition after them.
They take part in no specification; a check that replaces the definition by one
of them must fail, which shows that the property depends on it.

**AudioSync.** An atomic step is a handler, or the part of one between two
accesses to shared memory. The GUI's handlers begin with `gc_command_queue()`
(`StartHandler`, which loads `_seen_command`; `Pop`; `EndGc`), then do their work
(`StartPlay`, `StopPlay`, `SendEdit`, `ReadTime`). `Restart` covers F12 and
`open_document()`, followed by `Join`, `ClearNode`, `ClearLast` and `MakeHandle`
or `MakeFails`. The audio thread's timer period is `BeginTick`, one `Handle...`
per command, `FinishCommands`, `StoreTime`, `StoreSeen`. Interleaving these steps
is sound for the C++ memory model: every pointer to a node reaches the other
thread by a release store that an acquire load reads, and the two atomics are
stored in the order they are read against. Nodes are allocated at addresses from
a finite set, any free one, so a freed address returns while old pointers to it
may exist. A document is a function from parts to values; an edit swaps the value
of one part with the one it holds, as `apply_swap()` does. What the audio thread caches
of a document is grouped as `modified.h` flags it: `TimingField`, `PatternField`,
`SampleField` and `MetadataField` (loop points, whose edits nothing reloads; a TODO of
`modified.h` says so). `InvalidatedParts` is what a batch's flags ask to compute anew.

**SequencerTiming, TempoDialog.** Rates are computed in exact integers: the double
`d*p*256/60/8010*t` is a fraction with denominator 480600, and rounding is done on
it. The phase is taken modulo 256. Edits raise the flag exactly when their class
does; `SetBeatsPerMeasure` does not. The dialog's tempo and note gaps are computed
from its copy of the options with the same fractions; `note_gap_ticks` is not part
of the options but takes all its values in the property. The dialog is modal:
while it is open playback goes on and no other edit is made.

**Sequencer.** An event is its anchor, its Gxx delay and its row. A tick computes
all channels and their cuts. The loop of `next_tick()` is a recursive function
over rounds, of which a tick makes no more than `MaxRounds`. `held` remembers the
channels in which playback started between an early event and the tick it is anchored
at (section 4), until the song loops or the patterns are edited.

**ChipInstance.** A callback takes commands (`ChipPlayFrom`, `ChipStop`,
`EditPatterns`, `EditSamples`, `EditInstruments`, `EditLoopByte`), reloads samples if one asked for
it (`LoadNextSample`, one iteration of the loop; `EndLoad`), runs the driver with
or without a tick (`TickSequencer`, `RunTimer`), and runs the chip up to each
register write and the end of the timer (`WriteNextReg`, `EndOfTick`). Clocks are
counted in halves of `CLOCKS_PER_TWO_SAMPLES`, which is how often the chip polls
its key-on and key-off registers. Of the vendored S-DSP (`3rdparty/snes9x-dsp`) the model
keeps what the driver relies on: a reset acts at once, key-on and key-off act at a poll,
a voice plays the sample its register has when it is keyed on. `late` remembers
that the chip was reset while writes were waiting behind a key-off; the properties
that need the reset chip set up excuse this state, and `NoStrayKeyOn` is about it.

**History.** A command is a record of its class, place and value; `DocAfter` and
`CmdAfter` are the two halves of `apply_swap()`. The audio thread's lag is
abstracted away: what `audio` holds is the document the audio thread has once it
caught up, which `AudioSync!MirrorWhenCaughtUp` justifies. Instruments have one
patch, whose `sample_idx` stands for whatever an untracked setter changes. A
pattern is the instrument its notes use, which is what swapping instruments
rewrites; one more value stands for a pattern above the size limit, which
`EditPattern` drops.

**PatternEditor, PatternDrawing.** One action per key; `OnCursorMove` is the part
that the cursor keys share. A track is a sequence of blocks with patterns of
events; an event is the set of the fields it has (`note`, `cut`, `instr`, `volume`,
`effect0`, ...), so that the values typed are abstracted and their presence is
not. What the tool bar and the options hold is chosen at each key. Drawing is a
function of the state: which columns, rows, beats, patterns and events are drawn
at which pixels. Fonts, colors and the shapes of letters are left out. Free
scrolling is left out: `_free_scroll_position` is never set.

**InstrumentDialog.** `Commit` is the end of a transaction: the panels are reloaded
from the document it leaves, in the order of `~StateTransaction()`. What a panel
shows is in its state (`patch`, `visible`, `keysplit_size`, `prev_sample`), as in
the widgets. The undo stacks are those of `History` with the commands that the
panels tell apart. Names and the data of samples are left out; a dialog that closes
itself is deleted at once, where Qt deletes it when the handler returns. A patch's
envelope is drawn by `GetAdsr`, the simulation of `iterate_adsr()` turn by turn, at
an eighth of the levels in `LevelUnit` steps.

**Files, Serialize.** A document has slots and columns, a file has lists of any
length with any values; `Saved` and `Loaded` translate between them, with every
check of `validate.cpp` that changes or refuses a value. A modal question is a
value of `screen`, which blocks every other action. A save writes a new file and
syncs it and renames it, so it commits as a whole or fails; a crash comes at any
point, and the program is started again on what is on the disk.

**SpcExport, Linker.** A cell of an object is a byte or the first byte of a pointer.
`Link` adds one object at a time. The music is what the code compiles at present: a
note per channel, each on a beat of its own.

## 3. Runs

| run | question | bounds |
|---|---|---|
| `audiosync_safety` | memory safety, leaks, assertions, equal documents, fresh caches, fresh times; does the list implement `Playback`? | 3 addresses, 5 nodes allocated in all, 2 parts (a sample's data and its loop point) with 2 values; symmetry on both; 1.6 million states |
| `audiosync_liveness` | commands are carried out, Starting ends | 3 addresses, 4 nodes, one part |
| `sequencer_timing` | the cached rate, the phase, what the tempo dialog shows | 16 options with rates 0, 1, 2, 102, 205 and 255; 5 timers per playback; note gaps of 0 to 2 ticks |
| `history` | do commands apply, does the audio copy follow, do loops stay in samples, does the history implement `LinearUndo`? | 3 edits, 2 slots of each kind, 2 names, 2 blocks, samples of 0 to 2 blocks; 224 thousand states |
| `sequencer` | channels in step, silent gaps, all events played | 2 channels, all tracks of up to 2 blocks, 2 events per pattern; seeks to ticks 0 to 4 |
| `chip` | assertions of the sequencer, loaded samples, RAM layout, notes and silence of voices | 2 channels, 5 commands per callback, 3 tracks with delays from -1 to 1, starts at ticks 0 and 1, 3 slots for samples of 0 to 4 cells in a RAM of 7, 5 banks of samples and instruments; 0.75 million states |
| `early_notes` | violated: a start plays or passes early notes | the same |
| `chip_stray_key_on` | violated: no key-on without a note | the same |
| `editor` | tracks in order, local edits, cursor and selection inside, rows, jumps, the screen | tracks of up to 3 blocks on two grids, two row heights, one edit; a screen of 7 pixels with rows of 3 |
| `dialogs` | panels in sync, edits follow the patch, the sample dialog follows | 2 instruments, 2 samples, 3 patches over 3 notes, 36 envelopes, 2 edits; 154 thousand states |
| `files` | saves lose nothing, loads are in range, losses are chosen, files stay loadable | 2 paths, 2 edits, files with values at and past each limit; 579 thousand states |
| `spc_export` | the linked RAM, and what the exported driver plays | 6 symbols, RAM of 80 cells in pages of 8, 3 samples, 2 instruments |

Why the bounds suffice. *Threads:* three addresses hold a stub, one pending and one
unpublished node, and with five allocations every address is freed and used
again while the audio thread is between commands; a play, an edit, a stop and a
restart fit in one behaviour. *Timing:* the rates include both ends of the byte,
one that rounds to zero and one that does not divide 256. *History:* three edits
make a merge, an untracked edit between two tracked ones, and an undo below an
edit. *Sequencer:* the blocks begin at 0 or after a gap, loop, abut or leave a gap,
and the second track is empty, shorter or longer; their events have no delay,
because a delayed event is lost or held up by a seek or an edit at the wrong tick
(section 4). The chip run has the delays, and starts before and after the tick an early
event comes at; an event that is early by one tick is past for the channel that starts at
its anchor. *Chip:* five commands hold a stop, a
start, an edit of samples and another stop in one callback; samples that fit
together, one by one, not at all, and that are empty; banks that differ in a loop point
only; two channels, as one that is keyed on while
the other is keyed off shares a register with it. *Editor:* gaps above, between,
in and below blocks, looped and empty blocks, a full track, two channels that
differ in their effect columns, rows that divide the beat and rows that do not;
one edit, because every property is about a state or a step, and every reachable
shape of track is also an initial one. The screen holds two rows and a part of a
third, so that rows and patterns are cut at both edges. *Dialogs:* two edits are an
edit in one panel and an undo or a second edit that moves what another shows; the
envelopes run from the slowest to the fastest, and are drawn on graphs from a
sample to past the longest envelope. *Files:* one value below, at and above each
limit; two edits between saves over two paths. *Export:* a directory with a hole, a
patch out of order, a patch without sample, data that does not fit, pointers to
symbols linked earlier and later.

`MaxSerial`, `MaxTimers`, `MaxEdits` and `MaxCommands` cap the allocations, the
timers of one playback, the edits of one behaviour and the commands of one
callback. They appear in guards only, and the user can always do without what they
forbid. `SelectFrom` limits where selections begin. `MaxTick` bounds the tick a user
seeks to. `MaxEvents` is a property of the documents given. No run turns the deadlock
check off.

`history` uses the view `WithoutSaved`: neither its properties nor any guard read
`saved` or `dirty`, so states that differ only in these have the same line and the
same steps. That a document that is not dirty is the one saved, `CleanMeansSaved`, is
proved (`CleanIsSaved`), and the run `files` checks it of the file on the disk.

**Fairness.** `FairSpec` of `AudioSync` asks that the GUI thread finishes a
handler once started (`WF(GuiStep)`; no handler waits for anything but the end of
the audio thread), that the refresh timer fires while the GUI is idle
(`WF(Refresh)`: `MainWindow` starts a QTimer), that the audio backend keeps
calling back while a stream is open (`WF(AudioStep)`) and that a stream being
closed stops between two callbacks (`SF(Join)`: the guard of the join is false
while a callback runs). The user is under no fairness. As the commands of a
behaviour are bounded, the liveness properties say nothing of a GUI that pushes
forever faster than the audio thread handles; see the hazard at `synth.cpp:250`.

## 4. Findings and known behaviour

* `chip_stray_key_on`: `spc700_driver.cpp:515-518` writes a zero to the key-on register
  on every reset, because its initial value "will trigger key-on on some channels
  even when we don't process notes". When playback is stopped and started again in
  one callback (the same key toggles both), `stop_playback()` has queued a key-off
  and a wait of 64 clocks; the chip is then reset at once, while the write of
  zero waits behind the key-off. The reset chip polls its initial key-on register
  first and keys voices on. The run shows it with one stop and one start, or a stop
  and an edit of samples.

* `early_notes`: a comment of `ChannelSequencer::seek()` (`sequencer.cpp:394-397`) says
  that when playback starts at a time with early notes, "just play them immediately
  instead of complaining about past notes, since the document isn't invalid", and
  `sequencer.h:57-58` says the same of `at_time()`. `next_tick()` only plays events that
  are due on the tick itself (`time_to_next_ev == 0`), so an event whose delay puts it
  before the time sought is not played, and holds up its channel until the song loops or
  an edit makes `doc_edited()` skip it; `_ignore_ordering_errors` excuses it for one tick,
  and from the next one on it fails `assert(time_to_next_ev >= 0)`. The run shows it with
  one start and two ticks. `OrderingHolds` shows, for starts at any tick, that these
  channels (`held`) are the only ones the assertion fails in.

What else the modelling showed, and comments of the repository admit or nothing in it
contradicts:

* An edit of a loop point (`SampleMetadataEdited`) does not reach the chip until samples
  are edited or playback is started: a TODO of `modified.h:27-28`. `EngineFresh` does not
  claim it, and `RamMatchesDocument` compares the data of samples with the document's
  and lets the loop point of the directory be an older one.
* Validation warns about a sample that is empty, larger than 64 KiB or not made of whole
  blocks, and loads it. `reload_samples()` has debug assertions against such samples and
  says that they "are safe to load anyway" (`spc700_driver.cpp:593-598`): a build with
  assertions ends when such a file is opened, one without skips the sample or loads what
  fits. `DocumentInRange` does not claim the sizes; `ChipInstance` leaves the assertions
  out and checks the RAM for samples of any size.
* A tempo low enough for its rate to round to 0 never ticks; the dialog shows 0.
* `doc_edited()` at the tick where a pattern ends skips the end of the pattern, and
  with it the cut of the running note. `GapsAreSilent` excuses notes that sounded
  during an edit, and notes that began as the song looped.
* After an undo, turning a spin box merges into the command undone to (a TODO in
  `edit_doc.cpp`); `LinearUndo!MergeEdit` allows it.
* The editor makes a block past `MAX_TICK` when the cursor is at the end of the
  timeline; it is saved, but does not load. `CleanMeansOnDisk`, `LossIsChosen` and
  `FilesStayLoadable` excuse such documents (`Overlong`). The order of blocks in a
  file is not validated.
* A row before the note of the same tick (a delayed event that catches up with it)
  may silence the note: a voice that is keyed off and on at one tick is silent, as
  the chip polls the key-off flags again after it keyed the voice on. `NotesSound`
  is about ticks whose note comes before their other rows.
* The row height is saved, but changing it does not make the document dirty.
* The color of a note is computed from its time in the pattern, not in the song, and
  a text that still reaches onto the screen is not drawn once the bottom of its
  pattern is above it.
* `save_file()` of the export writes the file in place, unlike saving a module.

## 5. Proofs

All theorems hold for every value of the constants under the `ASSUME`s of their
modules, and no step is left without a proof.

**`AudioSyncProofs`.** `Invariance` proves that `IInv` of `AudioSyncInv` is
inductive; the safety properties of `audiosync_safety` follow. The properties
themselves are not inductive: they speak of the moment the audio thread has
caught up, and to get there one must know what the pending nodes will do.
`DocMirror` says for each part of the document that the last pending edit of it
holds the GUI's value; `LastTransport` that the last pending play or stop agrees
with `_audio_state`; `TransportAlternates` that a play is carried out by a stopped
synth; `EngineTracked` that what a cache misses, loop points aside, is in
`total_modified`;
`TimeOfSession` ties the stored times to the session played. `ListShape` orders
the list by the rank of allocation, so that no lemma follows a path of pointers
and none needs induction. The lemmas group the steps by what they do to the
pending nodes: nothing, push one, handle one, or make a new audio thread.
`Refinement` proves that `AudioSync` implements `Playback`. It needs one fact more,
`ListContiguous`: the ranks of the nodes in the list have no holes, so that the
node at rank n is command n of the abstract queue through every reuse of an
address. Each step of `AudioSync` is then a step of `Playback` (push, handle, stop
the audio thread) or a stutter.

**`SequencerTimingProofs`.** Type correctness (the rate and phase stay in a byte),
`TempoFresh`, `PhaseAccounts`, and that the first timer that advances ticks. The
argument of the third is that a wrap is a tick exactly because a step is less than
256. `DialogRefines` proves that a dialog changes nothing of what playback does,
so that the theorems hold while it is open, and `DialogShowsTempo` that what it
shows is the tempo played and the number of timers in a note gap. The count of wraps
of a phase is a quotient; the lemma that proves it is about all rates, and does not
enumerate the 256.

**`HistoryProofs`.** `AudioFollows`, from the lemma that the
copy of a command does to the document it was made from what the command does, and
`CleanIsSaved`. `EditsAlwaysApply`: every command on a stack, tracked or not, finds
the document it expects. That is not inductive, as nothing relates the command below
the top of a stack to a document. `HistoryInv` does: `Chain` says that there is a line
of documents, one per command of the stack, each of which the command above leads to,
*up to what untracked edits change*. The lemmas about the commands show that
`apply_swap()` undoes itself (also for inserted and erased blocks, and swapped
instruments), that its outcome does not depend on what untracked edits change, and that
the later of two merged commands overwrites what the earlier did. From the same
invariant follow `SamplesLoopInside`, `TypeCorrect` and `RedoUndoesUndo`, and
`UndoIsLinear`: the history implements `LinearUndo`. The line is a
recursive function down a stack; its states are those of the chain in all that the line
shows (`LineOfChain`), so that a step, which changes the top of a stack, moves the line
by one. Assumed: `NoneAssumption` (an empty slot is no
instrument), `InitialLoopsAssumption` (documents that are opened have loop points in
their samples or at 0; `DocumentInRange` checks what `Serialize` reads), `NamesAssumption`.

**`ChipInstanceProofs`.** Of the sequencer: `ChannelsStayTogether`: each channel counts and
loops on its own, but from the same document. `PlaybackGoesOn`: a song plays until it is
stopped, as no step leaves a channel without the `_curr_pattern_next_ev` that
`next_tick()` asserts. It needs that the rounds of a tick, the iterators and the searches
after a seek or an edit return places. The recursive functions among them are shown to
exist before a value of theirs is used. Where a proof counts (`CountUp`), it does so over
a set of naturals, by their well-foundedness.

`NothingIsPast`, `GapsStaySilent` and `WhatIsWrittenPlays` prove `OrderingHolds`,
`GapsAreSilent` and `PlaysWhatIsWritten`. They are about documents whose blocks do not
overlap and whose patterns hold their events in order, delays included (`DocumentsInOrder`:
the code calls others invalid). Starts are at any tick; the first says of the channels in
`held` only that they come to no two pattern ends at one tick. The third asks that there are
no delays (`NoDelays`: a seek, or an edit, on a later tick loses an event that is late). TLC
evaluates the first of the documents of `sequencer` and `chip`, and the second of those of
`sequencer`. `SeqsInv`, the invariant, says where a channel stands among all events of its
track: what it comes to next is not in the past (`Ahead`), or is the event it has waited for
since playback started past it (`SeqHeld`), and without delays all events before that are
(`Visited`), unless the patterns were edited and `doc_edited()` is about to look. It is kept
because the loop of `next_tick()` has an invariant of its own, `RoundInv`: what has been
played is due, in order and before the iterator; a pattern that the loop has come to begins
now or later, so that a second end at this tick cannot come; and each round leaves no event
out (`RoundSweeps`). `RoundRanks` shows that `MaxRounds` rounds reach the end of the loop.
`EventTime` grows with the place in the track (`TimesFollow`), hence what is due is what the
rounds have passed. For the gaps, a note that sounds began in the pattern that its channel
is still in (`NoteOf`): leaving it cuts the note.

Of the chip: `RamIsDocuments`: the RAM matches the document's samples after every reload.
The invariant is the loop invariant of `reload_samples()` (what is loaded is laid out, what
was skipped did not fit, the rest is empty), together with the fact that the loader works on
the current document, but for loop points edited since, unless `samples_modified` asks for
another reload. The last sample in use exists by the well-foundedness of the naturals.

`VoicesPlayLoaded`, `NotesAreHeard` and `NothingHangs` prove `PlaysLoadedSamples`,
`NotesSound` and `NoHangingNotes`. None is inductive: they speak of the voices once a
callback is over, and what the voices do is decided by writes still in the queue, by the
registers they end up in, and by polls that come between. `ChipInvHolds` proves the
invariant `ChipTypes /\ SoundInv`. `Finally(ws, r, c, old, x)` says that register r of
channel c holds x once `ws` is written, and `Ends(r, c, x)` that it will when the queue is
empty. `SetUp` holds in all phases: what will be in the volume, directory and master
registers, and that a voice that plays has its sample in the RAM. `Between` holds outside of
a run of the chip: the key-on register ends up empty, no write waits for a poll, a pending
wait means that all channels will be keyed off. During a run one of three holds: `NoWait`
(all writes are made before the first poll; for each voice, what that poll makes of the
registers is what the properties ask for), `Wait` (a key-off of all channels, then a poll,
then the write that clears it), `Silent` (that poll has come). The lemmas say what the
events of a tick make of a channel's driver (`RunEventsOk`), what the driver's and
`restore_state()`'s writes leave in each register (`DriverWritesEffect`,
`RestoreStateEffect`), and what one poll and two do to the voices (`RunClocksEffect`): the
first keys on, the second keys off what is flagged also if it was just keyed on, which is
why a timer of less than two polls is ruled out.

Assumed: `SamplesAssumption` (samples have any size, and loop inside themselves or at 0,
which `DocumentInRange` and `LoopsInsideSamples` check),
`SampleDirAssumption`, `DirectoryFitsAssumption` (a full directory fits in the RAM),
`NoneAssumption`, `InstrumentsAssumption` (instrument numbers and sample indices are in
the arrays, as their types make them), `ClocksPerTimerAssumption` (a timer has two polls
or more: it is `CLOCKS_PER_PHASE` = 128 clocks times a period of at least 1, and the chip
polls every 64),
`ChannelsAssumption` (there is a channel, and finitely many), `BoundsAssumption`,
`StoppedAssumption` and `CutAssumption` (no place in a track is `nullopt`, nor is a note
cut). The theorems excuse the state `late`, in which they do not hold (section 4).

**`LinkerProofs`.** `LinkerCorrect`, that the linker keeps `Linked`, whatever objects are
added, aligned and started anew, and `FinalizeCorrect`, that an export that finalizes
has no relative pointer left. `Linked` is not inductive: a symbol that is defined moves
the cells that `pending_relocs` lists, so the invariant says that these are exactly the
pointers to undefined symbols (`PendingExact`), and that no object lies at or after
`current_address` (`Behind`). Assumed: `AramAssumption` (sizes are naturals, RAM and
pages not empty), `NoneAssumption`.

**`PatternEditorProofs`.** `EditorInv` says that blocks and events of every track are in
order (`TrackOk`), that the cursor and both ends of the selection are cells the document
has, that the selection reaches to the cursor, and that the row height is one of
`RowHeights`. It is inductive only as a whole: an edit keeps a track in order because the
cursor is in it, and the cursor is shown where it is because edits leave the columns
alone. From it follow `EditorTypesHold`, `SelectionFollowsCursorHolds` and `TracksOkHolds`;
the other three are about what the operators return in any such state.

* `RowsAreNeighboursHolds`: the rows of a beat are its multiples of the row height, and
  the last may be short. `StepDownOk` and `StepUpOk` say that one step passes no row,
  within a beat and over its end, from quotients and remainders alone (`DivisionIs`).
* `EventJumpsAreNearestHolds`: the patterns a track plays, a block's loops among them,
  are ordered, and the iterators visit them in that order without leaving one out
  (`ForwardVisits`, `BackwardVisits`), so the first event found is the nearest. The loops
  over patterns are recursive functions of how many are left.
* `EditsAreLocalHolds`: a command replaces the pattern of one block or adds a block. What
  it was made from differs from what it leaves in the cursor's fields at the cursor's tick
  of that pattern only (`SameBut`), by a lemma each for inserting an event, setting its
  fields, and erasing those that become empty. `LocalCommandIsLocal` turns this into what
  the track plays: all loops of the pattern change at the same place; lengthening a block
  that does not loop, or adding one, plays nothing else.

Assumed: `DocumentsAssumption` and `OpenedTracksAssumption` (opened documents have the
types of `doc.h`, columns, and tracks in order, as those this program saves),
`SettingsAssumption`, `RowHeightsAssumption`, `PageDownRowsAssumption`,
`MaxTickAssumption`, `MaxBlocksAssumption`, `MaxEventsAssumption` (a pattern may hold an
event).

**`InstrumentDialogProofs`.** `DialogsInv`: the document and both histories have their
types, and an open dialog shows the patch, samples and number of patches that the document
has. `DialogShowsPatchHolds` is that; it needs what each edit of a keysplit makes of its
length and of the selected row (`EditGoesTo`), for edits, undo and redo alike.
`EditsFollowPatchHolds` and `SampleDialogFollowsHolds` are action properties, from what
every step does (`StepOk`). `DialogInSyncHolds` adds what is drawn: *if the graph draws
the whole of every envelope that the sliders can make*, it draws the patch's. The premise
is about constants: `GetAdsr` simulates an envelope turn by turn, a recursion over data
whose values the prover cannot compute. TLC evaluates it for the 36 envelopes of the run
`dialogs`. Assumed: `DocumentsAssumption`, `SlotsAssumption`, `AdsrsAssumption`,
`NoneAssumption`, `MaxKeysplitsAssumption`.

**`FilesProofs`.** The largest lemma, `RoundTrip`, says that what is saved of a document
within the limits loads as the same document: per sample, keysplit, event, block, track
and option, each check of `validate.cpp` finds nothing to change, and the list of a row of
slots reads back into the same slots. `DocumentLoads` says that what is loaded from *any*
file has the types and limits of `doc.h`. `FilesInv` adds to `CleanMeansOnDisk` what makes
it inductive: a document is marked clean only when a write that knows its path has
succeeded (`DialogsFollow`), and a clean document without a path is the new one
(`UntitledIsNew`), so that "save" has nothing to miss. `CleanMeansOnDiskHolds`,
`DocumentStaysInRange` and `FilesTypesHold` follow, and two action properties:
`LossIsChosenHolds` and `FilesStayLoadableHolds`. The theorems excuse documents with a
block past `MAX_TICK` (section 4). Assumed: `PathsAssumption` and `DisksAssumption` (any
file may be on the disk), `NewAssumption` (the new document, an imported sample and a new
block are what `doc.h` allows), `LimitsAssumption`, `RangesAssumption`,
`DefaultsAssumption`, `NoneAssumption`.

**Only model-checked.** Liveness under fairness (`StartingEnds`, `CarriesOutCommands`) is
beyond the proof system. Two invariants are left. `ScreenShowsSong` compares sets of
drawn rows and events computed by recursion down the screen. `ExportPlaysSamePatch` reads
back what the linker wrote for a compiled song, a recursion over data.

## 6. What is not modelled

* Sample arithmetic: resampling to the output rate, the S-DSP emulator, fractions
  of an RtAudio buffer; pitches and tunings.
* `EnvelopeIterator`, which the SPC700 driver does not use; key bindings,
  configuration and start-up; sample documents.
* Tempos between integers; the values of effects.
* Cursors restored by undo; the flags that tell which widget to redraw; menus,
  layouts, labels, colors, the zoom of the envelope graph. The timeline editor is a
  label that says TODO.
* Warnings of the validator and of the dialogs; parsing of .brr and .wav files;
  the schema's generated code.
* Of the export: envelopes and tunings, the header's texts, `save_file()`. Loop
  bodies (`Symbol::LoopBodies`) are defined and never referenced.

## 7. Plan

Done: the modules above, in the order of the table of section 2.

Left, in order of worth:

1. Proofs: `ScreenShowsSong` of `PatternDrawing`; `ExportPlaysSamePatch` of `SpcExport`.
   `PlaysWhatIsWritten` with delays, for playback that no seek or edit disturbs.
2. The values of effects and volumes in `EditPattern`, and cursors in `History`.
3. The titles and warnings of the dialogs; `save_file()` of the export with its
   failures.
