------------------------------ MODULE AudioSync ------------------------------
(***************************************************************************)
(* The protocol between the GUI thread and the audio thread of exotracker: *)
(* the linked list of commands (cmd_queue.h, cmd_queue.cpp), the GUI side  *)
(* that pushes and frees its nodes (AudioComponent in main_window.cpp) and *)
(* the audio side that walks it once per emulated timer                    *)
(* (OverallSynth::synthesize_tick_oversampled in synth.cpp).               *)
(*                                                                         *)
(* Each thread owns a copy of the document.  The GUI never waits for the   *)
(* audio thread except when it destroys it; the audio thread never frees a *)
(* node.  The threads share only the next pointers of the nodes and two    *)
(* atomic words, _seen_command and _maybe_seq_time.  Every access to one   *)
(* of those is an atomic step of its own here.                             *)
(*                                                                         *)
(* A document is a function from the parts that edits replace to values.   *)
(* A sequencer time is represented by the playback session it belongs to.  *)
(***************************************************************************)
EXTENDS Naturals

CONSTANTS
  Addr,         \* addresses a node can be allocated at; freed ones are reused
  NoAddr,       \* the null pointer
  Field,        \* the parts of a document that one edit command replaces
  Value,        \* what a part can hold
  TimingField,  \* the parts SequencerTiming is computed from
  PatternField, \* the parts the chips' sequencers are computed from
  SampleField,  \* the parts of a sample whose edit raises SamplesEdited
  MetadataField,\* those whose edit raises only SampleMetadataEdited
  MaxSerial     \* bound on the number of nodes ever allocated

ASSUME AddrAssumption == NoAddr \notin Addr
ASSUME FieldAssumption ==
  TimingField \union PatternField \union SampleField \union MetadataField
    \subseteq Field
ASSUME BoundAssumption == MaxSerial \in Nat \ {0}

Doc == [Field -> Value]

PlayFrom == [kind |-> "play"]
StopPlayback == [kind |-> "stop"]
EditBox(f, v) == [kind |-> "edit", field |-> f, value |-> v]

MessageBody ==
  {PlayFrom, StopPlayback} \union {EditBox(f, v) : f \in Field, v \in Value}

(* BaseEditCommand::apply_swap() exchanges a part of the document with the *)
(* value the command holds.                                                *)
ApplyEdit(doc, m) == [doc EXCEPT ![m.field] = m.value]
SwappedEdit(doc, m) == EditBox(m.field, doc[m.field])

None == 0  \* std::nullopt as a MaybeSequencerTime; sessions are positive

-----------------------------------------------------------------------------
VARIABLES
  \* The heap: nodes of type AudioCommand.
  live,         \* addresses that hold an allocated node
  next, msg,    \* AudioCommand::next and ::msg
  serial,       \* history: rank of the node in allocation order
  \* Owned by the GUI thread.
  begin, end,   \* CommandQueue::_begin and ::_end
  audioState,   \* AudioComponent::_audio_state
  hasHandle,    \* AudioComponent::_audio_handle.has_value()
  guiDoc,       \* the document in History
  gui,          \* where the GUI thread is inside the running handler
  op,           \* the running handler
  target,       \* x in gc_command_queue(): the value loaded from seen
  session,      \* history: the serial of the last PlayFrom pushed
  \* Atomics written by the audio thread and read by the GUI.
  seen,         \* OverallSynth::_seen_command
  seqTime,      \* OverallSynth::_maybe_seq_time
  \* Owned by the audio thread.
  audio,        \* where the audio thread is; "off" when it does not exist
  cmd, time,    \* the locals cmd and seq_time
  playing,      \* the session being sequenced, None when not _running
  audioDoc,     \* OverallSynth::_document
  modified,     \* the local total_modified
  engine        \* the document the cached synth state was computed from

heapVars  == <<live, next, msg, serial>>
queueVars == <<begin, end>>
guiVars   == <<audioState, hasHandle, guiDoc, gui, op, target, session>>
audioVars == <<audio, cmd, time, playing, audioDoc, modified, engine>>
vars == <<heapVars, queueVars, guiVars, seen, seqTime, audioVars>>

TypeOK ==
  /\ live \subseteq Addr
  /\ next \in [Addr -> Addr \union {NoAddr}]
  /\ msg \in [Addr -> MessageBody]
  /\ serial \in [Addr -> Nat]
  /\ begin \in Addr /\ end \in Addr
  /\ audioState \in {"Stopped", "Starting", "PlayHasStarted"}
  /\ hasHandle \in BOOLEAN
  /\ guiDoc \in Doc
  /\ gui \in {"idle", "gc", "body", "join", "clear", "make"}
  /\ op \in {"refresh", "transport", "edit"}
  /\ target \in Addr
  /\ session \in Nat
  /\ seen \in Addr
  /\ seqTime \in Nat
  /\ audio \in {"off", "idle", "commands", "storeTime", "storeSeen"}
  /\ cmd \in Addr
  /\ time \in Nat
  /\ playing \in Nat
  /\ audioDoc \in Doc
  /\ modified \subseteq Field
  /\ engine \in Doc

-----------------------------------------------------------------------------
(* CommandQueue's constructor allocates the stub node and                  *)
(* MainWindowImpl's calls setup_audio() before any handler can run.        *)
Init ==
  \E n \in Addr, doc \in Doc :
    /\ live = {n}
    /\ next = [a \in Addr |-> NoAddr]
    /\ msg = [a \in Addr |-> StopPlayback]
    /\ serial = [a \in Addr |-> IF a = n THEN 1 ELSE 0]
    /\ begin = n /\ end = n
    /\ audioState = "Stopped"
    /\ hasHandle = FALSE
    /\ guiDoc = doc
    /\ gui = "make"
    /\ op = "refresh"
    /\ target = n
    /\ session = 0
    /\ seen = n
    /\ seqTime = None
    /\ audio = "off"
    /\ cmd = n
    /\ time = None
    /\ playing = None
    /\ audioDoc = doc
    /\ modified = {}
    /\ engine = doc

(* The program's allocator does not run out of nodes.  The model lets the  *)
(* user act only while an address and a serial number are left.            *)
CanPush == serial[end] < MaxSerial /\ live # Addr

(* CommandQueue::push(): allocate the node, publish it with a release      *)
(* store to the next pointer of the last node, then move _end.             *)
Push(m) ==
  \E n \in Addr \ live :
    /\ live' = live \union {n}
    /\ msg' = [msg EXCEPT ![n] = m]
    /\ next' = [next EXCEPT ![n] = NoAddr, ![end] = n]
    /\ serial' = [serial EXCEPT ![n] = serial[end] + 1]
    /\ end' = n
    /\ UNCHANGED begin

-----------------------------------------------------------------------------
(* Handlers of the GUI thread that start with gc_command_queue(): the      *)
(* refresh timer, play_pause() or play_from_row(), and an edit (push_edit, *)
(* undo or redo).  The first step loads seen if the queue is not empty.    *)

(* Bug: everything up to _end is taken for handled. *)
StartHandlerSeesEnd(h) ==
  /\ gui = "idle" /\ hasHandle
  /\ h # "refresh" => CanPush
  /\ op' = h /\ gui' = "gc" /\ target' = end
  /\ UNCHANGED <<heapVars, queueVars, audioState, hasHandle, guiDoc, session,
                 seen, seqTime, audioVars>>

StartHandler(h) ==
  /\ gui = "idle"
  /\ hasHandle
  /\ h # "refresh" => CanPush
  /\ op' = h
  /\ \/ /\ begin # end
        /\ gui' = "gc"
        /\ target' = seen
     \/ /\ begin = end
        /\ gui' = "body"
        /\ UNCHANGED target
  /\ UNCHANGED <<heapVars, queueVars, audioState, hasHandle, guiDoc, session,
                 seen, seqTime, audioVars>>

Refresh == StartHandler("refresh")
UserTransport == StartHandler("transport")
UserEdit == StartHandler("edit")

(* Bug: the node is unlinked but not deleted. *)
PopLeaks ==
  /\ gui = "gc" /\ begin # target
  /\ begin' = next[begin]
  /\ UNCHANGED <<heapVars, end, guiVars, seen, seqTime, audioVars>>

(* CommandQueue::pop(), called while begin() differs from the value loaded. *)
Pop ==
  /\ gui = "gc"
  /\ begin # target
  /\ live' = live \ {begin}
  /\ begin' = next[begin]
  /\ UNCHANGED <<next, msg, serial, end, guiVars, seen, seqTime, audioVars>>

(* Bug: the state machine is not advanced when the queue empties. *)
EndGcStaysStarting ==
  /\ gui = "gc" /\ begin = target
  /\ gui' = "body"
  /\ UNCHANGED <<heapVars, queueVars, audioState, hasHandle, guiDoc, op, target,
                 session, seen, seqTime, audioVars>>

(* The end of gc_command_queue(): the audio thread has caught up.          *)
EndGc ==
  /\ gui = "gc"
  /\ begin = target
  /\ gui' = "body"
  /\ audioState' = IF begin = end /\ audioState = "Starting"
                   THEN "PlayHasStarted" ELSE audioState
  /\ UNCHANGED <<heapVars, queueVars, hasHandle, guiDoc, op, target, session,
                 seen, seqTime, audioVars>>

(* The end of maybe_seq_time(): play_time() is loaded after the gc, and    *)
(* moves the cursor only if audioState is PlayHasStarted.                  *)
ReadTime ==
  /\ gui = "body" /\ op = "refresh"
  /\ gui' = "idle"
  /\ UNCHANGED <<heapVars, queueVars, audioState, hasHandle, guiDoc, op,
                 target, session, seen, seqTime, audioVars>>

(* play_from(): also the start of a new session.                           *)
StartPlay ==
  /\ gui = "body" /\ op = "transport"
  /\ audioState = "Stopped"
  /\ Push(PlayFrom)
  /\ audioState' = "Starting"
  /\ session' = serial[end] + 1
  /\ gui' = "idle"
  /\ UNCHANGED <<hasHandle, guiDoc, op, target, seen, seqTime, audioVars>>

(* stop_play(), whether or not the audio thread has caught up.             *)
StopPlay ==
  /\ gui = "body" /\ op = "transport"
  /\ audioState # "Stopped"
  /\ Push(StopPlayback)
  /\ audioState' = "Stopped"
  /\ gui' = "idle"
  /\ UNCHANGED <<hasHandle, guiDoc, op, target, session, seen, seqTime,
                 audioVars>>

(* send_edit() and the change of the GUI's document.  Which of the two     *)
(* comes first differs between push_edit() and undo(), and no other thread *)
(* can tell.                                                               *)
SendEdit ==
  /\ gui = "body" /\ op = "edit"
  /\ \E f \in Field, v \in Value :
       /\ Push(EditBox(f, v))
       /\ guiDoc' = ApplyEdit(guiDoc, EditBox(f, v))
  /\ gui' = "idle"
  /\ UNCHANGED <<audioState, hasHandle, op, target, session, seen, seqTime,
                 audioVars>>

(* An edit while there is no audio thread: send_edit() does nothing.       *)
EditOffline ==
  /\ gui = "idle"
  /\ ~hasHandle
  /\ \E f \in Field, v \in Value : guiDoc' = ApplyEdit(guiDoc, EditBox(f, v))
  /\ UNCHANGED <<heapVars, queueVars, audioState, hasHandle, gui, op, target,
                 session, seen, seqTime, audioVars>>

-----------------------------------------------------------------------------
(* restart_audio_thread(), on its own (F12) or at the end of               *)
(* open_document(), which replaces the GUI's document first.               *)

(* Bug: set_document() without restart_audio_thread(). *)
RestartForgotten(doc) ==
  /\ gui = "idle" /\ serial[end] < MaxSerial
  /\ guiDoc' = doc
  /\ UNCHANGED <<heapVars, queueVars, audioState, hasHandle, gui, op, target,
                 session, seen, seqTime, audioVars>>

Restart(doc) ==
  /\ gui = "idle"
  /\ serial[end] < MaxSerial
  /\ guiDoc' = doc
  /\ gui' = IF hasHandle THEN "join" ELSE "clear"
  /\ audioState' = IF hasHandle THEN audioState ELSE "Stopped"
  /\ UNCHANGED <<heapVars, queueVars, hasHandle, op, target, session, seen,
                 seqTime, audioVars>>

RestartAudio == Restart(guiDoc)
OpenDocument == \E doc \in Doc : Restart(doc)

(* Bug: _audio_state survives the audio thread. *)
JoinKeepsState ==
  /\ gui = "join" /\ audio = "idle"
  /\ audio' = "off" /\ hasHandle' = FALSE /\ gui' = "clear"
  /\ UNCHANGED <<heapVars, queueVars, audioState, guiDoc, op, target, session,
                 seen, seqTime, cmd, time, playing, audioDoc, modified, engine>>

(* ~AudioThreadHandle() returns once no callback is running.               *)
Join ==
  /\ gui = "join"
  /\ audio = "idle"
  /\ audio' = "off"
  /\ hasHandle' = FALSE
  /\ audioState' = "Stopped"
  /\ gui' = "clear"
  /\ UNCHANGED <<heapVars, queueVars, guiDoc, op, target, session, seen,
                 seqTime, cmd, time, playing, audioDoc, modified, engine>>

(* Bug: the loop also frees the node without a successor. *)
ClearNodePastEnd ==
  /\ gui = "clear"
  /\ live' = live \ {begin} /\ begin' = next[begin]
  /\ UNCHANGED <<next, msg, serial, end, guiVars, seen, seqTime, audioVars>>

(* destroy_all() frees every node that has a successor...                  *)
ClearNode ==
  /\ gui = "clear"
  /\ next[begin] # NoAddr
  /\ live' = live \ {begin}
  /\ begin' = next[begin]
  /\ UNCHANGED <<next, msg, serial, end, guiVars, seen, seqTime, audioVars>>

(* ... then the last one, and init() allocates a new stub.                 *)
ClearLast ==
  /\ gui = "clear"
  /\ next[begin] = NoAddr
  /\ \E n \in Addr \ (live \ {begin}) :
       /\ live' = (live \ {begin}) \union {n}
       /\ next' = [next EXCEPT ![n] = NoAddr]
       /\ msg' = [msg EXCEPT ![n] = StopPlayback]
       /\ serial' = [serial EXCEPT ![n] = serial[end] + 1]
       /\ begin' = n
       /\ end' = n
  /\ gui' = "make"
  /\ UNCHANGED <<audioState, hasHandle, guiDoc, op, target, session, seen,
                 seqTime, audioVars>>

(* Bug: the synth is constructed without the stub command. *)
MakeHandleStaleSeen ==
  /\ gui = "make" /\ gui' = "idle"
  /\ hasHandle' = TRUE /\ audio' = "idle"
  /\ seqTime' = None /\ playing' = None
  /\ audioDoc' = guiDoc /\ engine' = guiDoc
  /\ UNCHANGED <<heapVars, queueVars, audioState, guiDoc, op, target, session,
                 seen, cmd, time, modified>>

(* AudioThreadHandle::make(): a new synth on a clone of the document.      *)
MakeHandle ==
  /\ gui = "make"
  /\ gui' = "idle"
  /\ hasHandle' = TRUE
  /\ audio' = "idle"
  /\ seen' = begin
  /\ seqTime' = None
  /\ playing' = None
  /\ audioDoc' = guiDoc
  /\ engine' = guiDoc
  /\ UNCHANGED <<heapVars, queueVars, audioState, guiDoc, op, target, session,
                 cmd, time, modified>>

(* RtAudio throws: make() returns nullopt.                                 *)
MakeFails ==
  /\ gui = "make"
  /\ gui' = "idle"
  /\ UNCHANGED <<heapVars, queueVars, audioState, hasHandle, guiDoc, op,
                 target, session, seen, seqTime, audioVars>>

-----------------------------------------------------------------------------
(* The audio thread: one callback is a number of timer periods, each of    *)
(* them a call of synthesize_tick_oversampled().                           *)

(* Bug: the list is walked from _begin again. *)
BeginTickFromBegin ==
  /\ audio = "idle" /\ audio' = "commands"
  /\ cmd' = begin /\ time' = seqTime /\ modified' = {}
  /\ UNCHANGED <<heapVars, queueVars, guiVars, seen, seqTime, playing,
                 audioDoc, engine>>

(* Bug: commands are handled only while playing. *)
BeginTickWhilePlaying ==
  /\ audio = "idle" /\ playing # None /\ audio' = "commands"
  /\ cmd' = seen /\ time' = seqTime /\ modified' = {}
  /\ UNCHANGED <<heapVars, queueVars, guiVars, seen, seqTime, playing,
                 audioDoc, engine>>

BeginTick ==
  /\ audio = "idle"
  /\ audio' = "commands"
  /\ cmd' = seen
  /\ time' = seqTime
  /\ modified' = {}
  /\ UNCHANGED <<heapVars, queueVars, guiVars, seen, seqTime, playing,
                 audioDoc, engine>>

(* What the cached state becomes when the parts F are computed anew.       *)
Recomputed(F) == [f \in Field |-> IF f \in F THEN audioDoc[f] ELSE engine[f]]

(* The parts that total_modified asks to compute anew.  Nothing checks     *)
(* SampleMetadataEdited: what such an edit changed in the document, the    *)
(* loop points, reaches the ARAM with the next reload of the samples.      *)
InvalidatedParts ==
       {f \in TimingField : modified \intersect TimingField # {}}
  \union {f \in PatternField : modified \intersect PatternField # {}}
  \union {f \in SampleField \union MetadataField :
            modified \intersect SampleField # {}}

(* The iteration for a PlayFrom: reset_state() packs the samples again and *)
(* seek() visits the patterns anew, and the timing starts running.         *)
HandlePlay ==
  /\ audio = "commands"
  /\ next[cmd] # NoAddr
  /\ msg[next[cmd]] = PlayFrom
  /\ cmd' = next[cmd]
  /\ playing' = serial[next[cmd]]
  /\ engine' = Recomputed(PatternField \union SampleField \union MetadataField)
  /\ UNCHANGED <<heapVars, queueVars, guiVars, seen, seqTime, audio, time,
                 audioDoc, modified>>

HandleStop ==
  /\ audio = "commands"
  /\ next[cmd] # NoAddr
  /\ msg[next[cmd]] = StopPlayback
  /\ cmd' = next[cmd]
  /\ playing' = None
  /\ time' = None
  /\ UNCHANGED <<heapVars, queueVars, guiVars, seen, seqTime, audio,
                 audioDoc, modified, engine>>

(* The iteration for an edit: the command and the document swap contents.  *)
HandleEdit ==
  /\ audio = "commands"
  /\ next[cmd] # NoAddr
  /\ LET n == next[cmd] IN
       /\ msg[n].kind = "edit"
       /\ cmd' = n
       /\ audioDoc' = ApplyEdit(audioDoc, msg[n])
       /\ msg' = [msg EXCEPT ![n] = SwappedEdit(audioDoc, msg[n])]
       /\ modified' = modified \union {msg[n].field}
  /\ UNCHANGED <<live, next, serial, queueVars, guiVars, seen, seqTime, audio,
                 time, playing, engine>>

(* Bug: a stopped synth skips the recomputations. *)
FinishCommandsIfPlaying ==
  /\ audio = "commands" /\ next[cmd] = NoAddr
  /\ engine' = IF playing = None THEN engine ELSE Recomputed(InvalidatedParts)
  /\ time' \in {time, playing}
  /\ audio' = "storeTime"
  /\ UNCHANGED <<heapVars, queueVars, guiVars, seen, seqTime, cmd, playing,
                 audioDoc, modified>>

(* Bug: "seen command" is stored before the timestamp. *)
FinishCommandsSeenFirst ==
  /\ audio = "commands" /\ next[cmd] = NoAddr
  /\ seen' = cmd
  /\ engine' = Recomputed(InvalidatedParts)
  /\ time' \in {time, playing}
  /\ audio' = "storeTime"
  /\ UNCHANGED <<heapVars, queueVars, guiVars, seqTime, cmd, playing,
                 audioDoc, modified>>

(* No successor: recompute_tempo(), doc_edited() and reload_samples() as   *)
(* total_modified asks for, then run_timer(), which ticks the sequencer or *)
(* not if it is running.  A tick stores the sequencer's time in seq_time.  *)
FinishCommands ==
  /\ audio = "commands"
  /\ next[cmd] = NoAddr
  /\ engine' = Recomputed(InvalidatedParts)
  /\ \/ UNCHANGED time
     \/ playing # None /\ time' = playing
  /\ audio' = "storeTime"
  /\ UNCHANGED <<heapVars, queueVars, guiVars, seen, seqTime, cmd, playing,
                 audioDoc, modified>>

(* _maybe_seq_time is stored before _seen_command.                         *)
StoreTime ==
  /\ audio = "storeTime"
  /\ seqTime' = time
  /\ audio' = "storeSeen"
  /\ UNCHANGED <<heapVars, queueVars, guiVars, seen, cmd, time, playing,
                 audioDoc, modified, engine>>

(* Bug: seen is stored only while there is a time. *)
StoreSeenWithTime ==
  /\ audio = "storeSeen" /\ audio' = "idle"
  /\ seen' = IF time # None THEN cmd ELSE seen
  /\ UNCHANGED <<heapVars, queueVars, guiVars, seqTime, cmd, time, playing,
                 audioDoc, modified, engine>>

StoreSeen ==
  /\ audio = "storeSeen"
  /\ seen' = cmd
  /\ audio' = "idle"
  /\ UNCHANGED <<heapVars, queueVars, guiVars, seqTime, cmd, time, playing,
                 audioDoc, modified, engine>>

-----------------------------------------------------------------------------
GuiStep ==
  \/ Pop \/ EndGc \/ ReadTime \/ StartPlay \/ StopPlay \/ SendEdit
  \/ ClearNode \/ ClearLast \/ MakeHandle \/ MakeFails

UserStep ==
  UserTransport \/ UserEdit \/ EditOffline \/ RestartAudio \/ OpenDocument

AudioStep ==
  \/ BeginTick \/ HandlePlay \/ HandleStop \/ HandleEdit \/ FinishCommands
  \/ StoreTime \/ StoreSeen

Next == GuiStep \/ Join \/ Refresh \/ UserStep \/ AudioStep

Spec == Init /\ [][Next]_vars

(* The GUI thread finishes the handlers it starts, the refresh timer keeps *)
(* firing, the audio backend keeps calling back while a stream is open,    *)
(* and stopStream() returns between two callbacks.                         *)
Fairness ==
  /\ WF_vars(GuiStep)
  /\ WF_vars(Refresh)
  /\ SF_vars(Join)
  /\ WF_vars(AudioStep)

FairSpec == Spec /\ Fairness

-----------------------------------------------------------------------------
(* The release_asserts of pop(), destroy_all() and setup_audio(): the loop *)
(* of gc_command_queue() meets the node the audio thread published before  *)
(* it runs off the queue, clear() ends at _end, and a new audio thread     *)
(* starts on an empty queue.                                               *)
AssertsHold ==
  /\ gui = "gc" /\ begin # target => begin # end /\ next[begin] # NoAddr
  /\ gui = "clear" /\ next[begin] = NoAddr => begin = end
  /\ gui = "make" => begin = end

(* No thread follows a pointer to a freed node, although pop() frees nodes *)
(* while the audio thread walks the list and their addresses are reused.   *)
NoUseAfterFree ==
  /\ begin \in live /\ end \in live
  /\ hasHandle => seen \in live
  /\ audio \notin {"off", "idle"} => cmd \in live
  /\ audio = "commands" /\ next[cmd] # NoAddr => next[cmd] \in live

(* Every allocated node is still between _begin and _end: pop() and        *)
(* clear() lose none.                                                      *)
NoLeak ==
  \A n \in live : serial[begin] <= serial[n] /\ serial[n] <= serial[end]

(* The last node whose command the audio thread has carried out.           *)
LastHandled == IF audio = "idle" THEN seen ELSE cmd

(* Once the audio thread has carried out every command pushed, its copy of *)
(* the document equals the GUI's.  Between set_document() and the restart, *)
(* open_document() breaks this on purpose.                                 *)
MirrorWhenCaughtUp ==
  hasHandle /\ gui # "join" /\ next[LastHandled] = NoAddr => audioDoc = guiDoc

(* Whatever batch of edits, seeks and stops one period carries out, the    *)
(* tempo, the patterns and the sample data that SequencerTiming and the    *)
(* chips cache are those of the document when they run, playing or not.    *)
(* The loop points cached are not: an edit that raises SampleMetadataEdited*)
(* leaves them stale until samples are edited or playback is started.  In  *)
(* a period that carries out an edit of sample data they are renewed too.  *)
EngineFresh ==
  audio \in {"idle", "storeTime", "storeSeen"} =>
    /\ \A f \in TimingField \union PatternField \union SampleField :
         engine[f] = audioDoc[f]
    /\ modified \intersect SampleField # {} =>
         \A f \in MetadataField : engine[f] = audioDoc[f]

(* "If GUI sees we're done with commands, it sees the right time": the     *)
(* cursor is never moved by a time of an earlier playback session.         *)
FreshTime ==
  hasHandle /\ audioState = "PlayHasStarted" => seqTime \in {None, session}

(* gc_command_queue() leaves Starting only on emptying a queue that was    *)
(* not empty, so a Starting GUI always has a command to wait for.          *)
StartingHasPending ==
  audioState = "Starting" /\ gui # "gc" => begin # end

(* A GUI waiting for playback to start is not left waiting.                *)
StartingEnds == (audioState = "Starting") ~> (audioState # "Starting")

(* Every command pushed is carried out and its node freed.                 *)
QueueDrains == (begin # end) ~> (begin = end)

=============================================================================
