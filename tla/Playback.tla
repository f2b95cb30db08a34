------------------------------ MODULE Playback ------------------------------
(***************************************************************************)
(* What the GUI may rely on when it talks to the audio thread, without the *)
(* linked list, the atomics or the allocator.  Both threads keep a copy of *)
(* the document (DESIGN.md, "Document/undo architecture"), and the audio   *)
(* thread carries out the edits and playback commands it is sent in the    *)
(* order the GUI made them.  AudioSync implements this specification.      *)
(***************************************************************************)
EXTENDS Naturals, Sequences

CONSTANTS Field, Value

Doc == [Field -> Value]
Edit == [kind : {"edit"}, field : Field, value : Value]
Transport == [kind : {"play", "stop"}]
Command == Edit \union Transport

VARIABLES
  doc,      \* the document the user sees
  online,   \* an audio thread exists
  closing,  \* the user opened a document; the audio thread still has the old
  replica,  \* the audio thread's document
  playing,  \* the audio thread is playing
  log       \* the commands sent and not carried out, oldest first

vars == <<doc, online, closing, replica, playing, log>>

TypeOK ==
  /\ doc \in Doc /\ replica \in Doc
  /\ online \in BOOLEAN /\ closing \in BOOLEAN /\ playing \in BOOLEAN
  /\ log \in Seq(Command)

Init ==
  /\ doc \in Doc
  /\ replica = doc
  /\ ~online /\ ~closing /\ ~playing
  /\ log = <<>>

Apply(d, e) == [d EXCEPT ![e.field] = e.value]

SendEdit ==
  /\ ~closing
  /\ \E e \in Edit :
       /\ doc' = Apply(doc, e)
       /\ log' = IF online THEN Append(log, e) ELSE log
  /\ UNCHANGED <<online, closing, replica, playing>>

SendTransport ==
  /\ online /\ ~closing
  /\ \E c \in Transport : log' = Append(log, c)
  /\ UNCHANGED <<doc, online, closing, replica, playing>>

(* The audio thread carries out the oldest command.                        *)
CarryOut ==
  /\ online
  /\ log # <<>>
  /\ log' = Tail(log)
  /\ \/ /\ Head(log) \in Transport
        /\ playing' = (Head(log).kind = "play")
        /\ UNCHANGED replica
     \/ /\ Head(log) \in Edit
        /\ replica' = Apply(replica, Head(log))
        /\ UNCHANGED playing
  /\ UNCHANGED <<doc, online, closing>>

BeginRestart ==
  /\ ~closing
  /\ doc' \in Doc
  /\ closing' = online
  /\ UNCHANGED <<online, replica, playing, log>>

(* The old audio thread ends; the commands it did not reach are dropped.   *)
GoOffline ==
  /\ closing
  /\ closing' = FALSE
  /\ online' = FALSE
  /\ playing' = FALSE
  /\ log' = <<>>
  /\ UNCHANGED <<doc, replica>>

GoOnline ==
  /\ ~online
  /\ online' = TRUE
  /\ replica' = doc
  /\ UNCHANGED <<doc, closing, playing, log>>

Next ==
  \/ SendEdit \/ SendTransport \/ CarryOut
  \/ BeginRestart \/ GoOffline \/ GoOnline

Spec == Init /\ [][Next]_vars

(* A command sent is carried out, unless its audio thread is shut down.    *)
Fairness == WF_vars(CarryOut)
FairSpec == Spec /\ Fairness

=============================================================================
