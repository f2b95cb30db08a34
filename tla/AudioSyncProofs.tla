--------------------------- MODULE AudioSyncProofs ---------------------------
(***************************************************************************)
(* Proofs about AudioSync, for every set of addresses, every document and  *)
(* every number of commands.                                               *)
(***************************************************************************)
EXTENDS AudioSyncInv, AudioSyncRefinement, SequenceTheorems, TLAPS

(* A message is of one of three kinds, which determines it.                *)
LEMMA MessageKind ==
  ASSUME NEW m \in MessageBody
  PROVE  /\ m.kind \in {"play", "stop", "edit"}
         /\ m.kind = "play" <=> m = PlayFrom
         /\ m.kind = "stop" <=> m = StopPlayback
         /\ m.kind = "edit" => /\ m.field \in Field /\ m.value \in Value
                               /\ m = EditBox(m.field, m.value)
  BY DEF MessageBody, PlayFrom, StopPlayback, EditBox

(* An edit command is a message, with the field and value it carries.      *)
LEMMA EditInMessages ==
  ASSUME NEW f \in Field, NEW v \in Value
  PROVE  /\ EditBox(f, v) \in MessageBody
         /\ EditBox(f, v).kind = "edit"
         /\ EditBox(f, v).field = f
         /\ EditBox(f, v).value = v
  BY DEF MessageBody, EditBox

(* So are the two transport commands, told apart by their kind.            *)
LEMMA TransportInMessages ==
  /\ PlayFrom \in MessageBody /\ PlayFrom.kind = "play"
  /\ StopPlayback \in MessageBody /\ StopPlayback.kind = "stop"
  BY DEF MessageBody, PlayFrom, StopPlayback

(* Applying an edit of a document gives a document.                        *)
LEMMA ApplyIsDoc ==
  ASSUME NEW doc \in Doc, NEW f \in Field, NEW v \in Value
  PROVE  ApplyEdit(doc, EditBox(f, v)) \in Doc
  BY EditInMessages DEF ApplyEdit, Doc

(* CommandQueue() makes a list of one node, which all the positions name.  *)
LEMMA InitPointerInv == Init => PointerInv
<1> SUFFICES ASSUME Init PROVE PointerInv
  OBVIOUS
<1>1. PICK n \in Addr, doc \in Doc :
        /\ live = {n} /\ begin = n /\ end = n
        /\ target = n /\ seen = n /\ cmd = n
        /\ next = [a \in Addr |-> NoAddr]
        /\ msg = [a \in Addr |-> StopPlayback]
        /\ serial = [a \in Addr |-> IF a = n THEN 1 ELSE 0]
        /\ guiDoc = doc /\ audioDoc = doc /\ engine = doc
  BY DEF Init
<1>2. /\ audioState = "Stopped" /\ hasHandle = FALSE /\ gui = "make"
      /\ op = "refresh" /\ session = 0 /\ seqTime = 0 /\ audio = "off"
      /\ time = 0 /\ playing = 0 /\ modified = {}
  BY DEF Init, None
<1>3. TypeOK
  BY <1>1, <1>2, TransportInMessages DEF TypeOK
<1>4. ListShape
  <2>1. serial[n] = 1 /\ next[n] = NoAddr /\ \A a \in live : a = n
    BY <1>1
  <2>2. begin \in live /\ end \in live /\ next[end] = NoAddr
    BY <1>1, <2>1
  <2>3. \A a \in live : serial[begin] <= serial[a] /\ serial[a] <= serial[end]
    <3>1. begin = n /\ end = n
      BY <1>1
    <3> QED BY <3>1, <2>1
  <2>4. live \ {end} = {}
    BY <1>1
  <2>5. \A a, b \in live : serial[a] = serial[b] => a = b
    BY <2>1
  <2> QED BY <2>2, <2>3, <2>4, <2>5 DEF ListShape
<1>5. Positions
  BY <1>1, <1>2 DEF Positions
<1> QED BY <1>3, <1>4, <1>5 DEF PointerInv

(* Pushing a node keeps the list well formed and puts the node last.       *)
LEMMA PushPointers ==
  ASSUME PointerInv, NEW m \in MessageBody, Push(m)
  PROVE  /\ live' \subseteq Addr
         /\ next' \in [Addr -> Addr \union {NoAddr}]
         /\ msg' \in [Addr -> MessageBody]
         /\ serial' \in [Addr -> Nat]
         /\ begin' \in Addr /\ end' \in Addr
         /\ ListShape'
         /\ live \subseteq live'
         /\ \A n \in live : serial'[n] = serial[n] /\ msg'[n] = msg[n]
         /\ end' \notin live /\ live' = live \union {end'}
         /\ serial'[end'] = serial[end] + 1
         /\ msg'[end'] = m
         /\ begin' = begin
<1>1. PICK n \in Addr \ live :
        /\ live' = live \union {n}
        /\ msg' = [msg EXCEPT ![n] = m]
        /\ next' = [next EXCEPT ![n] = NoAddr, ![end] = n]
        /\ serial' = [serial EXCEPT ![n] = serial[end] + 1]
        /\ end' = n
        /\ begin' = begin
  BY DEF Push
<1>2. TypeOK /\ ListShape
  BY DEF PointerInv
<1>3. /\ live' \subseteq Addr
      /\ next' \in [Addr -> Addr \union {NoAddr}]
      /\ msg' \in [Addr -> MessageBody]
      /\ serial' \in [Addr -> Nat]
      /\ begin' \in Addr /\ end' \in Addr
  BY <1>1, <1>2 DEF TypeOK
<1>4. n # end /\ end \in live
  BY <1>1, <1>2 DEF ListShape
<1>5. /\ \A a \in live : serial'[a] = serial[a] /\ msg'[a] = msg[a]
      /\ serial'[n] = serial[end] + 1
      /\ msg'[n] = m
      /\ next'[n] = NoAddr
      /\ next'[end] = n
      /\ \A a \in live \ {end} : next'[a] = next[a]
  BY <1>1, <1>2, <1>4 DEF TypeOK
<1>6. ListShape'
  BY <1>1, <1>2, <1>3, <1>4, <1>5 DEF TypeOK, ListShape
<1> QED BY <1>1, <1>3, <1>5, <1>6

(* Dropping the first node, as pop() and clear() do, keeps the list.       *)
LEMMA DropFirst ==
  ASSUME PointerInv, begin # end,
         live' = live \ {begin}, begin' = next[begin],
         UNCHANGED <<next, msg, serial, end>>
  PROVE  /\ ListShape'
         /\ live' \subseteq Addr /\ begin' \in Addr
         /\ \A n \in live : serial[n] > serial[begin] => n \in live'
<1> USE DEF PointerInv, TypeOK, ListShape
<1>1. begin \in live /\ begin' \in live /\ serial[begin'] = serial[begin] + 1
  OBVIOUS
<1>2. \A n \in live' : serial[n] >= serial[begin] + 1
  <2> SUFFICES ASSUME NEW n \in live' PROVE serial[n] >= serial[begin] + 1
    OBVIOUS
  <2>1. n # begin /\ serial[begin] <= serial[n] /\ serial[n] # serial[begin]
    OBVIOUS
  <2>2. serial[n] \in Nat /\ serial[begin] \in Nat
    OBVIOUS
  <2> QED BY <2>1, <2>2
<1>3. \A n \in live' \ {end} : next[n] # begin
  BY <1>2
<1>4. live' \subseteq Addr /\ begin' \in Addr /\ begin' \in live'
  BY <1>1
<1>5. \A n \in live : serial[n] > serial[begin] => n \in live'
  OBVIOUS
<1> QED BY <1>1, <1>2, <1>3, <1>4, <1>5

(* The conjuncts of the pointer invariant that an action leaves alone.     *)
LEMMA ListUnchanged ==
  ASSUME ListShape, UNCHANGED <<live, next, serial, begin, end>>
  PROVE  ListShape'
  BY DEF ListShape

(* No step of either thread tears the list or moves a position off it.     *)
LEMMA PointerStep == PointerInv /\ [Next]_vars => PointerInv'
<1> SUFFICES ASSUME PointerInv, [Next]_vars PROVE PointerInv'
  OBVIOUS
<1> USE DEF PointerInv
<1>0. CASE UNCHANGED vars
  BY <1>0 DEF vars, heapVars, queueVars, guiVars, audioVars,
              TypeOK, ListShape, Positions
<1>1. ASSUME NEW h \in {"refresh", "transport", "edit"}, StartHandler(h)
      PROVE  PointerInv'
  <2>1. ListShape'
    BY <1>1, ListUnchanged DEF StartHandler, heapVars, queueVars
  <2>2. TypeOK'
    BY <1>1 DEF StartHandler, heapVars, queueVars, audioVars, TypeOK
  <2>3. Positions'
    BY <1>1 DEF StartHandler, heapVars, queueVars, audioVars, TypeOK, Positions
  <2> QED BY <2>1, <2>2, <2>3
<1>2. CASE Pop
  <2>1. begin # end
    BY <1>2 DEF Pop, TypeOK, ListShape, Positions
  <2>2. /\ ListShape' /\ live' \subseteq Addr /\ begin' \in Addr
        /\ \A n \in live : serial[n] > serial[begin] => n \in live'
    BY <1>2, <2>1, DropFirst DEF Pop
  <2>3. TypeOK'
    BY <1>2, <2>2 DEF Pop, guiVars, audioVars, TypeOK
  <2>4. serial[target] > serial[begin]
    BY <1>2 DEF Pop, TypeOK, ListShape, Positions
  <2>5. Positions'
    BY <1>2, <2>2, <2>4 DEF Pop, guiVars, audioVars, TypeOK, Positions
  <2> QED BY <2>2, <2>3, <2>5
<1>3. CASE EndGc
  BY <1>3, ListUnchanged DEF EndGc, heapVars, queueVars, audioVars, TypeOK,
                             Positions
<1>4. CASE ReadTime
  BY <1>4, ListUnchanged DEF ReadTime, heapVars, queueVars, audioVars, TypeOK,
                             Positions
<1>5. CASE StartPlay
  <2>1. Push(PlayFrom)
    BY <1>5 DEF StartPlay
  <2>2. PlayFrom \in MessageBody
    BY TransportInMessages
  <2>3. TypeOK'
    BY <1>5, <2>1, <2>2, PushPointers DEF StartPlay, audioVars, TypeOK
  <2>4. Positions'
    BY <1>5, <2>1, <2>2, PushPointers DEF StartPlay, audioVars, TypeOK, Positions
  <2> QED BY <2>1, <2>2, <2>3, <2>4, PushPointers
<1>6. CASE StopPlay
  <2>1. Push(StopPlayback)
    BY <1>6 DEF StopPlay
  <2>2. StopPlayback \in MessageBody
    BY TransportInMessages
  <2>3. TypeOK'
    BY <1>6, <2>1, <2>2, PushPointers DEF StopPlay, audioVars, TypeOK
  <2>4. Positions'
    BY <1>6, <2>1, <2>2, PushPointers DEF StopPlay, audioVars, TypeOK, Positions
  <2> QED BY <2>1, <2>2, <2>3, <2>4, PushPointers
<1>7. CASE SendEdit
  <2>1. PICK f \in Field, v \in Value :
           Push(EditBox(f, v)) /\ guiDoc' = ApplyEdit(guiDoc, EditBox(f, v))
    BY <1>7 DEF SendEdit
  <2>2. EditBox(f, v) \in MessageBody /\ guiDoc' \in Doc
    BY <2>1, EditInMessages, ApplyIsDoc DEF TypeOK
  <2>3. TypeOK'
    BY <1>7, <2>1, <2>2, PushPointers DEF SendEdit, audioVars, TypeOK
  <2>4. Positions'
    BY <1>7, <2>1, <2>2, PushPointers DEF SendEdit, audioVars, TypeOK, Positions
  <2> QED BY <2>1, <2>2, <2>3, <2>4, PushPointers
<1>8. CASE EditOffline
  <2>1. guiDoc' \in Doc
    BY <1>8, ApplyIsDoc DEF EditOffline, TypeOK
  <2> QED BY <1>8, <2>1, ListUnchanged
          DEF EditOffline, heapVars, queueVars, audioVars, TypeOK, Positions
<1>9. ASSUME NEW doc \in Doc, Restart(doc) PROVE PointerInv'
  BY <1>9, ListUnchanged
  DEF Restart, heapVars, queueVars, audioVars, TypeOK, Positions
<1>10. CASE Join
  BY <1>10, ListUnchanged DEF Join, heapVars, queueVars, TypeOK, Positions
<1>11. CASE ClearNode
  <2>1. begin # end
    BY <1>11 DEF ClearNode, ListShape
  <2>2. /\ ListShape' /\ live' \subseteq Addr /\ begin' \in Addr
    BY <1>11, <2>1, DropFirst DEF ClearNode
  <2>3. TypeOK'
    BY <1>11, <2>2 DEF ClearNode, guiVars, audioVars, TypeOK
  <2>4. Positions'
    BY <1>11 DEF ClearNode, guiVars, audioVars, TypeOK, Positions
  <2> QED BY <2>2, <2>3, <2>4
<1>12. CASE ClearLast
  <2>1. begin = end
    BY <1>12, AddrAssumption DEF ClearLast, TypeOK, ListShape
  <2>2. live = {begin}
    BY <2>1 DEF TypeOK, ListShape
  <2>3. PICK n \in Addr :
          /\ live' = {n} /\ begin' = n /\ end' = n
          /\ next' = [next EXCEPT ![n] = NoAddr]
          /\ msg' = [msg EXCEPT ![n] = StopPlayback]
          /\ serial' = [serial EXCEPT ![n] = serial[end] + 1]
    BY <1>12, <2>2 DEF ClearLast
  <2>4. /\ next' \in [Addr -> Addr \union {NoAddr}]
        /\ msg' \in [Addr -> MessageBody]
        /\ serial' \in [Addr -> Nat]
        /\ next'[n] = NoAddr
    BY <2>3, TransportInMessages DEF TypeOK
  <2>5. ListShape'
    BY <2>3, <2>4 DEF ListShape
  <2>6. TypeOK'
    BY <1>12, <2>3, <2>4 DEF ClearLast, audioVars, TypeOK
  <2>7. Positions'
    BY <1>12, <2>3 DEF ClearLast, audioVars, TypeOK, Positions
  <2> QED BY <2>5, <2>6, <2>7
<1>13. CASE MakeHandle
  BY <1>13, ListUnchanged
  DEF MakeHandle, heapVars, queueVars, TypeOK, ListShape, Positions, None
<1>14. CASE MakeFails
  BY <1>14, ListUnchanged
  DEF MakeFails, heapVars, queueVars, audioVars, TypeOK, Positions
<1>15. CASE BeginTick
  BY <1>15, ListUnchanged
  DEF BeginTick, heapVars, queueVars, guiVars, TypeOK, Positions
<1>16. ASSUME audio = "commands", next[cmd] # NoAddr
       PROVE  /\ next[cmd] \in live /\ next[cmd] \in Addr
              /\ serial[next[cmd]] = serial[cmd] + 1
              /\ cmd \in live /\ serial[seen] <= serial[next[cmd]]
  BY <1>16 DEF TypeOK, ListShape, Positions
<1>17. CASE HandlePlay
  <2>1. engine' \in Doc
    BY <1>17 DEF HandlePlay, Recomputed, TypeOK, Doc
  <2>2. TypeOK'
    BY <1>16, <1>17, <2>1
    DEF HandlePlay, heapVars, queueVars, guiVars, TypeOK
  <2>3. ListShape'
    BY <1>17, ListUnchanged DEF HandlePlay, heapVars, queueVars
  <2>4. Positions'
    BY <1>16, <1>17 DEF HandlePlay, heapVars, queueVars, guiVars, Positions
  <2> QED BY <2>2, <2>3, <2>4
<1>18. CASE HandleStop
  BY <1>16, <1>18, ListUnchanged
  DEF HandleStop, heapVars, queueVars, guiVars, TypeOK, Positions, None
<1>19. CASE HandleEdit
  <2> DEFINE n == next[cmd]
  <2>1. n \in Addr /\ msg[n] \in MessageBody /\ msg[n].kind = "edit"
    BY <1>16, <1>19 DEF HandleEdit, TypeOK
  <2>2. msg[n].field \in Field /\ msg[n].value \in Value
    BY <2>1, MessageKind
  <2>3. audioDoc' \in Doc /\ audioDoc[msg[n].field] \in Value
    BY <1>19, <2>2 DEF HandleEdit, ApplyEdit, TypeOK, Doc
  <2>4. SwappedEdit(audioDoc, msg[n]) \in MessageBody
    BY <2>2, <2>3, EditInMessages DEF SwappedEdit
  <2>5. msg' \in [Addr -> MessageBody]
    BY <1>19, <2>4 DEF HandleEdit, TypeOK
  <2>6. TypeOK'
    BY <1>16, <1>19, <2>2, <2>3, <2>5
    DEF HandleEdit, queueVars, guiVars, TypeOK
  <2>7. ListShape'
    BY <1>19, ListUnchanged DEF HandleEdit, queueVars
  <2>8. Positions'
    BY <1>16, <1>19 DEF HandleEdit, queueVars, guiVars, Positions
  <2> QED BY <2>6, <2>7, <2>8
<1>20. CASE FinishCommands
  <2>1. engine' \in Doc
    BY <1>20 DEF FinishCommands, Recomputed, TypeOK, Doc
  <2> QED BY <1>20, <2>1, ListUnchanged
      DEF FinishCommands, heapVars, queueVars, guiVars, TypeOK, Positions
<1>21. CASE StoreTime
  BY <1>21, ListUnchanged
  DEF StoreTime, heapVars, queueVars, guiVars, TypeOK, Positions
<1>22. CASE StoreSeen
  BY <1>22, ListUnchanged
  DEF StoreSeen, heapVars, queueVars, guiVars, TypeOK, Positions
<1>23. CASE Refresh \/ UserTransport \/ UserEdit
  BY <1>1, <1>23 DEF Refresh, UserTransport, UserEdit
<1>24. CASE RestartAudio \/ OpenDocument
  BY <1>9, <1>24 DEF RestartAudio, OpenDocument, TypeOK
<1> QED
  BY <1>0, <1>2, <1>3, <1>4, <1>5, <1>6, <1>7, <1>8, <1>10, <1>11, <1>12,
     <1>13, <1>14, <1>15, <1>17, <1>18, <1>19, <1>20, <1>21, <1>22, <1>23, <1>24
  DEF Next, GuiStep, UserStep, AudioStep

-----------------------------------------------------------------------------
(* How each step changes the set of pending nodes.  Quiet steps, pop()     *)
(* among them, do not.                                                     *)
SamePending ==
  /\ PendingNodes' = PendingNodes
  /\ \A n \in PendingNodes : msg'[n] = msg[n] /\ serial'[n] = serial[n]

QuietStep ==
  \/ \E h \in {"refresh", "transport", "edit"} : StartHandler(h)
  \/ \E doc \in Doc : Restart(doc)
  \/ Pop \/ EndGc \/ ReadTime
  \/ BeginTick \/ FinishCommands \/ StoreTime \/ StoreSeen

HandleStep == HandlePlay \/ HandleStop \/ HandleEdit

(* The node the audio thread handled last is not behind what it published. *)
LEMMA LastHandledLive ==
  ASSUME PointerInv, hasHandle
  PROVE  LastHandled \in live /\ serial[seen] <= serial[LastHandled]
  BY DEF PointerInv, TypeOK, Positions, LastHandled

(* Collecting garbage, reading and publishing leave alone what is pending. *)
LEMMA QuietPending ==
  ASSUME PointerInv, hasHandle, QuietStep
  PROVE  LastHandled' = LastHandled /\ SamePending
<1>1. CASE Pop
  <2>1. LastHandled' = LastHandled
    BY <1>1 DEF Pop, audioVars, LastHandled
  <2>2. serial[begin] < serial[LastHandled]
    <3>1. serial[begin] < serial[target] /\ serial[target] <= serial[seen]
      BY <1>1 DEF Pop, PointerInv, TypeOK, ListShape, Positions
    <3>2. seen \in Addr /\ target \in Addr /\ begin \in Addr /\ LastHandled \in Addr
      BY LastHandledLive DEF PointerInv, TypeOK
    <3> QED BY <3>1, <3>2, LastHandledLive DEF PointerInv, TypeOK
  <2>3. serial[begin] \in Nat /\ serial[LastHandled] \in Nat
    BY LastHandledLive DEF PointerInv, TypeOK
  <2>4. begin \notin PendingNodes
    BY <2>2, <2>3 DEF PendingNodes
  <2>5. live' = live \ {begin} /\ serial' = serial /\ msg' = msg
    BY <1>1 DEF Pop
  <2> QED BY <2>1, <2>4, <2>5 DEF SamePending, PendingNodes
<1>2. CASE ~Pop
  <2>1. LastHandled' = LastHandled
    BY <1>2 DEF QuietStep, StartHandler, Restart, EndGc, ReadTime, BeginTick,
                FinishCommands, StoreTime, StoreSeen, audioVars, LastHandled
  <2>2. live' = live /\ serial' = serial /\ msg' = msg
    BY <1>2 DEF QuietStep, StartHandler, Restart, EndGc, ReadTime, BeginTick,
                FinishCommands, StoreTime, StoreSeen, heapVars
  <2> QED BY <2>1, <2>2 DEF SamePending, PendingNodes
<1> QED BY <1>1, <1>2

(* A push makes one node pending, behind the others.                       *)
LEMMA PushPending ==
  ASSUME PointerInv, hasHandle, NEW m \in MessageBody, Push(m),
         UNCHANGED <<seen, audioVars>>
  PROVE  /\ LastHandled' = LastHandled
         /\ end' \notin PendingNodes
         /\ PendingNodes' = PendingNodes \union {end'}
         /\ msg'[end'] = m
         /\ \A n \in PendingNodes : /\ msg'[n] = msg[n]
                                    /\ serial'[n] = serial[n]
                                    /\ serial[n] < serial'[end']
         /\ serial'[LastHandled] = serial[LastHandled]
         /\ serial[LastHandled] < serial'[end']
<1>1. LastHandled' = LastHandled
  BY DEF audioVars, LastHandled
<1>2. LastHandled \in live
  BY LastHandledLive
<1>3. /\ live' = live \union {end'} /\ end' \notin live
      /\ \A n \in live : serial'[n] = serial[n] /\ msg'[n] = msg[n]
      /\ serial'[end'] = serial[end] + 1
      /\ msg'[end'] = m
  BY PushPointers
<1>4. \A n \in live : serial[n] \in Nat /\ serial[n] <= serial[end]
  BY DEF PointerInv, TypeOK, ListShape
<1>5. serial[end] \in Nat
  BY DEF PointerInv, TypeOK
<1> QED BY <1>1, <1>2, <1>3, <1>4, <1>5 DEF PendingNodes

(* Carrying out a command takes the first pending node.                    *)
LEMMA HandlePending ==
  ASSUME PointerInv, HandleStep
  PROVE  /\ LastHandled' = next[cmd]
         /\ next[cmd] \in PendingNodes
         /\ PendingNodes' = PendingNodes \ {next[cmd]}
         /\ \A n \in PendingNodes' : /\ serial[next[cmd]] < serial[n]
                                     /\ msg'[n] = msg[n]
         /\ serial' = serial
<1> DEFINE n == next[cmd]
<1>1. audio = "commands" /\ n # NoAddr /\ audio' = "commands" /\ cmd' = n
  BY DEF HandleStep, HandlePlay, HandleStop, HandleEdit
<1>2. LastHandled = cmd /\ LastHandled' = n
  BY <1>1 DEF LastHandled
<1>3. cmd \in live /\ n \in live /\ serial[n] = serial[cmd] + 1
  BY <1>1 DEF PointerInv, ListShape, Positions
<1>4. /\ serial' = serial /\ live' = live
      /\ \A a \in live \ {n} : msg'[a] = msg[a]
  BY DEF HandleStep, HandlePlay, HandleStop, HandleEdit, heapVars,
         PointerInv, TypeOK
<1>5. \A a \in live : serial[a] \in Nat /\ (serial[a] = serial[n] => a = n)
  BY <1>3 DEF PointerInv, TypeOK, ListShape
<1> HIDE DEF n
<1>6. n \in PendingNodes
  BY <1>2, <1>3, <1>5 DEF PendingNodes
<1>7. PendingNodes' = PendingNodes \ {n}
  BY <1>2, <1>3, <1>4, <1>5 DEF PendingNodes
<1>8. \A a \in PendingNodes' : serial[n] < serial[a] /\ msg'[a] = msg[a]
  BY <1>2, <1>3, <1>4, <1>5, <1>7 DEF PendingNodes
<1> QED BY <1>2, <1>4, <1>6, <1>7, <1>8 DEF n

(* A new audio thread has nothing pending.                                 *)
LEMMA MakePending ==
  ASSUME PointerInv, MakeHandle
  PROVE  PendingNodes' = {}
<1>1. begin = end /\ live' = live /\ serial' = serial /\ LastHandled' = begin
  BY DEF MakeHandle, heapVars, PointerInv, Positions, LastHandled
<1>2. \A n \in live : n = begin
  BY <1>1 DEF PointerInv, TypeOK, ListShape
<1>3. serial[begin] \in Nat
  BY DEF PointerInv, TypeOK
<1> QED BY <1>1, <1>2, <1>3 DEF PendingNodes

-----------------------------------------------------------------------------
(* The mirror: what the pending edits make of the audio thread's document. *)

(* Steps that leave the documents and the pending nodes alone keep the mirror. *)
LEMMA QuietMirror ==
  ASSUME PointerInv, DocMirror, hasHandle, QuietStep
  PROVE  DocMirror'
<1> SUFFICES ASSUME hasHandle', gui' # "join", NEW f \in Field
             PROVE  \/ PendingEdits(f)' = {} /\ audioDoc'[f] = guiDoc'[f]
                    \/ \E n \in PendingEdits(f)' :
                         IsLast(n, PendingEdits(f))' /\ msg'[n].value = guiDoc'[f]
  BY DEF DocMirror
<1>1. gui # "join" /\ guiDoc' = guiDoc /\ audioDoc' = audioDoc
  BY DEF QuietStep, StartHandler, Restart, Pop, EndGc, ReadTime, BeginTick,
         FinishCommands, StoreTime, StoreSeen, guiVars, audioVars
<1>2. SamePending
  BY QuietPending
<1>3. PendingEdits(f)' = PendingEdits(f)
  BY <1>2 DEF SamePending, PendingEdits
<1>4. \A n \in PendingEdits(f) : msg'[n] = msg[n] /\ serial'[n] = serial[n]
  BY <1>2 DEF SamePending, PendingEdits
<1> QED BY <1>1, <1>3, <1>4 DEF DocMirror, IsLast

(* So do PlayFrom and StopPlayback, which edit nothing.                    *)
LEMMA TransportMirror ==
  ASSUME PointerInv, DocMirror, hasHandle, StartPlay \/ StopPlay
  PROVE  DocMirror'
<1> SUFFICES ASSUME NEW f \in Field
             PROVE  \/ PendingEdits(f)' = {} /\ audioDoc'[f] = guiDoc'[f]
                    \/ \E n \in PendingEdits(f)' :
                         IsLast(n, PendingEdits(f))' /\ msg'[n].value = guiDoc'[f]
  BY DEF DocMirror
<1>1. gui # "join" /\ guiDoc' = guiDoc /\ audioDoc' = audioDoc
  BY DEF StartPlay, StopPlay, audioVars
<1>2. PICK m \in MessageBody : Push(m) /\ m.kind # "edit"
  BY TransportInMessages DEF StartPlay, StopPlay
<1>3. UNCHANGED <<seen, audioVars>>
  BY DEF StartPlay, StopPlay
<1>4. PendingEdits(f)' = PendingEdits(f)
  BY <1>2, <1>3, PushPending DEF PendingEdits
<1>5. \A n \in PendingEdits(f) : msg'[n] = msg[n] /\ serial'[n] = serial[n]
  BY <1>2, <1>3, PushPending DEF PendingEdits
<1> QED BY <1>1, <1>4, <1>5 DEF DocMirror, IsLast

(* An edit changes the document of the GUI and pends with the same value.  *)
LEMMA EditMirror ==
  ASSUME PointerInv, DocMirror, hasHandle, SendEdit
  PROVE  DocMirror'
<1>1. PICK g \in Field, v \in Value :
         Push(EditBox(g, v)) /\ guiDoc' = ApplyEdit(guiDoc, EditBox(g, v))
  BY DEF SendEdit
<1> DEFINE m == EditBox(g, v)
<1>2. m \in MessageBody /\ m.kind = "edit" /\ m.field = g /\ m.value = v
  BY EditInMessages
<1>3. gui # "join" /\ audioDoc' = audioDoc /\ UNCHANGED <<seen, audioVars>>
  BY DEF SendEdit, audioVars
<1>4. guiDoc'[g] = v /\ \A f \in Field \ {g} : guiDoc'[f] = guiDoc[f]
  BY <1>1, <1>2 DEF ApplyEdit, PointerInv, TypeOK, Doc
<1>5. /\ end' \notin PendingNodes
      /\ PendingNodes' = PendingNodes \union {end'}
      /\ msg'[end'] = m
      /\ \A n \in PendingNodes : /\ msg'[n] = msg[n]
                                 /\ serial'[n] = serial[n]
                                 /\ serial[n] < serial'[end']
  BY <1>1, <1>2, <1>3, PushPending
<1>6. serial' \in [Addr -> Nat] /\ end' \in Addr /\ serial \in [Addr -> Nat]
      /\ PendingNodes \subseteq Addr
  BY <1>1, <1>2, PushPointers DEF PointerInv, TypeOK, PendingNodes
<1> HIDE DEF m
<1> SUFFICES ASSUME NEW f \in Field
             PROVE  \/ PendingEdits(f)' = {} /\ audioDoc'[f] = guiDoc'[f]
                    \/ \E n \in PendingEdits(f)' :
                         IsLast(n, PendingEdits(f))' /\ msg'[n].value = guiDoc'[f]
  BY DEF DocMirror
<1>7. CASE f = g
  <2>1. end' \in PendingEdits(f)' /\ msg'[end'].value = guiDoc'[f]
    BY <1>2, <1>4, <1>5, <1>7 DEF PendingEdits
  <2>2. \A n \in PendingEdits(f)' : serial'[n] <= serial'[end']
    BY <1>5, <1>6 DEF PendingEdits
  <2> QED BY <2>1, <2>2 DEF IsLast
<1>8. CASE f # g
  <2>1. PendingEdits(f)' = PendingEdits(f)
    BY <1>2, <1>5, <1>8 DEF PendingEdits
  <2>2. \A n \in PendingEdits(f) : msg'[n] = msg[n] /\ serial'[n] = serial[n]
    BY <1>5 DEF PendingEdits
  <2> QED BY <1>3, <1>4, <1>8, <2>1, <2>2 DEF DocMirror, IsLast
<1> QED BY <1>7, <1>8

(* The audio thread does to its document what the node it takes says.      *)
LEMMA HandleMirror ==
  ASSUME PointerInv, DocMirror, hasHandle, HandleStep
  PROVE  DocMirror'
<1> DEFINE h == next[cmd]
<1>1. /\ h \in PendingNodes
      /\ PendingNodes' = PendingNodes \ {h}
      /\ \A n \in PendingNodes' : serial[h] < serial[n] /\ msg'[n] = msg[n]
      /\ serial' = serial
  BY HandlePending
<1>2. gui' = gui /\ guiDoc' = guiDoc
  BY DEF HandleStep, HandlePlay, HandleStop, HandleEdit, guiVars
<1>3. h \in Addr /\ msg[h] \in MessageBody
  BY <1>1 DEF PendingNodes, PointerInv, TypeOK
<1>4. \A f \in Field :
        audioDoc'[f] = IF msg[h].kind = "edit" /\ msg[h].field = f
                       THEN msg[h].value ELSE audioDoc[f]
  <2>1. CASE HandleEdit
    BY <2>1 DEF HandleEdit, ApplyEdit, PointerInv, TypeOK, Doc
  <2>2. CASE HandlePlay \/ HandleStop
    BY <2>2, TransportInMessages DEF HandlePlay, HandleStop
  <2> QED BY <2>1, <2>2 DEF HandleStep
<1> HIDE DEF h
<1> SUFFICES ASSUME hasHandle', gui' # "join", NEW f \in Field
             PROVE  \/ PendingEdits(f)' = {} /\ audioDoc'[f] = guiDoc'[f]
                    \/ \E n \in PendingEdits(f)' :
                         IsLast(n, PendingEdits(f))' /\ msg'[n].value = guiDoc'[f]
  BY DEF DocMirror
<1>5. PendingEdits(f)' = PendingEdits(f) \ {h}
  BY <1>1 DEF PendingEdits
<1>6. CASE h \notin PendingEdits(f)
  <2>1. audioDoc'[f] = audioDoc[f] /\ PendingEdits(f)' = PendingEdits(f)
    BY <1>1, <1>4, <1>5, <1>6 DEF PendingEdits
  <2>2. \A n \in PendingEdits(f) : msg'[n] = msg[n]
    BY <1>1, <1>6 DEF PendingEdits
  <2> QED BY <1>1, <1>2, <2>1, <2>2 DEF DocMirror, IsLast
<1>7. CASE h \in PendingEdits(f)
  <2>1. audioDoc'[f] = msg[h].value
    BY <1>4, <1>7 DEF PendingEdits
  <2>2. PICK n \in PendingEdits(f) :
           IsLast(n, PendingEdits(f)) /\ msg[n].value = guiDoc[f]
    BY <1>2, <1>7 DEF DocMirror
  <2>3. CASE n = h
    <3>1. \A a \in PendingEdits(f)' : serial[h] < serial[a] /\ serial[a] <= serial[h]
      BY <1>1, <1>5, <2>2, <2>3 DEF PendingEdits, IsLast
    <3>2. \A a \in PendingEdits(f)' : serial[a] \in Nat /\ serial[h] \in Nat
      BY <1>3, <1>5 DEF PendingEdits, PendingNodes, PointerInv, TypeOK
    <3>3. PendingEdits(f)' = {}
      BY <3>1, <3>2
    <3> QED BY <1>2, <2>1, <2>2, <2>3, <3>3
  <2>4. CASE n # h
    <3>1. n \in PendingEdits(f)' /\ msg'[n] = msg[n]
      BY <1>1, <1>5, <2>2, <2>4 DEF PendingEdits
    <3>2. IsLast(n, PendingEdits(f))'
      BY <1>1, <1>5, <2>2, <3>1 DEF IsLast
    <3> QED BY <1>2, <2>2, <3>1, <3>2
  <2> QED BY <2>3, <2>4
<1> QED BY <1>6, <1>7

(* The cases the rest of the proofs distinguish.                           *)
LEMMA StepKinds ==
  ASSUME PointerInv, Next
  PROVE  \/ hasHandle /\ QuietStep
         \/ hasHandle /\ (StartPlay \/ StopPlay)
         \/ hasHandle /\ SendEdit
         \/ hasHandle /\ HandleStep
         \/ MakeHandle
         \/ ~hasHandle' /\ audio' = "off"
<1>1. CASE Pop \/ EndGc \/ ReadTime \/ Refresh \/ UserTransport \/ UserEdit
  BY <1>1 DEF Pop, EndGc, ReadTime, Refresh, UserTransport, UserEdit,
              StartHandler, QuietStep, PointerInv, Positions
<1>2. CASE StartPlay \/ StopPlay \/ SendEdit
  BY <1>2 DEF StartPlay, StopPlay, SendEdit, PointerInv, Positions
<1>3. CASE ClearNode \/ ClearLast \/ MakeFails \/ EditOffline \/ Join
  BY <1>3 DEF ClearNode, ClearLast, MakeFails, EditOffline, Join, guiVars,
              audioVars, PointerInv, Positions
<1>4. CASE RestartAudio \/ OpenDocument
  <2>1. PICK doc \in Doc : Restart(doc)
    BY <1>4 DEF RestartAudio, OpenDocument, PointerInv, TypeOK
  <2> QED BY <2>1 DEF Restart, QuietStep, audioVars, PointerInv, Positions
<1>5. CASE AudioStep
  BY <1>5 DEF AudioStep, BeginTick, HandlePlay, HandleStop, HandleEdit,
              FinishCommands, StoreTime, StoreSeen, QuietStep, HandleStep,
              PointerInv, Positions
<1> QED BY <1>1, <1>2, <1>3, <1>4, <1>5 DEF Next, GuiStep, UserStep

(* Every step keeps the mirror; a restarted audio thread copies the document. *)
LEMMA MirrorStep ==
  ASSUME PointerInv, DocMirror, Next
  PROVE  DocMirror'
<1>1. CASE MakeHandle
  <2>1. \A f \in Field : PendingEdits(f)' = {}
    BY <1>1, MakePending DEF PendingEdits
  <2>2. audioDoc' = guiDoc'
    BY <1>1 DEF MakeHandle
  <2> QED BY <2>1, <2>2 DEF DocMirror
<1>2. CASE ~hasHandle'
  BY <1>2 DEF DocMirror
<1> QED BY <1>1, <1>2, StepKinds, QuietMirror, TransportMirror, EditMirror,
           HandleMirror

(* The cached state is recomputed for what total_modified names.           *)
LEMMA EngineStep ==
  ASSUME PointerInv, EngineTracked, Next
  PROVE  EngineTracked'
<1> USE DEF EngineTracked
<1>0. TimingField \union PatternField \union SampleField \union MetadataField
        \subseteq Field
  BY FieldAssumption
<1>1. CASE HandleEdit
  <2> DEFINE g == msg[next[cmd]].field
  <2>1. /\ engine' = engine /\ audio' = "commands" /\ audio = "commands"
        /\ modified' = modified \union {g}
        /\ audioDoc' = [audioDoc EXCEPT ![g] = msg[next[cmd]].value]
    BY <1>1 DEF HandleEdit, ApplyEdit
  <2> HIDE DEF g
  <2>2. \A f \in Field \ {g} : audioDoc'[f] = audioDoc[f]
    BY <2>1 DEF PointerInv, TypeOK, Doc
  <2> QED BY <1>0, <2>1, <2>2
<1>2. CASE HandlePlay
  <2>1. /\ engine' = Recomputed(PatternField \union SampleField \union MetadataField)
        /\ audioDoc' = audioDoc /\ modified' = modified
        /\ audio = "commands" /\ audio' = "commands"
    BY <1>2 DEF HandlePlay
  <2>2. \A f \in Field : engine'[f] = engine[f] \/ engine'[f] = audioDoc[f]
    BY <2>1 DEF Recomputed
  <2> QED BY <1>0, <2>1, <2>2
<1>3. CASE FinishCommands
  <2>1. /\ engine' = Recomputed(InvalidatedParts)
        /\ audioDoc' = audioDoc /\ modified' = modified
        /\ audio' = "storeTime" /\ audio = "commands"
    BY <1>3 DEF FinishCommands
  <2>2. \A f \in Field : engine'[f] = engine[f] \/ engine'[f] = audioDoc[f]
    BY <2>1 DEF Recomputed
  <2>3. \A f \in InvalidatedParts \intersect Field : engine'[f] = audioDoc[f]
    BY <2>1 DEF Recomputed
  <2>4. \A f \in TimingField \union PatternField \union SampleField :
          f \in modified => f \in InvalidatedParts
    BY DEF InvalidatedParts
  <2>5. modified \intersect SampleField # {} => MetadataField \subseteq InvalidatedParts
    BY DEF InvalidatedParts
  <2>6. \A f \in TimingField \union PatternField \union SampleField :
          engine'[f] = audioDoc'[f]
    BY <1>0, <2>1, <2>2, <2>3, <2>4
  <2> QED BY <1>0, <2>1, <2>3, <2>5, <2>6
<1>4. CASE MakeHandle
  BY <1>4 DEF MakeHandle
<1>5. CASE ~(HandleEdit \/ HandlePlay \/ FinishCommands \/ MakeHandle)
  <2>1. /\ engine' = engine /\ audioDoc' = audioDoc
        /\ \/ modified' = modified /\ audio' = audio
           \/ audio' \in {"commands", "off"} /\ audio # "commands"
           \/ modified' = modified /\ audio \notin {"commands", "off"}
    BY <1>5 DEF Next, GuiStep, UserStep, AudioStep, Pop, EndGc, ReadTime,
      Refresh, UserTransport, UserEdit, StartHandler, StartPlay, StopPlay,
      SendEdit, ClearNode, ClearLast, MakeFails, EditOffline, Join,
      RestartAudio, OpenDocument, Restart, BeginTick, HandleStop, StoreTime,
      StoreSeen, audioVars
  <2> QED BY <2>1
<1> QED BY <1>1, <1>2, <1>3, <1>4, <1>5

-----------------------------------------------------------------------------
(* Playback sessions: pending PlayFroms and StopPlaybacks alternate.       *)

(* Steps that leave playback and the pending nodes alone keep the sessions. *)
LEMMA QuietTransport ==
  ASSUME PointerInv, LastTransport, TransportAlternates, hasHandle, QuietStep
  PROVE  LastTransport' /\ TransportAlternates'
<1>1. SamePending
  BY QuietPending
<1>2. PendingTransport' = PendingTransport
  BY <1>1 DEF SamePending, PendingTransport
<1>3. \A n \in PendingTransport : msg'[n] = msg[n] /\ serial'[n] = serial[n]
  BY <1>1 DEF SamePending, PendingTransport
<1>4. /\ playing' = playing /\ session' = session
      /\ audioState' = "Stopped" <=> audioState = "Stopped"
  BY DEF QuietStep, StartHandler, Restart, Pop, EndGc, ReadTime, BeginTick,
         FinishCommands, StoreTime, StoreSeen, guiVars, audioVars
<1>5. LastTransport'
  BY <1>2, <1>3, <1>4 DEF LastTransport, IsLast
<1>6. TransportAlternates'
  BY <1>2, <1>3, <1>4 DEF TransportAlternates, IsLast
<1> QED BY <1>5, <1>6

(* Pending edits do not come between a PlayFrom and its StopPlayback.      *)
LEMMA EditTransport ==
  ASSUME PointerInv, LastTransport, TransportAlternates, hasHandle, SendEdit
  PROVE  LastTransport' /\ TransportAlternates'
<1>1. PICK m \in MessageBody : Push(m) /\ m.kind = "edit"
  BY EditInMessages DEF SendEdit
<1>2. UNCHANGED <<seen, audioVars>>
  BY DEF SendEdit
<1>3. PendingTransport' = PendingTransport
  BY <1>1, <1>2, PushPending DEF PendingTransport
<1>4. \A n \in PendingTransport : msg'[n] = msg[n] /\ serial'[n] = serial[n]
  BY <1>1, <1>2, PushPending DEF PendingTransport
<1>5. playing' = playing /\ session' = session /\ audioState' = audioState
  BY DEF SendEdit, audioVars
<1>6. LastTransport'
  BY <1>3, <1>4, <1>5 DEF LastTransport, IsLast
<1>7. TransportAlternates'
  BY <1>3, <1>4, <1>5 DEF TransportAlternates, IsLast
<1> QED BY <1>6, <1>7

(* The GUI pushes PlayFrom when stopped and StopPlayback otherwise.        *)
LEMMA PushTransport ==
  ASSUME PointerInv, LastTransport, TransportAlternates, hasHandle,
         StartPlay \/ StopPlay
  PROVE  LastTransport' /\ TransportAlternates'
<1>1. PICK m \in MessageBody :
         /\ Push(m) /\ m.kind # "edit"
         /\ m.kind = "play" <=> audioState = "Stopped"
         /\ m.kind = "stop" <=> audioState # "Stopped"
  BY TransportInMessages DEF StartPlay, StopPlay
<1>2. UNCHANGED <<seen, audioVars>>
  BY DEF StartPlay, StopPlay
<1>3. /\ end' \notin PendingTransport
      /\ PendingTransport' = PendingTransport \union {end'}
      /\ msg'[end'] = m
      /\ \A n \in PendingTransport : /\ msg'[n] = msg[n]
                                     /\ serial'[n] = serial[n]
                                     /\ serial[n] < serial'[end']
  BY <1>1, <1>2, PushPending DEF PendingTransport
<1>4. /\ playing' = playing
      /\ audioState' = "Stopped" <=> m.kind = "stop"
      /\ m.kind = "play" => session' = serial'[end']
  BY <1>1, <1>2, PushPointers DEF StartPlay, StopPlay, audioVars
<1>5. /\ serial' \in [Addr -> Nat] /\ serial \in [Addr -> Nat]
      /\ end' \in Addr /\ PendingTransport \subseteq Addr
  BY <1>1, PushPointers DEF PendingTransport, PendingNodes, PointerInv, TypeOK
<1>6. LastTransport'
  <2>1. /\ end' \in PendingTransport'
        /\ \A a \in PendingTransport' : serial'[a] <= serial'[end']
    BY <1>3, <1>5
  <2> QED BY <1>1, <1>3, <1>4, <2>1 DEF LastTransport, IsLast
<1>7. TransportAlternates'
  <2> SUFFICES ASSUME NEW n \in PendingTransport', msg'[n].kind = "play"
               PROVE  LET before == {a \in PendingTransport' : serial'[a] < serial'[n]} IN
                        \/ before = {} /\ playing' = None
                        \/ \E a \in before : /\ a \in before
                                             /\ \A b \in before : serial'[b] <= serial'[a]
                                             /\ msg'[a].kind = "stop"
    BY DEF TransportAlternates, IsLast
  <2>1. CASE n = end'
    <3>1. {a \in PendingTransport' : serial'[a] < serial'[n]} = PendingTransport
      BY <1>3, <1>5, <2>1
    <3>2. audioState = "Stopped"
      BY <1>1, <1>3, <2>1
    <3> QED BY <1>3, <1>4, <3>1, <3>2 DEF LastTransport, IsLast
  <2>2. CASE n # end'
    <3>1. n \in PendingTransport /\ msg[n].kind = "play"
      BY <1>3, <2>2
    <3>2. {a \in PendingTransport' : serial'[a] < serial'[n]}
            = {a \in PendingTransport : serial[a] < serial[n]}
      BY <1>3, <1>5, <3>1
    <3> QED BY <1>3, <1>4, <3>1, <3>2 DEF TransportAlternates, IsLast
  <2> QED BY <2>1, <2>2
<1> QED BY <1>6, <1>7

(* The first pending PlayFrom finds an audio thread that does not play.    *)
LEMMA HandleTransport ==
  ASSUME PointerInv, LastTransport, TransportAlternates, hasHandle, HandleStep
  PROVE  LastTransport' /\ TransportAlternates'
<1> DEFINE h == next[cmd]
<1>1. /\ h \in PendingNodes
      /\ PendingNodes' = PendingNodes \ {h}
      /\ \A n \in PendingNodes' : serial[h] < serial[n] /\ msg'[n] = msg[n]
      /\ serial' = serial
  BY HandlePending
<1>2. h \in Addr /\ msg[h] \in MessageBody
  BY <1>1 DEF PendingNodes, PointerInv, TypeOK
<1>3. /\ session' = session /\ audioState' = audioState
      /\ playing' = IF msg[h].kind = "play" THEN serial[h]
                    ELSE IF msg[h].kind = "stop" THEN None ELSE playing
  <2>1. CASE HandlePlay
    BY <2>1, TransportInMessages DEF HandlePlay, guiVars
  <2>2. CASE HandleStop
    BY <2>2, TransportInMessages DEF HandleStop, guiVars
  <2>3. CASE HandleEdit
    BY <2>3 DEF HandleEdit, guiVars
  <2> QED BY <2>1, <2>2, <2>3 DEF HandleStep
<1>4. PendingTransport' = PendingTransport \ {h}
  BY <1>1 DEF PendingTransport
<1>5. \A n \in PendingTransport' : serial[h] < serial[n] /\ msg'[n] = msg[n]
  BY <1>1, <1>4 DEF PendingTransport
<1>6. /\ PendingTransport \subseteq Addr
      /\ \A n \in Addr : serial[n] \in Nat
      /\ msg[h].kind # "edit" => h \in PendingTransport
      /\ msg[h].kind \in {"play", "stop", "edit"}
  BY <1>1, <1>2, MessageKind
  DEF PendingTransport, PendingNodes, PointerInv, TypeOK
<1> HIDE DEF h
<1>7. CASE h \notin PendingTransport
  <2>1. PendingTransport' = PendingTransport /\ playing' = playing
    BY <1>3, <1>4, <1>6, <1>7
  <2>2. LastTransport'
    BY <1>1, <1>3, <1>5, <2>1 DEF LastTransport, IsLast
  <2>3. TransportAlternates'
    BY <1>1, <1>5, <2>1 DEF TransportAlternates, IsLast
  <2> QED BY <2>2, <2>3
<1>8. CASE h \in PendingTransport
  <2>1. msg[h].kind \in {"play", "stop"}
    BY <1>6, <1>8 DEF PendingTransport
  <2>2. LastTransport'
    <3>1. PICK n \in PendingTransport :
             /\ IsLast(n, PendingTransport)
             /\ IF audioState = "Stopped"
                THEN msg[n].kind = "stop"
                ELSE msg[n].kind = "play" /\ serial[n] = session
      BY <1>3, <1>8 DEF LastTransport
    <3>2. CASE n = h
      <4>1. \A a \in PendingTransport' : serial[a] <= serial[h] /\ serial[h] < serial[a]
        BY <1>4, <1>5, <3>1, <3>2 DEF IsLast
      <4>2. PendingTransport' = {}
        BY <1>2, <1>4, <1>6, <4>1
      <4>3. playing' = IF audioState' = "Stopped" THEN None ELSE session'
        BY <1>3, <3>1, <3>2
      <4> QED BY <4>2, <4>3 DEF LastTransport
    <3>3. CASE n # h
      BY <1>1, <1>3, <1>4, <1>5, <3>1, <3>3 DEF LastTransport, IsLast
    <3> QED BY <3>2, <3>3
  <2>3. TransportAlternates'
    <3> SUFFICES ASSUME NEW n \in PendingTransport', msg'[n].kind = "play"
                 PROVE  LET before == {a \in PendingTransport' : serial'[a] < serial'[n]} IN
                          \/ before = {} /\ playing' = None
                          \/ \E a \in before : /\ a \in before
                                               /\ \A b \in before : serial'[b] <= serial'[a]
                                               /\ msg'[a].kind = "stop"
      BY DEF TransportAlternates, IsLast
    <3> DEFINE before == {a \in PendingTransport : serial[a] < serial[n]}
    <3>1. n \in PendingTransport /\ msg[n].kind = "play" /\ h \in before
      BY <1>4, <1>5, <1>8
    <3>2. PICK m \in before :
             /\ \A b \in before : serial[b] <= serial[m]
             /\ msg[m].kind = "stop"
      BY <3>1 DEF TransportAlternates, IsLast
    <3>3. {a \in PendingTransport' : serial'[a] < serial'[n]} = before \ {h}
      BY <1>1, <1>4
    <3>4. CASE m = h
      <4>1. before \ {h} = {}
        <5>1. \A b \in before \ {h} : serial[b] <= serial[h] /\ serial[h] < serial[b]
          BY <1>4, <1>5, <3>2, <3>4
        <5>2. \A b \in before : serial[b] \in Nat /\ serial[h] \in Nat
          BY <1>2, <1>6
        <5> QED BY <5>1, <5>2
      <4>2. playing' = None
        BY <1>3, <3>2, <3>4
      <4> QED BY <3>3, <4>1, <4>2
    <3>5. CASE m # h
      <4>1. m \in before \ {h} /\ msg'[m] = msg[m]
        BY <1>4, <1>5, <3>2, <3>5
      <4> QED BY <1>1, <3>2, <3>3, <4>1
    <3> QED BY <3>4, <3>5
  <2> QED BY <2>2, <2>3
<1> QED BY <1>7, <1>8

(* Every step keeps the two halves of the session invariant.               *)
LEMMA TransportStep ==
  ASSUME PointerInv, LastTransport, TransportAlternates, Next
  PROVE  LastTransport' /\ TransportAlternates'
<1>1. CASE MakeHandle
  <2>1. PendingTransport' = {}
    BY <1>1, MakePending DEF PendingTransport
  <2>2. playing' = None /\ audioState' = "Stopped"
    BY <1>1 DEF MakeHandle, PointerInv, Positions
  <2> QED BY <2>1, <2>2 DEF LastTransport, TransportAlternates
<1>2. CASE ~hasHandle'
  BY <1>2 DEF LastTransport, TransportAlternates
<1> QED BY <1>1, <1>2, StepKinds, QuietTransport, PushTransport, EditTransport,
           HandleTransport

(* With a PlayFrom pending, the audio thread has stored no time.           *)
LEMMA StoppedBeforePlay ==
  ASSUME PointerInv, TransportAlternates, hasHandle, HandlePlay
  PROVE  playing = None
<1> DEFINE h == next[cmd]
<1>1. /\ h \in PendingNodes
      /\ \A n \in PendingNodes \ {h} : serial[h] < serial[n]
  BY HandlePending DEF HandleStep
<1>2. msg[h].kind = "play"
  BY TransportInMessages DEF HandlePlay
<1>3. h \in PendingTransport
  BY <1>1, <1>2 DEF PendingTransport
<1>4. \A n \in PendingTransport : n \in PendingNodes /\ serial[n] \in Nat
  BY DEF PendingTransport, PendingNodes, PointerInv, TypeOK
<1> HIDE DEF h
<1>5. {m \in PendingTransport : serial[m] < serial[h]} = {}
  BY <1>1, <1>3, <1>4
<1> QED BY <1>2, <1>3, <1>5 DEF TransportAlternates

(* Once the audio thread has passed the last PlayFrom pushed, it plays it. *)
LEMMA SeenIsPlaying ==
  ASSUME PointerInv, LastTransport, hasHandle, audioState # "Stopped",
         session <= serial[LastHandled]
  PROVE  playing = session
<1>1. \A n \in PendingTransport : serial[n] > serial[LastHandled] /\ serial[n] \in Nat
  BY DEF PendingTransport, PendingNodes, PointerInv, TypeOK
<1>2. serial[LastHandled] \in Nat /\ session \in Nat
  BY DEF LastHandled, PointerInv, TypeOK
<1> QED BY <1>1, <1>2 DEF LastTransport

(* Times published and read belong to the session they were made in.       *)
LEMMA TimeStep ==
  ASSUME PointerInv, LastTransport, TransportAlternates, TimeOfSession, Next
  PROVE  TimeOfSession'
<1> USE DEF TimeOfSession
<1>1. CASE Pop \/ ReadTime \/ EditOffline \/ ClearNode \/ MakeFails
           \/ Refresh \/ UserTransport \/ UserEdit
  BY <1>1 DEF Pop, ReadTime, EditOffline, ClearNode, MakeFails, Refresh,
              UserTransport, UserEdit, StartHandler, heapVars, queueVars,
              guiVars, audioVars
<1>2. CASE EndGc
  BY <1>2 DEF EndGc, heapVars, queueVars, audioVars, PointerInv, TypeOK,
              ListShape, Positions
<1>3. ASSUME hasHandle, NEW m \in MessageBody, Push(m)
      PROVE  /\ serial'[end'] = serial[end] + 1
             /\ serial[end] \in Nat /\ session \in Nat
             /\ serial'[seen] = serial[seen] /\ serial[seen] \in Nat
             /\ serial[seen] <= serial[end]
  BY <1>3, PushPointers DEF PointerInv, TypeOK, ListShape, Positions
<1>4. CASE StartPlay
  <2>1. hasHandle /\ Push(PlayFrom) /\ PlayFrom \in MessageBody
    BY <1>4, TransportInMessages DEF StartPlay, PointerInv, Positions
  <2> QED BY <1>3, <1>4, <2>1 DEF StartPlay, audioVars
<1>5. CASE StopPlay
  <2>1. hasHandle /\ Push(StopPlayback) /\ StopPlayback \in MessageBody
    BY <1>5, TransportInMessages DEF StopPlay, PointerInv, Positions
  <2> QED BY <1>3, <1>5, <2>1 DEF StopPlay, audioVars
<1>6. CASE SendEdit
  <2>1. PICK m \in MessageBody : hasHandle /\ Push(m)
    BY <1>6, EditInMessages DEF SendEdit, PointerInv, Positions
  <2> QED BY <1>3, <1>6, <2>1 DEF SendEdit, audioVars
<1>7. CASE RestartAudio \/ OpenDocument
  <2>1. PICK doc \in Doc : Restart(doc)
    BY <1>7 DEF RestartAudio, OpenDocument, PointerInv, TypeOK
  <2> QED BY <2>1 DEF Restart, heapVars, queueVars, audioVars
<1>8. CASE Join
  BY <1>8 DEF Join, heapVars, queueVars
<1>9. CASE ClearLast
  <2>1. begin = end /\ ~hasHandle /\ audio = "off" /\ audioState = "Stopped"
    BY <1>9, AddrAssumption DEF ClearLast, PointerInv, TypeOK, ListShape, Positions
  <2>2. serial'[end'] = serial[end] + 1 /\ serial[end] \in Nat /\ session \in Nat
    BY <1>9 DEF ClearLast, PointerInv, TypeOK
  <2> QED BY <1>9, <2>1, <2>2 DEF ClearLast, audioVars
<1>10. CASE MakeHandle
  BY <1>10 DEF MakeHandle, heapVars, queueVars, PointerInv, Positions
<1>11. CASE BeginTick \/ FinishCommands
  BY <1>11 DEF BeginTick, FinishCommands, heapVars, queueVars, guiVars
<1>12. CASE HandlePlay
  <2>1. playing = None
    BY <1>12, StoppedBeforePlay
    DEF HandlePlay, PointerInv, Positions
  <2> QED BY <1>12, <2>1 DEF HandlePlay, heapVars, queueVars, guiVars
<1>13. CASE HandleStop \/ HandleEdit
  BY <1>13 DEF HandleStop, HandleEdit, heapVars, queueVars, guiVars
<1>14. CASE StoreTime
  <2>1. hasHandle /\ LastHandled = cmd /\ serial[seen] <= serial[cmd]
    BY <1>14 DEF StoreTime, LastHandled, PointerInv, Positions
  <2>2. serial[seen] \in Nat /\ serial[cmd] \in Nat /\ session \in Nat
    BY DEF PointerInv, TypeOK
  <2>3. audioState # "Stopped" /\ serial[seen] >= session => playing = session
    BY <2>1, <2>2, SeenIsPlaying
  <2> QED BY <1>14, <2>3 DEF StoreTime, heapVars, queueVars, guiVars
<1>15. CASE StoreSeen
  <2>1. hasHandle /\ LastHandled = cmd /\ serial[seen] <= serial[cmd]
    BY <1>15 DEF StoreSeen, LastHandled, PointerInv, Positions
  <2>2. serial[seen] \in Nat /\ serial[cmd] \in Nat /\ session \in Nat
    BY DEF PointerInv, TypeOK
  <2>3. audioState # "Stopped" /\ serial[cmd] >= session => playing = session
    BY <2>1, <2>2, SeenIsPlaying
  <2> QED BY <1>15, <2>1, <2>2, <2>3 DEF StoreSeen, heapVars, queueVars, guiVars
<1> QED
  BY <1>1, <1>2, <1>4, <1>5, <1>6, <1>7, <1>8, <1>9, <1>10, <1>11, <1>12,
     <1>13, <1>14, <1>15 DEF Next, GuiStep, UserStep, AudioStep

(* gc_command_queue() leaves Starting when it empties the queue.            *)
LEMMA StartingStep ==
  ASSUME PointerInv, StartingHasPending, Next
  PROVE  StartingHasPending'
<1> USE DEF StartingHasPending
<1>1. CASE StartPlay \/ StopPlay \/ SendEdit
  <2>1. PICK m \in MessageBody : Push(m)
    BY <1>1, TransportInMessages, EditInMessages DEF StartPlay, StopPlay, SendEdit
  <2>2. begin' # end'
    BY <2>1, PushPointers DEF PointerInv, ListShape
  <2> QED BY <2>2
<1>2. CASE ~(StartPlay \/ StopPlay \/ SendEdit)
  BY <1>2 DEF Next, GuiStep, UserStep, AudioStep, Pop, EndGc, ReadTime,
    Refresh, UserTransport, UserEdit, StartHandler, ClearNode, ClearLast,
    MakeHandle, MakeFails, EditOffline, Join, RestartAudio, OpenDocument,
    Restart, BeginTick, HandlePlay, HandleStop, HandleEdit, FinishCommands,
    StoreTime, StoreSeen, queueVars, guiVars, PointerInv, Positions
<1> QED BY <1>1, <1>2

-----------------------------------------------------------------------------
(* The invariant is inductive. *)

(* The invariant holds when the program starts,                            *)
LEMMA InitIInv == Init => IInv
<1> SUFFICES ASSUME Init PROVE IInv
  OBVIOUS
<1>1. PointerInv
  BY InitPointerInv
<1>2. /\ ~hasHandle /\ audio = "off" /\ audioState = "Stopped"
      /\ engine = audioDoc /\ session = 0
  BY DEF Init
<1>3. serial[end] \in Nat
  BY <1>1 DEF PointerInv, TypeOK
<1> QED BY <1>1, <1>2, <1>3
        DEF IInv, DocMirror, EngineTracked, LastTransport, TransportAlternates,
            TimeOfSession, StartingHasPending

(* when nothing happens,                                                   *)
LEMMA StutterIInv == IInv /\ UNCHANGED vars => IInv'
  BY DEF IInv, vars, heapVars, queueVars, guiVars, audioVars, PointerInv,
         TypeOK, ListShape, Positions, DocMirror, EngineTracked, LastTransport,
         TransportAlternates, TimeOfSession, StartingHasPending, IsLast,
         PendingTransport, PendingEdits, PendingNodes, LastHandled

(* and after every step of either thread.                                  *)
LEMMA NextIInv == IInv /\ Next => IInv'
<1> SUFFICES ASSUME IInv, Next PROVE IInv'
  OBVIOUS
<1>1. PointerInv'
  BY PointerStep DEF IInv
<1> QED BY <1>1, MirrorStep, EngineStep, TransportStep, TimeStep, StartingStep
        DEF IInv

(* In every reachable state of every instance the inductive invariant of   *)
(* AudioSyncInv holds.                                                     *)
THEOREM Invariance == Spec => []IInv
  BY InitIInv, StutterIInv, NextIInv, PTL DEF Spec

(* The variables of both threads keep their types.                         *)
THEOREM TypeCorrect == Spec => []TypeOK
<1>1. IInv => TypeOK
  BY DEF IInv, PointerInv
<1> QED BY <1>1, Invariance, PTL

(* pop(), clear() and setup_audio() never fail their release_asserts.      *)
THEOREM AssertSafety == Spec => []AssertsHold
<1>1. IInv => AssertsHold
  BY AddrAssumption
  DEF IInv, PointerInv, TypeOK, ListShape, Positions, AssertsHold
<1> QED BY <1>1, Invariance, PTL

(* Neither thread dereferences a node the GUI has freed, for any number of *)
(* nodes and any reuse of their addresses.                                 *)
THEOREM MemorySafety == Spec => []NoUseAfterFree
<1>1. IInv => NoUseAfterFree
  BY DEF IInv, PointerInv, TypeOK, ListShape, Positions, NoUseAfterFree
<1> QED BY <1>1, Invariance, PTL

(* pop() and clear() free every node they unlink.                          *)
THEOREM LeakFreedom == Spec => []NoLeak
<1>1. IInv => NoLeak
  BY DEF IInv, PointerInv, ListShape, NoLeak
<1> QED BY <1>1, Invariance, PTL

(* The audio thread's document equals the GUI's once the commands pushed   *)
(* have been carried out, whatever edits were in flight.                   *)
THEOREM Mirroring == Spec => []MirrorWhenCaughtUp
<1>1. IInv => MirrorWhenCaughtUp
  <2> SUFFICES ASSUME IInv, hasHandle, gui # "join", next[LastHandled] = NoAddr
               PROVE  audioDoc = guiDoc
    BY DEF MirrorWhenCaughtUp
  <2>1. LastHandled = end
    BY LastHandledLive, AddrAssumption
    DEF IInv, PointerInv, TypeOK, ListShape
  <2>2. PendingNodes = {}
    BY <2>1 DEF IInv, PointerInv, TypeOK, ListShape, PendingNodes
  <2>3. \A f \in Field : PendingEdits(f) = {}
    BY <2>2 DEF PendingEdits
  <2>4. \A f \in Field : audioDoc[f] = guiDoc[f]
    BY <2>3 DEF IInv, DocMirror
  <2> QED BY <2>4 DEF IInv, PointerInv, TypeOK, Doc
<1> QED BY <1>1, Invariance, PTL

(* The tempo, patterns and sample data cached are those of the audio       *)
(* thread's document whenever the commands of a period have been handled,  *)
(* and so are the loop points if sample data was edited in that period.    *)
THEOREM EngineFreshness == Spec => []EngineFresh
<1>1. IInv => EngineFresh
  BY DEF IInv, EngineTracked, EngineFresh
<1> QED BY <1>1, Invariance, PTL

(* The GUI never shows a time of an earlier playback session.              *)
THEOREM TimeFreshness == Spec => []FreshTime
<1>1. IInv => FreshTime
  BY DEF IInv, TimeOfSession, FreshTime
<1> QED BY <1>1, Invariance, PTL

(* A GUI that waits for playback to start has a command in the queue.      *)
THEOREM StartingIsPending == Spec => []StartingHasPending
<1>1. IInv => StartingHasPending
  BY DEF IInv
<1> QED BY <1>1, Invariance, PTL

-----------------------------------------------------------------------------
(* The refinement: the nodes after the last one handled, in the order of    *)
(* their serials, are the log of Playback.                                 *)

(* CommandQueue() makes a list of one node.                                *)
LEMMA InitContiguous == Init => Contiguous
<1> SUFFICES ASSUME Init PROVE Contiguous
  OBVIOUS
<1>1. begin \in live /\ end = begin /\ begin \in Addr /\ serial[begin] \in Nat
  BY InitPointerInv DEF Init, PointerInv, TypeOK, ListShape
<1> QED BY <1>1 DEF Contiguous

(* push() adds at the end of the list; pop() and clear() take the first.   *)
LEMMA ContiguousStep ==
  ASSUME PointerInv, Contiguous, [Next]_vars
  PROVE  Contiguous'
<1> USE DEF Contiguous
<1>1. CASE StartPlay \/ StopPlay \/ SendEdit
  <2>1. PICK m \in MessageBody : Push(m)
    BY <1>1, TransportInMessages, EditInMessages DEF StartPlay, StopPlay, SendEdit
  <2>2. /\ live' = live \union {end'} /\ begin' = begin
        /\ serial'[end'] = serial[end] + 1
        /\ \A n \in live : serial'[n] = serial[n]
        /\ begin \in live /\ end \in live
    BY <2>1, PushPointers DEF PointerInv, ListShape
  <2>3. serial[begin] \in Nat /\ serial[end] \in Nat
    BY DEF PointerInv, TypeOK
  <2>4. \A i \in serial'[begin'] .. serial'[end'] :
          i \in serial[begin] .. serial[end] \/ i = serial'[end']
    BY <2>2, <2>3
  <2> QED BY <2>2, <2>4
<1>2. CASE Pop \/ ClearNode
  <2>1. /\ live' = live \ {begin} /\ serial' = serial /\ end' = end
        /\ begin' = next[begin] /\ begin # end /\ begin \in live
    BY <1>2, AddrAssumption DEF Pop, ClearNode, PointerInv, TypeOK, ListShape, Positions
  <2>2. serial[begin'] = serial[begin] + 1
    BY <2>1 DEF PointerInv, ListShape
  <2>3. serial[begin] \in Nat /\ serial[end] \in Nat
    BY DEF PointerInv, TypeOK
  <2> QED BY <2>1, <2>2, <2>3
<1>3. CASE ClearLast
  <2>1. begin' \in live' /\ end' = begin' /\ serial'[begin'] \in Nat
    BY <1>3 DEF ClearLast, PointerInv, TypeOK
  <2> QED BY <2>1
<1>4. CASE UNCHANGED <<live, serial, begin, end>>
  BY <1>4
<1>5. \/ UNCHANGED <<live, serial, begin, end>>
      \/ StartPlay \/ StopPlay \/ SendEdit \/ Pop \/ ClearNode \/ ClearLast
  BY DEF Next, GuiStep, UserStep, AudioStep, EndGc, ReadTime, Refresh,
    UserTransport, UserEdit, StartHandler, MakeHandle, MakeFails, EditOffline,
    Join, RestartAudio, OpenDocument, Restart, BeginTick, HandlePlay, HandleStop,
    HandleEdit, FinishCommands, StoreTime, StoreSeen, vars, heapVars, queueVars
<1> QED BY <1>1, <1>2, <1>3, <1>4, <1>5

(* In every reachable state the list has one node for every serial from    *)
(* that of _begin to that of _end.                                         *)
THEOREM ListContiguous == Spec => []Contiguous
<1>1. IInv => PointerInv
  BY DEF IInv
<1>2. IInv /\ Contiguous /\ [Next]_vars => Contiguous'
  BY <1>1, ContiguousStep
<1> QED BY <1>2, InitContiguous, Invariance, PTL DEF Spec

(* The log lists what is pending, each command at the rank of its node.    *)
LogLists ==
  /\ Pending \in Seq(MessageBody)
  /\ Len(Pending) = serial[end] - serial[LastHandled]
  /\ \A n \in PendingNodes :
       /\ serial[n] - serial[LastHandled] \in 1 .. Len(Pending)
       /\ Pending[serial[n] - serial[LastHandled]] = msg[n]
  /\ \A i \in 1 .. Len(Pending) :
       \E n \in PendingNodes : i = serial[n] - serial[LastHandled]

(* Choosing the node of each serial gives a sequence of commands.          *)
LEMMA PendingLog == PointerInv /\ Contiguous /\ hasHandle => LogLists
<1> SUFFICES ASSUME PointerInv, Contiguous, hasHandle PROVE LogLists
  OBVIOUS
<1> DEFINE at == serial[LastHandled]
           len == serial[end] - at
<1>1. LastHandled \in live /\ end \in live /\ begin \in live
  BY LastHandledLive DEF PointerInv, ListShape
<1>2. at \in Nat /\ serial[end] \in Nat /\ len \in Nat
      /\ serial[begin] \in Nat /\ serial[begin] <= at
  BY <1>1 DEF PointerInv, TypeOK, ListShape
<1>3. \A n \in live : serial[n] \in Nat /\ serial[n] <= serial[end] /\ msg[n] \in MessageBody
  BY DEF PointerInv, TypeOK, ListShape
<1>4. \A n \in live : NodeAt(serial[n]) = n
  BY DEF NodeAt, PointerInv, ListShape
<1> HIDE DEF at, len
<1>5. \A i \in 1 .. len : \E n \in PendingNodes : serial[n] = at + i
  <2> SUFFICES ASSUME NEW i \in 1 .. len PROVE \E n \in PendingNodes : serial[n] = at + i
    OBVIOUS
  <2>1. at + i \in serial[begin] .. serial[end] /\ at + i > at
    BY <1>2 DEF len
  <2>2. PICK n \in live : serial[n] = at + i
    BY <2>1 DEF Contiguous
  <2> QED BY <2>1, <2>2 DEF PendingNodes, at
<1>6. \A n \in PendingNodes : n \in live /\ serial[n] - at \in 1 .. len
  BY <1>2, <1>3 DEF PendingNodes, at, len
<1>7. Pending = [i \in 1 .. len |-> msg[NodeAt(at + i)]]
  BY DEF Pending, at, len
<1>8. \A i \in 1 .. len : msg[NodeAt(at + i)] \in MessageBody
  BY <1>3, <1>4, <1>5 DEF PendingNodes
<1>9. Pending \in Seq(MessageBody) /\ Len(Pending) = len
  BY <1>2, <1>7, <1>8
<1>10. \A n \in PendingNodes : Pending[serial[n] - at] = msg[n]
  <2> SUFFICES ASSUME NEW n \in PendingNodes PROVE Pending[serial[n] - at] = msg[n]
    OBVIOUS
  <2>1. Pending[serial[n] - at] = msg[NodeAt(at + (serial[n] - at))]
    BY <1>6, <1>7
  <2>2. at + (serial[n] - at) = serial[n]
    BY <1>2, <1>3, <1>6
  <2> QED BY <1>4, <1>6, <2>1, <2>2
<1>11. \A i \in 1 .. len : \E n \in PendingNodes : i = serial[n] - at
  <2> SUFFICES ASSUME NEW i \in 1 .. len PROVE \E n \in PendingNodes : i = serial[n] - at
    OBVIOUS
  <2>1. PICK n \in PendingNodes : serial[n] = at + i
    BY <1>5
  <2>2. serial[n] - at = i
    BY <1>2, <2>1
  <2> QED BY <2>2
<1> QED BY <1>6, <1>9, <1>10, <1>11 DEF LogLists, at, len

(* A message counts as a command of Playback.                              *)
LEMMA MessageIsCommand ==
  ASSUME NEW m \in MessageBody
  PROVE  /\ m.kind = "edit" => m \in Service!Edit
         /\ m.kind # "edit" => m \in Service!Transport
         /\ m.kind = "edit" => m \notin Service!Transport
  BY MessageKind DEF Service!Edit, Service!Transport, EditBox, PlayFrom, StopPlayback

(* Steps that leave the pending nodes and the list's end leave the log.    *)
LEMMA SameLog ==
  ASSUME PointerInv, Contiguous, hasHandle, PointerInv', Contiguous', hasHandle',
         LastHandled' = LastHandled, SamePending, serial' = serial, end' = end
  PROVE  Pending' = Pending
<1>1. LogLists
  BY PendingLog
<1>2. LogLists'
  BY PendingLog, PTL
<1>3. Len(Pending') = Len(Pending)
  BY <1>1, <1>2 DEF LogLists
<1>4. ASSUME NEW i \in 1 .. Len(Pending)
      PROVE  Pending'[i] = Pending[i]
  <2>1. PICK n \in PendingNodes : i = serial[n] - serial[LastHandled]
    BY <1>1, <1>4 DEF LogLists
  <2>2. Pending[i] = msg[n] /\ Pending'[i] = msg'[n]
    BY <1>1, <1>2, <2>1 DEF LogLists, SamePending
  <2> QED BY <2>1, <2>2 DEF SamePending
<1> QED BY <1>1, <1>2, <1>3, <1>4, SeqEqual DEF LogLists

(* A push appends the command to the log.                                  *)
LEMMA AppendLog ==
  ASSUME PointerInv, Contiguous, hasHandle, PointerInv', Contiguous', hasHandle',
         NEW m \in MessageBody, Push(m), UNCHANGED <<seen, audioVars>>
  PROVE  Pending' = Append(Pending, m)
<1>1. LogLists
  BY PendingLog
<1>2. LogLists'
  BY PendingLog, PTL
<1>3. /\ LastHandled' = LastHandled
      /\ serial'[LastHandled] = serial[LastHandled]
      /\ PendingNodes' = PendingNodes \union {end'}
      /\ msg'[end'] = m
      /\ \A n \in PendingNodes : msg'[n] = msg[n] /\ serial'[n] = serial[n]
  BY PushPending
<1>4. serial'[end'] = serial[end] + 1
  BY PushPointers
<1>5. Len(Pending') = Len(Pending) + 1 /\ Len(Pending) \in Nat
      /\ serial'[end'] - serial'[LastHandled'] = Len(Pending) + 1
  <2>1. serial[end] \in Nat /\ serial[LastHandled] \in Nat
        /\ serial[LastHandled] <= serial[end]
    BY LastHandledLive DEF PointerInv, TypeOK, ListShape
  <2>2. Len(Pending) = serial[end] - serial[LastHandled]
    BY <1>1 DEF LogLists
  <2>3. Len(Pending') = serial'[end'] - serial'[LastHandled']
    BY <1>2 DEF LogLists
  <2> QED BY <1>3, <1>4, <2>1, <2>2, <2>3
<1>6. /\ Append(Pending, m) \in Seq(MessageBody)
      /\ Len(Append(Pending, m)) = Len(Pending) + 1
      /\ Append(Pending, m)[Len(Pending) + 1] = m
      /\ \A i \in 1 .. Len(Pending) : Append(Pending, m)[i] = Pending[i]
  BY <1>1, AppendProperties DEF LogLists
<1>7. ASSUME NEW i \in 1 .. Len(Pending')
      PROVE  Pending'[i] = Append(Pending, m)[i]
  <2>1. CASE i = Len(Pending) + 1
    BY <1>2, <1>3, <1>5, <1>6, <2>1 DEF LogLists
  <2>2. CASE i # Len(Pending) + 1
    <3>1. i \in 1 .. Len(Pending)
      BY <1>5, <2>2
    <3>2. PICK n \in PendingNodes : i = serial[n] - serial[LastHandled]
      BY <1>1, <3>1 DEF LogLists
    <3>3. Pending[i] = msg[n]
      BY <1>1, <3>2 DEF LogLists
    <3>4. n \in PendingNodes' /\ i = serial'[n] - serial'[LastHandled']
      BY <1>3, <3>2
    <3>5. Pending'[i] = msg'[n]
      BY <1>2, <3>4 DEF LogLists
    <3> QED BY <1>3, <1>6, <3>1, <3>2, <3>3, <3>5
  <2> QED BY <2>1, <2>2
<1> QED BY <1>2, <1>5, <1>6, <1>7, SeqEqual DEF LogLists

(* The audio thread takes the oldest command off the log.                  *)
LEMMA TailLog ==
  ASSUME PointerInv, Contiguous, hasHandle, PointerInv', Contiguous', hasHandle',
         HandleStep
  PROVE  /\ Pending # <<>> /\ Pending \in Seq(MessageBody)
         /\ Head(Pending) = msg[next[cmd]]
         /\ Pending' = Tail(Pending)
<1> DEFINE h == next[cmd]
<1>1. LogLists
  BY PendingLog
<1>2. LogLists'
  BY PendingLog, PTL
<1>3. /\ LastHandled' = h
      /\ h \in PendingNodes
      /\ PendingNodes' = PendingNodes \ {h}
      /\ \A n \in PendingNodes' : msg'[n] = msg[n]
      /\ serial' = serial
  BY HandlePending
<1>4. serial[h] = serial[LastHandled] + 1 /\ end' = end
  BY DEF HandleStep, HandlePlay, HandleStop, HandleEdit, LastHandled, queueVars,
         PointerInv, ListShape, Positions
<1>5. serial \in [Addr -> Nat] /\ LastHandled \in Addr /\ h \in Addr /\ end \in Addr
  BY <1>3, LastHandledLive DEF PendingNodes, PointerInv, TypeOK
<1> HIDE DEF h
<1>6. serial[h] - serial[LastHandled] = 1
  BY <1>4, <1>5
<1>7. Pending[1] = msg[h] /\ 1 \in 1 .. Len(Pending)
  BY <1>1, <1>3, <1>6 DEF LogLists
<1>8. Pending # <<>> /\ Pending \in Seq(MessageBody) /\ Head(Pending) = msg[h]
  BY <1>1, <1>7, EmptySeq DEF LogLists
<1>9. Len(Pending') = Len(Pending) - 1
  BY <1>1, <1>2, <1>3, <1>4, <1>5 DEF LogLists
<1>10. /\ Tail(Pending) \in Seq(MessageBody)
       /\ Len(Tail(Pending)) = Len(Pending) - 1
       /\ \A i \in 1 .. Len(Tail(Pending)) : Tail(Pending)[i] = Pending[i + 1]
  BY <1>8, HeadTailProperties
<1>11. ASSUME NEW i \in 1 .. Len(Pending')
       PROVE  Pending'[i] = Tail(Pending)[i]
  <2>1. PICK n \in PendingNodes' : i = serial'[n] - serial'[LastHandled']
    BY <1>2 DEF LogLists
  <2>2. n \in PendingNodes /\ serial[n] - serial[LastHandled] = i + 1
    <3>1. n \in PendingNodes /\ i = serial[n] - serial[h]
      BY <1>3, <2>1
    <3>2. serial[n] \in Nat /\ serial[h] \in Nat /\ serial[LastHandled] \in Nat
      BY <1>5, <3>1 DEF PendingNodes, PointerInv, TypeOK
    <3> QED BY <1>4, <3>1, <3>2
  <2>3. Pending[i + 1] = msg[n]
    BY <1>1, <2>2 DEF LogLists
  <2>4. Pending'[i] = msg'[n]
    BY <1>2, <2>1 DEF LogLists
  <2> QED BY <1>3, <1>9, <1>10, <2>1, <2>3, <2>4
<1> QED BY <1>2, <1>8, <1>9, <1>10, <1>11, SeqEqual DEF LogLists, h

(* The log of a new audio thread is empty.                                 *)
LEMMA MakeLog ==
  ASSUME PointerInv, MakeHandle, PointerInv', Contiguous', hasHandle'
  PROVE  Pending' = <<>>
<1>1. LogLists'
  BY PendingLog, PTL
<1>2. PendingNodes' = {}
  BY MakePending
<1>3. 1 .. Len(Pending') = {} /\ Pending' \in Seq(MessageBody)
  BY <1>1, <1>2 DEF LogLists
<1> QED BY <1>3, EmptySeq, SMTT(30)

-----------------------------------------------------------------------------
(* The steps of AudioSync as steps of Playback.                            *)

RefInv == PointerInv /\ Contiguous

(* Neither thread's bookkeeping is visible; replacing the document is the  *)
(* beginning of a restart.                                                 *)
LEMMA QuietImplements ==
  ASSUME RefInv, RefInv', hasHandle, QuietStep
  PROVE  Service!BeginRestart \/ UNCHANGED Service!vars
<1> USE DEF RefInv
<1>1. hasHandle' = hasHandle /\ serial' = serial /\ end' = end
      /\ audioDoc' = audioDoc /\ playing' = playing
  BY DEF QuietStep, StartHandler, Restart, Pop, EndGc, ReadTime, BeginTick,
         FinishCommands, StoreTime, StoreSeen, guiVars, audioVars, heapVars,
         queueVars
<1>2. Pending' = Pending
  BY <1>1, QuietPending, SameLog
<1>3. CASE \E doc \in Doc : Restart(doc)
  <2>1. gui # "join" /\ guiDoc' \in Doc /\ gui' = "join"
    BY <1>3 DEF Restart
  <2> QED BY <1>1, <1>2, <2>1 DEF Service!BeginRestart, Service!Doc, Doc
<1>4. CASE ~\E doc \in Doc : Restart(doc)
  <2>1. guiDoc' = guiDoc /\ ((gui # "join" /\ gui' # "join") \/ gui' = gui)
    BY <1>4 DEF QuietStep, StartHandler, Pop, EndGc, ReadTime, BeginTick,
         FinishCommands, StoreTime, StoreSeen, guiVars
  <2> QED BY <1>1, <1>2, <2>1 DEF Service!vars
<1> QED BY <1>3, <1>4

(* Commands sent.                                                          *)
LEMMA SendImplements ==
  ASSUME RefInv, RefInv', hasHandle, StartPlay \/ StopPlay \/ SendEdit
  PROVE  Service!SendTransport \/ Service!SendEdit
<1> USE DEF RefInv
<1>1. /\ hasHandle' = hasHandle /\ gui # "join" /\ gui' # "join"
      /\ audioDoc' = audioDoc /\ playing' = playing
      /\ UNCHANGED <<seen, audioVars>>
  BY DEF StartPlay, StopPlay, SendEdit, guiVars, audioVars
<1>2. CASE StartPlay \/ StopPlay
  <2>1. PICK m \in MessageBody : Push(m) /\ m.kind # "edit" /\ guiDoc' = guiDoc
    BY <1>2, TransportInMessages DEF StartPlay, StopPlay
  <2>2. m \in Service!Transport /\ Pending' = Append(Pending, m)
    BY <1>1, <2>1, AppendLog, MessageIsCommand
  <2> QED BY <1>1, <2>1, <2>2 DEF Service!SendTransport
<1>3. CASE SendEdit
  <2>1. PICK f \in Field, v \in Value :
          Push(EditBox(f, v)) /\ guiDoc' = ApplyEdit(guiDoc, EditBox(f, v))
    BY <1>3 DEF SendEdit
  <2> DEFINE m == EditBox(f, v)
  <2>2. m \in MessageBody /\ m \in Service!Edit
    BY EditInMessages, MessageIsCommand
  <2>3. Pending' = Append(Pending, m)
    BY <1>1, <2>1, <2>2, AppendLog
  <2>4. guiDoc' = Service!Apply(guiDoc, m)
    BY <2>1 DEF ApplyEdit, Service!Apply
  <2> HIDE DEF m
  <2> QED BY <1>1, <2>2, <2>3, <2>4 DEF Service!SendEdit
<1> QED BY <1>2, <1>3

(* Commands carried out.                                                   *)
LEMMA HandleImplements ==
  ASSUME RefInv, RefInv', hasHandle, HandleStep
  PROVE  Service!CarryOut
<1> USE DEF RefInv
<1> DEFINE h == next[cmd]
           m == msg[h]
<1>1. hasHandle' = hasHandle /\ guiDoc' = guiDoc /\ gui' = gui
  BY DEF HandleStep, HandlePlay, HandleStop, HandleEdit, guiVars
<1>2. Pending # <<>> /\ Head(Pending) = m /\ Pending' = Tail(Pending)
  BY <1>1, TailLog
<1>3. h \in Addr /\ m \in MessageBody /\ serial[h] \in Nat /\ serial[h] # None
  <2>1. h \in PendingNodes
    BY HandlePending
  <2>2. h \in Addr /\ serial[h] > serial[LastHandled] /\ serial[LastHandled] \in Nat
    BY <2>1, LastHandledLive DEF PendingNodes, PointerInv, TypeOK
  <2> QED BY <2>2 DEF PointerInv, TypeOK, None
<1>4. \/ /\ m \in Service!Transport
         /\ (hasHandle' /\ playing' # None) = (m.kind = "play")
         /\ audioDoc' = audioDoc
      \/ /\ m \in Service!Edit
         /\ audioDoc' = Service!Apply(audioDoc, m)
         /\ playing' = playing
  <2>1. CASE HandlePlay
    BY <1>1, <1>3, <2>1, TransportInMessages, MessageIsCommand DEF HandlePlay
  <2>2. CASE HandleStop
    BY <1>1, <1>3, <2>2, TransportInMessages, MessageIsCommand DEF HandleStop
  <2>3. CASE HandleEdit
    BY <1>3, <2>3, MessageIsCommand DEF HandleEdit, ApplyEdit, Service!Apply
  <2> QED BY <2>1, <2>2, <2>3 DEF HandleStep
<1> HIDE DEF h, m
<1> QED BY <1>1, <1>2, <1>4 DEF Service!CarryOut

(* The audio thread is destroyed and made, and the user edits without one. *)
LEMMA OfflineImplements ==
  ASSUME RefInv, RefInv', Next, MakeHandle \/ ~hasHandle'
  PROVE  Service!Next \/ UNCHANGED Service!vars
<1> USE DEF RefInv
<1>1. CASE MakeHandle
  <2>1. ~hasHandle /\ hasHandle' /\ gui = "make" /\ gui' = "idle"
        /\ guiDoc' = guiDoc /\ audioDoc' = guiDoc /\ playing' = None
    BY <1>1 DEF MakeHandle, PointerInv, Positions
  <2>2. Pending' = <<>>
    BY <1>1, <2>1, MakeLog
  <2>3. ~(hasHandle /\ playing # None) /\ ~(hasHandle' /\ playing' # None)
    BY <2>1
  <2>4. (IF hasHandle THEN Pending ELSE <<>>) = <<>>
        /\ (IF hasHandle' THEN Pending' ELSE <<>>) = <<>>
    BY <2>1, <2>2
  <2>5. Service!GoOnline
    BY <2>1, <2>3, <2>4 DEF Service!GoOnline
  <2> QED BY <2>5 DEF Service!Next
<1>2. CASE Join
  <2>1. Service!GoOffline
    BY <1>2 DEF Join, Service!GoOffline
  <2> QED BY <2>1 DEF Service!Next
<1>3. CASE EditOffline
  <2>1. PICK f \in Field, v \in Value :
          guiDoc' = ApplyEdit(guiDoc, EditBox(f, v))
    BY <1>3 DEF EditOffline
  <2> DEFINE m == EditBox(f, v)
  <2>2. m \in Service!Edit
    BY EditInMessages, MessageIsCommand
  <2>3. guiDoc' = Service!Apply(guiDoc, m)
    BY <2>1 DEF ApplyEdit, Service!Apply
  <2> HIDE DEF m
  <2> QED BY <1>3, <2>2, <2>3
      DEF EditOffline, audioVars, Service!Next, Service!SendEdit
<1>4. CASE ~hasHandle /\ (RestartAudio \/ OpenDocument)
  <2>1. /\ hasHandle = FALSE /\ hasHandle' = FALSE
        /\ gui = "idle" /\ gui' = "clear"
        /\ guiDoc' \in Doc /\ audioDoc' = audioDoc
    BY <1>4 DEF RestartAudio, OpenDocument, Restart, audioVars, PointerInv, TypeOK
  <2>2. Service!BeginRestart
    BY <2>1 DEF Service!BeginRestart, Service!Doc, Doc
  <2> QED BY <2>2 DEF Service!Next
<1>5. CASE ~hasHandle /\ ~hasHandle' /\ UNCHANGED <<guiDoc, audioDoc>>
           /\ gui # "join" /\ gui' # "join"
  <2>1. hasHandle' = hasHandle /\ (gui = "join")' = (gui = "join")
    BY <1>5 DEF PointerInv, TypeOK
  <2>2. (hasHandle /\ playing # None)' = (hasHandle /\ playing # None)
    BY <1>5
  <2>3. (IF hasHandle THEN Pending ELSE <<>>)' = IF hasHandle THEN Pending ELSE <<>>
    BY <1>5
  <2> QED BY <1>5, <2>1, <2>2, <2>3 DEF Service!vars
<1>6. ~hasHandle' => \/ Join \/ EditOffline
                     \/ ~hasHandle /\ (RestartAudio \/ OpenDocument)
                     \/ ~hasHandle /\ UNCHANGED <<guiDoc, audioDoc>>
                        /\ gui # "join" /\ gui' # "join"
  BY DEF Next, GuiStep, UserStep, AudioStep, Pop, EndGc, ReadTime, StartPlay,
    StopPlay, SendEdit, ClearNode, ClearLast, MakeHandle, MakeFails, Refresh,
    UserTransport, UserEdit, StartHandler, RestartAudio, OpenDocument, Restart,
    BeginTick, HandlePlay, HandleStop, HandleEdit, FinishCommands, StoreTime,
    StoreSeen, guiVars, audioVars, PointerInv, Positions
<1> QED BY <1>1, <1>2, <1>3, <1>4, <1>5, <1>6

(* The threads start as the service does,                                  *)
LEMMA InitImplements == Init => Service!Init
  BY DEF Init, Service!Init, Service!Doc, Doc

(* and every step is one of its steps or invisible.                        *)
LEMMA StepImplements ==
  RefInv /\ RefInv' /\ [Next]_vars => [Service!Next]_Service!vars
<1> SUFFICES ASSUME RefInv, RefInv', [Next]_vars
             PROVE  Service!Next \/ UNCHANGED Service!vars
  OBVIOUS
<1>1. CASE UNCHANGED vars
  BY <1>1 DEF vars, heapVars, queueVars, guiVars, audioVars, Service!vars,
              Pending, NodeAt, LastHandled
<1>2. CASE Next
  BY <1>2, StepKinds, QuietImplements, SendImplements, HandleImplements,
     OfflineImplements DEF RefInv, Service!Next
<1> QED BY <1>1, <1>2

(* Through every interleaving of the two threads, garbage collection,      *)
(* restarts and reuse of addresses, the commands the GUI sends reach the   *)
(* audio thread once each and in order.                                    *)
THEOREM Refinement == Spec => ImplementsPlayback
<1>1. IInv /\ Contiguous => RefInv
  BY DEF IInv, RefInv
<1> QED BY <1>1, InitImplements, StepImplements, Invariance, ListContiguous, PTL
        DEF Spec, Service!Spec, ImplementsPlayback

=============================================================================
