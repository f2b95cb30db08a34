----------------------------- MODULE AudioSyncInv -----------------------------
(***************************************************************************)
(* The inductive invariant of AudioSync.  The properties of that module    *)
(* talk about the moment when the audio thread has caught up; what makes   *)
(* them inductive is what the nodes still pending will do to the audio     *)
(* thread's state.  The nodes are ordered by their serial, so that no path *)
(* through the list has to be followed.                                    *)
(***************************************************************************)
EXTENDS AudioSync

(* The list runs from begin to end through every live node, in the order   *)
(* of allocation.                                                          *)
ListShape ==
  /\ begin \in live /\ end \in live
  /\ next[end] = NoAddr
  /\ \A n \in live : serial[begin] <= serial[n] /\ serial[n] <= serial[end]
  /\ \A n \in live \ {end} :
       next[n] \in live /\ serial[next[n]] = serial[n] + 1
  /\ \A m, n \in live : serial[m] = serial[n] => m = n

(* No serial between those of _begin and _end is missing.                  *)
Contiguous ==
  \A i \in serial[begin] .. serial[end] : \E n \in live : serial[n] = i

(* What the GUI has seen is behind what the audio thread published, which  *)
(* is behind the node it is handling.                                      *)
Positions ==
  /\ hasHandle <=> audio # "off"
  /\ hasHandle => seen \in live
  /\ audio \notin {"off", "idle"} => cmd \in live /\ serial[seen] <= serial[cmd]
  /\ gui = "gc" => target \in live /\ serial[target] <= serial[seen]
  /\ gui \in {"gc", "body", "join"} => hasHandle
  /\ gui \in {"clear", "make"} => ~hasHandle
  /\ ~hasHandle /\ gui # "clear" => begin = end
  /\ ~hasHandle => audioState = "Stopped"

PendingNodes == {n \in live : serial[n] > serial[LastHandled]}
PendingEdits(f) == {n \in PendingNodes : msg[n].kind = "edit" /\ msg[n].field = f}
PendingTransport == {n \in PendingNodes : msg[n].kind # "edit"}

IsLast(n, S) == n \in S /\ \A m \in S : serial[m] <= serial[n]

(* For every part of the document, the last pending edit of it leaves what *)
(* the GUI has; with none pending the copies agree already.                *)
DocMirror ==
  hasHandle /\ gui # "join" =>
    \A f \in Field :
      \/ PendingEdits(f) = {} /\ audioDoc[f] = guiDoc[f]
      \/ \E n \in PendingEdits(f) :
           IsLast(n, PendingEdits(f)) /\ msg[n].value = guiDoc[f]

(* What the cached state may miss is recorded in total_modified, the loop  *)
(* points of the samples excepted, which only a reload brings up to date.  *)
EngineTracked ==
  /\ \A f \in TimingField \union PatternField \union SampleField :
       engine[f] = audioDoc[f] \/ (audio = "commands" /\ f \in modified)
  /\ audio # "commands" /\ audio # "off" /\ modified \intersect SampleField # {} =>
       \A f \in MetadataField : engine[f] = audioDoc[f]

(* The last PlayFrom or StopPlayback pushed agrees with audioState,        *)
(* pending or carried out.                                                 *)
LastTransport ==
  hasHandle =>
    \/ /\ PendingTransport = {}
       /\ playing = IF audioState = "Stopped" THEN None ELSE session
    \/ \E n \in PendingTransport :
         /\ IsLast(n, PendingTransport)
         /\ IF audioState = "Stopped"
            THEN msg[n].kind = "stop"
            ELSE msg[n].kind = "play" /\ serial[n] = session

(* A PlayFrom is carried out by an audio thread that is not playing.       *)
TransportAlternates ==
  hasHandle =>
    \A n \in PendingTransport : msg[n].kind = "play" =>
      LET before == {m \in PendingTransport : serial[m] < serial[n]} IN
        \/ before = {} /\ playing = None
        \/ \E m \in before : IsLast(m, before) /\ msg[m].kind = "stop"

(* The times stored belong to the session being sequenced.                 *)
TimeOfSession ==
  /\ audio # "off" /\ audio # "idle" => time \in {None, playing}
  /\ audio \in {"idle", "storeSeen"} => seqTime \in {None, playing}
  /\ hasHandle /\ audioState # "Stopped" /\ serial[seen] >= session =>
       seqTime \in {None, session}
  /\ audioState = "PlayHasStarted" => serial[seen] >= session
  /\ session <= serial[end]

PointerInv == TypeOK /\ ListShape /\ Positions

IInv ==
  /\ PointerInv
  /\ DocMirror
  /\ EngineTracked
  /\ LastTransport
  /\ TransportAlternates
  /\ TimeOfSession
  /\ StartingHasPending
=============================================================================
