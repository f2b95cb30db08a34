------------------------- MODULE AudioSyncRefinement -------------------------
(* AudioSync implements Playback: the list between the audio thread's      *)
(* position and _end is the log, in the order the nodes were allocated.    *)
EXTENDS AudioSync, Sequences

NodeAt(i) == CHOOSE n \in live : serial[n] = i

Pending ==
  [i \in 1 .. serial[end] - serial[LastHandled] |->
     msg[NodeAt(serial[LastHandled] + i)]]

Service == INSTANCE Playback WITH
  doc     <- guiDoc,
  online  <- hasHandle,
  closing <- gui = "join",
  replica <- audioDoc,
  playing <- hasHandle /\ playing # None,
  log     <- IF hasHandle THEN Pending ELSE <<>>

(* Every command the GUI sends reaches the audio thread exactly once and   *)
(* in order, through every interleaving with gc, restarts and reuse of     *)
(* addresses.                                                              *)
ImplementsPlayback == Service!Spec

(* ... and is carried out eventually, while the audio thread lives.        *)
CarriesOutCommands == Service!Fairness
=============================================================================
