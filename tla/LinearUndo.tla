----------------------------- MODULE LinearUndo -----------------------------
(***************************************************************************)
(* What an undo history promises: a line of document states, with the      *)
(* present one somewhere on it.  An edit forgets the future and moves the  *)
(* present one to the past; undo and redo move along the line and change   *)
(* nothing else.  An edit may replace the present state instead, but only  *)
(* one that differs from the last past state in a single place that the    *)
(* edit writes again (edit_common.h on can_merge()).                       *)
(*                                                                         *)
(* A state is a function from places to what is there.                     *)
(***************************************************************************)
EXTENDS Integers, Sequences

CONSTANTS Places, MergeablePlaces

VARIABLES past, present, future

vars == <<past, present, future>>

DifferOnlyAt(p, s, t) == \A q \in Places \ {p} : s[q] = t[q]

Init == past = <<>> /\ future = <<>>

Edit ==
  /\ future' = <<>>
  /\ past' = Append(past, present)

MergeEdit ==
  /\ future' = <<>>
  /\ past # <<>>
  /\ UNCHANGED past
  /\ LET last == past[Len(past)]
         here == present
         there == present'
     IN  \E p \in MergeablePlaces :
           DifferOnlyAt(p, last, here) /\ DifferOnlyAt(p, here, there)

Undo ==
  /\ past # <<>>
  /\ past' = SubSeq(past, 1, Len(past) - 1)
  /\ present' = past[Len(past)]
  /\ future' = Append(future, present)

Redo ==
  /\ future # <<>>
  /\ future' = SubSeq(future, 1, Len(future) - 1)
  /\ present' = future[Len(future)]
  /\ past' = Append(past, present)

Open == past' = <<>> /\ future' = <<>>

Next == Edit \/ MergeEdit \/ Undo \/ Redo \/ Open

Spec == Init /\ [][Next]_vars
=============================================================================
