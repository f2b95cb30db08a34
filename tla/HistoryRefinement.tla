-------------------------- MODULE HistoryRefinement --------------------------
(***************************************************************************)
(* History implements LinearUndo.  The states of the line are those that   *)
(* the commands of the two stacks swap back, seen without what untracked   *)
(* edits change: those must not disturb the line.                          *)
(***************************************************************************)
EXTENDS History

Places ==
  ({"tempo", "beats_per_measure", "blocks"} \X {0})
    \cup ({"instrument", "sample", "brr"} \X Slots)

MergeablePlaces ==
  {p \in Places : p[1] \in {"tempo", "beats_per_measure", "instrument", "sample"}}

NameOf(item) == IF item = None THEN None ELSE item.name

(* The document without patches and loop points.                           *)
View(d) ==
  [p \in Places |->
     CASE p[1] = "tempo" -> d.options.target_tempo
       [] p[1] = "beats_per_measure" -> d.options.beats_per_measure
       [] p[1] = "blocks" -> d.blocks
       [] p[1] = "instrument" -> NameOf(d.instruments[p[2]])
       [] p[1] = "sample" -> NameOf(d.samples[p[2]])
       [] p[1] = "brr" -> IF SampleAt(d, p[2]) THEN d.samples[p[2]].brr ELSE None]

(* The documents met by applying the commands of a stack from the top.     *)
Line(d, stack) ==
  LET n == Len(stack)
      after[k \in 0 .. n] ==
        IF k = 0 THEN d ELSE DocAfter(stack[n + 1 - k], after[k - 1])
  IN  [j \in 1 .. n |-> View(after[n + 1 - j])]

Promised == INSTANCE LinearUndo
  WITH past <- Line(document, undo_stack), present <- View(document),
       future <- Line(document, redo_stack)

(* The undo history of the code is a linear one: undo restores the state   *)
(* before the last edit or run of merged edits, redo the one after it,     *)
(* and an untracked edit moves nothing.                                    *)
ImplementsLinearUndo == Promised!Spec

(* What the line depends on: two states that differ only in what was saved *)
(* have the same line, and the same steps.                                 *)
WithoutSaved == <<document, undo_stack, redo_stack, audio, edits>>
=============================================================================
