---------------------------- MODULE HistoryProofs ----------------------------
(***************************************************************************)
(* For documents, limits and edits of any size: the audio thread's copy of *)
(* the document follows the GUI's, a clean document is a saved one, every  *)
(* undo and redo applies and stays applicable, and the two stacks are a    *)
(* linear history.                                                         *)
(***************************************************************************)
EXTENDS HistoryRefinement, SequenceTheorems, WellFoundedInduction, TLAPS

-----------------------------------------------------------------------------
(* What apply_swap() does to any document that meets the assertions of the *)
(* drivers: it undoes itself, its outcome does not depend on what          *)
(* untracked edits change, and merged commands overwrite each other.       *)

-----------------------------------------------------------------------------
(* Inserting and erasing a block of a track.                               *)

(* The pattern list after a block is inserted, place by place.             *)
LEMMA InsertShape ==
  ASSUME NEW S, NEW b \in Seq(S), NEW k \in 1 .. Len(b) + 1, NEW p \in S
  PROVE  /\ InsertBlock(b, k, p) \in Seq(S)
         /\ Len(InsertBlock(b, k, p)) = Len(b) + 1
         /\ \A i \in 1 .. Len(b) + 1 :
              InsertBlock(b, k, p)[i] =
                IF i < k THEN b[i] ELSE IF i = k THEN p ELSE b[i - 1]
<1> DEFINE left == SubSeq(b, 1, k - 1)
           right == SubSeq(b, k, Len(b))
<1>1. /\ left \in Seq(S) /\ Len(left) = k - 1
      /\ \A i \in 1 .. k - 1 : left[i] = b[i]
  <2>1. \A i \in 1 .. k - 1 : b[i] \in S
    OBVIOUS
  <2> QED BY <2>1, SubSeqProperties
<1>2. /\ right \in Seq(S) /\ Len(right) = Len(b) - k + 1
      /\ \A i \in 1 .. Len(b) - k + 1 : right[i] = b[k + i - 1]
  <2>1. \A i \in k .. Len(b) : b[i] \in S
    OBVIOUS
  <2> QED BY <2>1, SubSeqProperties
<1>3. <<p>> \in Seq(S) /\ Len(<<p>>) = 1 /\ <<p>>[1] = p
  OBVIOUS
<1> HIDE DEF left, right
<1>4. /\ left \o <<p>> \in Seq(S) /\ Len(left \o <<p>>) = k
      /\ \A i \in 1 .. k : (left \o <<p>>)[i] = IF i < k THEN b[i] ELSE p
  BY <1>1, <1>3, ConcatProperties
<1>5. InsertBlock(b, k, p) = (left \o <<p>>) \o right
  BY DEF InsertBlock, left, right
<1> DEFINE both == left \o <<p>>
<1>11. both \in Seq(S)
  BY <1>4
<1> HIDE DEF both
<1> DEFINE all == both \o right
<1>6. /\ all \in Seq(S) /\ Len(all) = Len(both) + Len(right)
      /\ \A i \in 1 .. Len(both) + Len(right) :
           all[i] = IF i <= Len(both) THEN both[i] ELSE right[i - Len(both)]
  BY <1>2, <1>11, ConcatProperties
<1> HIDE DEF all
<1>7. Len(both) = k /\ \A i \in 1 .. k : both[i] = IF i < k THEN b[i] ELSE p
  BY <1>4 DEF both
<1>8. Len(b) \in Nat
  OBVIOUS
<1>9. ASSUME NEW i \in 1 .. Len(b) + 1
      PROVE  all[i] = IF i < k THEN b[i] ELSE IF i = k THEN p ELSE b[i - 1]
  <2>1. CASE i <= k
    BY <1>2, <1>6, <1>7, <1>8, <2>1
  <2>2. CASE i > k
    <3>1. all[i] = right[i - k] /\ i - k \in 1 .. Len(b) - k + 1
      BY <1>2, <1>6, <1>7, <1>8, <2>2
    <3>2. k + (i - k) - 1 = i - 1
      BY <2>2
    <3> QED BY <1>2, <2>2, <3>1, <3>2
  <2> QED BY <2>1, <2>2
<1>10. Len(all) = Len(b) + 1
  BY <1>2, <1>6, <1>7, <1>8
<1> QED BY <1>5, <1>6, <1>9, <1>10 DEF all, both

(* The pattern list after a block is erased, place by place.               *)
LEMMA EraseShape ==
  ASSUME NEW S, NEW b \in Seq(S), NEW k \in 1 .. Len(b)
  PROVE  /\ EraseBlock(b, k) \in Seq(S)
         /\ Len(EraseBlock(b, k)) = Len(b) - 1
         /\ \A i \in 1 .. Len(b) - 1 :
              EraseBlock(b, k)[i] = IF i < k THEN b[i] ELSE b[i + 1]
<1> DEFINE left == SubSeq(b, 1, k - 1)
           right == SubSeq(b, k + 1, Len(b))
<1>1. /\ left \in Seq(S) /\ Len(left) = k - 1
      /\ \A i \in 1 .. k - 1 : left[i] = b[i]
  <2>1. \A i \in 1 .. k - 1 : b[i] \in S
    OBVIOUS
  <2> QED BY <2>1, SubSeqProperties
<1>2. /\ right \in Seq(S) /\ Len(right) = Len(b) - k
      /\ \A i \in 1 .. Len(b) - k : right[i] = b[k + i]
  <2>1. \A i \in k + 1 .. Len(b) : b[i] \in S
    OBVIOUS
  <2> QED BY <2>1, SubSeqProperties
<1> HIDE DEF left, right
<1>5. EraseBlock(b, k) = left \o right
  BY DEF EraseBlock, left, right
<1> DEFINE all == left \o right
<1>6. /\ all \in Seq(S) /\ Len(all) = Len(left) + Len(right)
      /\ \A i \in 1 .. Len(left) + Len(right) :
           all[i] = IF i <= Len(left) THEN left[i] ELSE right[i - Len(left)]
  BY <1>1, <1>2, ConcatProperties
<1> HIDE DEF all
<1>8. Len(b) \in Nat
  OBVIOUS
<1>9. ASSUME NEW i \in 1 .. Len(b) - 1
      PROVE  all[i] = IF i < k THEN b[i] ELSE b[i + 1]
  <2>1. CASE i < k
    <3>1. i <= Len(left) /\ i \in 1 .. k - 1 /\ i \in 1 .. Len(left) + Len(right)
      BY <1>1, <1>2, <1>8, <2>1
    <3> QED BY <1>1, <1>6, <2>1, <3>1
  <2>2. CASE i >= k
    <3>1. all[i] = right[i - (k - 1)] /\ i - (k - 1) \in 1 .. Len(b) - k
      <4>1. Len(left) + Len(right) = Len(b) - 1 /\ ~(i <= Len(left))
        BY <1>1, <1>2, <1>8, <2>2
      <4>2. i \in 1 .. Len(left) + Len(right)
        BY <4>1
      <4>3. all[i] = right[i - Len(left)]
        BY <1>6, <4>1, <4>2
      <4> QED BY <1>1, <1>8, <2>2, <4>3
    <3>2. k + (i - (k - 1)) = i + 1
      BY <2>2
    <3> QED BY <1>2, <2>2, <3>1, <3>2
  <2> QED BY <2>1, <2>2
<1>10. Len(all) = Len(b) - 1
  BY <1>1, <1>2, <1>6, <1>8
<1> QED BY <1>5, <1>6, <1>9, <1>10 DEF all

(* Erasing the block that was inserted gives the list back, ...            *)
LEMMA EraseUndoesInsert ==
  ASSUME NEW S, NEW b \in Seq(S), NEW k \in 1 .. Len(b) + 1, NEW p \in S
  PROVE  /\ InsertBlock(b, k, p)[k] = p
         /\ EraseBlock(InsertBlock(b, k, p), k) = b
<1> DEFINE ins == InsertBlock(b, k, p)
<1>1. /\ ins \in Seq(S) /\ Len(ins) = Len(b) + 1
      /\ \A i \in 1 .. Len(b) + 1 :
           ins[i] = IF i < k THEN b[i] ELSE IF i = k THEN p ELSE b[i - 1]
  BY InsertShape
<1> HIDE DEF ins
<1>2. k \in 1 .. Len(ins)
  BY <1>1
<1>3. /\ EraseBlock(ins, k) \in Seq(S)
      /\ Len(EraseBlock(ins, k)) = Len(ins) - 1
      /\ \A i \in 1 .. Len(ins) - 1 :
           EraseBlock(ins, k)[i] = IF i < k THEN ins[i] ELSE ins[i + 1]
  BY <1>1, <1>2, EraseShape
<1>4. ASSUME NEW i \in 1 .. Len(b) PROVE EraseBlock(ins, k)[i] = b[i]
  <2>1. i \in 1 .. Len(ins) - 1 /\ i \in 1 .. Len(b) + 1 /\ i + 1 \in 1 .. Len(b) + 1
    BY <1>1
  <2>2. EraseBlock(ins, k)[i] = IF i < k THEN ins[i] ELSE ins[i + 1]
    BY <1>3, <2>1
  <2>3. i >= k => ins[i + 1] = b[i]
    <3>1. ins[i + 1] = IF i + 1 < k THEN b[i + 1] ELSE IF i + 1 = k THEN p ELSE b[(i + 1) - 1]
      BY <1>1, <2>1
    <3>2. (i + 1) - 1 = i
      OBVIOUS
    <3> QED BY <3>1, <3>2
  <2> QED BY <1>1, <2>1, <2>2, <2>3
<1>5. EraseBlock(ins, k) = b
  BY <1>1, <1>3, <1>4, SeqEqual
<1> QED BY <1>1, <1>5 DEF ins

(* ... and so does inserting the block that was erased.                    *)
LEMMA InsertUndoesErase ==
  ASSUME NEW S, NEW b \in Seq(S), NEW k \in 1 .. Len(b)
  PROVE  InsertBlock(EraseBlock(b, k), k, b[k]) = b
<1> DEFINE era == EraseBlock(b, k)
<1>1. /\ era \in Seq(S) /\ Len(era) = Len(b) - 1
      /\ \A i \in 1 .. Len(b) - 1 : era[i] = IF i < k THEN b[i] ELSE b[i + 1]
  BY EraseShape
<1> HIDE DEF era
<1>2. k \in 1 .. Len(era) + 1 /\ b[k] \in S
  BY <1>1
<1> DEFINE p == b[k]
           ins == InsertBlock(era, k, p)
<1>3. p \in S
  BY <1>2
<1> HIDE DEF p
<1>4. /\ ins \in Seq(S) /\ Len(ins) = Len(era) + 1
      /\ \A i \in 1 .. Len(era) + 1 :
           ins[i] = IF i < k THEN era[i] ELSE IF i = k THEN p ELSE era[i - 1]
  BY <1>1, <1>2, <1>3, InsertShape
<1> HIDE DEF ins
<1>5. ASSUME NEW i \in 1 .. Len(b) PROVE ins[i] = b[i]
  <2>1. ins[i] = IF i < k THEN era[i] ELSE IF i = k THEN p ELSE era[i - 1]
    BY <1>1, <1>4
  <2>2. i < k => era[i] = b[i]
    BY <1>1
  <2>3. i > k => era[i - 1] = b[i]
    <3>1. i > k => i - 1 \in 1 .. Len(b) - 1 /\ (i - 1) + 1 = i /\ ~(i - 1 < k)
      OBVIOUS
    <3> QED BY <1>1, <3>1
  <2> QED BY <2>1, <2>2, <2>3 DEF p
<1>6. ins = b
  <2>1. Len(ins) = Len(b)
    BY <1>1, <1>4
  <2> QED BY <1>4, <1>5, <2>1, SeqEqual
<1> QED BY <1>6 DEF ins, p, era

-----------------------------------------------------------------------------
(* Documents and commands, and replacing one part of a document.           *)

(* A sample that loops inside its data.                                    *)
SafeSample == {s \in Sample : LoopInside(s)}

(* A document whose samples are such.                                      *)
SafeDocument ==
  [options : SequencerOptions,
   instruments : [Slots -> Instrument \cup {None}],
   samples : [Slots -> SafeSample \cup {None}],
   blocks : Seq(Slots)]

(* The commands there are, by class, with the place each edits and what    *)
(* it holds.                                                               *)
PlainCommands ==
  [class : {"SetTempo"}, at : {0}, value : Tempos]
    \cup [class : {"SetBeatsPerMeasure"}, at : {0}, value : Measures]
    \cup [class : {"SetSequencerOptions"}, at : {0}, value : SequencerOptions]
    \cup [class : {"AddRemoveInstrument"}, at : Slots, value : Instrument \cup {None}]
    \cup [class : {"RenameInstrument"}, at : Slots, value : Names]
    \cup [class : {"AddRemoveSample", "ReplaceSample"}, at : Slots,
           value : SafeSample \cup {None}]
    \cup [class : {"RenameSample"}, at : Slots, value : Names]
    \cup [class : {"EditPattern"}, at : Nat, value : Patterns]
    \cup [class : {"AddBlock"}, at : Nat, value : Slots]
    \cup [class : {"RemoveBlock"}, at : Nat, value : {None}]
    \cup [class : {"SwapInstruments", "SwapSamples"}, at : Slots \X Slots, value : {None}]
    \cup [class : {"Null"}, at : {0}, value : {None}]

(* What is known of a command, class by class.                             *)
LEMMA CommandKinds ==
  ASSUME NEW c \in PlainCommands
  PROVE  /\ c = [class |-> c.class, at |-> c.at, value |-> c.value]
         /\ \/ c.class = "SetTempo" /\ c.at = 0 /\ c.value \in Tempos
            \/ c.class = "SetBeatsPerMeasure" /\ c.at = 0 /\ c.value \in Measures
            \/ c.class = "SetSequencerOptions" /\ c.at = 0 /\ c.value \in SequencerOptions
            \/ /\ c.class = "AddRemoveInstrument" /\ c.at \in Slots
               /\ c.value \in Instrument \cup {None}
            \/ c.class = "RenameInstrument" /\ c.at \in Slots /\ c.value \in Names
            \/ /\ c.class \in {"AddRemoveSample", "ReplaceSample"} /\ c.at \in Slots
               /\ c.value \in SafeSample \cup {None}
            \/ c.class = "RenameSample" /\ c.at \in Slots /\ c.value \in Names
            \/ c.class = "EditPattern" /\ c.at \in Nat /\ c.value \in Patterns
            \/ c.class = "AddBlock" /\ c.at \in Nat /\ c.value \in Slots
            \/ c.class = "RemoveBlock" /\ c.at \in Nat /\ c.value = None
            \/ /\ c.class \in {"SwapInstruments", "SwapSamples"}
               /\ c.at \in Slots \X Slots /\ c.value = None
            \/ c.class = "Null" /\ c.at = 0 /\ c.value = None
  BY DEF PlainCommands

(* A slot that is overwritten gets its value back from what was swapped    *)
(* out; ...                                                                *)
LEMMA SlotSwap ==
  ASSUME NEW X, NEW f \in [Slots -> X], NEW i \in Slots, NEW x \in X
  PROVE  /\ [f EXCEPT ![i] = x] \in [Slots -> X]
         /\ [f EXCEPT ![i] = x][i] = x
         /\ [[f EXCEPT ![i] = x] EXCEPT ![i] = f[i]] = f
  OBVIOUS

(* ... so does a place of a sequence.                                      *)
LEMMA BlockSwap ==
  ASSUME NEW X, NEW b \in Seq(X), NEW k \in 1 .. Len(b), NEW x \in X
  PROVE  /\ [b EXCEPT ![k] = x] \in Seq(X)
         /\ Len([b EXCEPT ![k] = x]) = Len(b)
         /\ [b EXCEPT ![k] = x][k] = x
         /\ [[b EXCEPT ![k] = x] EXCEPT ![k] = b[k]] = b
<1>1. b \in [1 .. Len(b) -> X]
  OBVIOUS
<1>2. [[b EXCEPT ![k] = x] EXCEPT ![k] = b[k]] = b
  BY <1>1
<1> QED BY <1>1, <1>2, ExceptSeq

(* A document with new options is a safe one, and gets its old ones back;  *)
(* ...                                                                     *)
LEMMA ReplaceOptions ==
  ASSUME NEW d \in SafeDocument, NEW x \in SequencerOptions,
         NEW e, e = [d EXCEPT !.options = x]
  PROVE  /\ e \in SafeDocument
         /\ e.options = x
         /\ [e EXCEPT !.options = d.options] = d
  BY DEF SafeDocument

(* ... so does one with new instruments, ...                               *)
LEMMA ReplaceInstruments ==
  ASSUME NEW d \in SafeDocument, NEW x \in [Slots -> Instrument \cup {None}],
         NEW e, e = [d EXCEPT !.instruments = x]
  PROVE  /\ e \in SafeDocument
         /\ e.instruments = x
         /\ [e EXCEPT !.instruments = d.instruments] = d
  BY DEF SafeDocument

(* ... with new samples, ...                                               *)
LEMMA ReplaceSamples ==
  ASSUME NEW d \in SafeDocument, NEW x \in [Slots -> SafeSample \cup {None}],
         NEW e, e = [d EXCEPT !.samples = x]
  PROVE  /\ e \in SafeDocument
         /\ e.samples = x
         /\ [e EXCEPT !.samples = d.samples] = d
  BY DEF SafeDocument

(* ... and with new blocks.                                                *)
LEMMA ReplaceBlocks ==
  ASSUME NEW d \in SafeDocument, NEW x \in Seq(Slots),
         NEW e, e = [d EXCEPT !.blocks = x]
  PROVE  /\ e \in SafeDocument
         /\ e.blocks = x
         /\ [e EXCEPT !.blocks = d.blocks] = d
  BY DEF SafeDocument

-----------------------------------------------------------------------------
(* A command applied twice: one lemma per class of commands.               *)

(* apply_swap() twice is nothing: the command it leaves behind meets the   *)
(* assertions, and applying it gives back the document and the command.    *)
SwapsBack(c, d) ==
  LET r == CmdAfter(c, d)
      e == DocAfter(c, d)
  IN  /\ e \in SafeDocument /\ r \in PlainCommands /\ Applicable(r, e)
      /\ DocAfter(r, e) = d
      /\ CmdAfter(r, e) = c

(* A tempo edit undoes itself.                                             *)
LEMMA SetTempoSwapsBack ==
  ASSUME NEW d \in SafeDocument, NEW c \in PlainCommands, c.class = "SetTempo"
  PROVE  SwapsBack(c, d)
<1> DEFINE r == CmdAfter(c, d)
           e == DocAfter(c, d)
           o == [d.options EXCEPT !.target_tempo = c.value]
<1>1. /\ c.at = 0 /\ c.value \in Tempos /\ d.options \in SequencerOptions
      /\ c = [class |-> c.class, at |-> c.at, value |-> c.value]
  BY CommandKinds DEF SafeDocument
<1>2. /\ o \in SequencerOptions /\ o.target_tempo = c.value
      /\ [o EXCEPT !.target_tempo = d.options.target_tempo] = d.options
      /\ d.options.target_tempo \in Tempos
  BY <1>1 DEF SequencerOptions
<1>3. r = [c EXCEPT !.value = d.options.target_tempo]
  BY DEF CmdAfter
<1>4. r \in PlainCommands /\ r.class = "SetTempo" /\ r.value = d.options.target_tempo
  BY <1>1, <1>2, <1>3 DEF PlainCommands
<1>5. e = [d EXCEPT !.options = o]
  BY DEF DocAfter
<1> HIDE DEF e, o
<1>6. e \in SafeDocument /\ e.options = o /\ [e EXCEPT !.options = d.options] = d
  <2>1. o \in SequencerOptions
    BY <1>2
  <2>2. e \in SafeDocument
    BY <1>5, <2>1, ReplaceOptions
  <2>3. e.options = o
    BY <1>5, <2>1, ReplaceOptions
  <2>4. [e EXCEPT !.options = d.options] = d
    BY <1>5, <2>1, ReplaceOptions
  <2> QED BY <2>2, <2>3, <2>4
<1>7. DocAfter(r, e) = [e EXCEPT !.options = [o EXCEPT !.target_tempo = r.value]]
  BY <1>4, <1>6 DEF DocAfter
<1>8. CmdAfter(r, e) = [r EXCEPT !.value = c.value]
  BY <1>2, <1>4, <1>6 DEF CmdAfter
<1>9. Applicable(r, e)
  BY <1>4 DEF Applicable
<1> HIDE DEF r, e, o
<1>10. DocAfter(r, e) = d
  BY <1>2, <1>4, <1>6, <1>7
<1>11. CmdAfter(r, e) = c
  BY <1>1, <1>3, <1>8
<1> QED BY <1>4, <1>6, <1>9, <1>10, <1>11 DEF SwapsBack, r, e

(* An edit of the beats per measure undoes itself.                         *)
LEMMA SetBeatsPerMeasureSwapsBack ==
  ASSUME NEW d \in SafeDocument, NEW c \in PlainCommands, c.class = "SetBeatsPerMeasure"
  PROVE  SwapsBack(c, d)
<1> DEFINE r == CmdAfter(c, d)
           e == DocAfter(c, d)
           o == [d.options EXCEPT !.beats_per_measure = c.value]
<1>1. /\ c.at = 0 /\ c.value \in Measures /\ d.options \in SequencerOptions
      /\ c = [class |-> c.class, at |-> c.at, value |-> c.value]
  BY CommandKinds DEF SafeDocument
<1>2. /\ o \in SequencerOptions /\ o.beats_per_measure = c.value
      /\ [o EXCEPT !.beats_per_measure = d.options.beats_per_measure] = d.options
      /\ d.options.beats_per_measure \in Measures
  BY <1>1 DEF SequencerOptions
<1>3. r = [c EXCEPT !.value = d.options.beats_per_measure]
  BY DEF CmdAfter
<1>4. r \in PlainCommands /\ r.class = "SetBeatsPerMeasure" /\ r.value = d.options.beats_per_measure
  BY <1>1, <1>2, <1>3 DEF PlainCommands
<1>5. e = [d EXCEPT !.options = o]
  BY DEF DocAfter
<1> HIDE DEF e, o
<1>6. e \in SafeDocument /\ e.options = o /\ [e EXCEPT !.options = d.options] = d
  <2>1. o \in SequencerOptions
    BY <1>2
  <2>2. e \in SafeDocument
    BY <1>5, <2>1, ReplaceOptions
  <2>3. e.options = o
    BY <1>5, <2>1, ReplaceOptions
  <2>4. [e EXCEPT !.options = d.options] = d
    BY <1>5, <2>1, ReplaceOptions
  <2> QED BY <2>2, <2>3, <2>4
<1>7. DocAfter(r, e) = [e EXCEPT !.options = [o EXCEPT !.beats_per_measure = r.value]]
  BY <1>4, <1>6 DEF DocAfter
<1>8. CmdAfter(r, e) = [r EXCEPT !.value = c.value]
  BY <1>2, <1>4, <1>6 DEF CmdAfter
<1>9. Applicable(r, e)
  BY <1>4 DEF Applicable
<1> HIDE DEF r, e, o
<1>10. DocAfter(r, e) = d
  BY <1>2, <1>4, <1>6, <1>7
<1>11. CmdAfter(r, e) = c
  BY <1>1, <1>3, <1>8
<1> QED BY <1>4, <1>6, <1>9, <1>10, <1>11 DEF SwapsBack, r, e

(* An edit of all options undoes itself.                                   *)
LEMMA SetSequencerOptionsSwapsBack ==
  ASSUME NEW d \in SafeDocument, NEW c \in PlainCommands,
         c.class = "SetSequencerOptions"
  PROVE  SwapsBack(c, d)
<1> DEFINE r == CmdAfter(c, d)
           e == DocAfter(c, d)
<1>1. /\ c.at = 0 /\ c.value \in SequencerOptions /\ d.options \in SequencerOptions
      /\ c = [class |-> c.class, at |-> c.at, value |-> c.value]
  BY CommandKinds DEF SafeDocument
<1>3. r = [c EXCEPT !.value = d.options]
  BY DEF CmdAfter
<1>4. r \in PlainCommands /\ r.class = "SetSequencerOptions" /\ r.value = d.options
  BY <1>1, <1>3 DEF PlainCommands
<1>5. e = [d EXCEPT !.options = c.value]
  BY DEF DocAfter
<1> HIDE DEF e
<1>6. e \in SafeDocument /\ e.options = c.value /\ [e EXCEPT !.options = d.options] = d
  <2>1. e \in SafeDocument
    BY <1>1, <1>5, ReplaceOptions
  <2>2. e.options = c.value
    BY <1>1, <1>5, ReplaceOptions
  <2>3. [e EXCEPT !.options = d.options] = d
    BY <1>1, <1>5, ReplaceOptions
  <2> QED BY <2>1, <2>2, <2>3
<1>7. DocAfter(r, e) = [e EXCEPT !.options = r.value]
  BY <1>4 DEF DocAfter
<1>8. CmdAfter(r, e) = [r EXCEPT !.value = c.value]
  BY <1>4, <1>6 DEF CmdAfter
<1>9. Applicable(r, e)
  BY <1>4 DEF Applicable
<1> HIDE DEF r, e
<1>10. DocAfter(r, e) = d
  BY <1>4, <1>6, <1>7
<1>11. CmdAfter(r, e) = c
  BY <1>1, <1>3, <1>8
<1> QED BY <1>4, <1>6, <1>9, <1>10, <1>11 DEF SwapsBack, r, e

(* Adding an instrument leaves a command that removes it, and the reverse. *)
LEMMA AddRemoveInstrumentSwapsBack ==
  ASSUME NEW d \in SafeDocument, NEW c \in PlainCommands,
         c.class = "AddRemoveInstrument", Applicable(c, d)
  PROVE  SwapsBack(c, d)
<1> DEFINE r == CmdAfter(c, d)
           e == DocAfter(c, d)
           f == d.instruments
           g == [f EXCEPT ![c.at] = c.value]
<1>1. /\ c.at \in Slots /\ c.value \in Instrument \cup {None}
      /\ f \in [Slots -> Instrument \cup {None}]
      /\ c = [class |-> c.class, at |-> c.at, value |-> c.value]
  BY CommandKinds DEF SafeDocument
<1>2. /\ g \in [Slots -> Instrument \cup {None}] /\ g[c.at] = c.value
      /\ [g EXCEPT ![c.at] = f[c.at]] = f
  BY <1>1, SlotSwap
<1>3. r = [c EXCEPT !.value = f[c.at]]
  BY DEF CmdAfter
<1>4. /\ r \in PlainCommands /\ r.class = "AddRemoveInstrument"
      /\ r.at = c.at /\ r.value = f[c.at]
  <2>1. f[c.at] \in Instrument \cup {None}
    BY <1>1
  <2> HIDE DEF f
  <2> QED BY <1>1, <1>3, <2>1 DEF PlainCommands
<1>5. e = [d EXCEPT !.instruments = g]
  BY DEF DocAfter
<1> HIDE DEF e, f, g
<1>6. e \in SafeDocument /\ e.instruments = g /\ [e EXCEPT !.instruments = f] = d
  <2>1. g \in [Slots -> Instrument \cup {None}]
    BY <1>2
  <2>2. e \in SafeDocument
    BY <1>5, <2>1, ReplaceInstruments
  <2>3. e.instruments = g
    BY <1>5, <2>1, ReplaceInstruments
  <2>4. [e EXCEPT !.instruments = f] = d
    BY <1>5, <2>1, ReplaceInstruments DEF f
  <2> QED BY <2>2, <2>3, <2>4
<1>7. DocAfter(r, e) = [e EXCEPT !.instruments = [g EXCEPT ![c.at] = r.value]]
  BY <1>4, <1>6 DEF DocAfter
<1>8. CmdAfter(r, e) = [r EXCEPT !.value = c.value]
  BY <1>2, <1>4, <1>6 DEF CmdAfter
<1>9. Applicable(r, e)
  BY <1>2, <1>4, <1>6 DEF Applicable, InstrumentAt, f
<1> HIDE DEF r, e, f, g
<1>10. DocAfter(r, e) = d
  BY <1>2, <1>4, <1>6, <1>7
<1>11. CmdAfter(r, e) = c
  BY <1>1, <1>3, <1>8
<1> QED BY <1>4, <1>6, <1>9, <1>10, <1>11 DEF SwapsBack, r, e

(* Adding, removing and replacing a sample undo themselves.                *)
LEMMA SampleSwapsBack ==
  ASSUME NEW d \in SafeDocument, NEW c \in PlainCommands,
         c.class \in {"AddRemoveSample", "ReplaceSample"}, Applicable(c, d)
  PROVE  SwapsBack(c, d)
<1> DEFINE r == CmdAfter(c, d)
           e == DocAfter(c, d)
           f == d.samples
           g == [f EXCEPT ![c.at] = c.value]
<1>1. /\ c.at \in Slots /\ c.value \in SafeSample \cup {None}
      /\ f \in [Slots -> SafeSample \cup {None}]
      /\ c = [class |-> c.class, at |-> c.at, value |-> c.value]
  BY CommandKinds DEF SafeDocument
<1>2. /\ g \in [Slots -> SafeSample \cup {None}] /\ g[c.at] = c.value
      /\ [g EXCEPT ![c.at] = f[c.at]] = f
  BY <1>1, SlotSwap
<1>3. r = [c EXCEPT !.value = f[c.at]]
  BY DEF CmdAfter
<1>4. /\ r \in PlainCommands /\ r.class = c.class
      /\ r.at = c.at /\ r.value = f[c.at]
  <2>1. f[c.at] \in SafeSample \cup {None}
    BY <1>1
  <2> HIDE DEF f
  <2> QED BY <1>1, <1>3, <2>1 DEF PlainCommands
<1>5. e = [d EXCEPT !.samples = g]
  BY DEF DocAfter
<1> HIDE DEF e, f, g
<1>6. e \in SafeDocument /\ e.samples = g /\ [e EXCEPT !.samples = f] = d
  <2>1. g \in [Slots -> SafeSample \cup {None}]
    BY <1>2
  <2>2. e \in SafeDocument
    BY <1>5, <2>1, ReplaceSamples
  <2>3. e.samples = g
    BY <1>5, <2>1, ReplaceSamples
  <2>4. [e EXCEPT !.samples = f] = d
    BY <1>5, <2>1, ReplaceSamples DEF f
  <2> QED BY <2>2, <2>3, <2>4
<1>7. DocAfter(r, e) = [e EXCEPT !.samples = [g EXCEPT ![c.at] = r.value]]
  BY <1>4, <1>6 DEF DocAfter
<1>8. CmdAfter(r, e) = [r EXCEPT !.value = c.value]
  BY <1>2, <1>4, <1>6 DEF CmdAfter
<1>9. Applicable(r, e)
  BY <1>2, <1>4, <1>6 DEF Applicable, SampleAt, f
<1> HIDE DEF r, e, f, g
<1>10. DocAfter(r, e) = d
  BY <1>2, <1>4, <1>6, <1>7
<1>11. CmdAfter(r, e) = c
  BY <1>1, <1>3, <1>8
<1> QED BY <1>4, <1>6, <1>9, <1>10, <1>11 DEF SwapsBack, r, e

(* Renaming an instrument undoes itself.                                   *)
LEMMA RenameInstrumentSwapsBack ==
  ASSUME NEW d \in SafeDocument, NEW c \in PlainCommands,
         c.class = "RenameInstrument", Applicable(c, d)
  PROVE  SwapsBack(c, d)
<1> DEFINE r == CmdAfter(c, d)
           e == DocAfter(c, d)
           f == d.instruments
           old == f[c.at]
           new == [old EXCEPT !.name = c.value]
           g == [f EXCEPT ![c.at] = new]
<1>1. /\ c.at \in Slots /\ c.value \in Names
      /\ f \in [Slots -> Instrument \cup {None}]
      /\ c = [class |-> c.class, at |-> c.at, value |-> c.value]
  BY CommandKinds DEF SafeDocument
<1>2. old \in Instrument
  BY <1>1 DEF Applicable, InstrumentAt
<1>3. r = [c EXCEPT !.value = old.name]
  BY DEF CmdAfter
<1>4. e = [d EXCEPT !.instruments = g]
  BY DEF DocAfter
<1>5. /\ new \in Instrument /\ new # None /\ new.name = c.value /\ old.name \in Names
      /\ [new EXCEPT !.name = old.name] = old
  <2> HIDE DEF old
  <2> QED BY <1>1, <1>2, NoneAssumption DEF Instrument
<1> HIDE DEF old, new
<1>6. /\ g \in [Slots -> Instrument \cup {None}] /\ g[c.at] = new
      /\ [g EXCEPT ![c.at] = old] = f
  BY <1>1, <1>5, SlotSwap DEF old
<1> HIDE DEF f, g
<1>7. /\ r \in PlainCommands /\ r.class = "RenameInstrument"
      /\ r.at = c.at /\ r.value = old.name
  BY <1>1, <1>3, <1>5 DEF PlainCommands
<1>8. e \in SafeDocument /\ e.instruments = g /\ [e EXCEPT !.instruments = f] = d
  BY <1>4, <1>6, ReplaceInstruments, ZenonT(30) DEF f
<1>9. DocAfter(r, e) = [e EXCEPT !.instruments = [g EXCEPT ![c.at] = [new EXCEPT !.name = r.value]]]
  BY <1>6, <1>7, <1>8 DEF DocAfter
<1>10. CmdAfter(r, e) = [r EXCEPT !.value = c.value]
  BY <1>5, <1>6, <1>7, <1>8 DEF CmdAfter
<1>11. Applicable(r, e)
  BY <1>5, <1>6, <1>7, <1>8 DEF Applicable, InstrumentAt
<1> HIDE DEF r, e
<1>12. DocAfter(r, e) = d
  BY <1>5, <1>6, <1>7, <1>8, <1>9
<1>13. CmdAfter(r, e) = c
  BY <1>1, <1>3, <1>10
<1> QED BY <1>7, <1>8, <1>11, <1>12, <1>13 DEF SwapsBack, r, e

(* Renaming a sample undoes itself.                                        *)
LEMMA RenameSampleSwapsBack ==
  ASSUME NEW d \in SafeDocument, NEW c \in PlainCommands,
         c.class = "RenameSample", Applicable(c, d)
  PROVE  SwapsBack(c, d)
<1> DEFINE r == CmdAfter(c, d)
           e == DocAfter(c, d)
           f == d.samples
           old == f[c.at]
           new == [old EXCEPT !.name = c.value]
           g == [f EXCEPT ![c.at] = new]
<1>1. /\ c.at \in Slots /\ c.value \in Names
      /\ f \in [Slots -> SafeSample \cup {None}]
      /\ c = [class |-> c.class, at |-> c.at, value |-> c.value]
  BY CommandKinds DEF SafeDocument
<1>2. old \in SafeSample
  BY <1>1 DEF Applicable, SampleAt
<1>3. r = [c EXCEPT !.value = old.name]
  BY DEF CmdAfter
<1>4. e = [d EXCEPT !.samples = g]
  BY DEF DocAfter
<1>5. /\ new \in SafeSample /\ new # None /\ new.name = c.value /\ old.name \in Names
      /\ [new EXCEPT !.name = old.name] = old
  <2> HIDE DEF old
  <2> QED BY <1>1, <1>2, NoneAssumption DEF SafeSample, Sample, LoopInside
<1> HIDE DEF old, new
<1>6. /\ g \in [Slots -> SafeSample \cup {None}] /\ g[c.at] = new
      /\ [g EXCEPT ![c.at] = old] = f
  BY <1>1, <1>5, SlotSwap DEF old
<1> HIDE DEF f, g
<1>7. /\ r \in PlainCommands /\ r.class = "RenameSample"
      /\ r.at = c.at /\ r.value = old.name
  BY <1>1, <1>3, <1>5 DEF PlainCommands
<1>8. e \in SafeDocument /\ e.samples = g /\ [e EXCEPT !.samples = f] = d
  BY <1>4, <1>6, ReplaceSamples, ZenonT(30) DEF f
<1>9. DocAfter(r, e) = [e EXCEPT !.samples = [g EXCEPT ![c.at] = [new EXCEPT !.name = r.value]]]
  BY <1>6, <1>7, <1>8 DEF DocAfter
<1>10. CmdAfter(r, e) = [r EXCEPT !.value = c.value]
  BY <1>5, <1>6, <1>7, <1>8 DEF CmdAfter
<1>11. Applicable(r, e)
  BY <1>5, <1>6, <1>7, <1>8 DEF Applicable, SampleAt
<1> HIDE DEF r, e
<1>12. DocAfter(r, e) = d
  BY <1>5, <1>6, <1>7, <1>8, <1>9
<1>13. CmdAfter(r, e) = c
  BY <1>1, <1>3, <1>10
<1> QED BY <1>7, <1>8, <1>11, <1>12, <1>13 DEF SwapsBack, r, e

(* A command that only remembers the cursor changes nothing.               *)
LEMMA NullSwapsBack ==
  ASSUME NEW d \in SafeDocument, NEW c \in PlainCommands, c.class = "Null"
  PROVE  SwapsBack(c, d)
  BY DEF SwapsBack, DocAfter, CmdAfter, Applicable

(* Editing a pattern undoes itself, also when the pattern is refused for   *)
(* its size and nothing is swapped.                                        *)
LEMMA EditPatternSwapsBack ==
  ASSUME NEW d \in SafeDocument, NEW c \in PlainCommands,
         c.class = "EditPattern", Applicable(c, d)
  PROVE  SwapsBack(c, d)
<1> DEFINE r == CmdAfter(c, d)
           e == DocAfter(c, d)
           b == d.blocks
           k == c.at
           g == [b EXCEPT ![k] = c.value]
<1>1. /\ c.at \in Nat /\ c.value \in Patterns /\ b \in Seq(Slots)
      /\ c = [class |-> c.class, at |-> c.at, value |-> c.value]
  BY CommandKinds DEF SafeDocument
<1>2. CASE c.value = Oversized
  <2>1. e = d /\ r = c
    BY <1>2 DEF DocAfter, CmdAfter
  <2> HIDE DEF r, e
  <2> QED BY <2>1 DEF SwapsBack, r, e
<1>3. CASE c.value # Oversized
  <2>1. c.value \in Slots /\ k \in 1 .. Len(b) /\ b[k] \in Slots /\ b[k] # Oversized
    BY <1>1, <1>3, NSlotsAssumption DEF Patterns, Oversized, Slots, Applicable
  <2>2. r = [c EXCEPT !.value = b[k]]
    BY <1>3 DEF CmdAfter
  <2>3. e = [d EXCEPT !.blocks = g]
    BY <1>3 DEF DocAfter
  <2>4. /\ g \in Seq(Slots) /\ Len(g) = Len(b) /\ g[k] = c.value
        /\ [g EXCEPT ![k] = b[k]] = b
    <3> HIDE DEF b, k
    <3> QED BY <1>1, <2>1, BlockSwap
  <2>5. /\ r \in PlainCommands /\ r.class = "EditPattern"
        /\ r.at = k /\ r.value = b[k]
    <3> HIDE DEF b
    <3> QED BY <1>1, <2>1, <2>2 DEF PlainCommands, Patterns
  <2> HIDE DEF r, e, g
  <2>6. e \in SafeDocument /\ e.blocks = g /\ [e EXCEPT !.blocks = b] = d
    <3>1. g \in Seq(Slots)
      BY <2>4
    <3>2. e \in SafeDocument
      BY <2>3, <3>1, ReplaceBlocks
    <3>3. e.blocks = g
      BY <2>3, <3>1, ReplaceBlocks
    <3>4. [e EXCEPT !.blocks = b] = d
      BY <2>3, <3>1, ReplaceBlocks
    <3> QED BY <3>2, <3>3, <3>4
  <2>7. DocAfter(r, e) = [e EXCEPT !.blocks = [g EXCEPT ![k] = r.value]]
    BY <2>1, <2>5, <2>6 DEF DocAfter
  <2>8. CmdAfter(r, e) = [r EXCEPT !.value = c.value]
    BY <2>1, <2>4, <2>5, <2>6 DEF CmdAfter
  <2>9. Applicable(r, e)
    BY <2>1, <2>4, <2>5, <2>6 DEF Applicable
  <2> HIDE DEF b
  <2>10. DocAfter(r, e) = d
    BY <2>4, <2>5, <2>6, <2>7
  <2>11. CmdAfter(r, e) = c
    BY <1>1, <2>2, <2>8
  <2> QED BY <2>5, <2>6, <2>9, <2>10, <2>11 DEF SwapsBack, r, e
<1> QED BY <1>2, <1>3

(* Adding a block turns the command into one that removes it, ...          *)
LEMMA AddBlockSwapsBack ==
  ASSUME NEW d \in SafeDocument, NEW c \in PlainCommands,
         c.class = "AddBlock", Applicable(c, d)
  PROVE  SwapsBack(c, d)
<1> DEFINE r == CmdAfter(c, d)
           e == DocAfter(c, d)
           b == d.blocks
           g == InsertBlock(b, c.at, c.value)
<1>1. /\ c.at \in 1 .. Len(b) + 1 /\ c.value \in Slots /\ b \in Seq(Slots)
      /\ c = [class |-> c.class, at |-> c.at, value |-> c.value]
  BY CommandKinds DEF SafeDocument, Applicable
<1>2. /\ g \in Seq(Slots) /\ Len(g) = Len(b) + 1
      /\ g[c.at] = c.value /\ EraseBlock(g, c.at) = b
  BY <1>1, InsertShape, EraseUndoesInsert
<1>3. r = [class |-> "RemoveBlock", at |-> c.at, value |-> None]
  BY DEF CmdAfter, Command
<1>4. e = [d EXCEPT !.blocks = g]
  BY DEF DocAfter
<1>5. r \in PlainCommands
  <2>1. c.at \in Nat
    BY <1>1
  <2> HIDE DEF r
  <2> QED BY <1>3, <2>1 DEF PlainCommands
<1>6. Len(b) \in Nat
  BY <1>1
<1> HIDE DEF r, e, b, g
<1>7. e \in SafeDocument
  BY <1>2, <1>4, ReplaceBlocks
<1>8. e.blocks = g
  BY <1>2, <1>4, ReplaceBlocks
<1>9. [e EXCEPT !.blocks = b] = d
  BY <1>2, <1>4, ReplaceBlocks DEF b
<1>10. DocAfter(r, e) = [e EXCEPT !.blocks = EraseBlock(g, c.at)]
  BY <1>3, <1>8 DEF DocAfter
<1>11. CmdAfter(r, e) = [class |-> "AddBlock", at |-> c.at, value |-> g[c.at]]
  BY <1>3, <1>8 DEF CmdAfter, Command
<1>12. Applicable(r, e)
  BY <1>1, <1>2, <1>3, <1>6, <1>8 DEF Applicable
<1>13. DocAfter(r, e) = d
  BY <1>2, <1>9, <1>10
<1>14. CmdAfter(r, e) = c
  BY <1>1, <1>2, <1>11
<1> QED BY <1>5, <1>7, <1>12, <1>13, <1>14 DEF SwapsBack, r, e

(* ... and removing one turns it back.                                     *)
LEMMA RemoveBlockSwapsBack ==
  ASSUME NEW d \in SafeDocument, NEW c \in PlainCommands,
         c.class = "RemoveBlock", Applicable(c, d)
  PROVE  SwapsBack(c, d)
<1> DEFINE r == CmdAfter(c, d)
           e == DocAfter(c, d)
           b == d.blocks
           g == EraseBlock(b, c.at)
<1>1. /\ c.at \in 1 .. Len(b) /\ c.value = None /\ b \in Seq(Slots)
      /\ c = [class |-> c.class, at |-> c.at, value |-> c.value]
  BY CommandKinds DEF SafeDocument, Applicable
<1>2. /\ g \in Seq(Slots) /\ Len(g) = Len(b) - 1 /\ b[c.at] \in Slots
      /\ InsertBlock(g, c.at, b[c.at]) = b
  <2>1. b[c.at] \in Slots
    BY <1>1
  <2> HIDE DEF b
  <2> QED BY <1>1, <2>1, EraseShape, InsertUndoesErase
<1>3. r = [class |-> "AddBlock", at |-> c.at, value |-> b[c.at]]
  BY DEF CmdAfter, Command
<1>4. e = [d EXCEPT !.blocks = g]
  BY DEF DocAfter
<1> HIDE DEF b
<1>5. r \in PlainCommands
  <2>1. c.at \in Nat
    BY <1>1
  <2> HIDE DEF r
  <2> QED BY <1>2, <1>3, <2>1 DEF PlainCommands
<1>6. Len(b) \in Nat
  BY <1>1
<1> HIDE DEF r, e, g
<1>7. e \in SafeDocument
  BY <1>2, <1>4, ReplaceBlocks
<1>8. e.blocks = g
  BY <1>2, <1>4, ReplaceBlocks
<1>9. [e EXCEPT !.blocks = b] = d
  BY <1>2, <1>4, ReplaceBlocks DEF b
<1>10. DocAfter(r, e) = [e EXCEPT !.blocks = InsertBlock(g, c.at, b[c.at])]
  BY <1>3, <1>8 DEF DocAfter
<1>11. CmdAfter(r, e) = [class |-> "RemoveBlock", at |-> c.at, value |-> None]
  BY <1>3 DEF CmdAfter, Command
<1>12. Applicable(r, e)
  BY <1>1, <1>2, <1>3, <1>6, <1>8 DEF Applicable
<1>13. DocAfter(r, e) = d
  BY <1>2, <1>9, <1>10
<1>14. CmdAfter(r, e) = c
  BY <1>1, <1>11
<1> QED BY <1>5, <1>7, <1>12, <1>13, <1>14 DEF SwapsBack, r, e

(* Swapping two slots twice is nothing.                                    *)
LEMMA SwappedTwice ==
  ASSUME NEW X, NEW f \in [Slots -> X], NEW a \in Slots, NEW b \in Slots
  PROVE  /\ Swapped(f, a, b) \in [Slots -> X]
         /\ Swapped(Swapped(f, a, b), a, b) = f
  BY DEF Swapped

(* Exchanging two slot numbers twice is nothing.                           *)
LEMMA RenamedBack ==
  ASSUME NEW a \in Slots, NEW b \in Slots, NEW i \in Slots
  PROVE  Renamed(a, b, i) \in Slots /\ Renamed(a, b, Renamed(a, b, i)) = i
  BY DEF Renamed

(* sequence_swap_instruments() twice is nothing.                           *)
LEMMA BlocksSwappedTwice ==
  ASSUME NEW blocks \in Seq(Slots), NEW a \in Slots, NEW b \in Slots
  PROVE  /\ SequenceSwapInstruments(blocks, a, b) \in Seq(Slots)
         /\ Len(SequenceSwapInstruments(blocks, a, b)) = Len(blocks)
         /\ SequenceSwapInstruments(SequenceSwapInstruments(blocks, a, b), a, b) = blocks
<1> DEFINE g == SequenceSwapInstruments(blocks, a, b)
<1>1. \A k \in 1 .. Len(blocks) : blocks[k] \in Slots
  OBVIOUS
<1>2. g = [k \in 1 .. Len(blocks) |-> Renamed(a, b, blocks[k])]
  BY DEF SequenceSwapInstruments
<1>3. \A k \in 1 .. Len(blocks) : Renamed(a, b, blocks[k]) \in Slots
  BY <1>1, RenamedBack
<1> HIDE DEF g
<1>4. g \in Seq(Slots) /\ Len(g) = Len(blocks)
  BY <1>2, <1>3
<1>5. SequenceSwapInstruments(g, a, b) = [k \in 1 .. Len(blocks) |-> Renamed(a, b, g[k])]
  BY <1>4 DEF SequenceSwapInstruments
<1>6. \A k \in 1 .. Len(blocks) : Renamed(a, b, g[k]) = blocks[k]
  BY <1>1, <1>2, RenamedBack
<1>7. SequenceSwapInstruments(g, a, b) = [k \in 1 .. Len(blocks) |-> blocks[k]]
  BY <1>5, <1>6
<1> QED BY <1>4, <1>7 DEF g

(* instrument_swap_samples() twice is nothing, and empties no slot.        *)
LEMMA InstrumentsSwappedTwice ==
  ASSUME NEW f \in [Slots -> Instrument \cup {None}], NEW a \in Slots, NEW b \in Slots
  PROVE  /\ InstrumentSwapSamples(f, a, b) \in [Slots -> Instrument \cup {None}]
         /\ \A i \in Slots : (InstrumentSwapSamples(f, a, b)[i] = None) = (f[i] = None)
         /\ InstrumentSwapSamples(InstrumentSwapSamples(f, a, b), a, b) = f
<1> DEFINE g == InstrumentSwapSamples(f, a, b)
           other(x) == [x EXCEPT !.sample_idx = Renamed(a, b, x.sample_idx)]
<1>1. \A x \in Instrument : /\ other(x) \in Instrument /\ other(x) # None
                            /\ other(other(x)) = x
  <2> SUFFICES ASSUME NEW x \in Instrument
               PROVE other(x) \in Instrument /\ other(x) # None /\ other(other(x)) = x
    OBVIOUS
  <2>1. x.sample_idx \in Slots
    BY DEF Instrument
  <2>2. /\ Renamed(a, b, x.sample_idx) \in Slots
        /\ Renamed(a, b, Renamed(a, b, x.sample_idx)) = x.sample_idx
    BY <2>1, RenamedBack
  <2>3. other(x) \in Instrument /\ other(x).sample_idx = Renamed(a, b, x.sample_idx)
    BY <2>2 DEF Instrument
  <2>4. other(other(x)) = x
    BY <2>2 DEF Instrument
  <2> QED BY <2>3, <2>4, NoneAssumption
<1> HIDE DEF other
<1>2. g = [i \in Slots |-> IF f[i] = None THEN None ELSE other(f[i])]
  BY DEF InstrumentSwapSamples, other
<1> HIDE DEF g
<1>3. InstrumentSwapSamples(g, a, b) = [i \in Slots |-> IF g[i] = None THEN None ELSE other(g[i])]
  BY DEF InstrumentSwapSamples, other
<1>4. \A i \in Slots : /\ g[i] \in Instrument \cup {None}
                       /\ (g[i] = None) = (f[i] = None)
                       /\ (IF g[i] = None THEN None ELSE other(g[i])) = f[i]
  BY <1>1, <1>2
<1>5. InstrumentSwapSamples(g, a, b) = f
  BY <1>3, <1>4
<1> QED BY <1>2, <1>4, <1>5 DEF g

(* Swapping two instruments undoes itself, references included.            *)
LEMMA SwapInstrumentsSwapsBack ==
  ASSUME NEW d \in SafeDocument, NEW c \in PlainCommands, c.class = "SwapInstruments"
  PROVE  SwapsBack(c, d)
<1> DEFINE e == DocAfter(c, d)
           f == Swapped(d.instruments, c.at[1], c.at[2])
           g == SequenceSwapInstruments(d.blocks, c.at[1], c.at[2])
<1>1. /\ c.at[1] \in Slots /\ c.at[2] \in Slots
      /\ d.instruments \in [Slots -> Instrument \cup {None}]
      /\ d.blocks \in Seq(Slots)
  BY CommandKinds DEF SafeDocument
<1>2. \A x : CmdAfter(c, x) = c /\ Applicable(c, x)
  BY DEF CmdAfter, Applicable
<1>3. CASE c.at[1] = c.at[2]
  <2>1. e = d
    BY <1>3 DEF DocAfter, SwapSlots
  <2> QED BY <1>2, <2>1 DEF SwapsBack
<1>4. CASE c.at[1] # c.at[2]
  <2>1. e = [d EXCEPT !.instruments = f, !.blocks = g]
    BY <1>4 DEF DocAfter, SwapSlots
  <2>2. /\ f \in [Slots -> Instrument \cup {None}]
        /\ Swapped(f, c.at[1], c.at[2]) = d.instruments
        /\ g \in Seq(Slots)
        /\ SequenceSwapInstruments(g, c.at[1], c.at[2]) = d.blocks
    <3>1. f \in [Slots -> Instrument \cup {None}] /\ Swapped(f, c.at[1], c.at[2]) = d.instruments
      <4> DEFINE x == d.instruments
                 a == c.at[1]
                 b == c.at[2]
      <4>1. x \in [Slots -> Instrument \cup {None}] /\ a \in Slots /\ b \in Slots
        BY <1>1
      <4> HIDE DEF x, a, b
      <4>2. Swapped(x, a, b) \in [Slots -> Instrument \cup {None}]
        BY <4>1, SwappedTwice
      <4>3. Swapped(Swapped(x, a, b), a, b) = x
        BY <4>1, SwappedTwice
      <4> QED BY <4>2, <4>3 DEF x, a, b
    <3>2. g \in Seq(Slots) /\ SequenceSwapInstruments(g, c.at[1], c.at[2]) = d.blocks
      <4> HIDE DEF f
      <4> QED BY <1>1, BlocksSwappedTwice
    <3> QED BY <3>1, <3>2
  <2> HIDE DEF e, f, g
  <2>3. e \in SafeDocument /\ e.instruments = f /\ e.blocks = g
    BY <2>1, <2>2 DEF SafeDocument
  <2>4. DocAfter(c, e) =
          [e EXCEPT !.instruments = d.instruments, !.blocks = d.blocks]
    BY <1>4, <2>2, <2>3 DEF DocAfter, SwapSlots
  <2>5. DocAfter(c, e) = d
    BY <2>1, <2>4 DEF SafeDocument
  <2> QED BY <1>2, <2>3, <2>5 DEF SwapsBack, e
<1> QED BY <1>3, <1>4

(* Swapping two samples undoes itself, references included.                *)
LEMMA SwapSamplesSwapsBack ==
  ASSUME NEW d \in SafeDocument, NEW c \in PlainCommands, c.class = "SwapSamples"
  PROVE  SwapsBack(c, d)
<1> DEFINE e == DocAfter(c, d)
           f == Swapped(d.samples, c.at[1], c.at[2])
           g == InstrumentSwapSamples(d.instruments, c.at[1], c.at[2])
<1>1. /\ c.at[1] \in Slots /\ c.at[2] \in Slots
      /\ d.instruments \in [Slots -> Instrument \cup {None}]
      /\ d.samples \in [Slots -> SafeSample \cup {None}]
  BY CommandKinds DEF SafeDocument
<1>2. \A x : CmdAfter(c, x) = c /\ Applicable(c, x)
  BY DEF CmdAfter, Applicable
<1>3. CASE c.at[1] = c.at[2]
  <2>1. e = d
    BY <1>3 DEF DocAfter, SwapSlots
  <2> QED BY <1>2, <2>1 DEF SwapsBack
<1>4. CASE c.at[1] # c.at[2]
  <2>1. e = [d EXCEPT !.samples = f, !.instruments = g]
    BY <1>4 DEF DocAfter, SwapSlots
  <2>2. /\ f \in [Slots -> SafeSample \cup {None}]
        /\ Swapped(f, c.at[1], c.at[2]) = d.samples
        /\ g \in [Slots -> Instrument \cup {None}]
        /\ InstrumentSwapSamples(g, c.at[1], c.at[2]) = d.instruments
    <3>1. f \in [Slots -> SafeSample \cup {None}] /\ Swapped(f, c.at[1], c.at[2]) = d.samples
      <4> DEFINE x == d.samples
                 a == c.at[1]
                 b == c.at[2]
      <4>1. x \in [Slots -> SafeSample \cup {None}] /\ a \in Slots /\ b \in Slots
        BY <1>1
      <4> HIDE DEF x, a, b
      <4>2. Swapped(x, a, b) \in [Slots -> SafeSample \cup {None}]
        BY <4>1, SwappedTwice
      <4>3. Swapped(Swapped(x, a, b), a, b) = x
        BY <4>1, SwappedTwice
      <4> QED BY <4>2, <4>3 DEF x, a, b
    <3>2. /\ g \in [Slots -> Instrument \cup {None}]
          /\ InstrumentSwapSamples(g, c.at[1], c.at[2]) = d.instruments
      <4> HIDE DEF f
      <4> QED BY <1>1, InstrumentsSwappedTwice
    <3> QED BY <3>1, <3>2
  <2> HIDE DEF e, f, g
  <2>3. e \in SafeDocument /\ e.samples = f /\ e.instruments = g
    BY <2>1, <2>2 DEF SafeDocument
  <2>4. DocAfter(c, e) =
          [e EXCEPT !.samples = d.samples, !.instruments = d.instruments]
    BY <1>4, <2>2, <2>3 DEF DocAfter, SwapSlots
  <2>5. DocAfter(c, e) = d
    BY <2>1, <2>4 DEF SafeDocument
  <2> QED BY <1>2, <2>3, <2>5 DEF SwapsBack, e
<1> QED BY <1>3, <1>4

(* Every tracked command that meets its assertions undoes itself.          *)
LEMMA CommandSwapsBack ==
  ASSUME NEW d \in SafeDocument, NEW c \in PlainCommands, Applicable(c, d)
  PROVE  SwapsBack(c, d)
  BY CommandKinds, SetTempoSwapsBack, SetBeatsPerMeasureSwapsBack,
     SetSequencerOptionsSwapsBack, AddRemoveInstrumentSwapsBack,
     RenameInstrumentSwapsBack, SampleSwapsBack, RenameSampleSwapsBack,
     EditPatternSwapsBack, AddBlockSwapsBack, RemoveBlockSwapsBack,
     SwapInstrumentsSwapsBack, SwapSamplesSwapsBack, NullSwapsBack

-----------------------------------------------------------------------------
(* Two documents that differ only in what untracked edits change.          *)

(* Two slots that differ at most in the patch that SetPatch changes.       *)
SameInstrumentView(x, y) == (x = None <=> y = None) /\ (x # None => x.name = y.name)

(* Two slots that differ at most in the loop point of SetSampleMetadata.   *)
SameSampleView(x, y) ==
  (x = None <=> y = None) /\ (x # None => x.name = y.name /\ x.brr = y.brr)

(* Two documents that differ at most in what untracked edits change.       *)
SameView(d, e) ==
  /\ d.options = e.options /\ d.blocks = e.blocks
  /\ \A i \in Slots : SameInstrumentView(d.instruments[i], e.instruments[i])
  /\ \A i \in Slots : SameSampleView(d.samples[i], e.samples[i])

(* SameView is an equivalence: it is symmetric ...                         *)
LEMMA SameViewSymmetric ==
  ASSUME NEW d, NEW e, SameView(d, e)
  PROVE  SameView(e, d)
  BY DEF SameView, SameInstrumentView, SameSampleView

(* ... and transitive.                                                     *)
LEMMA SameViewTransitive ==
  ASSUME NEW d, NEW e, NEW f, SameView(d, e), SameView(e, f)
  PROVE  SameView(d, f)
  BY DEF SameView, SameInstrumentView, SameSampleView

(* Whether a tracked command applies does not depend on what untracked     *)
(* edits change.                                                           *)
LEMMA SameViewApplies ==
  ASSUME NEW d \in SafeDocument, NEW e \in SafeDocument, SameView(d, e),
         NEW c \in PlainCommands, Applicable(c, d)
  PROVE  Applicable(c, e)
<1>1. c.class \in {"AddRemoveInstrument", "RenameInstrument"} => c.at \in Slots
  BY CommandKinds
<1>2. c.class \in {"AddRemoveSample", "RenameSample"} => c.at \in Slots
  BY CommandKinds
<1>3. c.class \notin {"SetPatch", "SetSampleMetadata"}
  BY CommandKinds
<1> QED
  BY <1>1, <1>2, <1>3
  DEF Applicable, SameView, InstrumentAt, SampleAt, SameInstrumentView, SameSampleView

(* Two documents of one view still have one after an edit of the options,  *)
(* ...                                                                     *)
LEMMA OptionsSameView ==
  ASSUME NEW d \in SafeDocument, NEW e \in SafeDocument, SameView(d, e),
         NEW c, c.class \in {"SetTempo", "SetBeatsPerMeasure", "SetSequencerOptions"}
  PROVE  SameView(DocAfter(c, d), DocAfter(c, e))
<1>1. CASE c.class = "SetTempo"
  BY <1>1 DEF SameView, DocAfter, SafeDocument
<1>2. CASE c.class = "SetBeatsPerMeasure"
  BY <1>2 DEF SameView, DocAfter, SafeDocument
<1>3. CASE c.class = "SetSequencerOptions"
  BY <1>3 DEF SameView, DocAfter, SafeDocument
<1> QED BY <1>1, <1>2, <1>3

(* ... after an edit of the track, ...                                     *)
LEMMA BlocksSameView ==
  ASSUME NEW d \in SafeDocument, NEW e \in SafeDocument, SameView(d, e),
         NEW c, c.class \in {"EditPattern", "AddBlock", "RemoveBlock"}
  PROVE  SameView(DocAfter(c, d), DocAfter(c, e))
<1>1. CASE c.class = "EditPattern"
  BY <1>1 DEF SameView, DocAfter, SafeDocument
<1>2. CASE c.class = "AddBlock"
  BY <1>2 DEF SameView, DocAfter, SafeDocument
<1>3. CASE c.class = "RemoveBlock"
  BY <1>3 DEF SameView, DocAfter, SafeDocument
<1> QED BY <1>1, <1>2, <1>3

(* ... after their instruments are replaced by instruments of one view,    *)
(* ...                                                                     *)
LEMMA InstrumentsReplaced ==
  ASSUME NEW d \in SafeDocument, NEW e \in SafeDocument, SameView(d, e),
         NEW f, NEW g, \A i \in Slots : SameInstrumentView(f[i], g[i])
  PROVE  SameView([d EXCEPT !.instruments = f], [e EXCEPT !.instruments = g])
  BY DEF SameView, SafeDocument

(* ... after their samples are, ...                                        *)
LEMMA SamplesReplaced ==
  ASSUME NEW d \in SafeDocument, NEW e \in SafeDocument, SameView(d, e),
         NEW f, NEW g, \A i \in Slots : SameSampleView(f[i], g[i])
  PROVE  SameView([d EXCEPT !.samples = f], [e EXCEPT !.samples = g])
  BY DEF SameView, SafeDocument

(* ... after an instrument is added, removed or renamed, ...               *)
LEMMA InstrumentSameView ==
  ASSUME NEW d \in SafeDocument, NEW e \in SafeDocument, SameView(d, e),
         NEW c \in PlainCommands, Applicable(c, d),
         c.class \in {"AddRemoveInstrument", "RenameInstrument"}
  PROVE  SameView(DocAfter(c, d), DocAfter(c, e))
<1> DEFINE x == d.instruments
           y == e.instruments
           k == c.at
           v == c.value
<1>1. /\ k \in Slots
      /\ x \in [Slots -> Instrument \cup {None}] /\ y \in [Slots -> Instrument \cup {None}]
      /\ \A i \in Slots : SameInstrumentView(x[i], y[i])
  BY CommandKinds DEF SafeDocument, SameView
<1>2. CASE c.class = "AddRemoveInstrument"
  <2> DEFINE f == [x EXCEPT ![k] = v]
             g == [y EXCEPT ![k] = v]
  <2>1. DocAfter(c, d) = [d EXCEPT !.instruments = f]
    BY <1>2 DEF DocAfter
  <2>2. DocAfter(c, e) = [e EXCEPT !.instruments = g]
    BY <1>2 DEF DocAfter
  <2>3. \A i \in Slots : SameInstrumentView(f[i], g[i])
    <3> HIDE DEF x, y, k, v
    <3> QED BY <1>1 DEF SameInstrumentView
  <2> HIDE DEF f, g
  <2> QED BY <2>1, <2>2, <2>3, InstrumentsReplaced
<1>3. CASE c.class = "RenameInstrument"
  <2> DEFINE p == [x[k] EXCEPT !.name = v]
             q == [y[k] EXCEPT !.name = v]
             f == [x EXCEPT ![k] = p]
             g == [y EXCEPT ![k] = q]
  <2>1. DocAfter(c, d) = [d EXCEPT !.instruments = f]
    BY <1>3 DEF DocAfter
  <2>2. DocAfter(c, e) = [e EXCEPT !.instruments = g]
    BY <1>3 DEF DocAfter
  <2>3. \A i \in Slots : SameInstrumentView(f[i], g[i])
    <3>1. x[k] # None /\ v \in Names
      BY <1>3, CommandKinds DEF Applicable, InstrumentAt
    <3> HIDE DEF x, y, k, v
    <3>2. x[k] \in Instrument /\ y[k] \in Instrument
      BY <1>1, <3>1 DEF SameInstrumentView
    <3>3. p \in Instrument /\ q \in Instrument /\ p.name = v /\ q.name = v
      BY <3>1, <3>2 DEF Instrument
    <3>4. p # None /\ q # None
      BY <3>3, NoneAssumption
    <3> HIDE DEF p, q
    <3> QED BY <1>1, <3>3, <3>4 DEF SameInstrumentView
  <2> HIDE DEF f, g
  <2> QED BY <2>1, <2>2, <2>3, InstrumentsReplaced
<1> QED BY <1>2, <1>3

(* ... after a sample is added, removed, replaced or renamed, ...          *)
LEMMA SampleSameView ==
  ASSUME NEW d \in SafeDocument, NEW e \in SafeDocument, SameView(d, e),
         NEW c \in PlainCommands, Applicable(c, d),
         c.class \in {"AddRemoveSample", "ReplaceSample", "RenameSample"}
  PROVE  SameView(DocAfter(c, d), DocAfter(c, e))
<1> DEFINE x == d.samples
           y == e.samples
           k == c.at
           v == c.value
<1>1. /\ k \in Slots
      /\ x \in [Slots -> SafeSample \cup {None}] /\ y \in [Slots -> SafeSample \cup {None}]
      /\ \A i \in Slots : SameSampleView(x[i], y[i])
  BY CommandKinds DEF SafeDocument, SameView
<1>2. CASE c.class \in {"AddRemoveSample", "ReplaceSample"}
  <2> DEFINE f == [x EXCEPT ![k] = v]
             g == [y EXCEPT ![k] = v]
  <2>1. DocAfter(c, d) = [d EXCEPT !.samples = f]
    BY <1>2 DEF DocAfter
  <2>2. DocAfter(c, e) = [e EXCEPT !.samples = g]
    BY <1>2 DEF DocAfter
  <2>3. \A i \in Slots : SameSampleView(f[i], g[i])
    <3> HIDE DEF x, y, k, v
    <3> QED BY <1>1 DEF SameSampleView
  <2> HIDE DEF f, g
  <2> QED BY <2>1, <2>2, <2>3, SamplesReplaced
<1>3. CASE c.class = "RenameSample"
  <2> DEFINE p == [x[k] EXCEPT !.name = v]
             q == [y[k] EXCEPT !.name = v]
             f == [x EXCEPT ![k] = p]
             g == [y EXCEPT ![k] = q]
  <2>1. DocAfter(c, d) = [d EXCEPT !.samples = f]
    BY <1>3 DEF DocAfter
  <2>2. DocAfter(c, e) = [e EXCEPT !.samples = g]
    BY <1>3 DEF DocAfter
  <2>3. \A i \in Slots : SameSampleView(f[i], g[i])
    <3>1. x[k] # None /\ v \in Names
      BY <1>3, CommandKinds DEF Applicable, SampleAt
    <3> HIDE DEF x, y, k, v
    <3>2. x[k] \in Sample /\ y[k] \in Sample /\ x[k].brr = y[k].brr
      BY <1>1, <3>1 DEF SameSampleView, SafeSample
    <3>3. /\ p \in Sample /\ q \in Sample /\ p.name = v /\ q.name = v
          /\ p.brr = q.brr
      BY <3>1, <3>2 DEF Sample
    <3>4. p # None /\ q # None
      BY <3>3, NoneAssumption
    <3> HIDE DEF p, q
    <3> QED BY <1>1, <3>3, <3>4 DEF SameSampleView
  <2> HIDE DEF f, g
  <2> QED BY <2>1, <2>2, <2>3, SamplesReplaced
<1> QED BY <1>2, <1>3

(* (Swapping the samples that instruments refer to keeps the names.)       *)
LEMMA SwapKeepsNames ==
  ASSUME NEW f \in [Slots -> Instrument \cup {None}], NEW a \in Slots, NEW b \in Slots,
         NEW i \in Slots
  PROVE  LET g == InstrumentSwapSamples(f, a, b)
         IN  /\ g[i] = None <=> f[i] = None
             /\ f[i] # None => g[i].name = f[i].name
<1> DEFINE g == InstrumentSwapSamples(f, a, b)
           x == f[i]
<1>1. g[i] = None <=> x = None
  BY InstrumentsSwappedTwice
<1>2. x # None => g[i] = [x EXCEPT !.sample_idx = Renamed(a, b, x.sample_idx)]
  BY DEF InstrumentSwapSamples
<1>3. x # None => x \in Instrument
  OBVIOUS
<1> HIDE DEF g, x
<1>4. x # None => g[i].name = x.name
  BY <1>2, <1>3 DEF Instrument
<1> QED BY <1>1, <1>4 DEF g, x

(* ... after two instruments are swapped, ...                              *)
LEMMA SwapInstrumentsSameView ==
  ASSUME NEW d \in SafeDocument, NEW e \in SafeDocument, SameView(d, e),
         NEW c \in PlainCommands, c.class = "SwapInstruments"
  PROVE  SameView(DocAfter(c, d), DocAfter(c, e))
<1> DEFINE x == d.instruments
           y == e.instruments
           a == c.at[1]
           b == c.at[2]
<1>1. /\ a \in Slots /\ b \in Slots
      /\ x \in [Slots -> Instrument \cup {None}] /\ y \in [Slots -> Instrument \cup {None}]
      /\ \A i \in Slots : SameInstrumentView(x[i], y[i])
      /\ d.blocks = e.blocks
  BY CommandKinds DEF SafeDocument, SameView
<1>2. CASE a = b
  BY <1>2 DEF DocAfter, SwapSlots
<1>3. CASE a # b
  <2> DEFINE f == Swapped(x, a, b)
             g == Swapped(y, a, b)
             s == SequenceSwapInstruments(d.blocks, a, b)
  <2>1. DocAfter(c, d) = [d EXCEPT !.instruments = f, !.blocks = s]
    BY <1>3 DEF DocAfter, SwapSlots
  <2>2. DocAfter(c, e) = [e EXCEPT !.instruments = g, !.blocks = s]
    BY <1>1, <1>3 DEF DocAfter, SwapSlots
  <2>3. \A i \in Slots : SameInstrumentView(f[i], g[i])
    <3> HIDE DEF x, y, a, b
    <3> QED BY <1>1 DEF Swapped
  <2> HIDE DEF f, g, s
  <2> QED BY <2>1, <2>2, <2>3 DEF SameView, SafeDocument
<1> QED BY <1>2, <1>3

(* ... and after two samples are.                                          *)
LEMMA SwapSamplesSameView ==
  ASSUME NEW d \in SafeDocument, NEW e \in SafeDocument, SameView(d, e),
         NEW c \in PlainCommands, c.class = "SwapSamples"
  PROVE  SameView(DocAfter(c, d), DocAfter(c, e))
<1> DEFINE x == d.instruments
           y == e.instruments
           u == d.samples
           v == e.samples
           a == c.at[1]
           b == c.at[2]
<1>1. /\ a \in Slots /\ b \in Slots
      /\ x \in [Slots -> Instrument \cup {None}] /\ y \in [Slots -> Instrument \cup {None}]
      /\ u \in [Slots -> SafeSample \cup {None}] /\ v \in [Slots -> SafeSample \cup {None}]
      /\ \A i \in Slots : SameInstrumentView(x[i], y[i])
      /\ \A i \in Slots : SameSampleView(u[i], v[i])
  BY CommandKinds DEF SafeDocument, SameView
<1>2. CASE a = b
  BY <1>2 DEF DocAfter, SwapSlots
<1>3. CASE a # b
  <2> DEFINE f == InstrumentSwapSamples(x, a, b)
             g == InstrumentSwapSamples(y, a, b)
             s == Swapped(u, a, b)
             t == Swapped(v, a, b)
  <2>1. DocAfter(c, d) = [d EXCEPT !.samples = s, !.instruments = f]
    BY <1>3 DEF DocAfter, SwapSlots
  <2>2. DocAfter(c, e) = [e EXCEPT !.samples = t, !.instruments = g]
    BY <1>3 DEF DocAfter, SwapSlots
  <2>3. \A i \in Slots : SameSampleView(s[i], t[i])
    <3> HIDE DEF x, y, u, v, a, b
    <3> QED BY <1>1 DEF Swapped
  <2>4. \A i \in Slots : SameInstrumentView(f[i], g[i])
    <3> HIDE DEF x, y, u, v, a, b
    <3>1. \A i \in Slots : /\ (f[i] = None <=> x[i] = None)
                           /\ (x[i] # None => f[i].name = x[i].name)
      BY <1>1, SwapKeepsNames
    <3>2. \A i \in Slots : /\ (g[i] = None <=> y[i] = None)
                           /\ (y[i] # None => g[i].name = y[i].name)
      BY <1>1, SwapKeepsNames
    <3> HIDE DEF f, g
    <3> QED BY <1>1, <3>1, <3>2 DEF SameInstrumentView
  <2> HIDE DEF f, g, s, t
  <2> QED BY <2>1, <2>2, <2>3, <2>4 DEF SameView, SafeDocument
<1> QED BY <1>2, <1>3

(* The view of the document after a tracked command is decided by its view *)
(* before.                                                                 *)
LEMMA SameViewAfter ==
  ASSUME NEW d \in SafeDocument, NEW e \in SafeDocument, SameView(d, e),
         NEW c \in PlainCommands, Applicable(c, d)
  PROVE  SameView(DocAfter(c, d), DocAfter(c, e))
<1>1. c.class = "Null" => SameView(DocAfter(c, d), DocAfter(c, e))
  BY DEF DocAfter
<1>2. CASE c.class \in {"SetTempo", "SetBeatsPerMeasure", "SetSequencerOptions"}
  BY <1>2, OptionsSameView
<1>3. CASE c.class \in {"EditPattern", "AddBlock", "RemoveBlock"}
  BY <1>3, BlocksSameView
<1>4. CASE c.class \in {"AddRemoveInstrument", "RenameInstrument"}
  BY <1>4, InstrumentSameView
<1>5. CASE c.class \in {"AddRemoveSample", "ReplaceSample", "RenameSample"}
  BY <1>5, SampleSameView
<1>6. CASE c.class = "SwapInstruments"
  BY <1>6, SwapInstrumentsSameView
<1>7. CASE c.class = "SwapSamples"
  BY <1>7, SwapSamplesSameView
<1> QED BY <1>1, <1>2, <1>3, <1>4, <1>5, <1>6, <1>7, CommandKinds

-----------------------------------------------------------------------------
(* Untracked edits and merged ones.                                        *)

(* The edits that skip history, as the panels make them.                   *)
Untracked(c, d) ==
  \/ /\ c.class = "SetPatch" /\ c.at \in Slots /\ c.value \in Slots
     /\ InstrumentAt(d, c.at)
  \/ /\ c.class = "SetSampleMetadata" /\ c.at \in Slots /\ SampleAt(d, c.at)
     /\ \E loop \in {0} \cup 0 .. d.samples[c.at].brr - 1 :
          c.value = [d.samples[c.at] EXCEPT !.brr = 0, !.loop_byte = loop]

(* An untracked edit keeps the document safe and its view unchanged.       *)
LEMMA UntrackedSameView ==
  ASSUME NEW d \in SafeDocument, NEW c, Untracked(c, d)
  PROVE  DocAfter(c, d) \in SafeDocument /\ SameView(DocAfter(c, d), d)
<1>1. CASE c.class = "SetPatch"
  <2> DEFINE f == d.instruments
             k == c.at
             x == [f[k] EXCEPT !.sample_idx = c.value]
             g == [f EXCEPT ![k] = x]
             e == [d EXCEPT !.instruments = g]
  <2>1. k \in Slots /\ c.value \in Slots /\ f[k] # None
    BY <1>1 DEF Untracked, InstrumentAt
  <2>2. f \in [Slots -> Instrument \cup {None}]
    BY DEF SafeDocument
  <2>3. DocAfter(c, d) = e
    BY <1>1 DEF DocAfter
  <2> HIDE DEF f, k, e
  <2>4. f[k] \in Instrument
    BY <2>1, <2>2
  <2>5. x \in Instrument /\ x.name = f[k].name
    BY <2>1, <2>4 DEF Instrument
  <2>6. x # None
    BY <2>5, NoneAssumption
  <2> HIDE DEF x
  <2>7. g \in [Slots -> Instrument \cup {None}]
    BY <2>1, <2>2, <2>5
  <2>8. \A i \in Slots : SameInstrumentView(g[i], f[i])
    BY <2>1, <2>2, <2>5, <2>6 DEF SameInstrumentView
  <2> HIDE DEF g
  <2>9. e \in SafeDocument
    BY <2>7, ReplaceInstruments DEF e
  <2>10. SameView(e, d)
    BY <2>8 DEF SameView, SafeDocument, e, f, SameSampleView
  <2> QED BY <2>3, <2>9, <2>10
<1>2. CASE c.class = "SetSampleMetadata"
  <2> DEFINE f == d.samples
             k == c.at
             x == [c.value EXCEPT !.brr = f[k].brr]
             g == [f EXCEPT ![k] = x]
             e == [d EXCEPT !.samples = g]
  <2>1. k \in Slots /\ f[k] # None
    BY <1>2 DEF Untracked, SampleAt
  <2>2. PICK loop \in {0} \cup 0 .. f[k].brr - 1 :
          c.value = [f[k] EXCEPT !.brr = 0, !.loop_byte = loop]
    BY <1>2 DEF Untracked
  <2>3. f \in [Slots -> SafeSample \cup {None}]
    BY DEF SafeDocument
  <2>4. DocAfter(c, d) = e
    BY <1>2 DEF DocAfter
  <2> HIDE DEF f, k, e
  <2>5. f[k] \in SafeSample
    BY <2>1, <2>3
  <2>6. /\ f[k] \in Sample /\ f[k].brr \in 0 .. MaxBrr /\ loop \in Nat
        /\ (loop < f[k].brr \/ loop = 0)
    BY <2>2, <2>5, MaxBrrAssumption DEF SafeSample, Sample
  <2>7. /\ x = [f[k] EXCEPT !.loop_byte = loop]
        /\ x \in Sample /\ x.name = f[k].name /\ x.brr = f[k].brr
        /\ x.loop_byte = loop
    BY <2>2, <2>6 DEF Sample
  <2>8. x \in SafeSample
    BY <2>6, <2>7 DEF SafeSample, LoopInside
  <2>9. x # None
    BY <2>7, NoneAssumption
  <2>15. x.name = f[k].name /\ x.brr = f[k].brr
    BY <2>7
  <2> HIDE DEF x
  <2>10. g \in [Slots -> SafeSample \cup {None}]
    BY <2>1, <2>3, <2>8
  <2>11. \A i \in Slots : SameSampleView(g[i], f[i])
    BY <2>1, <2>3, <2>15, <2>9 DEF SameSampleView
  <2> HIDE DEF g
  <2>12. e \in SafeDocument
    BY <2>10, ReplaceSamples DEF e
  <2>13. SameView(e, d)
    BY <2>11 DEF SameView, SafeDocument, e, f, SameInstrumentView
  <2> QED BY <2>4, <2>12, <2>13
<1> QED BY <1>1, <1>2 DEF Untracked

(* A command that is merged is overwritten by the one it is merged into:   *)
(* undoing the earlier one undoes both.                                    *)
LEMMA MergedCommand ==
  ASSUME NEW d \in SafeDocument, NEW c \in PlainCommands, NEW t \in PlainCommands,
         CanMerge(c, t), Applicable(c, d), Applicable(t, d)
  PROVE  /\ Applicable(t, DocAfter(c, d))
         /\ DocAfter(t, DocAfter(c, d)) = DocAfter(t, d)
<1>1. CASE c.class = "SetTempo"
  <2>1. t.class = "SetTempo"
    BY <1>1 DEF CanMerge
  <2>2. d.options \in SequencerOptions
    BY DEF SafeDocument
  <2> DEFINE o == d.options
             e == DocAfter(c, d)
  <2>3. e = [d EXCEPT !.options = [o EXCEPT !.target_tempo = c.value]]
    BY <1>1 DEF DocAfter
  <2>4. DocAfter(t, d) = [d EXCEPT !.options = [o EXCEPT !.target_tempo = t.value]]
    BY <2>1 DEF DocAfter
  <2>5. DocAfter(t, e) = [e EXCEPT !.options = [e.options EXCEPT !.target_tempo = t.value]]
    BY <2>1 DEF DocAfter
  <2> HIDE DEF e
  <2>6. e.options = [o EXCEPT !.target_tempo = c.value]
    BY <2>3 DEF SafeDocument
  <2> HIDE DEF o
  <2>7. [[o EXCEPT !.target_tempo = c.value] EXCEPT !.target_tempo = t.value] =
          [o EXCEPT !.target_tempo = t.value]
    BY <2>2 DEF SequencerOptions, o
  <2>8. DocAfter(t, e) = [e EXCEPT !.options = [o EXCEPT !.target_tempo = t.value]]
    BY <2>5, <2>6, <2>7
  <2>9. DocAfter(t, e) = DocAfter(t, d)
    BY <2>3, <2>4, <2>8 DEF SafeDocument
  <2>10. Applicable(t, e)
    BY <2>1 DEF Applicable
  <2> QED BY <2>9, <2>10 DEF e
<1>2. CASE c.class = "SetBeatsPerMeasure"
  <2>1. t.class = "SetBeatsPerMeasure"
    BY <1>2 DEF CanMerge
  <2>2. d.options \in SequencerOptions
    BY DEF SafeDocument
  <2> DEFINE o == d.options
             e == DocAfter(c, d)
  <2>3. e = [d EXCEPT !.options = [o EXCEPT !.beats_per_measure = c.value]]
    BY <1>2 DEF DocAfter
  <2>4. DocAfter(t, d) = [d EXCEPT !.options = [o EXCEPT !.beats_per_measure = t.value]]
    BY <2>1 DEF DocAfter
  <2>5. DocAfter(t, e) = [e EXCEPT !.options = [e.options EXCEPT !.beats_per_measure = t.value]]
    BY <2>1 DEF DocAfter
  <2> HIDE DEF e
  <2>6. e.options = [o EXCEPT !.beats_per_measure = c.value]
    BY <2>3 DEF SafeDocument
  <2> HIDE DEF o
  <2>7. [[o EXCEPT !.beats_per_measure = c.value] EXCEPT !.beats_per_measure = t.value] =
          [o EXCEPT !.beats_per_measure = t.value]
    BY <2>2 DEF SequencerOptions, o
  <2>8. DocAfter(t, e) = [e EXCEPT !.options = [o EXCEPT !.beats_per_measure = t.value]]
    BY <2>5, <2>6, <2>7
  <2>9. DocAfter(t, e) = DocAfter(t, d)
    BY <2>3, <2>4, <2>8 DEF SafeDocument
  <2>10. Applicable(t, e)
    BY <2>1 DEF Applicable
  <2> QED BY <2>9, <2>10 DEF e
<1>3. CASE c.class = "RenameInstrument"
  <2> DEFINE f == d.instruments
             k == c.at
             x == [f[k] EXCEPT !.name = c.value]
             y == [f[k] EXCEPT !.name = t.value]
             g == [f EXCEPT ![k] = x]
             e == DocAfter(c, d)
  <2>1. t.class = "RenameInstrument" /\ t.at = k
    BY <1>3 DEF CanMerge
  <2>2. /\ k \in Slots /\ c.value \in Names /\ f[k] # None
        /\ f \in [Slots -> Instrument \cup {None}]
    BY <1>3, CommandKinds DEF Applicable, InstrumentAt, SafeDocument
  <2>3. e = [d EXCEPT !.instruments = g]
    BY <1>3 DEF DocAfter
  <2>4. DocAfter(t, d) = [d EXCEPT !.instruments = [f EXCEPT ![k] = y]]
    BY <2>1 DEF DocAfter
  <2>5. DocAfter(t, e) = [e EXCEPT !.instruments =
                   [e.instruments EXCEPT ![k] = [e.instruments[k] EXCEPT !.name = t.value]]]
    BY <2>1 DEF DocAfter
  <2> HIDE DEF e, k
  <2>6. e.instruments = g
    BY <2>3 DEF SafeDocument
  <2> HIDE DEF f
  <2>7. f[k] \in Instrument
    BY <2>2
  <2>8. x \in Instrument /\ [x EXCEPT !.name = t.value] = y
    BY <2>2, <2>7 DEF Instrument
  <2>9. x # None
    BY <2>8, NoneAssumption
  <2> HIDE DEF x, y
  <2>10. g[k] = x /\ [g EXCEPT ![k] = y] = [f EXCEPT ![k] = y]
    BY <2>2
  <2> HIDE DEF g
  <2>11. DocAfter(t, e) = [e EXCEPT !.instruments = [f EXCEPT ![k] = y]]
    BY <2>5, <2>6, <2>8, <2>10
  <2>12. DocAfter(t, e) = DocAfter(t, d)
    BY <2>3, <2>4, <2>11 DEF SafeDocument
  <2>13. Applicable(t, e)
    BY <2>1, <2>6, <2>9, <2>10 DEF Applicable, InstrumentAt
  <2> QED BY <2>12, <2>13 DEF e
<1>4. CASE c.class = "RenameSample"
  <2> DEFINE f == d.samples
             k == c.at
             x == [f[k] EXCEPT !.name = c.value]
             y == [f[k] EXCEPT !.name = t.value]
             g == [f EXCEPT ![k] = x]
             e == DocAfter(c, d)
  <2>1. t.class = "RenameSample" /\ t.at = k
    BY <1>4 DEF CanMerge
  <2>2. /\ k \in Slots /\ c.value \in Names /\ f[k] # None
        /\ f \in [Slots -> SafeSample \cup {None}]
    BY <1>4, CommandKinds DEF Applicable, SampleAt, SafeDocument
  <2>3. e = [d EXCEPT !.samples = g]
    BY <1>4 DEF DocAfter
  <2>4. DocAfter(t, d) = [d EXCEPT !.samples = [f EXCEPT ![k] = y]]
    BY <2>1 DEF DocAfter
  <2>5. DocAfter(t, e) = [e EXCEPT !.samples =
                   [e.samples EXCEPT ![k] = [e.samples[k] EXCEPT !.name = t.value]]]
    BY <2>1 DEF DocAfter
  <2> HIDE DEF e, k
  <2>6. e.samples = g
    BY <2>3 DEF SafeDocument
  <2> HIDE DEF f
  <2>7. f[k] \in Sample
    BY <2>2 DEF SafeSample
  <2>8. x \in Sample /\ [x EXCEPT !.name = t.value] = y
    BY <2>2, <2>7 DEF Sample
  <2>9. x # None
    BY <2>8, NoneAssumption
  <2> HIDE DEF x, y
  <2>10. g[k] = x /\ [g EXCEPT ![k] = y] = [f EXCEPT ![k] = y]
    BY <2>2
  <2> HIDE DEF g
  <2>11. DocAfter(t, e) = [e EXCEPT !.samples = [f EXCEPT ![k] = y]]
    BY <2>5, <2>6, <2>8, <2>10
  <2>12. DocAfter(t, e) = DocAfter(t, d)
    BY <2>3, <2>4, <2>11 DEF SafeDocument
  <2>13. Applicable(t, e)
    BY <2>1, <2>6, <2>9, <2>10 DEF Applicable, SampleAt
  <2> QED BY <2>12, <2>13 DEF e
<1> QED BY <1>1, <1>2, <1>3, <1>4 DEF CanMerge

-----------------------------------------------------------------------------
(* The history.                                                            *)

(* The copy of a command does to the document it was made from what the    *)
(* command does, the two swaps included, whose copies were precomputed.    *)
LEMMA CloneDoesTheSame ==
  ASSUME NEW c, NEW d
  PROVE  DocAfter(CloneForAudio(c, d), d) = DocAfter(c, d)
<1>1. CASE c.class = "SwapInstruments"
  BY <1>1 DEF CloneForAudio, DocAfter, Command, SwapSlots
<1>2. CASE c.class = "SwapSamples"
  BY <1>2 DEF CloneForAudio, DocAfter, Command, SwapSlots
<1>3. CASE c.class \notin {"SwapInstruments", "SwapSamples"}
  <2>1. CloneForAudio(c, d) = c
    BY <1>3 DEF CloneForAudio
  <2> QED
    BY <2>1
<1> QED
  BY <1>1, <1>2, <1>3

(* A copy sent before the command applies keeps the two documents equal.   *)
LEMMA SendFollows ==
  ASSUME NEW c, AudioMatches, Send(c), document' = DocAfter(c, document)
  PROVE  AudioMatches'
BY CloneDoesTheSame DEF AudioMatches, Send

(* Every edit of a panel is some command pushed.                           *)
LEMMA EditPushes ==
  ASSUME Edit
  PROVE  \E c : PushEdit(c)
<1>1. CASE EditOptions \/ EditPattern \/ SwapInstruments \/ SwapSamples
  BY <1>1 DEF EditOptions, EditPattern, SwapInstruments, SwapSamples
<1>2. CASE TryAddInstrument \/ TryCloneInstrument \/ EditInstrument
  BY <1>2 DEF TryAddInstrument, TryCloneInstrument, EditInstrument, AddInstrument
<1>3. CASE LoadSample \/ TryCloneSample \/ EditSample
  BY <1>3 DEF LoadSample, TryCloneSample, EditSample, AddSample, SetLoopByte
<1> QED
  BY <1>1, <1>2, <1>3 DEF Edit

(* Whatever is edited, undone and redone, the copies sent to the audio     *)
(* thread rebuild the GUI's document there.                                *)
THEOREM AudioFollows == Spec => []AudioMatches
<1>1. Init => AudioMatches
  BY DEF Init, AudioMatches
<1>2. AudioMatches /\ [Next]_vars => AudioMatches'
  <2> SUFFICES ASSUME AudioMatches, [Next]_vars PROVE AudioMatches'
    OBVIOUS
  <2>1. CASE Edit
    <3>1. PICK c : PushEdit(c)
      BY <2>1, EditPushes
    <3> QED
      BY <3>1, SendFollows DEF PushEdit
  <2>2. CASE Undo
    BY <2>2, SendFollows DEF Undo
  <2>3. CASE Redo
    BY <2>3, SendFollows DEF Redo
  <2>4. CASE Save \/ OpenDocument
    BY <2>4 DEF Save, OpenDocument, AudioMatches
  <2>5. CASE UNCHANGED vars
    BY <2>5 DEF vars, AudioMatches
  <2> QED
    BY <2>1, <2>2, <2>3, <2>4, <2>5 DEF Next
<1> QED
  BY <1>1, <1>2, PTL DEF Spec

(* A document that is dropped without a question is the one on disk.       *)
THEOREM CleanIsSaved == Spec => []CleanMeansSaved
<1>1. Init => CleanMeansSaved
  BY DEF Init, CleanMeansSaved
<1>2. CleanMeansSaved /\ [Next]_vars => CleanMeansSaved'
  <2> SUFFICES ASSUME CleanMeansSaved, [Next]_vars PROVE CleanMeansSaved'
    OBVIOUS
  <2>1. CASE Edit
    <3>1. PICK c : PushEdit(c)
      BY <2>1, EditPushes
    <3> QED
      BY <3>1 DEF PushEdit, CleanMeansSaved
  <2>2. CASE Undo \/ Redo
    BY <2>2 DEF Undo, Redo, CleanMeansSaved
  <2>3. CASE Save \/ OpenDocument
    BY <2>3 DEF Save, OpenDocument, CleanMeansSaved
  <2>4. CASE UNCHANGED vars
    BY <2>4 DEF vars, CleanMeansSaved
  <2> QED
    BY <2>1, <2>2, <2>3, <2>4 DEF Next
<1> QED
  BY <1>1, <1>2, PTL DEF Spec

-----------------------------------------------------------------------------
(* The states a stack of commands leads back through.                      *)

(* The states that applying a stack of commands from the top leads back    *)
(* through, each up to what untracked edits changed since: s[k] is the     *)
(* document the k-th command applies to.                                   *)
IsChain(s, stack, d) ==
  /\ s \in [0 .. Len(stack) -> SafeDocument]
  /\ SameView(s[Len(stack)], d)
  /\ \A k \in 1 .. Len(stack) :
       /\ Applicable(stack[k], s[k])
       /\ SameView(DocAfter(stack[k], s[k]), s[k - 1])

(* A stack of commands applies, one after the other, from this document.   *)
Chain(stack, d) == \E s : IsChain(s, stack, d)

(* SameView is reflexive.                                                  *)
LEMMA SameViewReflexive ==
  ASSUME NEW d
  PROVE  SameView(d, d)
  BY DEF SameView, SameInstrumentView, SameSampleView

(* An empty stack does.                                                    *)
LEMMA ChainEmpty ==
  ASSUME NEW d \in SafeDocument
  PROVE  Chain(<<>>, d)
<1> DEFINE s == [k \in 0 .. 0 |-> d]
<1>1. s \in [0 .. 0 -> SafeDocument] /\ s[0] = d
  OBVIOUS
<1>2. SameView(s[0], d)
  BY <1>1, SameViewReflexive
<1>3. Len(<<>>) = 0 /\ 1 .. 0 = {}
  OBVIOUS
<1> HIDE DEF s
<1> QED BY <1>1, <1>2, <1>3 DEF Chain, IsChain

(* An untracked edit of the document keeps a chain.                        *)
LEMMA ChainSameView ==
  ASSUME NEW stack, NEW s, NEW d, NEW e, IsChain(s, stack, d), SameView(d, e)
  PROVE  IsChain(s, stack, e)
  BY SameViewTransitive DEF IsChain

(* A command that was applied, pushed on a stack, extends its chain by the *)
(* new document.                                                           *)
LEMMA ChainPush ==
  ASSUME NEW stack \in Seq(PlainCommands), NEW s, NEW d \in SafeDocument,
         IsChain(s, stack, d), NEW c \in PlainCommands, Applicable(c, d)
  PROVE  IsChain([k \in 0 .. Len(stack) + 1 |->
                    IF k = Len(stack) + 1 THEN DocAfter(c, d) ELSE s[k]],
                 Append(stack, CmdAfter(c, d)), DocAfter(c, d))
<1> DEFINE r == CmdAfter(c, d)
           e == DocAfter(c, d)
           n == Len(stack)
           longer == Append(stack, r)
<1>1. e \in SafeDocument /\ r \in PlainCommands /\ Applicable(r, e) /\ DocAfter(r, e) = d
  BY CommandSwapsBack DEF SwapsBack
<1>2. /\ s \in [0 .. n -> SafeDocument]
      /\ SameView(s[n], d)
      /\ \A k \in 1 .. n :
           /\ Applicable(stack[k], s[k])
           /\ SameView(DocAfter(stack[k], s[k]), s[k - 1])
  BY DEF IsChain
<1> HIDE DEF r, e
<1>3. /\ n \in Nat /\ Len(longer) = n + 1
      /\ \A k \in 1 .. n : longer[k] = stack[k]
      /\ longer[n + 1] = r
  BY <1>1
<1> HIDE DEF longer
<1> HIDE DEF n
<1> DEFINE t == [k \in 0 .. n + 1 |-> IF k = n + 1 THEN e ELSE s[k]]
<1>4. t \in [0 .. n + 1 -> SafeDocument]
  <2>1. \A k \in 0 .. n + 1 : k # n + 1 => k \in 0 .. n
    BY <1>3
  <2> QED BY <1>1, <1>2, <2>1
<1>5. t[n + 1] = e /\ \A k \in 0 .. n : t[k] = s[k]
  BY <1>3
<1> HIDE DEF t
<1>6. SameView(t[n + 1], e)
  BY <1>5, SameViewReflexive
<1>7. ASSUME NEW k \in 1 .. n + 1
      PROVE  /\ Applicable(longer[k], t[k])
             /\ SameView(DocAfter(longer[k], t[k]), t[k - 1])
  <2>1. CASE k = n + 1
    <3>1. n \in 0 .. n /\ t[k - 1] = s[n]
      BY <1>3, <1>5, <2>1
    <3>2. SameView(d, s[n])
      BY <1>2, SameViewSymmetric
    <3> QED BY <1>1, <1>3, <1>5, <2>1, <3>1, <3>2
  <2>2. CASE k # n + 1
    <3>1. k \in 1 .. n /\ k \in 0 .. n /\ k - 1 \in 0 .. n
      BY <1>3, <2>2
    <3> QED BY <1>2, <1>3, <1>5, <3>1
  <2> QED BY <2>1, <2>2
<1>8. IsChain(t, longer, e)
  BY <1>3, <1>4, <1>6, <1>7 DEF IsChain
<1> QED BY <1>8 DEF t, n, longer, r, e

(* The top of a stack applies, and what is below it is a chain from the    *)
(* document it leads to.                                                   *)
LEMMA ChainTop ==
  ASSUME NEW stack \in Seq(PlainCommands), stack # <<>>,
         NEW s, NEW d \in SafeDocument, IsChain(s, stack, d)
  PROVE  /\ Top(stack) \in PlainCommands
         /\ Applicable(Top(stack), d)
         /\ DocAfter(Top(stack), d) \in SafeDocument
         /\ Popped(stack) \in Seq(PlainCommands)
         /\ Len(Popped(stack)) = Len(stack) - 1
         /\ IsChain([k \in 0 .. Len(stack) - 1 |-> s[k]],
                    Popped(stack), DocAfter(Top(stack), d))
<1> DEFINE n == Len(stack)
           c == Top(stack)
           e == DocAfter(c, d)
           rest == Popped(stack)
<1>1. n \in Nat /\ n >= 1 /\ c = stack[n] /\ c \in PlainCommands
  BY DEF Top
<1>2. /\ rest \in Seq(PlainCommands) /\ Len(rest) = n - 1
      /\ \A k \in 1 .. n - 1 : rest[k] = stack[k]
  <2>1. \A k \in 1 .. n - 1 : stack[k] \in PlainCommands
    OBVIOUS
  <2>2. rest = SubSeq(stack, 1, n - 1)
    BY DEF Popped
  <2> HIDE DEF n, rest
  <2>3. 1 \in Int /\ n - 1 \in Int
    BY <1>1
  <2>4. rest \in Seq(PlainCommands)
    BY <2>1, <2>2, <2>3, SubSeqProperties
  <2>5. Len(rest) = n - 1
    BY <1>1, <2>1, <2>2, <2>3, SubSeqProperties
  <2>6. \A k \in 1 .. n - 1 : rest[k] = stack[k]
    <3>1. \A k \in 1 .. n - 1 : k \in 1 .. (n - 1) - 1 + 1 /\ 1 + k - 1 = k
      BY <1>1
    <3>2. \A k \in 1 .. (n - 1) - 1 + 1 : rest[k] = stack[1 + k - 1]
      BY <2>1, <2>2, <2>3, SubSeqProperties
    <3> QED BY <3>1, <3>2
  <2> QED BY <2>4, <2>5, <2>6
<1>3. /\ s \in [0 .. n -> SafeDocument]
      /\ SameView(s[n], d)
      /\ \A k \in 1 .. n :
           /\ Applicable(stack[k], s[k])
           /\ SameView(DocAfter(stack[k], s[k]), s[k - 1])
  BY DEF IsChain
<1> HIDE DEF n, c, rest
<1>4. s[n] \in SafeDocument /\ Applicable(c, s[n]) /\ SameView(DocAfter(c, s[n]), s[n - 1])
  BY <1>1, <1>3
<1>5. Applicable(c, d)
  BY <1>1, <1>3, <1>4, SameViewApplies
<1>6. e \in SafeDocument
  BY <1>1, <1>5, CommandSwapsBack DEF SwapsBack
<1>7. SameView(DocAfter(c, s[n]), e)
  BY <1>1, <1>3, <1>4, SameViewAfter
<1> HIDE DEF e
<1>8. SameView(s[n - 1], e)
  BY <1>4, <1>7, SameViewSymmetric, SameViewTransitive
<1> DEFINE t == [k \in 0 .. n - 1 |-> s[k]]
<1>9. t \in [0 .. n - 1 -> SafeDocument] /\ \A k \in 0 .. n - 1 : t[k] = s[k]
  BY <1>1, <1>3
<1> HIDE DEF t
<1>10. ASSUME NEW k \in 1 .. n - 1
       PROVE  /\ Applicable(rest[k], t[k])
              /\ SameView(DocAfter(rest[k], t[k]), t[k - 1])
  <2>1. k \in 1 .. n /\ k \in 0 .. n - 1 /\ k - 1 \in 0 .. n - 1
    BY <1>1
  <2> QED BY <1>2, <1>3, <1>9, <2>1
<1>11. n - 1 \in 0 .. n - 1
  BY <1>1
<1>12. SameView(t[n - 1], e)
  BY <1>8, <1>9, <1>11
<1>13. IsChain(t, rest, e)
  BY <1>2, <1>9, <1>10, <1>12 DEF IsChain
<1> QED BY <1>1, <1>2, <1>5, <1>6, <1>13 DEF t, c, e, rest, n

(* A command merged into the top of a stack only replaces the last state   *)
(* of its chain.                                                           *)
LEMMA ChainMerge ==
  ASSUME NEW stack \in Seq(PlainCommands), stack # <<>>,
         NEW s, NEW d \in SafeDocument, IsChain(s, stack, d),
         NEW c \in PlainCommands, Applicable(c, d), CanMerge(c, Top(stack))
  PROVE  IsChain([s EXCEPT ![Len(stack)] = DocAfter(c, d)], stack, DocAfter(c, d))
<1> DEFINE n == Len(stack)
           top == Top(stack)
           e == DocAfter(c, d)
<1>1. n \in Nat /\ n >= 1 /\ top = stack[n] /\ top \in PlainCommands
  BY DEF Top
<1>2. /\ s \in [0 .. n -> SafeDocument]
      /\ SameView(s[n], d)
      /\ \A k \in 1 .. n :
           /\ Applicable(stack[k], s[k])
           /\ SameView(DocAfter(stack[k], s[k]), s[k - 1])
  BY DEF IsChain
<1> HIDE DEF n
<1>3. s[n] \in SafeDocument /\ Applicable(top, s[n]) /\ SameView(DocAfter(top, s[n]), s[n - 1])
  BY <1>1, <1>2
<1>4. Applicable(top, d) /\ e \in SafeDocument
  BY <1>1, <1>2, <1>3, SameViewApplies, CommandSwapsBack DEF SwapsBack
<1>5. Applicable(top, e) /\ DocAfter(top, e) = DocAfter(top, d)
  BY <1>1, <1>4, MergedCommand
<1>6. SameView(DocAfter(top, s[n]), DocAfter(top, d))
  BY <1>1, <1>2, <1>3, SameViewAfter
<1>7. SameView(DocAfter(top, e), s[n - 1])
  BY <1>3, <1>5, <1>6, SameViewSymmetric, SameViewTransitive
<1> DEFINE t == [s EXCEPT ![n] = e]
<1> HIDE DEF top, e
<1>8. /\ t \in [0 .. n -> SafeDocument] /\ t[n] = e
      /\ \A k \in 0 .. n : k # n => t[k] = s[k]
  BY <1>1, <1>2, <1>4
<1> HIDE DEF t
<1>9. ASSUME NEW k \in 1 .. n
      PROVE  /\ Applicable(stack[k], t[k])
             /\ SameView(DocAfter(stack[k], t[k]), t[k - 1])
  <2>1. k - 1 \in 0 .. n /\ k - 1 # n /\ k \in 0 .. n
    BY <1>1
  <2>2. t[k - 1] = s[k - 1]
    BY <1>8, <2>1
  <2>3. CASE k = n
    BY <1>1, <1>5, <1>7, <1>8, <2>2, <2>3
  <2>4. CASE k # n
    BY <1>2, <1>8, <2>1, <2>2, <2>4
  <2> QED BY <2>3, <2>4
<1>10. SameView(t[n], e)
  BY <1>8, SameViewReflexive
<1>11. IsChain(t, stack, e)
  BY <1>8, <1>9, <1>10 DEF IsChain, n
<1> QED BY <1>11 DEF t, n, e

-----------------------------------------------------------------------------
(* The edits of the panels are commands that apply.                        *)

(* A command that may be pushed: an untracked edit, or a tracked one that  *)
(* meets its assertions.                                                   *)
Allowed(c, d) == Untracked(c, d) \/ (c \in PlainCommands /\ Applicable(c, d))

(* Every edit of the options is allowed, ...                               *)
LEMMA OptionEdits ==
  ASSUME EditOptions
  PROVE  \E c : PushEdit(c) /\ Allowed(c, document)
<1>1. CASE \E t \in Tempos : PushEdit(Command("SetTempo", 0, t))
  <2>1. PICK t \in Tempos : PushEdit(Command("SetTempo", 0, t))
    BY <1>1
  <2> DEFINE c == Command("SetTempo", 0, t)
  <2>2. c \in PlainCommands /\ Applicable(c, document)
    BY DEF Command, PlainCommands, Applicable
  <2> QED BY <2>1, <2>2 DEF Allowed
<1>2. CASE \E m \in Measures : PushEdit(Command("SetBeatsPerMeasure", 0, m))
  <2>1. PICK m \in Measures : PushEdit(Command("SetBeatsPerMeasure", 0, m))
    BY <1>2
  <2> DEFINE c == Command("SetBeatsPerMeasure", 0, m)
  <2>2. c \in PlainCommands /\ Applicable(c, document)
    BY DEF Command, PlainCommands, Applicable
  <2> QED BY <2>1, <2>2 DEF Allowed
<1>3. CASE \E o \in SequencerOptions : PushEdit(Command("SetSequencerOptions", 0, o))
  <2>1. PICK o \in SequencerOptions : PushEdit(Command("SetSequencerOptions", 0, o))
    BY <1>3
  <2> DEFINE c == Command("SetSequencerOptions", 0, o)
  <2>2. c \in PlainCommands /\ Applicable(c, document)
    BY DEF Command, PlainCommands, Applicable
  <2> QED BY <2>1, <2>2 DEF Allowed
<1> QED BY <1>1, <1>2, <1>3 DEF EditOptions

(* ... so is every edit of the track, ...                                  *)
LEMMA PatternEdits ==
  ASSUME document \in SafeDocument, EditPattern
  PROVE  \E c : PushEdit(c) /\ Allowed(c, document)
<1>0. document.blocks \in Seq(Slots)
  BY DEF SafeDocument
<1>1. CASE PushEdit(Command("Null", 0, None))
  <2> DEFINE c == Command("Null", 0, None)
  <2>1. c \in PlainCommands /\ Applicable(c, document)
    BY DEF Command, PlainCommands, Applicable
  <2> QED BY <1>1, <2>1 DEF Allowed
<1>2. CASE \E k \in DOMAIN document.blocks, p \in Patterns :
             PushEdit(Command("EditPattern", k, p))
  <2>1. PICK k \in DOMAIN document.blocks, p \in Patterns :
          PushEdit(Command("EditPattern", k, p))
    BY <1>2
  <2> DEFINE c == Command("EditPattern", k, p)
  <2>2. k \in Nat
    BY <1>0
  <2>3. c \in PlainCommands
    BY <2>2 DEF Command, PlainCommands
  <2>4. Applicable(c, document)
    BY DEF Command, Applicable
  <2> QED BY <2>1, <2>3, <2>4 DEF Allowed
<1>3. CASE \E k \in 1 .. Len(document.blocks) + 1, p \in Slots :
             PushEdit(Command("AddBlock", k, p))
  <2>1. PICK k \in 1 .. Len(document.blocks) + 1, p \in Slots :
          PushEdit(Command("AddBlock", k, p))
    BY <1>3
  <2> DEFINE c == Command("AddBlock", k, p)
  <2>2. k \in Nat
    BY <1>0
  <2>3. c \in PlainCommands
    BY <2>2 DEF Command, PlainCommands
  <2>4. Applicable(c, document)
    BY DEF Command, Applicable
  <2> QED BY <2>1, <2>3, <2>4 DEF Allowed
<1> QED BY <1>1, <1>2, <1>3 DEF EditPattern

(* ... adding an instrument to an empty slot, ...                          *)
LEMMA InstrumentAdded ==
  ASSUME NEW i \in Slots, NEW x \in Instrument, AddInstrument(i, x)
  PROVE  \E c : PushEdit(c) /\ Allowed(c, document)
<1> DEFINE c == Command("AddRemoveInstrument", i, x)
<1>1. PushEdit(c)
  BY DEF AddInstrument
<1>2. c \in PlainCommands
  BY DEF Command, PlainCommands
<1>3. Applicable(c, document)
  <2>1. c.class = "AddRemoveInstrument" /\ c.at = i /\ c.value = x
    BY DEF Command
  <2>2. x # None /\ document.instruments[i] = None
    BY NoneAssumption DEF AddInstrument, InstrumentAt
  <2> HIDE DEF c
  <2>3. (c.value = None) = InstrumentAt(document, c.at)
    BY <2>1, <2>2 DEF InstrumentAt
  <2> QED BY <2>1, <2>3 DEF Applicable
<1> QED BY <1>1, <1>2, <1>3 DEF Allowed

(* ... every edit of the instruments, ...                                  *)
LEMMA InstrumentEdits ==
  ASSUME document \in SafeDocument,
         TryAddInstrument \/ TryCloneInstrument \/ EditInstrument \/ SwapInstruments
  PROVE  \E c : PushEdit(c) /\ Allowed(c, document)
<1>1. CASE TryAddInstrument
  <2>1. NewInstrument \in Instrument
    BY NamesAssumption, NSlotsAssumption DEF NewInstrument, Instrument, Slots
  <2> QED BY <1>1, <2>1, InstrumentAdded DEF TryAddInstrument
<1>2. CASE TryCloneInstrument
  <2>1. PICK i \in Slots, old \in Slots :
          InstrumentAt(document, old) /\ AddInstrument(i, document.instruments[old])
    BY <1>2 DEF TryCloneInstrument
  <2>2. document.instruments[old] \in Instrument
    BY <2>1 DEF SafeDocument, InstrumentAt
  <2> QED BY <2>1, <2>2, InstrumentAdded
<1>3. CASE EditInstrument
  <2>1. PICK i \in Slots :
          /\ InstrumentAt(document, i)
          /\ \/ PushEdit(Command("AddRemoveInstrument", i, None))
             \/ \E n \in Names : PushEdit(Command("RenameInstrument", i, n))
             \/ \E s \in Slots : PushEdit(Command("SetPatch", i, s))
    BY <1>3 DEF EditInstrument
  <2>2. CASE PushEdit(Command("AddRemoveInstrument", i, None))
    <3> DEFINE c == Command("AddRemoveInstrument", i, None)
    <3>1. c \in PlainCommands
      BY DEF Command, PlainCommands
    <3>2. Applicable(c, document)
      BY <2>1 DEF Command, Applicable
    <3> QED BY <2>2, <3>1, <3>2 DEF Allowed
  <2>3. CASE \E n \in Names : PushEdit(Command("RenameInstrument", i, n))
    <3>1. PICK n \in Names : PushEdit(Command("RenameInstrument", i, n))
      BY <2>3
    <3> DEFINE c == Command("RenameInstrument", i, n)
    <3>2. c \in PlainCommands
      BY DEF Command, PlainCommands
    <3>3. Applicable(c, document)
      BY <2>1 DEF Command, Applicable
    <3> QED BY <3>1, <3>2, <3>3 DEF Allowed
  <2>4. CASE \E s \in Slots : PushEdit(Command("SetPatch", i, s))
    <3>1. PICK s \in Slots : PushEdit(Command("SetPatch", i, s))
      BY <2>4
    <3>2. Untracked(Command("SetPatch", i, s), document)
      BY <2>1 DEF Command, Untracked
    <3> QED BY <3>1, <3>2 DEF Allowed
  <2> QED BY <2>1, <2>2, <2>3, <2>4
<1>4. CASE SwapInstruments
  <2>1. PICK a \in Slots, b \in Slots : PushEdit(Command("SwapInstruments", <<a, b>>, None))
    BY <1>4 DEF SwapInstruments
  <2> DEFINE c == Command("SwapInstruments", <<a, b>>, None)
  <2>2. c \in PlainCommands
    BY DEF Command, PlainCommands
  <2>3. Applicable(c, document)
    BY DEF Command, Applicable
  <2> QED BY <2>1, <2>2, <2>3 DEF Allowed
<1> QED BY <1>1, <1>2, <1>3, <1>4

(* ... putting a sample into a slot, ...                                   *)
LEMMA SampleAdded ==
  ASSUME NEW i \in Slots, NEW x \in SafeSample,
         AddSample(i, x) \/ PushEdit(Command("ReplaceSample", i, x))
  PROVE  \E c : PushEdit(c) /\ Allowed(c, document)
<1>1. CASE AddSample(i, x)
  <2> DEFINE c == Command("AddRemoveSample", i, x)
  <2>1. PushEdit(c)
    BY <1>1 DEF AddSample
  <2>2. c \in PlainCommands
    BY DEF Command, PlainCommands
  <2>3. x # None
    BY NoneAssumption DEF SafeSample
  <2>4. Applicable(c, document)
    <3>1. c.class = "AddRemoveSample" /\ c.at = i /\ c.value = x
      BY DEF Command
    <3>2. document.samples[i] = None
      BY <1>1 DEF AddSample, SampleAt
    <3> HIDE DEF c
    <3>3. (c.value = None) = SampleAt(document, c.at)
      BY <2>3, <3>1, <3>2 DEF SampleAt
    <3> QED BY <3>1, <3>3 DEF Applicable
  <2> QED BY <2>1, <2>2, <2>4 DEF Allowed
<1>2. CASE PushEdit(Command("ReplaceSample", i, x))
  <2> DEFINE c == Command("ReplaceSample", i, x)
  <2>1. c \in PlainCommands
    BY DEF Command, PlainCommands
  <2>2. Applicable(c, document)
    BY DEF Command, Applicable
  <2> QED BY <1>2, <2>1, <2>2 DEF Allowed
<1> QED BY <1>1, <1>2

(* ... and every edit of the samples: import_sample() and the spin box     *)
(* keep loop points inside the data.                                       *)
LEMMA SampleEdits ==
  ASSUME document \in SafeDocument,
         LoadSample \/ TryCloneSample \/ EditSample \/ SwapSamples
  PROVE  \E c : PushEdit(c) /\ Allowed(c, document)
<1>0. document.samples \in [Slots -> SafeSample \cup {None}]
  BY DEF SafeDocument
<1>1. CASE LoadSample
  <2>1. PICK i \in Slots, n \in FileNames, brr \in 1 .. MaxBrr,
             header \in (0 .. MaxBrr) \cup {None} :
          LET old == document.samples[i]
              loop == IF header # None THEN header
                      ELSE IF old # None THEN old.loop_byte ELSE 0
              sample == [name |-> n, brr |-> brr, loop_byte |-> LoopFor(loop, brr)]
          IN  AddSample(i, sample) \/ PushEdit(Command("ReplaceSample", i, sample))
    BY <1>1 DEF LoadSample
  <2> DEFINE old == document.samples[i]
             loop == IF header # None THEN header
                     ELSE IF old # None THEN old.loop_byte ELSE 0
             sample == [name |-> n, brr |-> brr, loop_byte |-> LoopFor(loop, brr)]
  <2>2. loop \in Nat
    <3>1. old # None => old.loop_byte \in Nat
      BY <1>0 DEF SafeSample, Sample
    <3> HIDE DEF old
    <3> QED BY <3>1
  <2> HIDE DEF loop
  <2>3. LoopFor(loop, brr) \in Nat /\ LoopFor(loop, brr) < brr
    BY <2>2 DEF LoopFor
  <2>4. sample \in SafeSample
    <3> DEFINE at == LoopFor(loop, brr)
    <3>1. at \in Nat /\ at < brr /\ n \in Names /\ brr \in 1 .. MaxBrr
      BY <2>3, FileNamesAssumption
    <3> HIDE DEF at
    <3> QED BY <3>1 DEF SafeSample, Sample, LoopInside, at
  <2>5. AddSample(i, sample) \/ PushEdit(Command("ReplaceSample", i, sample))
    BY <2>1 DEF loop
  <2> HIDE DEF sample
  <2> QED BY <2>4, <2>5, SampleAdded
<1>2. CASE TryCloneSample
  <2>1. PICK i \in Slots, old \in Slots :
          SampleAt(document, old) /\ AddSample(i, document.samples[old])
    BY <1>2 DEF TryCloneSample
  <2>2. document.samples[old] \in SafeSample
    BY <1>0, <2>1 DEF SampleAt
  <2> QED BY <2>1, <2>2, SampleAdded
<1>3. CASE EditSample
  <2>1. PICK i \in Slots :
          /\ SampleAt(document, i)
          /\ \/ PushEdit(Command("AddRemoveSample", i, None))
             \/ \E n \in Names : PushEdit(Command("RenameSample", i, n))
             \/ SetLoopByte(i)
    BY <1>3 DEF EditSample
  <2>2. CASE PushEdit(Command("AddRemoveSample", i, None))
    <3> DEFINE c == Command("AddRemoveSample", i, None)
    <3>1. c \in PlainCommands
      BY DEF Command, PlainCommands
    <3>2. Applicable(c, document)
      BY <2>1 DEF Command, Applicable
    <3> QED BY <2>2, <3>1, <3>2 DEF Allowed
  <2>3. CASE \E n \in Names : PushEdit(Command("RenameSample", i, n))
    <3>1. PICK n \in Names : PushEdit(Command("RenameSample", i, n))
      BY <2>3
    <3> DEFINE c == Command("RenameSample", i, n)
    <3>2. c \in PlainCommands
      BY DEF Command, PlainCommands
    <3>3. Applicable(c, document)
      BY <2>1 DEF Command, Applicable
    <3> QED BY <3>1, <3>2, <3>3 DEF Allowed
  <2>4. CASE SetLoopByte(i)
    <3>1. PICK loop \in {0} \cup 0 .. document.samples[i].brr - 1 :
            PushEdit(Command("SetSampleMetadata", i,
              [document.samples[i] EXCEPT !.brr = 0, !.loop_byte = loop]))
      BY <2>4 DEF SetLoopByte
    <3> DEFINE x == [document.samples[i] EXCEPT !.brr = 0, !.loop_byte = loop]
               c == Command("SetSampleMetadata", i, x)
    <3>2. Untracked(c, document)
      <4>1. c.class = "SetSampleMetadata" /\ c.at = i /\ c.value = x
        BY DEF Command
      <4> HIDE DEF c
      <4> QED BY <2>1, <4>1 DEF Untracked
    <3> QED BY <3>1, <3>2 DEF Allowed
  <2> QED BY <2>1, <2>2, <2>3, <2>4
<1>4. CASE SwapSamples
  <2>1. PICK a \in Slots, b \in Slots : PushEdit(Command("SwapSamples", <<a, b>>, None))
    BY <1>4 DEF SwapSamples
  <2> DEFINE c == Command("SwapSamples", <<a, b>>, None)
  <2>2. c \in PlainCommands
    BY DEF Command, PlainCommands
  <2>3. Applicable(c, document)
    BY DEF Command, Applicable
  <2> QED BY <2>1, <2>2, <2>3 DEF Allowed
<1> QED BY <1>1, <1>2, <1>3, <1>4

(* The panels push nothing that would fail an assertion.                   *)
LEMMA EditIsAllowed ==
  ASSUME document \in SafeDocument, Edit
  PROVE  \E c : PushEdit(c) /\ Allowed(c, document)
  BY OptionEdits, PatternEdits, InstrumentEdits, SampleEdits DEF Edit

-----------------------------------------------------------------------------
(* The inductive invariant, and what follows from it.                      *)

(* The inductive invariant: both stacks are chains from the document. That *)
(* the top command applies is not enough: the next one must apply once the *)
(* top has been undone, whatever untracked edits came between.             *)
HistoryInv ==
  /\ document \in SafeDocument /\ saved \in SafeDocument
  /\ dirty \in BOOLEAN /\ edits \in 0 .. MaxEdits
  /\ undo_stack \in Seq(PlainCommands) /\ redo_stack \in Seq(PlainCommands)
  /\ Len(undo_stack) + Len(redo_stack) <= edits
  /\ Chain(undo_stack, document) /\ Chain(redo_stack, document)

(* A document that is opened is safe.                                      *)
LEMMA OpenedIsSafe ==
  ASSUME NEW d \in InitialDocuments
  PROVE  d \in SafeDocument
<1>1. d \in Document
  BY InitialDocumentsAssumption
<1>2. \A i \in Slots : d.samples[i] \in SafeSample \cup {None}
  BY <1>1, InitialLoopsAssumption DEF Document, SafeSample, SampleAt
<1> QED BY <1>1, <1>2 DEF Document, SafeDocument

(* An edit keeps the invariant, merged or not, tracked or not.             *)
LEMMA PushKeepsInv ==
  ASSUME HistoryInv, NEW c, PushEdit(c), Allowed(c, document)
  PROVE  HistoryInv'
<1> DEFINE d == document
           e == DocAfter(c, d)
<1>1. /\ d \in SafeDocument /\ document' = e
      /\ undo_stack \in Seq(PlainCommands) /\ redo_stack \in Seq(PlainCommands)
      /\ Chain(undo_stack, d) /\ Chain(redo_stack, d)
  BY DEF HistoryInv, PushEdit
<1>2. /\ saved' \in SafeDocument /\ dirty' \in BOOLEAN /\ edits' \in 0 .. MaxEdits
      /\ edits' = edits + 1 /\ edits \in Nat
      /\ Len(undo_stack) + Len(redo_stack) <= edits
  BY MaxEditsAssumption DEF HistoryInv, PushEdit
<1>3. CASE Untracked(c, d)
  <2>1. undo_stack' = undo_stack /\ redo_stack' = redo_stack
    BY <1>3 DEF PushEdit, PushTracked, SaveInHistory, Untracked
  <2>2. e \in SafeDocument /\ SameView(d, e)
    BY <1>1, <1>3, UntrackedSameView, SameViewSymmetric
  <2> HIDE DEF d, e
  <2>3. Chain(undo_stack, e) /\ Chain(redo_stack, e)
    BY <1>1, <2>2, ChainSameView DEF Chain
  <2> QED BY <1>1, <1>2, <2>1, <2>2, <2>3 DEF HistoryInv
<1>4. CASE c \in PlainCommands /\ Applicable(c, d)
  <2>1. SaveInHistory(c)
    BY <1>4, CommandKinds DEF SaveInHistory
  <2>2. e \in SafeDocument /\ CmdAfter(c, d) \in PlainCommands
    BY <1>1, <1>4, CommandSwapsBack DEF SwapsBack
  <2>3. redo_stack' = <<>> /\ Chain(<<>>, e) /\ redo_stack' \in Seq(PlainCommands)
    BY <2>1, <2>2, ChainEmpty DEF PushEdit, PushTracked
  <2>4. CASE Merges(c)
    <3>1. undo_stack' = undo_stack
      BY <2>1, <2>4 DEF PushEdit, PushTracked
    <3>2. undo_stack # <<>> /\ CanMerge(c, Top(undo_stack))
      BY <2>4 DEF Merges
    <3>3. Chain(undo_stack, e)
      BY <1>1, <1>4, <3>2, ChainMerge DEF Chain
    <3>4. Len(undo_stack') + Len(redo_stack') <= edits'
      BY <1>1, <1>2, <2>3, <3>1
    <3> HIDE DEF d, e
    <3> QED BY <1>1, <1>2, <2>2, <2>3, <3>1, <3>3, <3>4 DEF HistoryInv
  <2>5. CASE ~Merges(c)
    <3>1. undo_stack' = Append(undo_stack, CmdAfter(c, d))
      BY <2>1, <2>5 DEF PushEdit, PushTracked
    <3>2. Chain(undo_stack', e)
      BY <1>1, <1>4, <3>1, ChainPush DEF Chain
    <3>3. undo_stack' \in Seq(PlainCommands) /\ Len(undo_stack') = Len(undo_stack) + 1
      BY <1>1, <2>2, <3>1, AppendProperties
    <3>4. Len(undo_stack') + Len(redo_stack') <= edits'
      BY <1>1, <1>2, <2>3, <3>3
    <3> HIDE DEF d, e
    <3> QED BY <1>1, <1>2, <2>2, <2>3, <3>2, <3>3, <3>4 DEF HistoryInv
  <2> QED BY <2>4, <2>5
<1> QED BY <1>3, <1>4 DEF Allowed

(* Undo and redo take a command from one chain and extend the other.       *)
LEMMA MoveKeepsChains ==
  ASSUME NEW d \in SafeDocument,
         NEW from \in Seq(PlainCommands), NEW to \in Seq(PlainCommands),
         from # <<>>, Chain(from, d), Chain(to, d)
  PROVE  LET c == Top(from)
             e == DocAfter(c, d)
             pushed == Append(to, CmdAfter(c, d))
         IN  /\ e \in SafeDocument
             /\ Popped(from) \in Seq(PlainCommands) /\ Chain(Popped(from), e)
             /\ pushed \in Seq(PlainCommands) /\ Chain(pushed, e)
             /\ Len(Popped(from)) + Len(pushed) = Len(from) + Len(to)
<1> DEFINE c == Top(from)
           r == CmdAfter(c, d)
           e == DocAfter(c, d)
           pushed == Append(to, r)
<1>1. /\ c \in PlainCommands /\ Applicable(c, d) /\ e \in SafeDocument
      /\ Popped(from) \in Seq(PlainCommands) /\ Chain(Popped(from), e)
  BY ChainTop DEF Chain
<1>2. r \in PlainCommands
  BY <1>1, CommandSwapsBack DEF SwapsBack
<1>3. Chain(pushed, e)
  BY <1>1, ChainPush DEF Chain
<1>4. pushed \in Seq(PlainCommands) /\ Len(pushed) = Len(to) + 1
  <2> HIDE DEF r
  <2> QED BY <1>2, AppendProperties
<1>5. Len(Popped(from)) = Len(from) - 1
  BY ChainTop DEF Chain
<1>6. Len(from) \in Nat /\ Len(to) \in Nat
  OBVIOUS
<1> HIDE DEF c, r, e, pushed
<1>7. Len(Popped(from)) + Len(pushed) = Len(from) + Len(to)
  BY <1>4, <1>5, <1>6
<1> QED BY <1>1, <1>3, <1>4, <1>7 DEF c, r, e, pushed

(* A new history has the invariant.                                        *)
LEMMA InitHistoryInv ==
  ASSUME Init
  PROVE  HistoryInv
<1>1. document \in SafeDocument
  BY OpenedIsSafe DEF Init
<1>2. Chain(<<>>, document)
  BY <1>1, ChainEmpty
<1>3. undo_stack = <<>> /\ redo_stack = <<>> /\ saved = document /\ dirty = FALSE /\ edits = 0
  BY DEF Init
<1>4. Len(undo_stack) + Len(redo_stack) <= edits /\ undo_stack \in Seq(PlainCommands)
  BY <1>3
<1>5. 0 \in 0 .. MaxEdits
  BY MaxEditsAssumption
<1> QED BY <1>1, <1>2, <1>3, <1>4, <1>5 DEF HistoryInv

(* Opening a document starts a new history.                                *)
LEMMA OpenKeepsInv ==
  ASSUME HistoryInv, OpenDocument
  PROVE  HistoryInv'
<1>1. document' \in SafeDocument
  BY OpenedIsSafe DEF OpenDocument
<1>2. Chain(<<>>, document')
  BY <1>1, ChainEmpty
<1>3. /\ undo_stack' = <<>> /\ redo_stack' = <<>> /\ saved' = document'
      /\ dirty' = FALSE /\ edits' = edits /\ edits \in 0 .. MaxEdits
  BY DEF OpenDocument, HistoryInv
<1>4. Len(undo_stack') + Len(redo_stack') <= edits' /\ undo_stack' \in Seq(PlainCommands)
  BY <1>3
<1> QED BY <1>1, <1>2, <1>3, <1>4 DEF HistoryInv

(* Every step keeps the invariant.                                         *)
LEMMA StepHistoryInv ==
  ASSUME HistoryInv, [Next]_vars
  PROVE  HistoryInv'
<1>1. CASE Edit
  <2>1. PICK c : PushEdit(c) /\ Allowed(c, document)
    BY <1>1, EditIsAllowed DEF HistoryInv
  <2> QED BY <2>1, PushKeepsInv
<1>2. CASE Undo
  <2> DEFINE c == Top(undo_stack)
  <2>1. /\ undo_stack # <<>> /\ document' = DocAfter(c, document)
        /\ undo_stack' = Popped(undo_stack)
        /\ redo_stack' = Append(redo_stack, CmdAfter(c, document))
        /\ dirty' = TRUE /\ saved' = saved /\ edits' = edits
    BY <1>2 DEF Undo
  <2> HIDE DEF c
  <2>2. /\ document' \in SafeDocument
        /\ undo_stack' \in Seq(PlainCommands) /\ Chain(undo_stack', document')
        /\ redo_stack' \in Seq(PlainCommands) /\ Chain(redo_stack', document')
        /\ Len(undo_stack') + Len(redo_stack') = Len(undo_stack) + Len(redo_stack)
    BY <2>1, MoveKeepsChains DEF HistoryInv, c
  <2> QED BY <2>1, <2>2 DEF HistoryInv
<1>3. CASE Redo
  <2> DEFINE c == Top(redo_stack)
  <2>1. /\ redo_stack # <<>> /\ document' = DocAfter(c, document)
        /\ redo_stack' = Popped(redo_stack)
        /\ undo_stack' = Append(undo_stack, CmdAfter(c, document))
        /\ dirty' = TRUE /\ saved' = saved /\ edits' = edits
    BY <1>3 DEF Redo
  <2> HIDE DEF c
  <2>2. /\ document' \in SafeDocument
        /\ undo_stack' \in Seq(PlainCommands) /\ Chain(undo_stack', document')
        /\ redo_stack' \in Seq(PlainCommands) /\ Chain(redo_stack', document')
        /\ Len(redo_stack') + Len(undo_stack') = Len(redo_stack) + Len(undo_stack)
    BY <2>1, MoveKeepsChains DEF HistoryInv, c
  <2>3. Len(undo_stack) \in Nat /\ Len(redo_stack) \in Nat
        /\ Len(undo_stack') \in Nat /\ Len(redo_stack') \in Nat
    BY <2>2 DEF HistoryInv
  <2> QED BY <2>1, <2>2, <2>3 DEF HistoryInv
<1>4. CASE Save
  BY <1>4 DEF Save, HistoryInv
<1>5. CASE OpenDocument
  BY <1>5, OpenKeepsInv
<1>6. CASE UNCHANGED vars
  BY <1>6 DEF vars, HistoryInv
<1> QED BY <1>1, <1>2, <1>3, <1>4, <1>5, <1>6 DEF Next

(* Both stacks always lead through states where their commands apply.      *)
THEOREM HistoryHolds == Spec => []HistoryInv
  BY InitHistoryInv, StepHistoryInv, PTL DEF Spec

(* Every state of the history is well-typed, and the stacks never hold     *)
(* more commands than were pushed.                                         *)
THEOREM TypeCorrect == Spec => []TypeOK
<1>1. HistoryInv /\ AudioMatches => TypeOK
  <2>1. \A d \in SafeDocument : d \in Document
    BY DEF SafeDocument, Document, SafeSample
  <2> QED BY <2>1 DEF HistoryInv, AudioMatches, TypeOK
<1> QED BY <1>1, HistoryHolds, AudioFollows, PTL

(* The top of a chain applies in the GUI, and its copy in the audio        *)
(* thread.                                                                 *)
LEMMA TopIsApplicable ==
  ASSUME NEW stack \in Seq(PlainCommands), document \in SafeDocument,
         Chain(stack, document), AudioMatches
  PROVE  TopApplies(stack)
<1> SUFFICES ASSUME stack # <<>>
             PROVE  /\ Applicable(Top(stack), document)
                    /\ Applicable(CloneForAudio(Top(stack), document), document)
  BY DEF TopApplies, AudioMatches
<1>1. Applicable(Top(stack), document)
  BY ChainTop DEF Chain
<1>2. \A c : Applicable(c, document) => Applicable(CloneForAudio(c, document), document)
  BY DEF CloneForAudio, Command, Applicable
<1> QED BY <1>1, <1>2

(* No undo or redo, whatever came before it, fails an assertion of         *)
(* apply_swap() or leaves its vectors, in either thread.                   *)
THEOREM EditsAlwaysApply == Spec => []EditsApply
<1>1. HistoryInv /\ AudioMatches => EditsApply
  BY TopIsApplicable DEF HistoryInv, EditsApply
<1> QED BY <1>1, HistoryHolds, AudioFollows, PTL

(* Undo followed by redo is a no-op, as edit_common.h asks.                *)
THEOREM RedoUndoesUndo == Spec => []UndoRedoIsNoop
<1>1. HistoryInv => UndoRedoIsNoop
  <2> SUFFICES ASSUME HistoryInv, undo_stack # <<>>
               PROVE  SwapsBack(Top(undo_stack), document)
    BY DEF UndoRedoIsNoop, SwapsBack
  <2> QED BY ChainTop, CommandSwapsBack DEF HistoryInv, Chain
<1> QED BY <1>1, HistoryHolds, PTL

(* Imports, untracked edits of the loop point, undo and redo never leave a *)
(* loop point outside its sample's data, which reload_samples() asserts.   *)
THEOREM SamplesLoopInside == Spec => []LoopsInsideSamples
<1>1. HistoryInv => LoopsInsideSamples
  BY DEF HistoryInv, SafeDocument, SafeSample, LoopsInsideSamples, SampleAt
<1> QED BY <1>1, HistoryHolds, PTL

-----------------------------------------------------------------------------
(* The line of states the refinement maps a stack to.                      *)

(* Induction over the numbers up to n, for a set.                          *)
LEMMA CountUp ==
  ASSUME NEW n \in Nat, NEW S, 0 \in S, \A k \in 1 .. n : k - 1 \in S => k \in S
  PROVE  \A k \in 0 .. n : k \in S
<1> SUFFICES ASSUME {k \in 0 .. n : k \notin S} # {} PROVE FALSE
  OBVIOUS
<1> DEFINE T == {k \in 0 .. n : k \notin S}
<1>1. T \subseteq Nat /\ T # {}
  OBVIOUS
<1>2. PICK x \in T : \A y \in T : ~ (<<y, x>> \in OpToRel(<, Nat))
  BY <1>1, NatLessThanWellFounded, WFMin
<1>3. x \in 1 .. n /\ x - 1 \in 0 .. n /\ x - 1 < x
  OBVIOUS
<1>4. x - 1 \notin T
  <2>1. <<x - 1, x>> \in OpToRel(<, Nat)
    BY <1>3 DEF OpToRel
  <2> QED BY <1>2, <2>1
<1>5. x - 1 \in S
  BY <1>3, <1>4
<1> QED BY <1>2, <1>3, <1>5

(* The documents met from d by applying the top m commands of a stack.     *)
Rewound(f, m, d, stack) ==
  f = [k \in 0 .. m |->
         IF k = 0 THEN d ELSE DocAfter(stack[Len(stack) + 1 - k], f[k - 1])]

(* There are such documents: the recursive function of Line is one.        *)
LEMMA RewoundExists ==
  ASSUME NEW d, NEW stack, NEW m \in Nat
  PROVE  \E f : Rewound(f, m, d, stack)
<1> DEFINE n == Len(stack)
           step(k, x) == DocAfter(stack[n + 1 - k], x)
           S == {j \in 0 .. m : \E f : Rewound(f, j, d, stack)}
<1>1. 0 \in S
  <2> DEFINE f == [k \in 0 .. 0 |-> d]
  <2>1. f = [k \in 0 .. 0 |-> IF k = 0 THEN d ELSE DocAfter(stack[n + 1 - k], f[k - 1])]
    OBVIOUS
  <2> HIDE DEF f
  <2>2. Rewound(f, 0, d, stack)
    BY <2>1 DEF Rewound
  <2> QED BY <2>2
<1>2. ASSUME NEW j \in 1 .. m, j - 1 \in S PROVE j \in S
  <2>1. PICK f : Rewound(f, j - 1, d, stack)
    BY <1>2
  <2> HIDE DEF n
  <2>2. f = [k \in 0 .. j - 1 |-> IF k = 0 THEN d ELSE step(k, f[k - 1])]
    BY <2>1 DEF Rewound, n
  <2> HIDE DEF step
  <2> DEFINE g == [k \in 0 .. j |-> IF k = j THEN step(j, f[j - 1]) ELSE f[k]]
             h == [k \in 0 .. j |-> IF k = 0 THEN d ELSE step(k, g[k - 1])]
  <2>3. ASSUME NEW k \in 0 .. j PROVE g[k] = h[k]
    <3>1. CASE k = 0
      <4>1. k # j /\ k \in 0 .. j - 1
        BY <3>1
      <4> QED BY <2>2, <3>1, <4>1
    <3>2. CASE k # 0 /\ k # j
      <4>1. k \in 0 .. j - 1 /\ k - 1 \in 0 .. j /\ k - 1 # j
        BY <3>2
      <4>2. g[k] = f[k] /\ g[k - 1] = f[k - 1]
        BY <3>2, <4>1
      <4>3. f[k] = step(k, f[k - 1])
        BY <2>2, <3>2, <4>1
      <4> QED BY <3>2, <4>2, <4>3
    <3>3. CASE k # 0 /\ k = j
      <4>1. k - 1 \in 0 .. j /\ k - 1 # j
        BY <3>3
      <4> QED BY <3>3, <4>1
    <3> QED BY <3>1, <3>2, <3>3
  <2>4. g = h
    BY <2>3
  <2>5. Rewound(g, j, d, stack)
    BY <2>4 DEF Rewound, step, n
  <2> QED BY <2>5
<1> HIDE DEF S
<1>3. \A j \in 0 .. m : j \in S
  BY <1>1, <1>2, CountUp
<1> QED BY <1>3 DEF S

(* What the abstract history sees does not depend on untracked edits.      *)
LEMMA SameViewEqual ==
  ASSUME NEW d \in SafeDocument, NEW e \in SafeDocument, SameView(d, e)
  PROVE  View(d) = View(e)
<1> SUFFICES ASSUME NEW p \in Places
             PROVE  View(d)[p] = View(e)[p]
  BY DEF View
<1>1. CASE p \in {"tempo", "beats_per_measure", "blocks"} \X {0}
  <2>1. p[1] \in {"tempo", "beats_per_measure", "blocks"}
    BY <1>1
  <2> QED BY <2>1 DEF SameView, View
<1>2. CASE p \in {"instrument", "sample", "brr"} \X Slots
  <2>1. p[1] \in {"instrument", "sample", "brr"} /\ p[2] \in Slots
    BY <1>2
  <2>2. /\ SameInstrumentView(d.instruments[p[2]], e.instruments[p[2]])
        /\ SameSampleView(d.samples[p[2]], e.samples[p[2]])
    BY <2>1 DEF SameView
  <2>3. NameOf(d.instruments[p[2]]) = NameOf(e.instruments[p[2]])
    BY <2>2 DEF SameInstrumentView, NameOf
  <2>4. NameOf(d.samples[p[2]]) = NameOf(e.samples[p[2]])
    BY <2>2 DEF SameSampleView, NameOf
  <2>5. (IF SampleAt(d, p[2]) THEN d.samples[p[2]].brr ELSE None) =
        (IF SampleAt(e, p[2]) THEN e.samples[p[2]].brr ELSE None)
    BY <2>2 DEF SameSampleView, SampleAt
  <2> QED BY <2>1, <2>3, <2>4, <2>5 DEF View
<1> QED BY <1>1, <1>2 DEF Places

(* The line a stack stands for is the view of any chain of it.             *)
LEMMA LineOfChain ==
  ASSUME NEW stack \in Seq(PlainCommands), NEW s, NEW d \in SafeDocument,
         IsChain(s, stack, d)
  PROVE  Line(d, stack) = [j \in 1 .. Len(stack) |-> View(s[j - 1])]
<1> DEFINE n == Len(stack)
           after == CHOOSE f : Rewound(f, n, d, stack)
<1>1. n \in Nat
  OBVIOUS
<1>2. Line(d, stack) = [j \in 1 .. n |-> View(after[n + 1 - j])]
  BY DEF Line, Rewound
<1>3. Rewound(after, n, d, stack)
  BY <1>1, RewoundExists
<1>4. /\ s \in [0 .. n -> SafeDocument]
      /\ SameView(s[n], d)
      /\ \A k \in 1 .. n :
           /\ stack[k] \in PlainCommands
           /\ Applicable(stack[k], s[k])
           /\ SameView(DocAfter(stack[k], s[k]), s[k - 1])
  BY DEF IsChain
<1> HIDE DEF after
<1>5. /\ after[0] = d
      /\ \A k \in 1 .. n : after[k] = DocAfter(stack[n + 1 - k], after[k - 1])
  <2>1. after = [k \in 0 .. n |-> IF k = 0 THEN d ELSE DocAfter(stack[n + 1 - k], after[k - 1])]
    BY <1>3 DEF Rewound
  <2> HIDE DEF n
  <2>2. 0 \in 0 .. n /\ \A k \in 1 .. n : k \in 0 .. n /\ k # 0
    BY <1>1
  <2> QED BY <2>1, <2>2
<1> HIDE DEF n
<1> DEFINE S == {k \in 0 .. n : after[k] \in SafeDocument /\ SameView(s[n - k], after[k])}
<1>6. 0 \in S
  BY <1>1, <1>4, <1>5
<1>7. ASSUME NEW k \in 1 .. n, k - 1 \in S PROVE k \in S
  <2> DEFINE i == n + 1 - k
             c == stack[i]
             x == s[i]
             y == after[k - 1]
  <2>1. i \in 1 .. n /\ i \in 0 .. n /\ n - (k - 1) = i /\ n - k = i - 1 /\ k \in 0 .. n
        /\ i - 1 \in 0 .. n
    BY <1>1
  <2>2. /\ x \in SafeDocument /\ c \in PlainCommands /\ Applicable(c, x)
        /\ SameView(DocAfter(c, x), s[i - 1])
    BY <1>4, <2>1
  <2>3. y \in SafeDocument /\ SameView(x, y)
    BY <1>7, <2>1
  <2>4. after[k] = DocAfter(c, y)
    BY <1>5
  <2> HIDE DEF i, c, x, y
  <2>5. Applicable(c, y)
    BY <2>2, <2>3, SameViewApplies
  <2>6. DocAfter(c, y) \in SafeDocument
    BY <2>2, <2>3, <2>5, CommandSwapsBack DEF SwapsBack
  <2>7. SameView(DocAfter(c, x), DocAfter(c, y))
    BY <2>2, <2>3, SameViewAfter
  <2>8. SameView(s[i - 1], DocAfter(c, y))
    BY <2>2, <2>7, SameViewSymmetric, SameViewTransitive
  <2> QED BY <2>1, <2>4, <2>6, <2>8
<1> HIDE DEF S
<1>8. \A k \in 0 .. n : k \in S
  BY <1>1, <1>6, <1>7, CountUp
<1>9. ASSUME NEW j \in 1 .. n PROVE View(after[n + 1 - j]) = View(s[j - 1])
  <2>1. n + 1 - j \in 0 .. n /\ n - (n + 1 - j) = j - 1 /\ j - 1 \in 0 .. n
    BY <1>1
  <2>2. after[n + 1 - j] \in SafeDocument /\ SameView(s[j - 1], after[n + 1 - j])
    BY <1>8, <2>1 DEF S
  <2>3. s[j - 1] \in SafeDocument
    BY <1>4, <2>1
  <2> QED BY <2>2, <2>3, SameViewEqual
<1>10. Line(d, stack) = [j \in 1 .. n |-> View(s[j - 1])]
  BY <1>2, <1>9
<1> QED BY <1>10 DEF n

(* The one place that a command which can be merged edits.                 *)
PlaceOf(c) ==
  CASE c.class = "SetTempo" -> <<"tempo", 0>>
    [] c.class = "SetBeatsPerMeasure" -> <<"beats_per_measure", 0>>
    [] c.class = "RenameInstrument" -> <<"instrument", c.at>>
    [] c.class = "RenameSample" -> <<"sample", c.at>>

(* Such a command leaves all other places alone.                           *)
LEMMA EditedInOnePlace ==
  ASSUME NEW d \in SafeDocument, NEW c \in PlainCommands, Applicable(c, d),
         c.class \in {"SetTempo", "SetBeatsPerMeasure", "RenameInstrument", "RenameSample"}
  PROVE  PlaceOf(c) \in MergeablePlaces
         /\ \A q \in Places \ {PlaceOf(c)} : View(DocAfter(c, d))[q] = View(d)[q]
<1> DEFINE e == DocAfter(c, d)
<1>1. CASE c.class = "SetTempo"
  <2>1. PlaceOf(c) = <<"tempo", 0>>
    BY <1>1 DEF PlaceOf
  <2>2. PlaceOf(c) \in MergeablePlaces
    BY <2>1 DEF MergeablePlaces, Places
  <2>3. e = [d EXCEPT !.options = [d.options EXCEPT !.target_tempo = c.value]]
    BY <1>1 DEF DocAfter
  <2>4. d.options \in SequencerOptions
    BY DEF SafeDocument
  <2>5. /\ e.options.beats_per_measure = d.options.beats_per_measure
        /\ e.blocks = d.blocks /\ e.instruments = d.instruments /\ e.samples = d.samples
    BY <2>3, <2>4 DEF SafeDocument, SequencerOptions
  <2> HIDE DEF e
  <2>6. ASSUME NEW q \in Places, q # <<"tempo", 0>> PROVE q[1] # "tempo"
    BY <2>6 DEF Places
  <2>7. ASSUME NEW q \in Places, q # <<"tempo", 0>> PROVE View(e)[q] = View(d)[q]
    <3>1. q[1] # "tempo"
      BY <2>6, <2>7
    <3>2. CASE q[1] \in {"beats_per_measure", "blocks", "instrument", "sample"}
      BY <2>5, <3>2 DEF View
    <3>3. CASE q[1] = "brr"
      BY <2>5, <3>3 DEF View, SampleAt
    <3>4. q[1] \in {"tempo", "beats_per_measure", "blocks", "instrument", "sample", "brr"}
      BY DEF Places
    <3> QED BY <3>1, <3>2, <3>3, <3>4
  <2> QED BY <2>1, <2>2, <2>7 DEF e
<1>2. CASE c.class = "SetBeatsPerMeasure"
  <2>1. PlaceOf(c) = <<"beats_per_measure", 0>>
    BY <1>2 DEF PlaceOf
  <2>2. PlaceOf(c) \in MergeablePlaces
    BY <2>1 DEF MergeablePlaces, Places
  <2>3. e = [d EXCEPT !.options = [d.options EXCEPT !.beats_per_measure = c.value]]
    BY <1>2 DEF DocAfter
  <2>4. d.options \in SequencerOptions
    BY DEF SafeDocument
  <2>5. /\ e.options.target_tempo = d.options.target_tempo
        /\ e.blocks = d.blocks /\ e.instruments = d.instruments /\ e.samples = d.samples
    BY <2>3, <2>4 DEF SafeDocument, SequencerOptions
  <2> HIDE DEF e
  <2>6. ASSUME NEW q \in Places, q # <<"beats_per_measure", 0>>
        PROVE  q[1] # "beats_per_measure"
    BY <2>6 DEF Places
  <2>7. ASSUME NEW q \in Places, q # <<"beats_per_measure", 0>>
        PROVE  View(e)[q] = View(d)[q]
    BY <2>5, <2>6, <2>7 DEF View, SampleAt
  <2> QED BY <2>1, <2>2, <2>7 DEF e
<1>3. CASE c.class = "RenameInstrument"
  <2> DEFINE f == d.instruments
             k == c.at
             g == [f EXCEPT ![k] = [f[k] EXCEPT !.name = c.value]]
  <2>1. PlaceOf(c) = <<"instrument", k>>
    BY <1>3 DEF PlaceOf
  <2>2. k \in Slots /\ f \in [Slots -> Instrument \cup {None}]
    BY <1>3, CommandKinds DEF SafeDocument
  <2>3. PlaceOf(c) \in MergeablePlaces
    BY <2>1, <2>2 DEF MergeablePlaces, Places
  <2>4. e = [d EXCEPT !.instruments = g]
    BY <1>3 DEF DocAfter
  <2>5. /\ e.instruments = g /\ e.options = d.options
        /\ e.blocks = d.blocks /\ e.samples = d.samples
    BY <2>4 DEF SafeDocument
  <2> HIDE DEF k, e
  <2>6. \A i \in Slots : i # k => e.instruments[i] = d.instruments[i]
    BY <2>2, <2>5
  <2>7. ASSUME NEW q \in Places, q # <<"instrument", k>>, q[1] = "instrument"
        PROVE  q[2] \in Slots /\ q[2] # k
    BY <2>7 DEF Places
  <2>8. ASSUME NEW q \in Places, q # <<"instrument", k>>
        PROVE  View(e)[q] = View(d)[q]
    <3>1. CASE q[1] = "instrument"
      BY <2>6, <2>7, <2>8, <3>1 DEF View
    <3>2. CASE q[1] # "instrument"
      <4> HIDE DEF g, f
      <4> QED BY <2>5, <3>2 DEF View, SampleAt
    <3> QED BY <3>1, <3>2
  <2> QED BY <2>1, <2>3, <2>8 DEF e
<1>4. CASE c.class = "RenameSample"
  <2> DEFINE f == d.samples
             k == c.at
             x == [f[k] EXCEPT !.name = c.value]
             g == [f EXCEPT ![k] = x]
  <2>1. PlaceOf(c) = <<"sample", k>>
    BY <1>4 DEF PlaceOf
  <2>2. k \in Slots /\ f \in [Slots -> SafeSample \cup {None}] /\ f[k] # None
        /\ c.value \in Names
    BY <1>4, CommandKinds DEF SafeDocument, Applicable, SampleAt
  <2>3. PlaceOf(c) \in MergeablePlaces
    BY <2>1, <2>2 DEF MergeablePlaces, Places
  <2>4. e = [d EXCEPT !.samples = g]
    BY <1>4 DEF DocAfter
  <2>5. /\ e.samples = g /\ e.options = d.options
        /\ e.blocks = d.blocks /\ e.instruments = d.instruments
    BY <2>4 DEF SafeDocument
  <2> HIDE DEF k, e
  <2>6. f[k] \in Sample
    BY <2>2 DEF SafeSample
  <2>7. x \in Sample /\ x.brr = f[k].brr
    BY <2>2, <2>6 DEF Sample
  <2>8. x # None
    BY <2>7, NoneAssumption
  <2> HIDE DEF x
  <2>9. \A i \in Slots : /\ i # k => g[i] = f[i]
                         /\ g[i] = None <=> f[i] = None
                         /\ f[i] # None => g[i].brr = f[i].brr
    BY <2>2, <2>7, <2>8
  <2>10. ASSUME NEW q \in Places, q[1] \in {"sample", "brr"} PROVE q[2] \in Slots
    BY <2>10 DEF Places
  <2>11. ASSUME NEW q \in Places, q # <<"sample", k>>, q[1] = "sample" PROVE q[2] # k
    BY <2>11 DEF Places
  <2> HIDE DEF g
  <2>12. ASSUME NEW q \in Places, q # <<"sample", k>>
         PROVE  View(e)[q] = View(d)[q]
    <3>1. CASE q[1] = "sample"
      <4>1. e.samples[q[2]] = d.samples[q[2]]
        BY <2>5, <2>9, <2>10, <2>11, <2>12, <3>1
      <4> HIDE DEF f
      <4> QED BY <3>1, <4>1 DEF View
    <3>2. CASE q[1] = "brr"
      <4>1. q[2] \in Slots
        BY <2>10, <3>2
      <4> QED BY <2>5, <2>9, <3>2, <4>1 DEF View, SampleAt
    <3>3. CASE q[1] \notin {"sample", "brr"}
      <4> HIDE DEF f
      <4> QED BY <2>5, <3>3 DEF View
    <3> QED BY <3>1, <3>2, <3>3
  <2> QED BY <2>1, <2>3, <2>12 DEF e
<1> QED BY <1>1, <1>2, <1>3, <1>4

(* An empty stack stands for an empty line.                                *)
LEMMA LineEmpty ==
  ASSUME NEW d \in SafeDocument
  PROVE  Line(d, <<>>) = <<>>
<1> DEFINE s == [k \in 0 .. 0 |-> d]
<1>1. IsChain(s, <<>>, d)
  <2>1. s \in [0 .. 0 -> SafeDocument] /\ s[0] = d
    OBVIOUS
  <2>2. SameView(s[0], d)
    BY <2>1, SameViewReflexive
  <2>3. Len(<<>>) = 0 /\ 1 .. 0 = {}
    OBVIOUS
  <2> HIDE DEF s
  <2> QED BY <2>1, <2>2, <2>3 DEF IsChain
<1> HIDE DEF s
<1>2. <<>> \in Seq(PlainCommands)
  OBVIOUS
<1>3. Line(d, <<>>) = [j \in 1 .. Len(<<>>) |-> View(s[j - 1])]
  BY <1>1, <1>2, LineOfChain
<1> QED BY <1>3

(* An untracked edit does not move the line.                               *)
LEMMA LineSame ==
  ASSUME NEW stack \in Seq(PlainCommands), NEW d \in SafeDocument,
         NEW e \in SafeDocument, Chain(stack, d), SameView(d, e)
  PROVE  Line(e, stack) = Line(d, stack)
<1>1. PICK s : IsChain(s, stack, d)
  BY DEF Chain
<1>2. IsChain(s, stack, e)
  BY <1>1, ChainSameView
<1>3. Line(d, stack) = [j \in 1 .. Len(stack) |-> View(s[j - 1])]
  BY <1>1, LineOfChain
<1>4. Line(e, stack) = [j \in 1 .. Len(stack) |-> View(s[j - 1])]
  BY <1>2, LineOfChain
<1> QED BY <1>3, <1>4

(* A command pushed adds the state before it to the line.                  *)
LEMMA LinePush ==
  ASSUME NEW stack \in Seq(PlainCommands), NEW d \in SafeDocument, Chain(stack, d),
         NEW c \in PlainCommands, Applicable(c, d)
  PROVE  Line(DocAfter(c, d), Append(stack, CmdAfter(c, d))) =
           Append(Line(d, stack), View(d))
<1> DEFINE n == Len(stack)
           e == DocAfter(c, d)
           longer == Append(stack, CmdAfter(c, d))
<1>1. PICK s : IsChain(s, stack, d)
  BY DEF Chain
<1> DEFINE t == [k \in 0 .. n + 1 |-> IF k = n + 1 THEN e ELSE s[k]]
<1>2. e \in SafeDocument /\ CmdAfter(c, d) \in PlainCommands
  BY CommandSwapsBack DEF SwapsBack
<1>3. longer \in Seq(PlainCommands) /\ Len(longer) = n + 1 /\ n \in Nat
  BY <1>2, AppendProperties
<1>4. IsChain(t, longer, e)
  BY <1>1, ChainPush
<1>5. Line(d, stack) = [j \in 1 .. n |-> View(s[j - 1])]
  BY <1>1, LineOfChain
<1>9. s[n] \in SafeDocument /\ SameView(s[n], d)
  <2>1. n \in 0 .. n
    OBVIOUS
  <2> QED BY <1>1, <2>1 DEF IsChain
<1>10. View(s[n]) = View(d)
  BY <1>9, SameViewEqual
<1> HIDE DEF e, longer, n
<1>6. Line(e, longer) = [j \in 1 .. n + 1 |-> View(t[j - 1])]
  <2> HIDE DEF t
  <2> QED BY <1>2, <1>3, <1>4, LineOfChain
<1>7. \A j \in 1 .. n + 1 : t[j - 1] = s[j - 1]
  BY <1>3
<1> HIDE DEF t
<1>8. Line(e, longer) = [j \in 1 .. n + 1 |-> View(s[j - 1])]
  BY <1>6, <1>7
<1> DEFINE v(j) == View(s[j - 1])
<1>11. v(n + 1) = View(d)
  BY <1>3, <1>10
<1> HIDE DEF v
<1>12. Append([j \in 1 .. n |-> v(j)], v(n + 1)) = [j \in 1 .. n + 1 |-> v(j)]
  BY <1>3
<1> QED BY <1>5, <1>8, <1>11, <1>12 DEF v, e, longer, n

(* The command at the top leads to the last state of the line, and the     *)
(* rest of the stack stands for the rest of it.                            *)
LEMMA LineTop ==
  ASSUME NEW stack \in Seq(PlainCommands), stack # <<>>,
         NEW d \in SafeDocument, Chain(stack, d)
  PROVE  LET c == Top(stack)
             e == DocAfter(c, d)
             line == Line(d, stack)
         IN  /\ line # <<>> /\ Len(line) = Len(stack)
             /\ View(e) = line[Len(line)]
             /\ Line(e, Popped(stack)) = SubSeq(line, 1, Len(line) - 1)
<1> DEFINE n == Len(stack)
           c == Top(stack)
           e == DocAfter(c, d)
           rest == Popped(stack)
           line == Line(d, stack)
<1>1. PICK s : IsChain(s, stack, d)
  BY DEF Chain
<1> DEFINE t == [k \in 0 .. n - 1 |-> s[k]]
<1>2. n \in Nat /\ n >= 1
  OBVIOUS
<1>3. /\ c \in PlainCommands /\ Applicable(c, d) /\ e \in SafeDocument
      /\ rest \in Seq(PlainCommands) /\ Len(rest) = n - 1
  BY <1>1, ChainTop
<1>4. IsChain(t, rest, e)
  BY <1>1, ChainTop
<1>5. line = [j \in 1 .. n |-> View(s[j - 1])]
  BY <1>1, LineOfChain
<1> HIDE DEF e, rest, line, n
<1>6. Line(e, rest) = [j \in 1 .. n - 1 |-> View(t[j - 1])]
  <2> HIDE DEF t
  <2> QED BY <1>3, <1>4, LineOfChain
<1>7. \A j \in 1 .. n - 1 : t[j - 1] = s[j - 1]
  BY <1>2
<1>8. t[n - 1] = s[n - 1]
  BY <1>2
<1>13. t[n - 1] \in SafeDocument /\ SameView(t[n - 1], e)
  <2>1. n - 1 \in 0 .. n - 1
    BY <1>2
  <2> HIDE DEF t
  <2> QED BY <1>3, <1>4, <2>1 DEF IsChain
<1>14. View(e) = View(s[n - 1])
  BY <1>3, <1>8, <1>13, SameViewEqual
<1> HIDE DEF t
<1> DEFINE v(j) == View(s[j - 1])
<1>9. Line(e, rest) = [j \in 1 .. n - 1 |-> v(j)] /\ line = [j \in 1 .. n |-> v(j)]
  BY <1>5, <1>6, <1>7
<1>15. View(e) = v(n)
  BY <1>14
<1> HIDE DEF v
<1>10. Len(line) = n /\ line[n] = v(n) /\ line # <<>>
  BY <1>2, <1>9
<1>11. SubSeq(line, 1, n - 1) = [j \in 1 .. n - 1 |-> v(j)]
  BY <1>2, <1>9
<1> QED BY <1>9, <1>10, <1>11, <1>15 DEF e, rest, line, n

(* A merged command does not move the line.                                *)
LEMMA LineMerge ==
  ASSUME NEW stack \in Seq(PlainCommands), stack # <<>>,
         NEW d \in SafeDocument, Chain(stack, d),
         NEW c \in PlainCommands, Applicable(c, d), CanMerge(c, Top(stack))
  PROVE  Line(DocAfter(c, d), stack) = Line(d, stack)
<1> DEFINE n == Len(stack)
           e == DocAfter(c, d)
<1>1. PICK s : IsChain(s, stack, d)
  BY DEF Chain
<1> DEFINE t == [s EXCEPT ![n] = e]
<1>2. e \in SafeDocument /\ n \in Nat
  BY CommandSwapsBack DEF SwapsBack
<1>3. IsChain(t, stack, e)
  BY <1>1, ChainMerge
<1>4. Line(d, stack) = [j \in 1 .. n |-> View(s[j - 1])]
  BY <1>1, LineOfChain
<1>7. s \in [0 .. n -> SafeDocument]
  BY <1>1 DEF IsChain
<1> HIDE DEF e, n
<1>5. Line(e, stack) = [j \in 1 .. n |-> View(t[j - 1])]
  <2> HIDE DEF t
  <2> QED BY <1>2, <1>3, LineOfChain DEF n
<1>6. \A j \in 1 .. n : t[j - 1] = s[j - 1]
  BY <1>2, <1>7
<1> HIDE DEF t
<1> QED BY <1>4, <1>5, <1>6 DEF e, n

-----------------------------------------------------------------------------
(* The history is a linear one, step by step.                              *)

(* The variables of the abstract history.                                  *)
Abstract == <<Line(document, undo_stack), View(document), Line(document, redo_stack)>>

(* A merged edit writes again the one place in which the present state     *)
(* differs from the last past one.                                         *)
LEMMA MergeImplements ==
  ASSUME HistoryInv, NEW c \in PlainCommands, Applicable(c, document), Merges(c),
         document' = DocAfter(c, document), undo_stack' = undo_stack,
         redo_stack' = <<>>
  PROVE  Promised!MergeEdit
<1> DEFINE d == document
           e == DocAfter(c, d)
           top == Top(undo_stack)
           u == DocAfter(top, d)
           past == Line(d, undo_stack)
<1>1. /\ d \in SafeDocument /\ undo_stack \in Seq(PlainCommands) /\ Chain(undo_stack, d)
      /\ undo_stack # <<>> /\ CanMerge(c, top)
  BY DEF HistoryInv, Merges
<1>2. top \in PlainCommands /\ Applicable(top, d) /\ u \in SafeDocument
  BY <1>1, ChainTop DEF Chain
<1>3. e \in SafeDocument
  BY <1>1, CommandSwapsBack DEF SwapsBack
<1>4. Line(e, undo_stack) = past
  BY <1>1, LineMerge
<1>5. past # <<>> /\ past[Len(past)] = View(u)
  BY <1>1, LineTop
<1>6. Line(e, <<>>) = <<>>
  BY <1>3, LineEmpty
<1>7. /\ c.class \in {"SetTempo", "SetBeatsPerMeasure", "RenameInstrument", "RenameSample"}
      /\ top.class = c.class /\ PlaceOf(top) = PlaceOf(c)
  BY <1>1 DEF CanMerge, PlaceOf
<1> HIDE DEF d, e, top, u, past
<1>8. /\ PlaceOf(c) \in MergeablePlaces
      /\ \A q \in Places \ {PlaceOf(c)} : View(e)[q] = View(d)[q]
  BY <1>1, <1>7, EditedInOnePlace DEF d, e
<1>9. \A q \in Places \ {PlaceOf(c)} : View(u)[q] = View(d)[q]
  BY <1>1, <1>2, <1>7, EditedInOnePlace DEF d, u
<1>10. \E p \in MergeablePlaces :
         /\ Promised!DifferOnlyAt(p, View(u), View(d))
         /\ Promised!DifferOnlyAt(p, View(d), View(e))
  BY <1>8, <1>9 DEF Promised!DifferOnlyAt
<1>11. Line(document, undo_stack) = past /\ View(document) = View(d)
  BY DEF past, d
<1>12. Line(document, undo_stack)' = past /\ View(document)' = View(e)
  BY <1>4 DEF e, d
<1>13. Line(document, redo_stack)' = <<>>
  BY <1>6 DEF e, d
<1> QED BY <1>5, <1>10, <1>11, <1>12, <1>13 DEF Promised!MergeEdit

(* An edit is an abstract edit, a merged one, or invisible.                *)
LEMMA EditImplements ==
  ASSUME HistoryInv, HistoryInv', NEW c, PushEdit(c), Allowed(c, document)
  PROVE  Promised!Edit \/ Promised!MergeEdit \/ UNCHANGED Abstract
<1>1. /\ document \in SafeDocument /\ document' = DocAfter(c, document)
      /\ document' \in SafeDocument
      /\ undo_stack \in Seq(PlainCommands) /\ redo_stack \in Seq(PlainCommands)
      /\ Chain(undo_stack, document) /\ Chain(redo_stack, document)
  BY DEF HistoryInv, PushEdit
<1>2. CASE Untracked(c, document)
  <2>1. undo_stack' = undo_stack /\ redo_stack' = redo_stack
    BY <1>2 DEF PushEdit, PushTracked, SaveInHistory, Untracked
  <2>2. SameView(document, document')
    BY <1>1, <1>2, UntrackedSameView, SameViewSymmetric
  <2>3. /\ Line(document', undo_stack) = Line(document, undo_stack)
        /\ Line(document', redo_stack) = Line(document, redo_stack)
    BY <1>1, <2>2, LineSame
  <2>4. View(document') = View(document)
    BY <1>1, <2>2, SameViewEqual
  <2> QED BY <2>1, <2>3, <2>4 DEF Abstract
<1>3. CASE c \in PlainCommands /\ Applicable(c, document)
  <2>1. SaveInHistory(c)
    BY <1>3, CommandKinds DEF SaveInHistory
  <2>2. redo_stack' = <<>>
    BY <2>1 DEF PushEdit, PushTracked
  <2>3. CASE Merges(c)
    <3>1. undo_stack' = undo_stack
      BY <2>1, <2>3 DEF PushEdit, PushTracked
    <3> QED BY <1>1, <1>3, <2>2, <2>3, <3>1, MergeImplements
  <2>4. CASE ~Merges(c)
    <3>1. undo_stack' = Append(undo_stack, CmdAfter(c, document))
      BY <2>1, <2>4 DEF PushEdit, PushTracked
    <3>2. Line(document', undo_stack') =
            Append(Line(document, undo_stack), View(document))
      BY <1>1, <1>3, <3>1, LinePush
    <3>3. Line(document', redo_stack') = <<>>
      BY <1>1, <2>2, LineEmpty
    <3> QED BY <3>2, <3>3 DEF Promised!Edit
  <2> QED BY <2>3, <2>4
<1> QED BY <1>2, <1>3 DEF Allowed

(* Undo moves back along the line.                                         *)
LEMMA UndoImplements ==
  ASSUME HistoryInv, Undo
  PROVE  Promised!Undo
<1> DEFINE c == Top(undo_stack)
           past == Line(document, undo_stack)
           future == Line(document, redo_stack)
<1>1. /\ undo_stack # <<>> /\ document' = DocAfter(c, document)
      /\ undo_stack' = Popped(undo_stack)
      /\ redo_stack' = Append(redo_stack, CmdAfter(c, document))
      /\ document \in SafeDocument
      /\ undo_stack \in Seq(PlainCommands) /\ redo_stack \in Seq(PlainCommands)
      /\ Chain(undo_stack, document) /\ Chain(redo_stack, document)
  BY DEF HistoryInv, Undo
<1>2. c \in PlainCommands /\ Applicable(c, document)
  BY <1>1, ChainTop DEF Chain
<1>3. /\ past # <<>> /\ View(document') = past[Len(past)]
      /\ Line(document', undo_stack') = SubSeq(past, 1, Len(past) - 1)
  BY <1>1, LineTop
<1> HIDE DEF c
<1>4. Line(document', redo_stack') = Append(future, View(document))
  BY <1>1, <1>2, LinePush
<1> QED BY <1>3, <1>4 DEF Promised!Undo

(* Redo moves forth along the line.                                        *)
LEMMA RedoImplements ==
  ASSUME HistoryInv, Redo
  PROVE  Promised!Redo
<1> DEFINE c == Top(redo_stack)
           past == Line(document, undo_stack)
           future == Line(document, redo_stack)
<1>1. /\ redo_stack # <<>> /\ document' = DocAfter(c, document)
      /\ redo_stack' = Popped(redo_stack)
      /\ undo_stack' = Append(undo_stack, CmdAfter(c, document))
      /\ document \in SafeDocument
      /\ undo_stack \in Seq(PlainCommands) /\ redo_stack \in Seq(PlainCommands)
      /\ Chain(undo_stack, document) /\ Chain(redo_stack, document)
  BY DEF HistoryInv, Redo
<1>2. c \in PlainCommands /\ Applicable(c, document)
  BY <1>1, ChainTop DEF Chain
<1>3. /\ future # <<>> /\ View(document') = future[Len(future)]
      /\ Line(document', redo_stack') = SubSeq(future, 1, Len(future) - 1)
  BY <1>1, LineTop
<1> HIDE DEF c
<1>4. Line(document', undo_stack') = Append(past, View(document))
  BY <1>1, <1>2, LinePush
<1> QED BY <1>3, <1>4 DEF Promised!Redo

(* Every step of the history is one of the abstract history, or none.      *)
LEMMA HistoryImplements ==
  ASSUME HistoryInv, HistoryInv', [Next]_vars
  PROVE  [Promised!Next]_Promised!vars
<1> SUFFICES Promised!Next \/ UNCHANGED Abstract
  BY DEF Abstract, Promised!vars
<1>1. CASE Edit
  <2>1. PICK c : PushEdit(c) /\ Allowed(c, document)
    BY <1>1, EditIsAllowed DEF HistoryInv
  <2> QED BY <2>1, EditImplements DEF Promised!Next
<1>2. CASE Undo
  BY <1>2, UndoImplements DEF Promised!Next
<1>3. CASE Redo
  BY <1>3, RedoImplements DEF Promised!Next
<1>4. CASE Save
  BY <1>4 DEF Save, Abstract
<1>5. CASE OpenDocument
  <2>1. undo_stack' = <<>> /\ redo_stack' = <<>> /\ document' \in SafeDocument
    BY <1>5 DEF OpenDocument, HistoryInv
  <2>2. Line(document', <<>>) = <<>>
    BY <2>1, LineEmpty
  <2> QED BY <2>1, <2>2 DEF Promised!Next, Promised!Open
<1>6. CASE UNCHANGED vars
  BY <1>6 DEF vars, Abstract
<1> QED BY <1>1, <1>2, <1>3, <1>4, <1>5, <1>6 DEF Next

(* The undo history of the code is a linear one, for documents and stacks  *)
(* of any size.                                                            *)
THEOREM UndoIsLinear == Spec => ImplementsLinearUndo
<1>1. Init => Promised!Init
  <2> SUFFICES ASSUME Init PROVE Promised!Init
    OBVIOUS
  <2>1. document \in SafeDocument /\ undo_stack = <<>> /\ redo_stack = <<>>
    BY InitHistoryInv DEF HistoryInv, Init
  <2> QED BY <2>1, LineEmpty DEF Promised!Init
<1> QED BY <1>1, HistoryHolds, HistoryImplements, PTL
        DEF Spec, Promised!Spec, ImplementsLinearUndo
=============================================================================
