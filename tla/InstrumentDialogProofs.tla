----------------------- MODULE InstrumentDialogProofs -----------------------
(***************************************************************************)
(* The instrument dialog and the sample dialog show what the document has, *)
(* and an edit of a keysplit goes where the user sees it, for any          *)
(* documents, keysplits and notes and any order of edits, undos and        *)
(* selections.                                                             *)
(***************************************************************************)
EXTENDS InstrumentDialog, FunctionTheorems, SequenceTheorems, WellFoundedInduction, TLAPS

-----------------------------------------------------------------------------
(* Numbers and sequences.                                                  *)

LEMMA LeastOfTwo ==
  ASSUME NEW a \in Int, NEW b \in Int
  PROVE  Min({a, b}) = IF a <= b THEN a ELSE b
  BY DEF Min

LEMMA MinIsLeast ==
  ASSUME NEW S \in SUBSET Nat, S # {}
  PROVE  Min(S) \in S /\ \A i \in S : Min(S) <= i
  <1>1. PICK m \in S : \A i \in S : ~(<<i, m>> \in OpToRel(<, Nat))
    BY NatLessThanWellFounded, WFMin
  <1>2. ASSUME NEW i \in S PROVE m <= i
    <2>1. i \in Nat /\ m \in Nat
      OBVIOUS
    <2>2. ~(i < m)
      BY <1>1, <2>1 DEF OpToRel
    <2> QED
      BY <2>1, <2>2
  <1> QED
    BY <1>2 DEF Min

LEMMA MaxIsGreatest ==
  ASSUME NEW n \in Nat, NEW S \in SUBSET (0 .. n), S # {}
  PROVE  Max(S) \in S /\ \A i \in S : i <= Max(S)
  <1> DEFINE Distances == {n - i : i \in S}
  <1>1. Distances \in SUBSET Nat /\ Distances # {}
    <2>1. \A i \in S : n - i \in Nat
      OBVIOUS
    <2>2. PICK i \in S : TRUE
      OBVIOUS
    <2>3. n - i \in Distances
      OBVIOUS
    <2> QED
      BY <2>1, <2>3
  <1>2. PICK d \in Distances : \A e \in Distances : d <= e
    <2>1. Min(Distances) \in Distances /\ \A e \in Distances : Min(Distances) <= e
      <3> HIDE DEF Distances
      <3> QED
        BY <1>1, MinIsLeast
    <2> QED
      BY <2>1
  <1>3. PICK m \in S : d = n - m
    OBVIOUS
  <1>4. ASSUME NEW i \in S PROVE m >= i
    <2>1. d <= n - i
      BY <1>2
    <2> QED
      BY <1>3, <2>1
  <1> QED
    BY <1>4 DEF Max

LEMMA InsertAtShape ==
  ASSUME NEW S, NEW s \in Seq(S), NEW i \in 1 .. Len(s) + 1, NEW e \in S
  PROVE  /\ InsertAt(s, i, e) \in Seq(S)
         /\ Len(InsertAt(s, i, e)) = Len(s) + 1
         /\ \A j \in 1 .. Len(s) + 1 :
              InsertAt(s, i, e)[j] = IF j < i THEN s[j] ELSE IF j = i THEN e ELSE s[j - 1]
  <1> DEFINE n == Len(s)
             a == SubSeq(s, 1, i - 1)
             b == SubSeq(s, i, n)
             c == a \o <<e>>
             t == c \o b
  <1>1. n \in Nat /\ i \in 1 .. n + 1
    OBVIOUS
  <1>2. a \in Seq(S) /\ Len(a) = i - 1 /\ \A j \in 1 .. i - 1 : a[j] = s[j]
    BY <1>1
  <1>3. b \in Seq(S) /\ Len(b) = n - i + 1 /\ \A j \in 1 .. n - i + 1 : b[j] = s[i + j - 1]
    BY <1>1
  <1>4. InsertAt(s, i, e) = t
    BY DEF InsertAt
  <1> HIDE DEF a, b, n
  <1>5. c \in Seq(S) /\ Len(c) = i /\ \A j \in 1 .. i : c[j] = IF j < i THEN a[j] ELSE e
    BY <1>1, <1>2
  <1> HIDE DEF c
  <1>6. t \in Seq(S) /\ Len(t) = n + 1
        /\ \A j \in 1 .. n + 1 : t[j] = IF j <= i THEN c[j] ELSE b[j - i]
    BY <1>1, <1>3, <1>5, ConcatProperties
  <1> HIDE DEF t
  <1>7. ASSUME NEW j \in 1 .. n + 1
        PROVE  t[j] = IF j < i THEN s[j] ELSE IF j = i THEN e ELSE s[j - 1]
    <2>1. CASE j <= i
      BY <1>1, <1>2, <1>5, <1>6, <2>1
    <2>2. CASE j > i
      <3>1. t[j] = b[j - i] /\ j - i \in 1 .. n - i + 1 /\ i + (j - i) - 1 = j - 1
        BY <1>1, <1>6, <2>2
      <3> QED
        BY <1>1, <1>3, <2>2, <3>1
    <2> QED
      BY <1>1, <2>1, <2>2
  <1> QED
    BY <1>4, <1>6, <1>7 DEF n

LEMMA RemoveAtShape ==
  ASSUME NEW S, NEW s \in Seq(S), NEW i \in 1 .. Len(s)
  PROVE  /\ RemoveAt(s, i) \in Seq(S)
         /\ Len(RemoveAt(s, i)) = Len(s) - 1
         /\ \A j \in 1 .. Len(s) - 1 : RemoveAt(s, i)[j] = IF j < i THEN s[j] ELSE s[j + 1]
  <1> DEFINE n == Len(s)
             a == SubSeq(s, 1, i - 1)
             b == SubSeq(s, i + 1, n)
             t == a \o b
  <1>1. n \in Nat /\ i \in 1 .. n
    OBVIOUS
  <1>2. a \in Seq(S) /\ Len(a) = i - 1 /\ \A j \in 1 .. i - 1 : a[j] = s[j]
    BY <1>1
  <1>3. b \in Seq(S) /\ Len(b) = n - i /\ \A j \in 1 .. n - i : b[j] = s[i + j]
    BY <1>1
  <1>4. RemoveAt(s, i) = t
    BY DEF RemoveAt
  <1> HIDE DEF a, b, n
  <1>5. t \in Seq(S) /\ Len(t) = n - 1
        /\ \A j \in 1 .. n - 1 : t[j] = IF j <= i - 1 THEN a[j] ELSE b[j - (i - 1)]
    <2>1. /\ t \in Seq(S) /\ Len(t) = Len(a) + Len(b)
          /\ \A j \in 1 .. Len(a) + Len(b) :
               t[j] = IF j <= Len(a) THEN a[j] ELSE b[j - Len(a)]
      BY <1>2, <1>3, ConcatProperties
    <2>2. Len(a) = i - 1 /\ Len(a) + Len(b) = n - 1
      BY <1>1, <1>2, <1>3
    <2> HIDE DEF t
    <2> QED
      BY <2>1, <2>2
  <1> HIDE DEF t
  <1>6. ASSUME NEW j \in 1 .. n - 1
        PROVE  t[j] = IF j < i THEN s[j] ELSE s[j + 1]
    <2>1. CASE j < i
      BY <1>1, <1>2, <1>5, <2>1
    <2>2. CASE j >= i
      <3>1. t[j] = b[j - i + 1] /\ j - i + 1 \in 1 .. n - i /\ i + (j - i + 1) = j + 1
        BY <1>1, <1>5, <2>2
      <3> QED
        BY <1>1, <1>3, <2>2, <3>1
    <2> QED
      BY <1>1, <2>1, <2>2
  <1> QED
    BY <1>4, <1>5, <1>6 DEF n

LEMMA SameSequence ==
  ASSUME NEW S, NEW s \in Seq(S), NEW t \in Seq(S), Len(s) = Len(t),
         \A i \in 1 .. Len(s) : s[i] = t[i]
  PROVE  s = t
  OBVIOUS

(* What is inserted can be removed. *)
LEMMA RemoveInserted ==
  ASSUME NEW S, NEW s \in Seq(S), NEW i \in 1 .. Len(s) + 1, NEW e \in S
  PROVE  RemoveAt(InsertAt(s, i, e), i) = s
  <1> DEFINE t == InsertAt(s, i, e)
             r == RemoveAt(t, i)
  <1>1. t \in Seq(S) /\ Len(t) = Len(s) + 1
        /\ \A j \in 1 .. Len(s) + 1 :
             t[j] = IF j < i THEN s[j] ELSE IF j = i THEN e ELSE s[j - 1]
    BY InsertAtShape
  <1> HIDE DEF t
  <1>2. r \in Seq(S) /\ Len(r) = Len(t) - 1
        /\ \A j \in 1 .. Len(t) - 1 : r[j] = IF j < i THEN t[j] ELSE t[j + 1]
    BY <1>1, RemoveAtShape
  <1> HIDE DEF r
  <1>3. ASSUME NEW j \in 1 .. Len(s) PROVE r[j] = s[j]
    <2>1. /\ Len(s) \in Nat /\ j \in 1 .. Len(s) + 1 /\ j + 1 \in 1 .. Len(s) + 1
          /\ j + 1 - 1 = j /\ j \in 1 .. Len(t) - 1
      BY <1>1
    <2>2. CASE j < i
      BY <1>1, <1>2, <2>1, <2>2
    <2>3. CASE j >= i
      <3>1. r[j] = t[j + 1] /\ j + 1 > i /\ j + 1 # i
        BY <1>2, <2>1, <2>3
      <3> QED
        BY <1>1, <2>1, <3>1
    <2> QED
      BY <2>1, <2>2, <2>3
  <1>4. r = s
    BY <1>1, <1>2, <1>3, SameSequence
  <1> QED
    BY <1>4 DEF r, t

(* Sequences that differ in one place only. *)
LEMMA RemoveDifference ==
  ASSUME NEW S, NEW s \in Seq(S), NEW t \in Seq(S), NEW i \in 1 .. Len(s), Len(t) = Len(s),
         \A j \in 1 .. Len(s) : j # i => t[j] = s[j]
  PROVE  RemoveAt(t, i) = RemoveAt(s, i)
  <1>1. /\ RemoveAt(s, i) \in Seq(S) /\ Len(RemoveAt(s, i)) = Len(s) - 1
        /\ \A j \in 1 .. Len(s) - 1 : RemoveAt(s, i)[j] = IF j < i THEN s[j] ELSE s[j + 1]
    BY RemoveAtShape
  <1>2. /\ RemoveAt(t, i) \in Seq(S) /\ Len(RemoveAt(t, i)) = Len(s) - 1
        /\ \A j \in 1 .. Len(s) - 1 : RemoveAt(t, i)[j] = IF j < i THEN t[j] ELSE t[j + 1]
    BY RemoveAtShape
  <1>3. \A j \in 1 .. Len(s) - 1 : RemoveAt(t, i)[j] = RemoveAt(s, i)[j]
    BY <1>1, <1>2
  <1> QED
    BY <1>1, <1>2, <1>3, SameSequence

-----------------------------------------------------------------------------
(* The edits of a keysplit.  Edited(before, row, after, to): the patch of  *)
(* row has come to the row "to" and the others have kept their order.      *)

Edited(before, row, after, to) ==
  /\ after \in Keysplits /\ Len(after) = Len(before) /\ to \in 1 .. Len(after)
  /\ RemoveAt(after, to) = RemoveAt(before, row)

LEMMA KeysplitNotes ==
  ASSUME NEW keysplit \in Keysplits
  PROVE  /\ keysplit \in Seq(Patches) /\ Len(keysplit) \in Nat
         /\ \A i \in 1 .. Len(keysplit) :
              keysplit[i] \in Patches /\ keysplit[i].min_note \in Nat
  <1>1. keysplit \in Seq(Patches)
    BY DEF Keysplits
  <1>2. \A patch \in Patches : patch.min_note \in Nat
    BY DEF Patches
  <1>3. \A i \in 1 .. Len(keysplit) : keysplit[i] \in Patches
    BY <1>1
  <1> QED
    BY <1>1, <1>2, <1>3

LEMMA DefaultsOk ==
  /\ NewPatch \in Patches /\ 0 \in SampleSlots
  /\ \A note \in Nat : [NewPatch EXCEPT !.min_note = note] \in Patches
  /\ Patches \subseteq PatchView /\ BlankPatch \in PatchView /\ BlankPatch.sample_idx = 0
  <1>1. 0 \in SampleSlots
    BY SlotsAssumption DEF SampleSlots
  <1>2. NewPatch \in Patches /\ Patches \subseteq PatchView
        /\ \A note \in Nat : [NewPatch EXCEPT !.min_note = note] \in Patches
    BY <1>1, AdsrsAssumption DEF NewPatch, Patches, PatchView
  <1>3. BlankPatch = [min_note |-> 0, sample_idx |-> 0,
                      adsr |-> [field \in DOMAIN DEFAULT_ADSR |-> 0]]
    BY DEF BlankPatch, NewPatch
  <1>4. [field \in DOMAIN DEFAULT_ADSR |-> 0] \in Adsr
    BY DEF Adsr, DEFAULT_ADSR
  <1> QED
    BY <1>1, <1>2, <1>3, <1>4 DEF PatchView

(* A patch is added with the note of the last: a sorted keysplit stays so. *)
LEMMA PatchAdded ==
  ASSUME NEW keysplit \in Keysplits
  PROVE  LET after == TryAddPatch(keysplit, Len(keysplit) + 1)
         IN  after # None =>
               /\ after \in Keysplits /\ Len(after) = Len(keysplit) + 1
               /\ RemoveAt(after, Len(after)) = keysplit
               /\ Sorted(keysplit) => Sorted(after)
  <1> DEFINE n == Len(keysplit)
             patch == IF keysplit = <<>> THEN NewPatch
                      ELSE [NewPatch EXCEPT !.min_note = Last(keysplit).min_note]
             after == InsertAt(keysplit, n + 1, patch)
  <1>1. keysplit \in Seq(Patches) /\ n \in Nat /\ n + 1 \in 1 .. n + 1
        /\ \A i \in 1 .. n : keysplit[i].min_note \in Nat
    BY KeysplitNotes
  <1>2. /\ patch \in Patches
        /\ keysplit # <<>> => patch.min_note = keysplit[n].min_note
    <2>1. CASE keysplit = <<>>
      BY <2>1, DefaultsOk
    <2>2. CASE keysplit # <<>>
      <3>1. keysplit[n].min_note \in Nat
        BY <1>1, <2>2
      <3>2. patch = [NewPatch EXCEPT !.min_note = keysplit[n].min_note]
        BY <2>2 DEF Last
      <3> QED
        BY <3>1, <3>2, DefaultsOk DEF NewPatch
    <2> QED
      BY <2>1, <2>2
  <1>3. /\ after \in Seq(Patches) /\ Len(after) = n + 1
        /\ \A j \in 1 .. n + 1 : after[j] = IF j < n + 1 THEN keysplit[j] ELSE patch
    <2> HIDE DEF patch
    <2>0. patch \in Patches
      BY <1>2
    <2> DEFINE m == n + 1
    <2>1. keysplit \in Seq(Patches) /\ m \in 1 .. Len(keysplit) + 1
      BY <1>1
    <2>2. after = InsertAt(keysplit, m, patch)
      OBVIOUS
    <2> HIDE DEF m, after
    <2>3. /\ InsertAt(keysplit, m, patch) \in Seq(Patches)
          /\ Len(InsertAt(keysplit, m, patch)) = Len(keysplit) + 1
          /\ \A j \in 1 .. Len(keysplit) + 1 :
               InsertAt(keysplit, m, patch)[j] =
                 IF j < m THEN keysplit[j] ELSE IF j = m THEN patch ELSE keysplit[j - 1]
      BY <2>0, <2>1, InsertAtShape
    <2>4. /\ after \in Seq(Patches) /\ Len(after) = Len(keysplit) + 1
          /\ \A j \in 1 .. Len(keysplit) + 1 :
               after[j] = IF j < m THEN keysplit[j] ELSE IF j = m THEN patch ELSE keysplit[j - 1]
      BY <2>2, <2>3, Zenon
    <2> QED
      BY <1>1, <2>4 DEF m
  <1>4. RemoveAt(after, n + 1) = keysplit
    <2> HIDE DEF patch
    <2>1. patch \in Patches
      BY <1>2
    <2> QED
      BY <1>1, <2>1, RemoveInserted
  <1>5. Sorted(keysplit) => Sorted(after)
    <2> HIDE DEF after, patch
    <2>1. ASSUME Sorted(keysplit), NEW j \in 1 .. n + 1, NEW k \in 1 .. n + 1, j < k
          PROVE  after[j].min_note <= after[k].min_note
      <3>1. CASE k <= n
        BY <1>1, <1>3, <2>1, <3>1 DEF Sorted
      <3>2. CASE k = n + 1
        <4>1. keysplit # <<>> /\ j \in 1 .. n /\ n \in 1 .. n
          BY <1>1, <2>1, <3>2
        <4>2. keysplit[j].min_note <= keysplit[n].min_note
          BY <1>1, <2>1, <4>1 DEF Sorted
        <4> QED
          BY <1>1, <1>2, <1>3, <2>1, <3>2, <4>1, <4>2
      <3> QED
        BY <1>1, <3>1, <3>2
    <2> QED
      BY <1>1, <1>3, <2>1 DEF Sorted
  <1>6. TryAddPatch(keysplit, n + 1) # None => TryAddPatch(keysplit, n + 1) = after
    BY DEF TryAddPatch
  <1> HIDE DEF after
  <1> QED
    BY <1>3, <1>4, <1>5, <1>6 DEF Keysplits

LEMMA RemoveKeepsSorted ==
  ASSUME NEW keysplit \in Keysplits, NEW k \in 1 .. Len(keysplit), Sorted(keysplit)
  PROVE  Sorted(RemoveAt(keysplit, k))
  <1> DEFINE n == Len(keysplit)
             after == RemoveAt(keysplit, k)
  <1>1. keysplit \in Seq(Patches) /\ n \in Nat /\ \A i \in 1 .. n : keysplit[i].min_note \in Nat
    BY KeysplitNotes
  <1>2. /\ after \in Seq(Patches) /\ Len(after) = n - 1
        /\ \A j \in 1 .. n - 1 : after[j] = IF j < k THEN keysplit[j] ELSE keysplit[j + 1]
    BY <1>1, RemoveAtShape
  <1> HIDE DEF after
  <1>3. ASSUME NEW i \in 1 .. n - 1, NEW j \in 1 .. n - 1, i < j
        PROVE  after[i].min_note <= after[j].min_note
    <2> DEFINE from(m) == IF m < k THEN m ELSE m + 1
    <2>1. /\ after[i] = keysplit[from(i)] /\ after[j] = keysplit[from(j)]
          /\ from(i) \in 1 .. n /\ from(j) \in 1 .. n /\ from(i) < from(j)
      BY <1>1, <1>2, <1>3
    <2> HIDE DEF from
    <2> QED
      BY <1>1, <2>1 DEF Sorted
  <1> QED
    BY <1>1, <1>2, <1>3, SMTT(30) DEF Sorted, after

(* A patch inserted between one with a note that is no higher and one with *)
(* a note that is no lower.                                                *)
LEMMA InsertKeepsSorted ==
  ASSUME NEW keysplit \in Keysplits, NEW k \in 1 .. Len(keysplit) + 1, NEW patch \in Patches,
         Sorted(keysplit),
         k > 1 => keysplit[k - 1].min_note <= patch.min_note,
         k <= Len(keysplit) => patch.min_note <= keysplit[k].min_note
  PROVE  Sorted(InsertAt(keysplit, k, patch))
  <1> DEFINE n == Len(keysplit)
             after == InsertAt(keysplit, k, patch)
             note(i) == keysplit[i].min_note
  <1>1. keysplit \in Seq(Patches) /\ n \in Nat /\ patch.min_note \in Nat
        /\ \A i \in 1 .. n : note(i) \in Nat
    BY KeysplitNotes DEF Patches
  <1>2. /\ after \in Seq(Patches) /\ Len(after) = n + 1
        /\ \A j \in 1 .. n + 1 :
             after[j] = IF j < k THEN keysplit[j] ELSE IF j = k THEN patch ELSE keysplit[j - 1]
    <2>1. keysplit \in Seq(Patches)
      BY <1>1
    <2> HIDE DEF note
    <2> QED
      BY <2>1, InsertAtShape
  <1>3. \A i, j \in 1 .. n : i <= j => note(i) <= note(j)
    BY <1>1, SMTT(30) DEF Sorted
  <1>4. ASSUME NEW i \in 1 .. n, i < k PROVE note(i) <= patch.min_note
    <2>1. k - 1 \in 1 .. n /\ i <= k - 1 /\ k > 1
      BY <1>1, <1>4
    <2>2. note(i) <= note(k - 1) /\ note(k - 1) <= patch.min_note
      BY <1>3, <2>1
    <2> QED
      BY <1>1, <2>1, <2>2
  <1>5. ASSUME NEW i \in 1 .. n, i >= k PROVE patch.min_note <= note(i)
    <2>1. k \in 1 .. n /\ k <= n
      BY <1>1, <1>5
    <2>2. note(k) <= note(i) /\ patch.min_note <= note(k)
      BY <1>3, <1>5, <2>1
    <2> QED
      BY <1>1, <2>1, <2>2
  <1> HIDE DEF after, note
  <1>6. ASSUME NEW i \in 1 .. n + 1, NEW j \in 1 .. n + 1, i < j
        PROVE  after[i].min_note <= after[j].min_note
    <2> DEFINE from(m) == IF m < k THEN m ELSE m - 1
    <2>1. \A m \in 1 .. n + 1 : m # k => from(m) \in 1 .. n /\ after[m].min_note = note(from(m))
      BY <1>1, <1>2 DEF note
    <2>2. after[k].min_note = patch.min_note
      BY <1>1, <1>2
    <2>3. CASE i # k /\ j # k
      <3>1. from(i) <= from(j)
        BY <1>1, <1>6, <2>3
      <3> HIDE DEF from
      <3> QED
        BY <1>3, <2>1, <2>3, <3>1
    <2>4. CASE i = k
      <3>1. from(j) >= k /\ j # k
        BY <1>1, <1>6, <2>4
      <3> HIDE DEF from
      <3> QED
        BY <1>5, <2>1, <2>2, <2>4, <3>1
    <2>5. CASE j = k
      <3>1. from(i) < k /\ i # k
        BY <1>1, <1>6, <2>5
      <3> HIDE DEF from
      <3> QED
        BY <1>4, <2>1, <2>2, <2>5, <3>1
    <2> QED
      BY <2>3, <2>4, <2>5
  <1> QED
    BY <1>1, <1>2, <1>6 DEF Sorted, after

LEMMA PatchRemoved ==
  ASSUME NEW keysplit \in Keysplits, NEW k \in 1 .. Len(keysplit)
  PROVE  LET after == TryRemovePatch(keysplit, k)
         IN  after # None =>
               /\ after \in Keysplits /\ Len(after) = Len(keysplit) - 1 /\ Len(after) > 0
               /\ after = RemoveAt(keysplit, k)
               /\ Sorted(keysplit) => Sorted(after)
  <1> DEFINE n == Len(keysplit)
             after == RemoveAt(keysplit, k)
  <1>1. keysplit \in Seq(Patches) /\ n \in Nat
    BY KeysplitNotes
  <1>2. after \in Seq(Patches) /\ Len(after) = n - 1
    BY <1>1, RemoveAtShape
  <1>3. Sorted(keysplit) => Sorted(after)
    BY RemoveKeepsSorted
  <1>4. TryRemovePatch(keysplit, k) # None => TryRemovePatch(keysplit, k) = after /\ n > 1
    BY <1>1 DEF TryRemovePatch
  <1> HIDE DEF after
  <1> QED
    BY <1>1, <1>2, <1>3, <1>4 DEF Keysplits, after

LEMMA PatchesSwapped ==
  ASSUME NEW keysplit \in Keysplits, NEW k \in 1 .. Len(keysplit) - 1,
         NEW after, after = [keysplit EXCEPT ![k] = keysplit[k + 1], ![k + 1] = keysplit[k]]
  PROVE  /\ Edited(keysplit, k, after, k + 1) /\ after[k + 1] = keysplit[k]
         /\ Edited(keysplit, k + 1, after, k) /\ after[k] = keysplit[k + 1]
  <1> DEFINE n == Len(keysplit)
  <1>1. keysplit \in Seq(Patches) /\ n \in Nat /\ Len(keysplit) = n
    BY DEF Keysplits
  <1>0. k \in 1 .. n /\ k + 1 \in 1 .. n
    BY <1>1
  <1>2. /\ after \in Seq(Patches) /\ Len(after) = n
        /\ \A j \in 1 .. n : after[j] = IF j = k THEN keysplit[k + 1]
                                        ELSE IF j = k + 1 THEN keysplit[k] ELSE keysplit[j]
    BY <1>1
  <1>3. ASSUME NEW i \in 1 .. n, NEW s \in Seq(Patches), Len(s) = n
        PROVE  /\ RemoveAt(s, i) \in Seq(Patches) /\ Len(RemoveAt(s, i)) = n - 1
               /\ \A j \in 1 .. n - 1 : RemoveAt(s, i)[j] = IF j < i THEN s[j] ELSE s[j + 1]
    BY <1>3, RemoveAtShape
  <1> HIDE DEF n
  <1>4. RemoveAt(after, k + 1) = RemoveAt(keysplit, k)
    <2> DEFINE s == RemoveAt(after, k + 1)
               t == RemoveAt(keysplit, k)
    <2>1. /\ s \in Seq(Patches) /\ Len(s) = n - 1
          /\ \A j \in 1 .. n - 1 : s[j] = IF j < k + 1 THEN after[j] ELSE after[j + 1]
      BY <1>0, <1>2, <1>3
    <2>2. /\ t \in Seq(Patches) /\ Len(t) = n - 1
          /\ \A j \in 1 .. n - 1 : t[j] = IF j < k THEN keysplit[j] ELSE keysplit[j + 1]
      BY <1>0, <1>1, <1>3
    <2> HIDE DEF s, t
    <2>3. ASSUME NEW j \in 1 .. n - 1 PROVE s[j] = t[j]
      BY <1>0, <1>1, <1>2, <2>1, <2>2
    <2>4. s = t
      BY <2>1, <2>2, <2>3, SameSequence
    <2> QED
      BY <2>4 DEF s, t
  <1>5. RemoveAt(after, k) = RemoveAt(keysplit, k + 1)
    <2> DEFINE s == RemoveAt(after, k)
               t == RemoveAt(keysplit, k + 1)
    <2>1. /\ s \in Seq(Patches) /\ Len(s) = n - 1
          /\ \A j \in 1 .. n - 1 : s[j] = IF j < k THEN after[j] ELSE after[j + 1]
      BY <1>0, <1>2, <1>3
    <2>2. /\ t \in Seq(Patches) /\ Len(t) = n - 1
          /\ \A j \in 1 .. n - 1 : t[j] = IF j < k + 1 THEN keysplit[j] ELSE keysplit[j + 1]
      BY <1>0, <1>1, <1>3
    <2> HIDE DEF s, t
    <2>3. ASSUME NEW j \in 1 .. n - 1 PROVE s[j] = t[j]
      BY <1>0, <1>1, <1>2, <2>1, <2>2
    <2>4. s = t
      BY <2>1, <2>2, <2>3, SameSequence
    <2> QED
      BY <2>4 DEF s, t
  <1> QED
    BY <1>0, <1>1, <1>2, <1>4, <1>5 DEF Edited, Keysplits

(* A patch whose note stays, edited in its place.                          *)
LEMMA PatchReplaced ==
  ASSUME NEW keysplit \in Keysplits, NEW k \in 1 .. Len(keysplit), NEW patch \in Patches,
         NEW after, after = [keysplit EXCEPT ![k] = patch]
  PROVE  /\ Edited(keysplit, k, after, k)
         /\ patch.min_note = keysplit[k].min_note /\ Sorted(keysplit) => Sorted(after)
  <1> DEFINE n == Len(keysplit)
  <1>1. keysplit \in Seq(Patches) /\ n \in Nat
    BY DEF Keysplits
  <1>2. /\ after \in Seq(Patches) /\ Len(after) = n
        /\ \A j \in 1 .. n : after[j] = IF j = k THEN patch ELSE keysplit[j]
    BY <1>1
  <1>3. RemoveAt(after, k) = RemoveAt(keysplit, k)
    BY <1>1, <1>2, RemoveDifference, ZenonT(30)
  <1>4. patch.min_note = keysplit[k].min_note /\ Sorted(keysplit) => Sorted(after)
    BY <1>1, <1>2 DEF Sorted
  <1> QED
    BY <1>1, <1>2, <1>3, <1>4 DEF Edited, Keysplits

(* Where set_min_key() takes a patch: down to the first place that no lower*)
(* or equal note is right before, or else up past the lower ones.          *)
LEMMA BubbledPlace ==
  ASSUME NEW keysplit \in Keysplits, NEW k \in 1 .. Len(keysplit)
  PROVE  LET j == Bubbled(keysplit, k)
             note(i) == keysplit[i].min_note
         IN  /\ j \in 1 .. Len(keysplit)
             /\ j > 1 => IF j <= k THEN note(j - 1) <= note(k) ELSE note(j) < note(k)
             /\ j < Len(keysplit) => IF j < k THEN note(j) > note(k) ELSE note(k) <= note(j + 1)
  <1> DEFINE n == Len(keysplit)
             note(i) == keysplit[i].min_note
             IsUp(j) == /\ \A i \in j .. k - 1 : note(i) > note(k)
                        /\ j > 1 => note(j - 1) <= note(k)
             IsDown(j) == /\ \A i \in k + 1 .. j : note(i) < note(k)
                          /\ j < n => note(k) <= note(j + 1)
             up == CHOOSE j \in 1 .. k : IsUp(j)
             down == CHOOSE j \in k .. n : IsDown(j)
  <1>1. n \in Nat /\ k \in 1 .. n /\ \A i \in 1 .. n : note(i) \in Nat
    BY KeysplitNotes
  <1> HIDE DEF n, note
  <1>2. \E j \in 1 .. k : IsUp(j)
    <2> DEFINE Stops == {j \in 1 .. k : j > 1 => note(j - 1) <= note(k)}
    <2>1. Stops \in SUBSET (0 .. k) /\ Stops # {} /\ k \in Nat
      <3>1. 1 \in Stops
        BY <1>1
      <3>2. \A i \in Stops : i \in 0 .. k
        BY <1>1
      <3> HIDE DEF Stops
      <3> QED
        BY <1>1, <3>1, <3>2
    <2> DEFINE j == Max(Stops)
    <2>2. j \in Stops /\ \A i \in Stops : i <= j
      <3> HIDE DEF Stops
      <3> QED
        BY <2>1, MaxIsGreatest
    <2> HIDE DEF j
    <2>3. ASSUME NEW i \in j .. k - 1 PROVE note(i) > note(k)
      <3>1. j \in 1 .. k
        BY <2>2
      <3>2. i + 1 \in 1 .. k /\ i + 1 > j /\ i \in 1 .. n /\ i + 1 - 1 = i /\ i + 1 > 1
        BY <1>1, <3>1
      <3>3. i + 1 \notin Stops
        <4> HIDE DEF Stops
        <4> QED
          BY <1>1, <2>2, <3>1, <3>2
      <3>4. ~(note(i) <= note(k))
        BY <3>2, <3>3
      <3> QED
        BY <1>1, <3>2, <3>4
    <2> QED
      BY <2>2, <2>3
  <1>3. \E j \in k .. n : IsDown(j)
    <2> DEFINE Stops == {j \in k .. n : j < n => note(k) <= note(j + 1)}
    <2>1. Stops \in SUBSET Nat /\ Stops # {}
      <3>1. n \in Stops
        BY <1>1
      <3>2. \A i \in Stops : i \in Nat
        BY <1>1
      <3> HIDE DEF Stops
      <3> QED
        BY <3>1, <3>2
    <2> DEFINE j == Min(Stops)
    <2>2. j \in Stops /\ \A i \in Stops : j <= i
      <3> HIDE DEF Stops
      <3> QED
        BY <2>1, MinIsLeast
    <2> HIDE DEF j
    <2>3. ASSUME NEW i \in k + 1 .. j PROVE note(i) < note(k)
      <3>1. j \in k .. n
        BY <2>2
      <3>2. i - 1 \in k .. n /\ i - 1 < j /\ i \in 1 .. n /\ i - 1 + 1 = i /\ i - 1 < n
        BY <1>1, <3>1
      <3>3. i - 1 \notin Stops
        <4> HIDE DEF Stops
        <4> QED
          BY <1>1, <2>2, <3>1, <3>2
      <3>4. ~(note(k) <= note(i))
        BY <3>2, <3>3
      <3> QED
        BY <1>1, <3>2, <3>4
    <2> QED
      BY <2>2, <2>3
  <1> HIDE DEF IsUp, IsDown
  <1>4. up \in 1 .. k /\ IsUp(up) /\ down \in k .. n /\ IsDown(down)
    BY <1>2, <1>3
  <1>5. Bubbled(keysplit, k) = IF up < k THEN up ELSE down
    BY DEF Bubbled, IsUp, IsDown, note, n
  <1> HIDE DEF up, down
  <1> DEFINE j == IF up < k THEN up ELSE down
  <1>6. CASE up < k
    <2>1. j = up /\ j \in 1 .. n /\ j < k /\ j \in j .. k - 1
      BY <1>1, <1>4, <1>6
    <2>2. note(j) > note(k) /\ (j > 1 => note(j - 1) <= note(k))
      BY <1>4, <2>1 DEF IsUp
    <2> HIDE DEF j
    <2> QED
      BY <1>1, <1>5, <1>6, <2>1, <2>2 DEF note, n, j
  <1>7. CASE ~(up < k)
    <2>1. up = k /\ j = down /\ j \in 1 .. n /\ j >= k
      BY <1>1, <1>4, <1>7
    <2>2. /\ j < n => note(k) <= note(j + 1)
          /\ j > k => note(j) < note(k)
          /\ k > 1 => note(k - 1) <= note(k)
      <3>1. j > k => j \in k + 1 .. j
        <4> HIDE DEF j
        <4> QED
          BY <1>1, <2>1
      <3> QED
        BY <1>4, <2>1, <3>1 DEF IsUp, IsDown
    <2> HIDE DEF j
    <2> QED
      BY <1>1, <1>5, <1>7, <2>1, <2>2 DEF note, n, j
  <1> QED
    BY <1>6, <1>7

LEMMA MinKeySet ==
  ASSUME NEW keysplit \in Keysplits, NEW k \in 1 .. Len(keysplit), NEW note \in Nat
  PROVE  LET edit == SetMinKey(keysplit, k, note)
         IN  /\ Edited(keysplit, k, edit.keysplit, edit.patch)
             /\ Sorted(keysplit) => Sorted(edit.keysplit)
  <1> DEFINE n == Len(keysplit)
             patch == [keysplit[k] EXCEPT !.min_note = note]
             edited == [keysplit EXCEPT ![k] = patch]
             j == Bubbled(edited, k)
             rest == RemoveAt(edited, k)
             after == InsertAt(rest, j, patch)
  <1>1. keysplit \in Seq(Patches) /\ n \in Nat /\ k \in 1 .. n
    BY KeysplitNotes
  <1>2. patch \in Patches /\ patch.min_note = note
    <2>1. keysplit[k] \in Patches
      BY <1>1
    <2> QED
      BY <2>1 DEF Patches
  <1> HIDE DEF patch
  <1>3. /\ edited \in Seq(Patches) /\ Len(edited) = n /\ edited[k] = patch
        /\ \A i \in 1 .. n : i # k => edited[i] = keysplit[i]
    BY <1>1, <1>2
  <1>4. SetMinKey(keysplit, k, note) = [keysplit |-> after, patch |-> j]
    <2>1. edited = [keysplit EXCEPT ![k].min_note = note]
      BY DEF patch
    <2> HIDE DEF edited
    <2> QED
      BY <1>3, <2>1 DEF SetMinKey
  <1> HIDE DEF edited
  <1>5. /\ j \in 1 .. n
        /\ j > 1 => IF j <= k THEN edited[j - 1].min_note <= note ELSE edited[j].min_note < note
        /\ j < n => IF j < k THEN edited[j].min_note > note ELSE note <= edited[j + 1].min_note
    <2>1. edited \in Keysplits /\ k \in 1 .. Len(edited)
      BY <1>1, <1>3 DEF Keysplits
    <2> QED
      BY <1>2, <1>3, <2>1, BubbledPlace
  <1> HIDE DEF j
  <1>6. /\ rest \in Seq(Patches) /\ Len(rest) = n - 1
        /\ \A i \in 1 .. n - 1 : rest[i] = IF i < k THEN edited[i] ELSE edited[i + 1]
    <2>1. k \in 1 .. Len(edited)
      BY <1>1, <1>3
    <2>2. Len(edited) = n
      BY <1>3
    <2> HIDE DEF n
    <2> QED
      BY <1>3, <2>1, <2>2, RemoveAtShape
  <1>7. rest = RemoveAt(keysplit, k)
    BY <1>1, <1>3, RemoveDifference
  <1> HIDE DEF rest
  <1>8. j \in 1 .. Len(rest) + 1
    BY <1>1, <1>5, <1>6
  <1>9. after \in Seq(Patches) /\ Len(after) = n /\ RemoveAt(after, j) = rest
    <2>1. Len(after) = Len(rest) + 1 /\ after \in Seq(Patches)
      BY <1>2, <1>6, <1>8, InsertAtShape
    <2>2. RemoveAt(after, j) = rest
      BY <1>2, <1>6, <1>8, RemoveInserted
    <2> HIDE DEF after
    <2> QED
      BY <1>1, <1>6, <2>1, <2>2
  <1>10. ASSUME Sorted(keysplit) PROVE Sorted(after)
    <2>1. Sorted(rest) /\ rest \in Keysplits
      BY <1>6, <1>7, <1>10, RemoveKeepsSorted DEF Keysplits
    <2>2. \A i \in 1 .. n : edited[i].min_note \in Nat
      BY <1>3, KeysplitNotes DEF Keysplits
    <2>3. ASSUME j > 1 PROVE rest[j - 1].min_note <= patch.min_note
      <3>1. j - 1 \in 1 .. n - 1 /\ j \in 1 .. n /\ j - 1 + 1 = j
        BY <1>1, <1>5, <2>3
      <3>2. CASE j <= k
        <4>1. rest[j - 1] = edited[j - 1]
          BY <1>1, <1>6, <3>1, <3>2
        <4> QED
          BY <1>2, <1>5, <2>3, <3>2, <4>1
      <3>3. CASE ~(j <= k)
        <4>1. rest[j - 1] = edited[j] /\ edited[j].min_note < note /\ edited[j].min_note \in Nat
          BY <1>1, <1>5, <1>6, <2>2, <2>3, <3>1, <3>3
        <4> QED
          BY <1>2, <4>1
      <3> QED
        BY <3>2, <3>3
    <2>4. ASSUME j <= Len(rest) PROVE patch.min_note <= rest[j].min_note
      <3>1. j \in 1 .. n - 1 /\ j < n
        BY <1>1, <1>5, <1>6, <2>4
      <3>2. CASE j < k
        <4>1. rest[j] = edited[j] /\ edited[j].min_note > note /\ edited[j].min_note \in Nat
          BY <1>1, <1>5, <1>6, <2>2, <3>1, <3>2
        <4> QED
          BY <1>2, <4>1
      <3>3. CASE ~(j < k)
        <4>1. rest[j] = edited[j + 1]
          BY <1>1, <1>6, <3>1, <3>3
        <4> QED
          BY <1>2, <1>5, <3>1, <3>3, <4>1
      <3> QED
        BY <3>2, <3>3
    <2> QED
      BY <1>2, <1>8, <2>1, <2>3, <2>4, InsertKeepsSorted
  <1> HIDE DEF after
  <1> QED
    BY <1>1, <1>4, <1>5, <1>7, <1>9, <1>10 DEF Edited, Keysplits

-----------------------------------------------------------------------------
(* Reloading the panels.                                                   *)

IsPanels(p) ==
  /\ p = [instr |-> p.instr, sample |-> p.sample]
  /\ p.instr \in Dialogs \cup {None}
  /\ p.sample \in SampleDialogs \cup {None}

(* The sample dialog shows the sample the instrument dialog last told it.  *)
Follows(p) ==
  p.instr.prev_sample # None /\ p.sample # None =>
    p.sample.curr_sample = p.instr.prev_sample

(* The row of a keysplit that is shown when "wanted" is asked for.         *)
Row(keysplit, wanted) == IF keysplit = <<>> THEN NoRow ELSE Min({wanted, Len(keysplit)})

LEMMA NoneIsNothing ==
  /\ \A d \in Dialogs : d # None
  /\ \A d \in SampleDialogs : d # None
  /\ \A keysplit \in Keysplits : keysplit # None
  /\ \A n \in Nat : n # None
  /\ \A n \in SampleSlots : n # None
  <1>1. SampleSlots \subseteq Nat
    BY DEF SampleSlots
  <1> QED
    BY <1>1, NoneAssumption

LEMMA RowOk ==
  ASSUME NEW keysplit \in Keysplits, NEW wanted \in Nat \ {0}
  PROVE  /\ Row(keysplit, wanted) \in Nat \ {0}
         /\ keysplit = <<>> => CurrSample(keysplit, Row(keysplit, wanted)) = None
         /\ keysplit # <<>> =>
              /\ Row(keysplit, wanted) \in 1 .. Len(keysplit)
              /\ wanted \in 1 .. Len(keysplit) => Row(keysplit, wanted) = wanted
              /\ CurrSample(keysplit, Row(keysplit, wanted)) =
                   keysplit[Row(keysplit, wanted)].sample_idx
         /\ CurrSample(keysplit, Row(keysplit, wanted)) \in SampleSlots \cup {None}
  <1> DEFINE row == Row(keysplit, wanted)
  <1>1. keysplit \in Seq(Patches) /\ Len(keysplit) \in Nat
    BY KeysplitNotes
  <1>2. CASE keysplit = <<>>
    <2>1. row = MAX_KEYSPLITS + 1 /\ row \in Nat \ {0} /\ row > Len(keysplit)
      BY <1>2, MaxKeysplitsAssumption DEF Row, NoRow
    <2> HIDE DEF row
    <2>2. CurrSample(keysplit, row) = None
      BY <2>1 DEF CurrSample
    <2> QED
      BY <1>2, <2>1, <2>2 DEF row
  <1>3. CASE keysplit # <<>>
    <2>1. Len(keysplit) \in Nat \ {0}
      BY <1>1, <1>3
    <2>2. row = IF wanted <= Len(keysplit) THEN wanted ELSE Len(keysplit)
      BY <1>3, <2>1, LeastOfTwo DEF Row
    <2> HIDE DEF row
    <2>3. row \in 1 .. Len(keysplit)
      BY <2>1, <2>2
    <2>4. CurrSample(keysplit, row) = keysplit[row].sample_idx
      BY <2>1, <2>3 DEF CurrSample
    <2>5. keysplit[row].sample_idx \in SampleSlots
      <3>1. keysplit[row] \in Patches
        BY <1>1, <2>3
      <3> QED
        BY <3>1 DEF Patches
    <2> QED
      BY <1>3, <2>1, <2>2, <2>3, <2>4, <2>5 DEF row
  <1> QED
    BY <1>2, <1>3

LEMMA SampleDialogUpdates ==
  ASSUME NEW p, IsPanels(p), p.instr # None, NEW sample \in SampleSlots \cup {None}
  PROVE  LET r == UpdateSampleDialog(p, sample)
         IN  /\ IsPanels(r) /\ Follows(r) /\ (r.sample = None <=> p.sample = None)
             /\ r.instr \in Dialogs /\ r.instr = [p.instr EXCEPT !.prev_sample = sample]
  <1> DEFINE instr == [p.instr EXCEPT !.prev_sample = sample]
             shown == IF None \in {p.sample, sample} THEN p.sample
                      ELSE [p.sample EXCEPT !.curr_sample = sample]
  <1>1. UpdateSampleDialog(p, sample) = [instr |-> instr, sample |-> shown]
    BY DEF UpdateSampleDialog
  <1>2. p.instr \in Dialogs /\ p.sample \in SampleDialogs \cup {None}
    BY DEF IsPanels
  <1>3. instr \in Dialogs /\ instr.prev_sample = sample
    BY <1>2 DEF Dialogs
  <1>4. CASE None \in {p.sample, sample}
    <2>1. shown = p.sample
      BY <1>4
    <2> HIDE DEF instr, shown
    <2> DEFINE r == UpdateSampleDialog(p, sample)
    <2>2. r.instr = instr /\ r.sample = p.sample /\ IsPanels(r)
      BY <1>1, <1>2, <1>3, <2>1 DEF IsPanels
    <2> HIDE DEF r
    <2>3. Follows(r)
      BY <1>3, <1>4, <2>2 DEF Follows
    <2> QED
      BY <1>3, <2>2, <2>3 DEF instr, r
  <1>5. CASE None \notin {p.sample, sample}
    <2>1. p.sample \in SampleDialogs /\ sample \in SampleSlots
      BY <1>2, <1>5
    <2>2. shown \in SampleDialogs /\ shown.curr_sample = sample
      BY <1>5, <2>1 DEF SampleDialogs
    <2> HIDE DEF instr, shown
    <2>3. shown # None /\ p.sample # None
      BY <1>5, <2>2, NoneIsNothing
    <2> DEFINE r == UpdateSampleDialog(p, sample)
    <2>4. r.instr = instr /\ r.sample = shown /\ IsPanels(r)
      BY <1>1, <1>3, <2>2 DEF IsPanels
    <2> HIDE DEF r
    <2>5. Follows(r)
      BY <1>3, <2>2, <2>4 DEF Follows
    <2> QED
      BY <1>3, <2>3, <2>4, <2>5 DEF instr, r
  <1> QED
    BY <1>4, <1>5

(* reload_keysplit(): the row is one there is, and the sample dialog is    *)
(* told of another sample.                                                 *)
LEMMA KeysplitReloads ==
  ASSUME NEW keysplit \in Keysplits, NEW p, IsPanels(p), p.instr # None,
         NEW move \in (Nat \ {0}) \cup {None},
         NEW wanted, wanted = IF move = None THEN p.instr.curr_patch ELSE move
  PROVE  LET r == ReloadKeysplit(keysplit, p, move)
         IN  /\ IsPanels(r) /\ (r.sample = None <=> p.sample = None) /\ r.instr \in Dialogs
             /\ wanted \in Nat \ {0}
             /\ r.instr.curr_patch = Row(keysplit, wanted)
             /\ r.instr.keysplit_size = Len(keysplit)
             /\ r.instr.prev_sample = CurrSample(keysplit, Row(keysplit, wanted))
             /\ move # None \/ r.instr.prev_sample # p.instr.prev_sample \/ Follows(p) =>
                  Follows(r)
  <1> DEFINE row == Row(keysplit, wanted)
             sample == CurrSample(keysplit, row)
             instr == [p.instr EXCEPT !.curr_patch = row, !.keysplit_size = Len(keysplit)]
             moved == [instr |-> instr, sample |-> p.sample]
             r == ReloadKeysplit(keysplit, p, move)
             told == move # None \/ row # p.instr.curr_patch \/ sample # p.instr.prev_sample
  <1>1. p.instr \in Dialogs /\ p.instr.curr_patch \in Nat \ {0}
    BY DEF IsPanels, Dialogs
  <1>2. wanted \in Nat \ {0}
    BY <1>1
  <1>3. row \in Nat \ {0} /\ sample \in SampleSlots \cup {None}
    BY <1>2, RowOk
  <1>4. r = IF told THEN UpdateSampleDialog(moved, sample) ELSE moved
    <2>1. moved = [p EXCEPT !.instr.curr_patch = row, !.instr.keysplit_size = Len(keysplit)]
      <3> HIDE DEF row
      <3> DEFINE d == p.instr
                 e == p.sample
                 f == [d EXCEPT !.curr_patch = row]
      <3>1. p = [instr |-> d, sample |-> e]
        BY DEF IsPanels
      <3>2. moved = [instr |-> [f EXCEPT !.keysplit_size = Len(keysplit)], sample |-> e]
        OBVIOUS
      <3> HIDE DEF moved, d, e
      <3>3. [p EXCEPT !.instr.curr_patch = row] = [instr |-> f, sample |-> e]
        BY <3>1
      <3> HIDE DEF f
      <3>4. [[instr |-> f, sample |-> e] EXCEPT !.instr.keysplit_size = Len(keysplit)] = moved
        BY <3>2
      <3> QED
        BY <3>3, <3>4
    <2> HIDE DEF moved
    <2> QED
      BY <2>1 DEF ReloadKeysplit, Row
  <1> HIDE DEF row, sample, r
  <1>5. /\ instr \in Dialogs /\ instr.curr_patch = row /\ instr.keysplit_size = Len(keysplit)
        /\ instr.prev_sample = p.instr.prev_sample
    BY <1>1, <1>3, KeysplitNotes DEF Dialogs
  <1> HIDE DEF instr
  <1>6. IsPanels(moved) /\ moved.instr = instr /\ moved.sample = p.sample /\ instr # None
    BY <1>5, NoneIsNothing DEF IsPanels
  <1> HIDE DEF moved
  <1>7. CASE told
    <2>1. /\ IsPanels(r) /\ Follows(r) /\ (r.sample = None <=> p.sample = None)
          /\ r.instr \in Dialogs /\ r.instr = [instr EXCEPT !.prev_sample = sample]
      BY <1>3, <1>4, <1>6, <1>7, SampleDialogUpdates
    <2>2. /\ r.instr.curr_patch = row /\ r.instr.keysplit_size = Len(keysplit)
          /\ r.instr.prev_sample = sample
      BY <1>5, <2>1 DEF Dialogs
    <2> QED
      BY <1>2, <2>1, <2>2 DEF row, sample, r
  <1>8. CASE ~told
    <2>1. r = moved /\ sample = p.instr.prev_sample /\ move = None
      BY <1>4, <1>8
    <2>2. Follows(p) => Follows(r)
      BY <1>5, <1>6, <2>1 DEF Follows
    <2> QED
      BY <1>2, <1>5, <1>6, <2>1, <2>2 DEF row, sample, r
  <1> QED
    BY <1>7, <1>8

(* An instrument dialog d shows the instrument instr of doc.               *)
Shows(d, doc, instr) ==
  LET keysplit == doc.instruments[instr]
  IN  /\ keysplit # None
      /\ d.keysplit_size = Len(keysplit)
      /\ IF keysplit = <<>> THEN d.prev_sample = None
         ELSE /\ d.curr_patch \in 1 .. Len(keysplit)
              /\ d.patch = keysplit[d.curr_patch]
              /\ d.prev_sample = d.patch.sample_idx
              /\ d.visible = doc.samples \cup {d.patch.sample_idx}

LEMMA PatchReloads ==
  ASSUME NEW doc \in DocumentStates, NEW keysplit \in Keysplits, NEW p, IsPanels(p),
         p.instr # None
  PROVE  LET r == ReloadCurrentPatch(doc, keysplit, p)
         IN  /\ IsPanels(r) /\ r.sample = p.sample /\ r.instr \in Dialogs
             /\ r.instr.curr_patch = p.instr.curr_patch
             /\ r.instr.keysplit_size = p.instr.keysplit_size
             /\ r.instr.prev_sample = p.instr.prev_sample
             /\ p.instr.curr_patch \in 1 .. Len(keysplit) =>
                  /\ r.instr.patch = keysplit[p.instr.curr_patch]
                  /\ r.instr.visible = doc.samples \cup {r.instr.patch.sample_idx}
  <1> DEFINE row == p.instr.curr_patch
             patch == IF row > Len(keysplit) THEN BlankPatch ELSE keysplit[row]
             visible == doc.samples \cup {patch.sample_idx}
             instr == [p.instr EXCEPT !.patch = patch, !.visible = visible]
  <1>1. ReloadCurrentPatch(doc, keysplit, p) = [instr |-> instr, sample |-> p.sample]
    <2> HIDE DEF patch
    <2>1. ReloadCurrentPatch(doc, keysplit, p) =
            [p EXCEPT !.instr.patch = patch, !.instr.visible = visible]
      BY DEF ReloadCurrentPatch, patch
    <2> QED
      BY <2>1 DEF IsPanels
  <1>2. p.instr \in Dialogs /\ row \in Nat \ {0}
    BY DEF IsPanels, Dialogs
  <1>3. patch \in PatchView /\ patch.sample_idx \in SampleSlots
    <2>1. CASE row > Len(keysplit)
      BY <2>1, DefaultsOk
    <2>2. CASE ~(row > Len(keysplit))
      <3>1. row \in 1 .. Len(keysplit)
        BY <1>2, <2>2, KeysplitNotes
      <3>2. keysplit[row] \in Patches /\ patch = keysplit[row]
        BY <2>2, <3>1, KeysplitNotes
      <3> HIDE DEF row, patch
      <3> QED
        BY <3>2, DefaultsOk DEF Patches
    <2> QED
      BY <2>1, <2>2
  <1>4. row \in 1 .. Len(keysplit) => patch = keysplit[row]
    BY KeysplitNotes
  <1> HIDE DEF patch
  <1>5. visible \in SUBSET SampleSlots
    BY <1>3 DEF DocumentStates
  <1> HIDE DEF visible
  <1>6. /\ instr \in Dialogs /\ instr.patch = patch /\ instr.visible = visible
        /\ instr.curr_patch = row /\ instr.keysplit_size = p.instr.keysplit_size
        /\ instr.prev_sample = p.instr.prev_sample
    BY <1>2, <1>3, <1>5 DEF Dialogs
  <1> HIDE DEF instr
  <1> QED
    BY <1>1, <1>4, <1>6 DEF IsPanels, visible

(* reload_state() of the instrument dialog brings it in line with whatever *)
(* the document has become.                                                *)
LEMMA DialogReloads ==
  ASSUME NEW doc \in DocumentStates, NEW instr \in InstrumentSlots, NEW p, IsPanels(p),
         NEW switched \in BOOLEAN
  PROVE  LET r == ReloadInstrDialog(doc, instr, p, switched)
         IN  /\ IsPanels(r) /\ (r.sample = None <=> p.sample = None)
             /\ r.instr # None <=> p.instr # None /\ doc.instruments[instr] # None
             /\ r.instr # None =>
                  /\ r.instr \in Dialogs /\ Shows(r.instr, doc, instr)
                  /\ ~switched => r.instr.curr_patch =
                                    Row(doc.instruments[instr], p.instr.curr_patch)
                  /\ switched \/ r.instr.prev_sample # p.instr.prev_sample \/ Follows(p) =>
                       Follows(r)
  <1> DEFINE keysplit == doc.instruments[instr]
             move == IF switched THEN 1 ELSE None
             wanted == IF move = None THEN p.instr.curr_patch ELSE move
             q == ReloadKeysplit(keysplit, p, move)
             r == ReloadInstrDialog(doc, instr, p, switched)
  <1>1. keysplit \in Keysplits \cup {None}
    BY DEF DocumentStates
  <1>2. CASE p.instr = None
    BY <1>2 DEF ReloadInstrDialog
  <1>3. CASE p.instr # None /\ keysplit = None
    <2>1. r = [p EXCEPT !.instr = None]
      BY <1>3 DEF ReloadInstrDialog
    <2>2. r.instr = None /\ r.sample = p.sample /\ IsPanels(r)
      BY <2>1 DEF IsPanels
    <2> QED
      BY <1>3, <2>2
  <1>4. CASE p.instr # None /\ keysplit # None
    <2>1. keysplit \in Keysplits
      BY <1>1, <1>4
    <2>2. r = ReloadCurrentPatch(doc, keysplit, q)
      BY <1>4 DEF ReloadInstrDialog
    <2>3. move \in (Nat \ {0}) \cup {None} /\ (move # None <=> switched)
      BY NoneIsNothing
    <2> HIDE DEF move
    <2>4. /\ IsPanels(q) /\ (q.sample = None <=> p.sample = None) /\ q.instr \in Dialogs
          /\ wanted \in Nat \ {0}
          /\ q.instr.curr_patch = Row(keysplit, wanted)
          /\ q.instr.keysplit_size = Len(keysplit)
          /\ q.instr.prev_sample = CurrSample(keysplit, Row(keysplit, wanted))
          /\ move # None \/ q.instr.prev_sample # p.instr.prev_sample \/ Follows(p) => Follows(q)
      <3> HIDE DEF keysplit
      <3> QED
        BY <1>4, <2>1, <2>3, KeysplitReloads
    <2> HIDE DEF q, r, keysplit
    <2>5. q.instr # None
      BY <2>4, NoneIsNothing
    <2>6. /\ IsPanels(r) /\ r.sample = q.sample /\ r.instr \in Dialogs
          /\ r.instr.curr_patch = q.instr.curr_patch
          /\ r.instr.keysplit_size = q.instr.keysplit_size
          /\ r.instr.prev_sample = q.instr.prev_sample
          /\ q.instr.curr_patch \in 1 .. Len(keysplit) =>
               /\ r.instr.patch = keysplit[q.instr.curr_patch]
               /\ r.instr.visible = doc.samples \cup {r.instr.patch.sample_idx}
      BY <2>1, <2>2, <2>4, <2>5, PatchReloads
    <2>7. r.instr # None
      BY <2>6, NoneIsNothing
    <2>8. IF keysplit = <<>> THEN r.instr.prev_sample = None
          ELSE /\ r.instr.curr_patch \in 1 .. Len(keysplit)
               /\ r.instr.patch = keysplit[r.instr.curr_patch]
               /\ r.instr.prev_sample = r.instr.patch.sample_idx
               /\ r.instr.visible = doc.samples \cup {r.instr.patch.sample_idx}
      BY <2>1, <2>4, <2>6, RowOk
    <2>9. Shows(r.instr, doc, instr)
      BY <1>4, <2>4, <2>6, <2>8 DEF Shows, keysplit
    <2>10. Follows(q) => Follows(r)
      BY <2>6 DEF Follows
    <2>11. ~switched => wanted = p.instr.curr_patch
      BY <2>3
    <2> QED
      BY <1>4, <2>3, <2>4, <2>6, <2>7, <2>9, <2>10, <2>11 DEF r, keysplit
  <1> QED
    BY <1>2, <1>3, <1>4

-----------------------------------------------------------------------------
(* The commands.                                                           *)

Commands ==
  [kind : {"instrument"}, index : InstrumentSlots, value : Keysplits \cup {None}]
    \cup [kind : {"sample"}, index : SampleSlots, value : BOOLEAN]
    \cup [kind : {"swap_instruments"}, index : InstrumentSlots, value : InstrumentSlots]
    \cup [kind : {"swap_samples"}, index : SampleSlots, value : SampleSlots]
    \cup [kind : {"other"}, index : {0}, value : {0}]

LEMMA InstrumentChanges ==
  ASSUME NEW doc \in DocumentStates, NEW i \in InstrumentSlots, NEW k \in Keysplits \cup {None}
  PROVE  [doc EXCEPT !.instruments[i] = k] =
           [instruments |-> [doc.instruments EXCEPT ![i] = k], samples |-> doc.samples]
         /\ [doc EXCEPT !.instruments[i] = k] \in DocumentStates
  <1>1. /\ doc = [instruments |-> doc.instruments, samples |-> doc.samples]
        /\ doc.instruments \in [InstrumentSlots -> Keysplits \cup {None}]
        /\ doc.samples \in SUBSET SampleSlots
    BY DEF DocumentStates
  <1>2. [doc EXCEPT !.instruments[i] = k] =
          [instruments |-> [doc.instruments EXCEPT ![i] = k], samples |-> doc.samples]
    BY <1>1
  <1>3. [doc.instruments EXCEPT ![i] = k] \in [InstrumentSlots -> Keysplits \cup {None}]
    BY <1>1
  <1> QED
    BY <1>1, <1>2, <1>3 DEF DocumentStates

LEMMA InstrumentsSwap ==
  ASSUME NEW doc \in DocumentStates, NEW a \in InstrumentSlots, NEW b \in InstrumentSlots
  PROVE  SwapInstruments(doc, a, b) \in DocumentStates
  <1> DEFINE one == [doc EXCEPT !.instruments[a] = doc.instruments[b]]
  <1>1. /\ doc.instruments[a] \in Keysplits \cup {None}
        /\ doc.instruments[b] \in Keysplits \cup {None}
    BY DEF DocumentStates
  <1>2. one \in DocumentStates
    BY <1>1, InstrumentChanges
  <1>3. SwapInstruments(doc, a, b) = [one EXCEPT !.instruments[b] = doc.instruments[a]]
    BY DEF SwapInstruments
  <1> DEFINE k == doc.instruments[a]
  <1>4. k \in Keysplits \cup {None}
    BY <1>1
  <1> HIDE DEF one, k
  <1>5. [one EXCEPT !.instruments[b] = k] \in DocumentStates
    BY <1>2, <1>4, InstrumentChanges
  <1> QED
    BY <1>3, <1>5 DEF k

LEMMA SamplesSwap ==
  ASSUME NEW doc \in DocumentStates, NEW a \in SampleSlots, NEW b \in SampleSlots
  PROVE  SwapSamples(doc, a, b) \in DocumentStates
  <1> DEFINE renamed(keysplit) ==
               [k \in DOMAIN keysplit |-> [keysplit[k] EXCEPT !.sample_idx = Renamed(@, a, b)]]
  <1>1. \A s \in SampleSlots : Renamed(s, a, b) \in SampleSlots
    BY DEF Renamed
  <1>2. ASSUME NEW keysplit \in Keysplits PROVE renamed(keysplit) \in Keysplits
    <2>1. keysplit \in Seq(Patches) /\ Len(keysplit) \in Nat
          /\ DOMAIN keysplit = 1 .. Len(keysplit)
      BY <1>2 DEF Keysplits
    <2>2. ASSUME NEW k \in DOMAIN keysplit
          PROVE  [keysplit[k] EXCEPT !.sample_idx = Renamed(@, a, b)] \in Patches
      <3>1. keysplit[k] \in Patches
        BY <2>1, <2>2
      <3>2. Renamed(keysplit[k].sample_idx, a, b) \in SampleSlots
        BY <1>1, <3>1 DEF Patches
      <3> QED
        BY <3>1, <3>2 DEF Patches
    <2>3. renamed(keysplit) \in [1 .. Len(keysplit) -> Patches]
      BY <2>1, <2>2
    <2> HIDE DEF renamed
    <2> QED
      BY <2>1, <2>3, SeqDef DEF Keysplits
  <1> DEFINE instruments == [i \in InstrumentSlots |->
                               IF doc.instruments[i] = None THEN None
                               ELSE renamed(doc.instruments[i])]
             samples == {Renamed(s, a, b) : s \in doc.samples}
  <1>3. SwapSamples(doc, a, b) = [instruments |-> instruments, samples |-> samples]
    BY DEF SwapSamples
  <1>4. samples \in SUBSET SampleSlots
    BY <1>1 DEF DocumentStates
  <1> HIDE DEF renamed, samples
  <1>5. instruments \in [InstrumentSlots -> Keysplits \cup {None}]
    BY <1>2 DEF DocumentStates
  <1> HIDE DEF instruments
  <1> QED
    BY <1>3, <1>4, <1>5 DEF DocumentStates

LEMMA CommandsApply ==
  ASSUME NEW c \in Commands, NEW doc \in DocumentStates
  PROVE  Applied(c, doc) \in DocumentStates /\ Undoing(c, doc) \in Commands
  <1>1. CASE c \in [kind : {"instrument"}, index : InstrumentSlots,
                    value : Keysplits \cup {None}]
    <2>1. /\ Applied(c, doc) = [doc EXCEPT !.instruments[c.index] = c.value]
          /\ Undoing(c, doc) = [c EXCEPT !.value = doc.instruments[c.index]]
      BY <1>1 DEF Applied, Undoing
    <2>2. c.index \in InstrumentSlots /\ c.value \in Keysplits \cup {None}
          /\ doc.instruments[c.index] \in Keysplits \cup {None}
      BY <1>1 DEF DocumentStates
    <2>4. Applied(c, doc) \in DocumentStates
      <3> DEFINE i == c.index
                 k == c.value
      <3>1. i \in InstrumentSlots /\ k \in Keysplits \cup {None}
        BY <2>2
      <3>2. Applied(c, doc) = [doc EXCEPT !.instruments[i] = k]
        BY <2>1
      <3> HIDE DEF i, k
      <3>3. [doc EXCEPT !.instruments[i] = k] \in DocumentStates
        BY <3>1, InstrumentChanges
      <3> QED
        BY <3>2, <3>3
    <2>3. Undoing(c, doc) \in [kind : {"instrument"}, index : InstrumentSlots,
                               value : Keysplits \cup {None}]
      BY <1>1, <2>1, <2>2
    <2> QED
      BY <2>3, <2>4 DEF Commands
  <1>2. CASE c \in [kind : {"sample"}, index : SampleSlots, value : BOOLEAN]
    <2> DEFINE present == IF c.value THEN doc.samples \cup {c.index}
                          ELSE doc.samples \ {c.index}
    <2>1. /\ Applied(c, doc) = [doc EXCEPT !.samples = present]
          /\ Undoing(c, doc) = [c EXCEPT !.value = c.index \in doc.samples]
      BY <1>2 DEF Applied, Undoing
    <2>2. present \in SUBSET SampleSlots
      BY <1>2 DEF DocumentStates
    <2> HIDE DEF present
    <2>3. Applied(c, doc) \in DocumentStates
      BY <2>1, <2>2 DEF DocumentStates
    <2>4. Undoing(c, doc) \in [kind : {"sample"}, index : SampleSlots, value : BOOLEAN]
      <3> DEFINE v == c.index \in doc.samples
      <3>1. v \in BOOLEAN
        OBVIOUS
      <3>2. Undoing(c, doc) = [c EXCEPT !.value = v]
        BY <2>1
      <3> HIDE DEF v
      <3> QED
        BY <1>2, <3>1, <3>2
    <2> QED
      BY <2>3, <2>4 DEF Commands
  <1>3. CASE c \in [kind : {"swap_instruments"}, index : InstrumentSlots,
                    value : InstrumentSlots]
    <2>1. /\ Applied(c, doc) = SwapInstruments(doc, c.index, c.value)
          /\ Undoing(c, doc) = c
      BY <1>3 DEF Applied, Undoing
    <2> QED
      BY <1>3, <2>1, InstrumentsSwap
  <1>4. CASE c \in [kind : {"swap_samples"}, index : SampleSlots, value : SampleSlots]
    <2>1. Applied(c, doc) = SwapSamples(doc, c.index, c.value) /\ Undoing(c, doc) = c
      BY <1>4 DEF Applied, Undoing
    <2> QED
      BY <1>4, <2>1, SamplesSwap
  <1>5. CASE c \in [kind : {"other"}, index : {0}, value : {0}]
    <2>1. Applied(c, doc) = doc /\ Undoing(c, doc) = c
      BY <1>5 DEF Applied, Undoing
    <2> QED
      BY <2>1
  <1> QED
    BY <1>1, <1>2, <1>3, <1>4, <1>5 DEF Commands

-----------------------------------------------------------------------------
(* The invariant, and what a step does.                                    *)

PanelsOk ==
  /\ document \in DocumentStates /\ instrument \in InstrumentSlots
  /\ dialog \in Dialogs \cup {None} /\ sample_dialog \in SampleDialogs \cup {None}
  /\ DialogShowsPatch

HistoryOk ==
  undo_stack \in Seq(Commands) /\ redo_stack \in Seq(Commands) /\ edits \in Nat

DialogsInv == PanelsOk /\ HistoryOk /\ show_empty \in BOOLEAN

(* The sample dialog is told of the sample the instrument dialog comes to. *)
SampleTold ==
  (/\ dialog' # None /\ sample_dialog # None /\ sample_dialog' # None
   /\ dialog = None \/ dialog.prev_sample # dialog'.prev_sample
   /\ dialog'.prev_sample # None)
  => sample_dialog'.curr_sample = dialog'.prev_sample

(* An edit turns the keysplit "before" into "after", and goes from row to  *)
(* the row "to".                                                           *)
EditGoesTo(before, row, after, to) ==
  /\ CASE Len(after) > Len(before) -> RemoveAt(after, to) = before
       [] Len(after) = Len(before) -> RemoveAt(after, to) = RemoveAt(before, row)
       [] OTHER -> after = RemoveAt(before, row) /\ to = Min({row, Len(after)})
  /\ Sorted(before) /\ ~Sorted(after) => after[to] = before[row]

EditsFollow ==
  KeysplitEdited => EditGoesTo(Keysplit, dialog.curr_patch, Keysplit', dialog'.curr_patch)

StepOk == DialogsInv' /\ (~SamplesSwapped => SampleTold) /\ EditsFollow

LEMMA PanelsAreOk ==
  ASSUME PanelsOk
  PROVE  IsPanels(panels) /\ panels.instr = dialog /\ panels.sample = sample_dialog
         /\ (dialog # None => dialog \in Dialogs /\ Shows(dialog, document, instrument)
                              /\ Keysplit \in Keysplits)
         /\ Keysplit \in Keysplits \cup {None}
  <1>1. IsPanels(panels) /\ panels.instr = dialog /\ panels.sample = sample_dialog
    BY DEF IsPanels, panels, PanelsOk
  <1>2. Keysplit \in Keysplits \cup {None}
    BY DEF PanelsOk, DocumentStates, Keysplit
  <1>3. dialog # None => Shows(dialog, document, instrument) /\ Keysplit # None
    BY DEF PanelsOk, DialogShowsPatch, Shows, Keysplit
  <1> QED
    BY <1>1, <1>2, <1>3 DEF PanelsOk

LEMMA CommitKeeps ==
  ASSUME NEW doc \in DocumentStates, NEW instr \in InstrumentSlots, NEW p, IsPanels(p),
         NEW switched \in BOOLEAN, NEW sample \in SampleSlots \cup {None},
         Commit(doc, instr, p, switched, sample)
  PROVE  /\ document' = doc /\ instrument' = instr
         /\ dialog' \in Dialogs \cup {None} /\ sample_dialog' \in SampleDialogs \cup {None}
         /\ dialog' # None =>
              /\ p.instr # None /\ Shows(dialog', doc, instr)
              /\ ~switched =>
                   dialog'.curr_patch = Row(doc.instruments[instr], p.instr.curr_patch)
              /\ sample = None
                 /\ (switched \/ dialog'.prev_sample # p.instr.prev_sample \/ Follows(p))
                 /\ dialog'.prev_sample # None /\ sample_dialog' # None =>
                      sample_dialog'.curr_sample = dialog'.prev_sample
  <1> DEFINE r == ReloadInstrDialog(doc, instr, p, switched)
             t == ReloadSampleDialog(r, sample)
  <1>1. /\ document' = doc /\ instrument' = instr
        /\ dialog' = t.instr /\ sample_dialog' = t.sample
    BY DEF Commit
  <1>2. /\ IsPanels(r)
        /\ r.instr # None <=> p.instr # None /\ doc.instruments[instr] # None
        /\ r.instr # None =>
             /\ r.instr \in Dialogs /\ Shows(r.instr, doc, instr)
             /\ ~switched => r.instr.curr_patch =
                               Row(doc.instruments[instr], p.instr.curr_patch)
             /\ switched \/ r.instr.prev_sample # p.instr.prev_sample \/ Follows(p) =>
                  Follows(r)
    BY DialogReloads
  <1> HIDE DEF r
  <1>3. /\ t.instr = r.instr /\ t.sample \in SampleDialogs \cup {None}
        /\ sample = None => t.sample = r.sample
    <2>1. CASE None \in {r.sample, sample}
      BY <1>2, <2>1 DEF ReloadSampleDialog, IsPanels
    <2>2. CASE None \notin {r.sample, sample}
      <3>1. t = [r EXCEPT !.sample.curr_sample = sample]
        BY <2>2 DEF ReloadSampleDialog
      <3>2. r.sample \in SampleDialogs /\ sample \in SampleSlots /\ sample # None
        BY <1>2, <2>2 DEF IsPanels
      <3> DEFINE d == r.instr
                 e == r.sample
                 f == [e EXCEPT !.curr_sample = sample]
      <3>3. r = [instr |-> d, sample |-> e]
        BY <1>2 DEF IsPanels
      <3>4. f \in SampleDialogs
        BY <3>2 DEF SampleDialogs
      <3> HIDE DEF d, e, t
      <3>5. t = [instr |-> d, sample |-> f]
        BY <3>1, <3>3
      <3> HIDE DEF f
      <3> QED
        BY <3>2, <3>4, <3>5 DEF d
    <2> QED
      BY <2>1, <2>2
  <1> HIDE DEF t
  <1>4. dialog' = r.instr /\ (sample = None => sample_dialog' = r.sample)
    BY <1>1, <1>3
  <1>5. dialog' \in Dialogs \cup {None} /\ sample_dialog' \in SampleDialogs \cup {None}
    BY <1>1, <1>2, <1>3 DEF IsPanels
  <1>6. ASSUME dialog' # None
        PROVE  /\ p.instr # None /\ Shows(dialog', doc, instr)
               /\ ~switched =>
                    dialog'.curr_patch = Row(doc.instruments[instr], p.instr.curr_patch)
    BY <1>2, <1>4, <1>6
  <1>7. ASSUME dialog' # None, sample = None, dialog'.prev_sample # None,
               sample_dialog' # None,
               switched \/ dialog'.prev_sample # p.instr.prev_sample \/ Follows(p)
        PROVE  sample_dialog'.curr_sample = dialog'.prev_sample
    <2>1. Follows(r)
      BY <1>2, <1>4, <1>7
    <2> QED
      BY <1>4, <1>7, <2>1 DEF Follows
  <1> QED
    BY <1>1, <1>5, <1>6, <1>7

(* The end of a transaction that has not yet shown another sample.         *)
LEMMA CommitStep ==
  ASSUME PanelsOk,
         NEW doc \in DocumentStates, NEW instr \in InstrumentSlots, NEW p, IsPanels(p),
         NEW switched \in BOOLEAN, NEW sample \in SampleSlots \cup {None},
         Commit(doc, instr, p, switched, sample)
  PROVE  /\ PanelsOk'
         /\ (sample = None
             /\ (switched \/ p.instr = None \/ p.instr = dialog \/ Follows(p)))
            => SampleTold
  <1>1. /\ document' = doc /\ instrument' = instr
        /\ dialog' \in Dialogs \cup {None} /\ sample_dialog' \in SampleDialogs \cup {None}
    BY CommitKeeps
  <1>2. dialog' # None =>
          /\ p.instr # None /\ Shows(dialog', doc, instr)
          /\ sample = None
             /\ (switched \/ dialog'.prev_sample # p.instr.prev_sample \/ Follows(p))
             /\ dialog'.prev_sample # None /\ sample_dialog' # None =>
                  sample_dialog'.curr_sample = dialog'.prev_sample
    BY CommitKeeps
  <1>3. DialogShowsPatch'
    BY <1>1, <1>2 DEF DialogShowsPatch, Shows, Keysplit
  <1>4. ASSUME sample = None, switched \/ p.instr = None \/ p.instr = dialog \/ Follows(p)
        PROVE  SampleTold
    BY <1>2, <1>4 DEF SampleTold
  <1> QED
    BY <1>1, <1>3, <1>4 DEF PanelsOk

LEMMA PushStep ==
  ASSUME DialogsInv, NEW c \in Commands, Push(c)
  PROVE  /\ HistoryOk' /\ edits' # edits
         /\ undo_stack' # <<>> /\ Last(undo_stack') = Undoing(c, document)
         /\ ~KeysplitEdited /\ Applied(c, document) \in DocumentStates
  <1>1. /\ undo_stack \in Seq(Commands) /\ edits \in Nat /\ document \in DocumentStates
        /\ undo_stack' = Append(undo_stack, Undoing(c, document))
        /\ redo_stack' = <<>> /\ edits' = edits + 1
    BY DEF DialogsInv, HistoryOk, PanelsOk, Push
  <1>2. Undoing(c, document) \in Commands /\ Applied(c, document) \in DocumentStates
    BY <1>1, CommandsApply
  <1> DEFINE u == Undoing(c, document)
  <1> HIDE DEF u
  <1>3. u \in Commands /\ undo_stack' = Append(undo_stack, u)
    BY <1>1, <1>2 DEF u
  <1>4. undo_stack' \in Seq(Commands) /\ Len(undo_stack') = Len(undo_stack) + 1
    BY <1>1, <1>3
  <1>5. undo_stack' # <<>> /\ Last(undo_stack') = u
    BY <1>1, <1>3 DEF Last
  <1>6. undo_stack' # undo_stack
    BY <1>1, <1>4
  <1>7. redo_stack' \in Seq(Commands) /\ edits' \in Nat /\ edits' # edits
    BY <1>1
  <1> QED
    BY <1>2, <1>4, <1>5, <1>6, <1>7 DEF HistoryOk, KeysplitEdited, u

(* push_edit() of a command, and the end of its transaction.               *)
LEMMA PushAndCommitStep ==
  ASSUME DialogsInv, NEW c \in Commands, NEW instr \in InstrumentSlots, NEW p, IsPanels(p),
         NEW switched \in BOOLEAN, NEW sample \in SampleSlots \cup {None},
         PushAndCommit(c, instr, p, switched, sample), show_empty' \in BOOLEAN,
         \/ c.kind = "swap_samples"
         \/ sample = None /\ (switched \/ p.instr = None \/ p.instr = dialog \/ Follows(p))
  PROVE  StepOk
  <1>1. Push(c) /\ Commit(Applied(c, document), instr, p, switched, sample)
    BY DEF PushAndCommit
  <1>2. /\ HistoryOk' /\ edits' # edits
        /\ undo_stack' # <<>> /\ Last(undo_stack') = Undoing(c, document)
        /\ ~KeysplitEdited /\ Applied(c, document) \in DocumentStates
    BY <1>1, PushStep
  <1> DEFINE doc == Applied(c, document)
  <1> HIDE DEF doc
  <1>3. doc \in DocumentStates /\ Commit(doc, instr, p, switched, sample) /\ PanelsOk
    BY <1>1, <1>2 DEF doc, DialogsInv
  <1>4. /\ PanelsOk'
        /\ (sample = None /\ (switched \/ p.instr = None \/ p.instr = dialog \/ Follows(p)))
           => SampleTold
    BY <1>3, CommitStep
  <1>5. c.kind = "swap_samples" => SamplesSwapped
    <2>1. ASSUME c.kind = "swap_samples" PROVE Undoing(c, document) = c
      BY <2>1 DEF Undoing
    <2> QED
      BY <1>2, <2>1 DEF SamplesSwapped
  <1> QED
    BY <1>2, <1>4, <1>5 DEF StepOk, DialogsInv, EditsFollow

(* A step that leaves the document, the instrument and the history alone.  *)
LEMMA SameDocumentStep ==
  ASSUME DialogsInv, UNCHANGED <<document, undo_stack, redo_stack, instrument, edits>>,
         show_empty' \in BOOLEAN,
         dialog' \in Dialogs \cup {None}, sample_dialog' \in SampleDialogs \cup {None},
         dialog' # None => Shows(dialog', document, instrument),
         SampleTold
  PROVE  StepOk
  <1>1. HistoryOk'
    BY DEF DialogsInv, HistoryOk
  <1>2. PanelsOk'
    <2>1. DialogShowsPatch'
      BY DEF DialogShowsPatch, Shows, Keysplit
    <2> QED
      BY <2>1 DEF DialogsInv, PanelsOk
  <1>3. EditsFollow
    BY DEF EditsFollow, KeysplitEdited
  <1> QED
    BY <1>1, <1>2, <1>3 DEF StepOk, DialogsInv

(* Edits that go to no panel.                                              *)
LEMMA HistorySteps ==
  ASSUME DialogsInv, Undo \/ Redo \/ OtherEdit \/ OpenDocument
  PROVE  StepOk
  <1>1. /\ IsPanels(panels) /\ panels.instr = dialog /\ PanelsOk /\ instrument \in InstrumentSlots
        /\ document \in DocumentStates
    BY PanelsAreOk DEF DialogsInv, PanelsOk
  <1>2. undo_stack \in Seq(Commands) /\ redo_stack \in Seq(Commands) /\ edits \in Nat
    BY DEF DialogsInv, HistoryOk
  <1>3. ASSUME NEW s \in Seq(Commands), s # <<>>
        PROVE  Last(s) \in Commands /\ Front(s) \in Seq(Commands)
    BY <1>3 DEF Last, Front
  <1>4. ASSUME NEW c \in Commands, Commit(Applied(c, document), instrument, panels, FALSE, None),
               HistoryOk', edits' = edits, show_empty' = show_empty
        PROVE  StepOk
    <2> DEFINE doc == Applied(c, document)
    <2>1. doc \in DocumentStates
      BY <1>1, CommandsApply
    <2> HIDE DEF doc
    <2>2. Commit(doc, instrument, panels, FALSE, None)
      BY <1>4 DEF doc
    <2>3. PanelsOk' /\ SampleTold
      BY <1>1, <2>1, <2>2, CommitStep
    <2> QED
      BY <1>4, <2>3 DEF StepOk, DialogsInv, EditsFollow, KeysplitEdited
  <1>5. CASE Undo
    <2> DEFINE c == Last(undo_stack)
               u == Undoing(c, document)
    <2>1. /\ undo_stack # <<>> /\ undo_stack' = Front(undo_stack)
          /\ redo_stack' = Append(redo_stack, u)
          /\ Commit(Applied(c, document), instrument, panels, FALSE, None)
          /\ edits' = edits /\ show_empty' = show_empty
      BY <1>5 DEF Undo
    <2>2. c \in Commands /\ Front(undo_stack) \in Seq(Commands)
      BY <1>2, <1>3, <2>1
    <2> HIDE DEF c
    <2>3. u \in Commands
      BY <1>1, <2>2, CommandsApply
    <2> HIDE DEF u
    <2>4. HistoryOk'
      BY <1>2, <2>1, <2>2, <2>3 DEF HistoryOk
    <2> QED
      BY <1>4, <2>1, <2>2, <2>4
  <1>6. CASE Redo
    <2> DEFINE c == Last(redo_stack)
               u == Undoing(c, document)
    <2>1. /\ redo_stack # <<>> /\ redo_stack' = Front(redo_stack)
          /\ undo_stack' = Append(undo_stack, u)
          /\ Commit(Applied(c, document), instrument, panels, FALSE, None)
          /\ edits' = edits /\ show_empty' = show_empty
      BY <1>6 DEF Redo
    <2>2. c \in Commands /\ Front(redo_stack) \in Seq(Commands)
      BY <1>2, <1>3, <2>1
    <2> HIDE DEF c
    <2>3. u \in Commands
      BY <1>1, <2>2, CommandsApply
    <2> HIDE DEF u
    <2>4. HistoryOk'
      BY <1>2, <2>1, <2>2, <2>3 DEF HistoryOk
    <2> QED
      BY <1>4, <2>1, <2>2, <2>4
  <1>7. CASE OtherEdit
    <2>1. Command("other", 0, 0) \in Commands
      BY DEF Command, Commands
    <2> DEFINE c == Command("other", 0, 0)
    <2>2. PushAndCommit(c, instrument, panels, FALSE, None) /\ show_empty' \in BOOLEAN
      BY <1>7 DEF OtherEdit, DialogsInv
    <2> HIDE DEF c
    <2>3. c \in Commands
      BY <2>1 DEF c
    <2> QED
      BY <1>1, <2>2, <2>3, PushAndCommitStep
  <1>8. CASE OpenDocument
    <2>1. /\ document' \in DocumentStates /\ instrument' \in InstrumentSlots
          /\ undo_stack' \in Seq(Commands) /\ redo_stack' \in Seq(Commands)
          /\ dialog' = None /\ sample_dialog' = None /\ edits' = edits
          /\ show_empty' = show_empty
      BY <1>8, DocumentsAssumption, SlotsAssumption DEF OpenDocument, InstrumentSlots
    <2> QED
      BY <1>2, <2>1 DEF StepOk, DialogsInv, PanelsOk, HistoryOk, DialogShowsPatch, SampleTold,
                        EditsFollow, KeysplitEdited
  <1> QED
    BY <1>5, <1>6, <1>7, <1>8

(* The end of an edit of the keysplit.                                     *)
LEMMA EditKeysplitStep ==
  ASSUME DialogsInv, dialog # None,
         NEW after \in Keysplits, NEW move \in (Nat \ {0}) \cup {None},
         NEW to, to = Row(after, IF move = None THEN dialog.curr_patch ELSE move),
         EditKeysplit(after, move),
         EditGoesTo(Keysplit, dialog.curr_patch, after, to)
  PROVE  StepOk
  <1> DEFINE doc == [document EXCEPT !.instruments[instrument] = after]
             p == IF move = None THEN panels ELSE ReloadKeysplit(after, panels, move)
  <1>1. /\ IsPanels(panels) /\ panels.instr = dialog /\ PanelsOk
        /\ instrument \in InstrumentSlots /\ document \in DocumentStates
        /\ dialog \in Dialogs /\ dialog.curr_patch \in Nat \ {0}
    BY PanelsAreOk DEF DialogsInv, PanelsOk, Dialogs
  <1>2. /\ doc = [instruments |-> [document.instruments EXCEPT ![instrument] = after],
                  samples |-> document.samples]
        /\ doc \in DocumentStates
    BY <1>1, InstrumentChanges
  <1>3. doc.instruments[instrument] = after
    BY <1>1, <1>2 DEF DocumentStates
  <1>4. /\ Commit(doc, instrument, p, FALSE, None)
        /\ edits' = edits + 1
        /\ UNCHANGED <<undo_stack, redo_stack, show_empty>>
    BY DEF EditKeysplit
  <1> HIDE DEF doc
  <1>5. /\ IsPanels(p) /\ (p.instr = dialog \/ Follows(p))
        /\ p.instr.curr_patch \in Nat \ {0}
        /\ Row(after, p.instr.curr_patch) = to
    <2>1. CASE move = None
      BY <1>1, <2>1
    <2>2. CASE move # None
      <3>1. move \in Nat \ {0} /\ p = ReloadKeysplit(after, panels, move) /\ to = Row(after, move)
        BY <2>2
      <3> HIDE DEF p
      <3>2. /\ IsPanels(p) /\ Follows(p) /\ p.instr.curr_patch = Row(after, move)
        BY <1>1, <2>2, <3>1, KeysplitReloads
      <3>3. to \in Nat \ {0} /\ Row(after, to) = to
        <4>1. CASE after = <<>>
          <5>1. to = NoRow /\ Row(after, to) = NoRow
            BY <3>1, <4>1 DEF Row
          <5> QED
            BY <5>1, MaxKeysplitsAssumption DEF NoRow
        <4>2. CASE after # <<>>
          <5>1. to \in 1 .. Len(after) /\ to \in Nat \ {0}
            BY <3>1, <4>2, RowOk
          <5> QED
            BY <4>2, <5>1, RowOk
        <4> QED
          BY <4>1, <4>2
      <3> QED
        BY <3>1, <3>2, <3>3
    <2> QED
      BY <2>1, <2>2
  <1> HIDE DEF p
  <1>6. PanelsOk' /\ SampleTold
    BY <1>1, <1>2, <1>4, <1>5, CommitStep
  <1>7. /\ document' = doc /\ instrument' = instrument
        /\ dialog' # None => dialog'.curr_patch = to
    <2>1. /\ document' = doc /\ instrument' = instrument
          /\ dialog' # None =>
               dialog'.curr_patch = Row(doc.instruments[instrument], p.instr.curr_patch)
      BY <1>1, <1>2, <1>4, <1>5, CommitKeeps
    <2> QED
      BY <1>3, <1>5, <2>1
  <1>8. Keysplit' = after
    BY <1>3, <1>7 DEF Keysplit
  <1>9. dialog' # None
    <2>1. p.instr # None
      <3>1. CASE move = None
        BY <3>1 DEF p, panels
      <3>2. CASE move # None
        <4>1. move \in Nat \ {0} /\ p = ReloadKeysplit(after, panels, move)
          BY <3>2 DEF p
        <4>2. p.instr \in Dialogs
          BY <1>1, <3>2, <4>1, KeysplitReloads
        <4> QED
          BY <4>2, NoneIsNothing
      <3> QED
        BY <3>1, <3>2
    <2> DEFINE r == ReloadInstrDialog(doc, instrument, p, FALSE)
    <2>2. doc.instruments[instrument] # None
      BY <1>3, NoneIsNothing
    <2>3. r.instr # None /\ IsPanels(r)
      <3>1. /\ doc \in DocumentStates /\ instrument \in InstrumentSlots /\ IsPanels(p)
            /\ FALSE \in BOOLEAN
        BY <1>1, <1>2, <1>5
      <3>2. /\ IsPanels(r)
            /\ r.instr # None <=> p.instr # None /\ doc.instruments[instrument] # None
        BY <3>1, DialogReloads
      <3> HIDE DEF r
      <3> QED
        BY <2>1, <2>2, <3>2
    <2>4. dialog' = ReloadSampleDialog(r, None).instr
      BY <1>4 DEF Commit
    <2> HIDE DEF r
    <2> QED
      BY <2>3, <2>4 DEF ReloadSampleDialog
  <1>10. EditsFollow
    BY <1>7, <1>8, <1>9 DEF EditsFollow
  <1>11. HistoryOk' /\ show_empty' \in BOOLEAN
    BY <1>4 DEF DialogsInv, HistoryOk
  <1> QED
    BY <1>6, <1>10, <1>11 DEF StepOk, DialogsInv

(* The patch that is selected.                                             *)
LEMMA SelectedPatch ==
  ASSUME DialogsInv, PatchSelected
  PROVE  /\ dialog # None /\ Keysplit \in Keysplits
         /\ dialog.curr_patch \in 1 .. Len(Keysplit) /\ Len(Keysplit) \in Nat \ {0}
         /\ dialog.patch = Keysplit[dialog.curr_patch]
         /\ Keysplit[dialog.curr_patch] \in Patches
         /\ dialog.visible \in SUBSET SampleSlots
  <1>1. /\ dialog # None /\ dialog \in Dialogs /\ Keysplit \in Keysplits
        /\ Shows(dialog, document, instrument)
    BY PanelsAreOk DEF DialogsInv, PatchSelected
  <1>2. Len(Keysplit) \in Nat /\ dialog.curr_patch \in Nat \ {0}
        /\ dialog.visible \in SUBSET SampleSlots
    BY <1>1, KeysplitNotes DEF Dialogs
  <1>3. dialog.curr_patch \in 1 .. Len(Keysplit) /\ Len(Keysplit) \in Nat \ {0}
    BY <1>2 DEF PatchSelected
  <1>4. dialog.patch = Keysplit[dialog.curr_patch]
    BY <1>1, <1>3 DEF Shows, Keysplit
  <1> QED
    BY <1>1, <1>2, <1>3, <1>4, KeysplitNotes

(* An edit that keeps the number of patches.                               *)
LEMMA EditedStep ==
  ASSUME DialogsInv, dialog # None, Keysplit \in Keysplits,
         NEW after, NEW to, NEW move \in (Nat \ {0}) \cup {None},
         to = IF move = None THEN dialog.curr_patch ELSE move,
         Edited(Keysplit, dialog.curr_patch, after, to),
         Sorted(Keysplit) /\ ~Sorted(after) => after[to] = Keysplit[dialog.curr_patch],
         EditKeysplit(after, move)
  PROVE  StepOk
  <1> DEFINE before == Keysplit
             row == dialog.curr_patch
  <1>1. /\ after \in Keysplits /\ Len(after) = Len(before) /\ to \in 1 .. Len(after)
        /\ RemoveAt(after, to) = RemoveAt(before, row)
    BY DEF Edited
  <1>2. Len(after) \in Nat /\ Len(before) \in Nat
    BY KeysplitNotes, <1>1
  <1>3. after # <<>> /\ to \in Nat \ {0}
    BY <1>1, <1>2
  <1>4. Row(after, to) = to
    BY <1>1, <1>3, RowOk
  <1>5. EditGoesTo(before, row, after, to)
    <2>1. ~(Len(after) > Len(before))
      BY <1>1, <1>2
    <2> HIDE DEF before, row
    <2> QED
      BY <1>1, <2>1 DEF EditGoesTo, before, row
  <1> QED
    BY <1>1, <1>4, <1>5, EditKeysplitStep

LEMMA AddPatchStep ==
  ASSUME DialogsInv, AddPatch
  PROVE  StepOk
  <1> DEFINE n == Len(Keysplit)
             after == TryAddPatch(Keysplit, n + 1)
  <1>1. /\ dialog # None /\ dialog \in Dialogs /\ Keysplit \in Keysplits
        /\ dialog.keysplit_size = n
    BY PanelsAreOk DEF DialogsInv, AddPatch, Shows, Keysplit
  <1>2. after # None /\ EditKeysplit(after, n + 1)
    BY <1>1 DEF AddPatch
  <1>3. /\ after \in Keysplits /\ Len(after) = n + 1 /\ RemoveAt(after, Len(after)) = Keysplit
        /\ Sorted(Keysplit) => Sorted(after)
    BY <1>1, <1>2, PatchAdded
  <1> HIDE DEF after
  <1>4. n \in Nat /\ n + 1 \in Nat \ {0} /\ n + 1 # None /\ n + 1 > n
    BY <1>1, KeysplitNotes, NoneIsNothing
  <1>5. Row(after, n + 1) = n + 1
    <2>1. after # <<>>
      BY <1>3, <1>4
    <2> QED
      BY <1>3, <1>4, <2>1, RowOk
  <1>6. EditGoesTo(Keysplit, dialog.curr_patch, after, n + 1)
    <2>1. Len(after) > Len(Keysplit)
      BY <1>3, <1>4
    <2> QED
      BY <1>3, <1>4, <2>1 DEF EditGoesTo
  <1> DEFINE m == n + 1
  <1>7. /\ m \in (Nat \ {0}) \cup {None} /\ m # None /\ EditKeysplit(after, m)
        /\ Row(after, m) = m /\ EditGoesTo(Keysplit, dialog.curr_patch, after, m)
    BY <1>2, <1>4, <1>5, <1>6
  <1> HIDE DEF m
  <1> QED
    BY <1>1, <1>3, <1>7, EditKeysplitStep

LEMMA RemovePatchStep ==
  ASSUME DialogsInv, RemovePatch
  PROVE  StepOk
  <1> DEFINE k == dialog.curr_patch
             after == TryRemovePatch(Keysplit, k)
  <1>1. /\ dialog # None /\ Keysplit \in Keysplits
        /\ k \in 1 .. Len(Keysplit) /\ Len(Keysplit) \in Nat \ {0}
    BY SelectedPatch DEF RemovePatch
  <1>2. after # None /\ EditKeysplit(after, None)
    BY DEF RemovePatch
  <1>3. /\ after \in Keysplits /\ Len(after) = Len(Keysplit) - 1 /\ Len(after) > 0
        /\ after = RemoveAt(Keysplit, k)
        /\ Sorted(Keysplit) => Sorted(after)
    BY <1>1, <1>2, PatchRemoved
  <1> HIDE DEF after
  <1>4. Row(after, k) = Min({k, Len(after)})
    <2>1. after # <<>>
      BY <1>3
    <2> QED
      BY <2>1 DEF Row
  <1>5. EditGoesTo(Keysplit, k, after, Row(after, k))
    <2>1. ~(Len(after) > Len(Keysplit)) /\ Len(after) # Len(Keysplit)
      BY <1>1, <1>3
    <2> QED
      BY <1>3, <1>4, <2>1 DEF EditGoesTo
  <1> QED
    BY <1>1, <1>2, <1>3, <1>5, EditKeysplitStep

LEMMA MovePatchSteps ==
  ASSUME DialogsInv, MovePatchUp \/ MovePatchDown
  PROVE  StepOk
  <1> DEFINE k == dialog.curr_patch
             swapped(i) == [Keysplit EXCEPT ![i] = Keysplit[i + 1], ![i + 1] = Keysplit[i]]
  <1>1. /\ dialog # None /\ Keysplit \in Keysplits
        /\ k \in 1 .. Len(Keysplit) /\ Len(Keysplit) \in Nat \ {0}
    BY SelectedPatch DEF MovePatchUp, MovePatchDown
  <1>2. ASSUME NEW i \in 1 .. Len(Keysplit) - 1
        PROVE  /\ Edited(Keysplit, i, swapped(i), i + 1) /\ swapped(i)[i + 1] = Keysplit[i]
               /\ Edited(Keysplit, i + 1, swapped(i), i) /\ swapped(i)[i] = Keysplit[i + 1]
    BY <1>1, PatchesSwapped
  <1>3. CASE MovePatchUp
    <2>1. /\ TryMovePatchUp(Keysplit, k) # None
          /\ EditKeysplit(TryMovePatchUp(Keysplit, k), k - 1)
      BY <1>3 DEF MovePatchUp
    <2>2. k # 1 /\ TryMovePatchUp(Keysplit, k) = TryMovePatchDown(Keysplit, k - 1)
      BY <2>1 DEF TryMovePatchUp
    <2> DEFINE i == k - 1
    <2>3. i \in 1 .. Len(Keysplit) - 1 /\ i + 1 = k /\ i # None /\ i \in Nat \ {0}
          /\ ~(i >= Len(Keysplit))
      BY <1>1, <2>2, NoneIsNothing
    <2>4. EditKeysplit(TryMovePatchDown(Keysplit, i), i)
      BY <2>1, <2>2
    <2> HIDE DEF i
    <2>5. TryMovePatchDown(Keysplit, i) = swapped(i)
      BY <2>3 DEF TryMovePatchDown
    <2> DEFINE after == swapped(i)
    <2>6. Edited(Keysplit, k, after, i) /\ after[i] = Keysplit[k]
      BY <1>2, <2>3
    <2>7. EditKeysplit(after, i)
      BY <2>4, <2>5
    <2> HIDE DEF swapped, after, k
    <2>8. i \in (Nat \ {0}) \cup {None} /\ i # None
      BY <2>3
    <2> QED
      BY <1>1, <2>6, <2>7, <2>8, EditedStep DEF k
  <1>4. CASE MovePatchDown
    <2>1. /\ TryMovePatchDown(Keysplit, k) # None
          /\ EditKeysplit(TryMovePatchDown(Keysplit, k), k + 1)
      BY <1>4 DEF MovePatchDown
    <2>2. ~(k >= Len(Keysplit)) /\ TryMovePatchDown(Keysplit, k) = swapped(k)
      BY <2>1 DEF TryMovePatchDown
    <2> DEFINE i == k + 1
               after == swapped(k)
    <2>3. k \in 1 .. Len(Keysplit) - 1 /\ i # None /\ i \in (Nat \ {0}) \cup {None}
      BY <1>1, <2>2, NoneIsNothing
    <2>4. Edited(Keysplit, k, after, i) /\ after[i] = Keysplit[k]
      BY <1>2, <2>3
    <2>5. EditKeysplit(after, i)
      BY <2>1, <2>2
    <2> HIDE DEF swapped, after, i, k
    <2> QED
      BY <1>1, <2>3, <2>4, <2>5, EditedStep DEF k
  <1> QED
    BY <1>3, <1>4

(* The widgets of the patch: its lowest note, its sample, its envelope.    *)
LEMMA OnSetSteps ==
  ASSUME DialogsInv, OnSetMinKey \/ OnSetSample \/ OnSetAdsr
  PROVE  StepOk
  <1> DEFINE k == dialog.curr_patch
             patch == Keysplit[k]
  <1>1. /\ dialog # None /\ Keysplit \in Keysplits
        /\ k \in 1 .. Len(Keysplit) /\ Len(Keysplit) \in Nat \ {0}
        /\ dialog.patch = patch /\ patch \in Patches
        /\ dialog.visible \in SUBSET SampleSlots
    BY SelectedPatch DEF OnSetMinKey, OnSetSample, OnSetAdsr
  <1>2. ASSUME NEW changed \in Patches, NEW after, after = [Keysplit EXCEPT ![k] = changed],
               changed.min_note = patch.min_note, EditKeysplit(after, None)
        PROVE  StepOk
    <2>1. Edited(Keysplit, k, after, k) /\ (Sorted(Keysplit) => Sorted(after))
      BY <1>1, <1>2, PatchReplaced
    <2> HIDE DEF k, patch
    <2> QED
      BY <1>1, <1>2, <2>1, EditedStep DEF k
  <1>3. CASE OnSetMinKey
    <2>1. PICK note \in Notes : LET edit == SetMinKey(Keysplit, k, note)
                                IN  EditKeysplit(edit.keysplit, edit.patch)
      BY <1>3 DEF OnSetMinKey
    <2>2. note \in Nat
      BY DocumentsAssumption
    <2> DEFINE after == SetMinKey(Keysplit, k, note).keysplit
               to == SetMinKey(Keysplit, k, note).patch
    <2>3. Edited(Keysplit, k, after, to) /\ (Sorted(Keysplit) => Sorted(after))
      BY <1>1, <2>2, MinKeySet
    <2>4. EditKeysplit(after, to)
      BY <2>1
    <2> HIDE DEF after, to, k
    <2>5. to \in Nat \ {0} /\ to # None
      <3>1. after \in Keysplits /\ to \in 1 .. Len(after)
        BY <2>3 DEF Edited
      <3>2. to \in Nat \ {0}
        BY <3>1, KeysplitNotes
      <3> QED
        BY <3>2, NoneIsNothing
    <2> QED
      BY <1>1, <2>3, <2>4, <2>5, EditedStep DEF k
  <1>4. CASE OnSetSample
    <2>1. PICK sample \in dialog.visible : EditKeysplit(SetSampleIdx(Keysplit, k, sample), None)
      BY <1>4 DEF OnSetSample
    <2> DEFINE changed == [patch EXCEPT !.sample_idx = sample]
    <2>2. sample \in SampleSlots
      BY <1>1
    <2>3. changed \in Patches /\ changed.min_note = patch.min_note
      BY <1>1, <2>2 DEF Patches
    <2>4. SetSampleIdx(Keysplit, k, sample) = [Keysplit EXCEPT ![k] = changed]
      BY DEF SetSampleIdx
    <2> HIDE DEF changed
    <2> QED
      BY <1>2, <2>1, <2>3, <2>4
  <1>5. CASE OnSetAdsr
    <2>1. PICK adsr \in Adsrs, field \in DOMAIN DEFAULT_ADSR :
            /\ adsr = [patch.adsr EXCEPT ![field] = adsr[field]]
            /\ EditKeysplit(SetAdsrField(Keysplit, k, field, adsr[field]), None)
      BY <1>1, <1>5 DEF OnSetAdsr
    <2> DEFINE changed == [patch EXCEPT !.adsr = adsr]
    <2>2. changed \in Patches /\ changed.min_note = patch.min_note
      BY <1>1 DEF Patches
    <2>3. SetAdsrField(Keysplit, k, field, adsr[field]) = [Keysplit EXCEPT ![k] = changed]
      <3> DEFINE v == adsr[field]
      <3>1. SetAdsrField(Keysplit, k, field, v) =
              [Keysplit EXCEPT ![k] = [patch EXCEPT !.adsr = [patch.adsr EXCEPT ![field] = v]]]
        BY DEF SetAdsrField
      <3> HIDE DEF patch
      <3> QED
        BY <2>1, <3>1
    <2> HIDE DEF changed
    <2> QED
      BY <1>2, <2>1, <2>2, <2>3
  <1> QED
    BY <1>3, <1>4, <1>5

(* Another patch is selected: the sample dialog is told of its sample.     *)
LEMMA OnPatchChangedStep ==
  ASSUME DialogsInv, OnPatchChanged
  PROVE  StepOk
  <1>1. /\ dialog # None /\ dialog \in Dialogs /\ Keysplit \in Keysplits
        /\ Shows(dialog, document, instrument) /\ document \in DocumentStates
        /\ IsPanels(panels) /\ panels.instr = dialog /\ panels.sample = sample_dialog
        /\ panels = [instr |-> dialog, sample |-> sample_dialog]
    BY PanelsAreOk DEF DialogsInv, PanelsOk, OnPatchChanged, panels
  <1>2. Len(Keysplit) \in Nat /\ (Keysplit # <<>> => Len(Keysplit) > 0)
    BY <1>1, KeysplitNotes
  <1>3. Max({1, Len(Keysplit)}) = IF Keysplit = <<>> THEN 1 ELSE Len(Keysplit)
    BY <1>2 DEF Max
  <1>4. PICK row \in 1 .. Max({1, Len(Keysplit)}) :
          LET p == ReloadCurrentPatch(document, Keysplit,
                     UpdateSampleDialog([panels EXCEPT !.instr.curr_patch = row],
                                        CurrSample(Keysplit, row)))
          IN  dialog' = p.instr /\ sample_dialog' = p.sample
    BY DEF OnPatchChanged
  <1>5. row \in Nat \ {0} /\ (Keysplit # <<>> => row \in 1 .. Len(Keysplit))
    BY <1>2, <1>3
  <1> DEFINE sample == CurrSample(Keysplit, row)
             moved == [panels EXCEPT !.instr.curr_patch = row]
             q == UpdateSampleDialog(moved, sample)
             p == ReloadCurrentPatch(document, Keysplit, q)
  <1>6. /\ sample \in SampleSlots \cup {None}
        /\ Keysplit = <<>> => sample = None
        /\ Keysplit # <<>> => sample = Keysplit[row].sample_idx
    <2>1. CASE Keysplit = <<>>
      BY <1>5, <2>1 DEF CurrSample
    <2>2. CASE Keysplit # <<>>
      <3>1. row \in 1 .. Len(Keysplit) /\ ~(row > Len(Keysplit))
        BY <1>2, <1>5, <2>2
      <3>2. Keysplit[row] \in Patches
        BY <1>1, <3>1, KeysplitNotes
      <3>3. sample = Keysplit[row].sample_idx
        BY <3>1 DEF CurrSample
      <3> QED
        BY <2>2, <3>2, <3>3 DEF Patches
    <2> QED
      BY <2>1, <2>2
  <1> HIDE DEF sample
  <1>7. /\ IsPanels(moved) /\ moved.instr # None /\ moved.sample = sample_dialog
        /\ moved.instr \in Dialogs /\ moved.instr.curr_patch = row
        /\ moved.instr.keysplit_size = dialog.keysplit_size
    <2> DEFINE d == [dialog EXCEPT !.curr_patch = row]
    <2>1. moved = [instr |-> d, sample |-> sample_dialog]
      BY <1>1
    <2>2. d \in Dialogs /\ d.curr_patch = row /\ d.keysplit_size = dialog.keysplit_size
      BY <1>1, <1>5 DEF Dialogs
    <2> HIDE DEF d, moved
    <2>3. d # None /\ sample_dialog \in SampleDialogs \cup {None}
      BY <2>2, NoneIsNothing DEF DialogsInv, PanelsOk
    <2> QED
      BY <2>1, <2>2, <2>3 DEF IsPanels
  <1> HIDE DEF moved
  <1>8. /\ IsPanels(q) /\ Follows(q) /\ q.instr \in Dialogs
        /\ q.instr = [moved.instr EXCEPT !.prev_sample = sample]
    BY <1>6, <1>7, SampleDialogUpdates
  <1>9. /\ q.instr # None /\ q.instr.curr_patch = row /\ q.instr.prev_sample = sample
        /\ q.instr.keysplit_size = dialog.keysplit_size
    BY <1>7, <1>8, NoneIsNothing DEF Dialogs
  <1> HIDE DEF q
  <1>10. /\ IsPanels(p) /\ p.sample = q.sample /\ p.instr \in Dialogs
         /\ p.instr.curr_patch = row
         /\ p.instr.keysplit_size = dialog.keysplit_size
         /\ p.instr.prev_sample = sample
         /\ row \in 1 .. Len(Keysplit) =>
              /\ p.instr.patch = Keysplit[row]
              /\ p.instr.visible = document.samples \cup {p.instr.patch.sample_idx}
    <2>1. /\ document \in DocumentStates /\ Keysplit \in Keysplits /\ IsPanels(q)
          /\ q.instr # None
      BY <1>1, <1>8, <1>9
    <2>2. /\ IsPanels(p) /\ p.sample = q.sample /\ p.instr \in Dialogs
          /\ p.instr.curr_patch = q.instr.curr_patch
          /\ p.instr.keysplit_size = q.instr.keysplit_size
          /\ p.instr.prev_sample = q.instr.prev_sample
          /\ q.instr.curr_patch \in 1 .. Len(Keysplit) =>
               /\ p.instr.patch = Keysplit[q.instr.curr_patch]
               /\ p.instr.visible = document.samples \cup {p.instr.patch.sample_idx}
      BY <2>1, PatchReloads
    <2> HIDE DEF p
    <2> QED
      BY <1>9, <2>2
  <1> HIDE DEF p
  <1>11. dialog' = p.instr /\ sample_dialog' = p.sample
    BY <1>4 DEF p, q, moved, sample
  <1>12. Shows(p.instr, document, instrument)
    <2>1. Keysplit # None /\ dialog.keysplit_size = Len(Keysplit)
      BY <1>1 DEF Shows, Keysplit
    <2>2. IF Keysplit = <<>> THEN p.instr.prev_sample = None
          ELSE /\ p.instr.curr_patch \in 1 .. Len(Keysplit)
               /\ p.instr.patch = Keysplit[p.instr.curr_patch]
               /\ p.instr.prev_sample = p.instr.patch.sample_idx
               /\ p.instr.visible = document.samples \cup {p.instr.patch.sample_idx}
      BY <1>5, <1>6, <1>10
    <2> QED
      BY <1>10, <2>1, <2>2 DEF Shows, Keysplit
  <1>13. SampleTold
    BY <1>8, <1>9, <1>10, <1>11 DEF SampleTold, Follows
  <1>14. /\ UNCHANGED <<document, undo_stack, redo_stack, instrument, show_empty, edits>>
         /\ show_empty' \in BOOLEAN
    BY DEF OnPatchChanged, DialogsInv
  <1>15. dialog' \in Dialogs \cup {None} /\ sample_dialog' \in SampleDialogs \cup {None}
    BY <1>10, <1>11 DEF IsPanels
  <1> QED
    BY <1>11, <1>12, <1>13, <1>14, <1>15, SameDocumentStep

(* Opening and closing the dialogs, and what only they themselves show.    *)
LEMMA DialogSteps ==
  ASSUME DialogsInv,
         \/ CloseInstrDialog \/ OnShowEmpty
         \/ ShowSampleDialog \/ CloseSampleDialog \/ SelectSample \/ OnShowEmptySamples
  PROVE  StepOk
  <1>1. /\ dialog \in Dialogs \cup {None} /\ sample_dialog \in SampleDialogs \cup {None}
        /\ dialog # None => Shows(dialog, document, instrument) /\ Keysplit \in Keysplits
        /\ document \in DocumentStates
    BY PanelsAreOk DEF DialogsInv, PanelsOk
  <1>2. /\ UNCHANGED <<document, undo_stack, redo_stack, instrument, edits>>
        /\ show_empty' \in BOOLEAN /\ dialog' \in {dialog, None}
    BY DEF DialogsInv, CloseInstrDialog, OnShowEmpty, ShowSampleDialog, CloseSampleDialog,
           SelectSample, OnShowEmptySamples
  <1>3. SampleTold
    BY <1>2 DEF SampleTold
  <1>4. sample_dialog' \in SampleDialogs \cup {None}
    <2>1. document.samples \subseteq SampleSlots /\ 0 \in SampleSlots
      BY <1>1, DefaultsOk DEF DocumentStates
    <2>2. CASE CloseInstrDialog \/ OnShowEmpty \/ CloseSampleDialog
      BY <1>1, <2>2 DEF CloseInstrDialog, OnShowEmpty, CloseSampleDialog
    <2>3. CASE ShowSampleDialog
      <3>1. PICK sample \in {None} \cup (IF dialog = None THEN {}
                                         ELSE {CurrSample(Keysplit, dialog.curr_patch)}) :
              sample_dialog' =
                IF sample_dialog = None
                THEN [curr_sample |-> IF sample = None THEN 0 ELSE sample, show_empty |-> FALSE]
                ELSE ReloadSampleDialog(panels, sample).sample
        BY <2>3 DEF ShowSampleDialog
      <3>2. sample \in SampleSlots \cup {None}
        <4>1. ASSUME dialog # None
              PROVE  CurrSample(Keysplit, dialog.curr_patch) \in SampleSlots \cup {None}
          <5>1. Keysplit \in Keysplits /\ dialog.curr_patch \in Nat \ {0}
            BY <1>1, <4>1 DEF Dialogs
          <5>2. CASE dialog.curr_patch > Len(Keysplit)
            BY <5>2 DEF CurrSample
          <5>3. CASE ~(dialog.curr_patch > Len(Keysplit))
            <6>1. dialog.curr_patch \in 1 .. Len(Keysplit)
              BY <5>1, <5>3, KeysplitNotes
            <6>2. Keysplit[dialog.curr_patch] \in Patches
              BY <5>1, <6>1, KeysplitNotes
            <6> QED
              BY <5>3, <6>2 DEF CurrSample, Patches
          <5> QED
            BY <5>2, <5>3
        <4> QED
          BY <4>1
      <3>3. CASE sample_dialog = None
        BY <2>1, <3>1, <3>2, <3>3 DEF SampleDialogs
      <3>4. CASE sample_dialog # None
        <4>1. CASE sample = None
          BY <1>1, <3>1, <3>4, <4>1 DEF ReloadSampleDialog, panels
        <4>2. CASE sample # None
          <5>1. sample_dialog' = [sample_dialog EXCEPT !.curr_sample = sample]
            BY <3>1, <3>4, <4>2 DEF ReloadSampleDialog, panels
          <5> QED
            BY <1>1, <3>2, <3>4, <4>2, <5>1 DEF SampleDialogs
        <4> QED
          BY <4>1, <4>2
      <3> QED
        BY <3>3, <3>4
    <2>4. CASE SelectSample
      <3>1. PICK sample \in VisibleSamples :
              sample_dialog' = [sample_dialog EXCEPT !.curr_sample = sample]
        BY <2>4 DEF SelectSample
      <3>2. sample \in SampleSlots /\ sample_dialog \in SampleDialogs
        BY <1>1, <2>1, <2>4 DEF SelectSample, VisibleSamples
      <3> QED
        BY <3>1, <3>2 DEF SampleDialogs
    <2>5. CASE OnShowEmptySamples
      BY <1>1, <2>5 DEF OnShowEmptySamples, SampleDialogs
    <2> QED
      BY <2>2, <2>3, <2>4, <2>5
  <1> QED
    BY <1>1, <1>2, <1>3, <1>4, SameDocumentStep

(* A slot that is free, and the next one in use.                           *)
LEMMA SlotsFound ==
  ASSUME NEW n \in Nat, NEW slots \in SUBSET (0 .. n), NEW filled \in SUBSET slots,
         NEW i \in slots, NEW begin
  PROVE  /\ EmptySlots(slots, filled, begin) # {} =>
              Min(EmptySlots(slots, filled, begin)) \in slots
         /\ NextFilled(filled, i) \in slots
  <1>0. \A j \in slots : j \in 0 .. n /\ j \in Nat
    OBVIOUS
  <1>1. EmptySlots(slots, filled, begin) # {} =>
          Min(EmptySlots(slots, filled, begin)) \in slots
    <2> DEFINE E == EmptySlots(slots, filled, begin)
    <2>1. E \in SUBSET slots /\ E \in SUBSET Nat
      BY <1>0 DEF EmptySlots
    <2> HIDE DEF E
    <2>2. E # {} => Min(E) \in E
      BY <2>1, MinIsLeast
    <2> QED
      BY <2>1, <2>2 DEF E
  <1> DEFINE after == {j \in filled : j > i}
             before == {j \in filled : j < i}
  <1>2. after \in SUBSET slots /\ after \in SUBSET Nat
        /\ before \in SUBSET slots /\ before \in SUBSET (0 .. n)
    <2>1. \A j \in filled : j \in slots /\ j \in 0 .. n /\ j \in Nat
      BY <1>0
    <2> QED
      BY <2>1
  <1>3. NextFilled(filled, i) = IF after # {} THEN Min(after)
                                ELSE IF before # {} THEN Max(before) ELSE i
    BY DEF NextFilled
  <1> HIDE DEF after, before
  <1>4. after # {} => Min(after) \in after
    BY <1>2, MinIsLeast
  <1>5. before # {} => Max(before) \in before
    BY <1>2, MaxIsGreatest
  <1> QED
    BY <1>1, <1>2, <1>3, <1>4, <1>5

LEMMA SlotsAreSlots ==
  /\ MAX_INSTRUMENTS - 1 \in Nat /\ InstrumentSlots \in SUBSET (0 .. MAX_INSTRUMENTS - 1)
  /\ MAX_SAMPLES - 1 \in Nat /\ SampleSlots \in SUBSET (0 .. MAX_SAMPLES - 1)
  BY SlotsAssumption DEF InstrumentSlots, SampleSlots

(* The instrument list, and the other ways to come to an instrument.       *)
LEMMA InstrumentSteps ==
  ASSUME DialogsInv,
         \/ ShowInstrDialog \/ SelectInstrument
         \/ AddInstrument \/ RemoveInstrument \/ DropInstrument \/ TypeInstrument
  PROVE  StepOk
  <1>1. /\ IsPanels(panels) /\ panels.instr = dialog /\ PanelsOk
        /\ instrument \in InstrumentSlots /\ document \in DocumentStates
        /\ Keysplit \in Keysplits \cup {None} /\ show_empty \in BOOLEAN
    BY PanelsAreOk DEF DialogsInv, PanelsOk
  <1>2. FilledInstruments \in SUBSET InstrumentSlots
        /\ \A i \in VisibleInstruments : i \in InstrumentSlots
    BY DEF FilledInstruments, VisibleInstruments
  <1>3. ASSUME NEW p, IsPanels(p), NEW instr \in InstrumentSlots,
               Commit(document, instr, p, TRUE, None),
               UNCHANGED <<undo_stack, redo_stack, edits, show_empty>>
        PROVE  StepOk
    <2>1. PanelsOk' /\ SampleTold
      BY <1>1, <1>3, CommitStep
    <2> QED
      BY <1>3, <2>1 DEF StepOk, DialogsInv, HistoryOk, EditsFollow, KeysplitEdited
  <1>4. ASSUME NEW c \in Commands, NEW instr \in InstrumentSlots, show_empty' = show_empty,
               PushAndCommit(c, instr, panels, TRUE, None)
        PROVE  StepOk
    <2>1. show_empty' \in BOOLEAN /\ TRUE \in BOOLEAN /\ None \in SampleSlots \cup {None}
      BY <1>1, <1>4
    <2> QED
      BY <1>1, <1>4, <2>1, PushAndCommitStep
  <1>5. CASE ShowInstrDialog
    <2> DEFINE p == [panels EXCEPT !.instr = NewDialog]
    <2>1. NewDialog \in Dialogs
      BY DefaultsOk DEF NewDialog, Dialogs
    <2>2. p = [instr |-> NewDialog, sample |-> sample_dialog]
      BY DEF panels
    <2>3. IsPanels(p)
      <3> HIDE DEF p
      <3> QED
        BY <1>1, <2>1, <2>2 DEF IsPanels, PanelsOk
    <2>4. /\ Commit(document, instrument, p, TRUE, None)
          /\ UNCHANGED <<undo_stack, redo_stack, edits, show_empty>>
      BY <1>5 DEF ShowInstrDialog
    <2> HIDE DEF p
    <2> QED
      BY <1>1, <1>3, <2>3, <2>4
  <1>6. CASE SelectInstrument
    <2>1. PICK i \in VisibleInstruments : SwitchInstrument(i)
      BY <1>6 DEF SelectInstrument
    <2>2. /\ i \in InstrumentSlots
          /\ Commit(document, i, panels, TRUE, None)
          /\ UNCHANGED <<undo_stack, redo_stack, edits, show_empty>>
      BY <1>2, <2>1 DEF SwitchInstrument
    <2> QED
      BY <1>1, <1>3, <2>2
  <1>7. CASE AddInstrument
    <2> DEFINE empty == EmptySlots(InstrumentSlots, FilledInstruments,
                                   IF show_empty THEN instrument ELSE 0)
               i == Min(empty)
    <2>1. empty # {}
      BY <1>7 DEF AddInstrument
    <2>2. PICK keysplit \in {<<NewPatch>>, Keysplit} \ {None} :
            PushAndCommit(Command("instrument", i, keysplit), i, panels, TRUE, None)
      BY <1>7 DEF AddInstrument
    <2>3. i \in InstrumentSlots
      <3> DEFINE begin == IF show_empty THEN instrument ELSE 0
      <3>1. empty = EmptySlots(InstrumentSlots, FilledInstruments, begin)
        OBVIOUS
      <3> HIDE DEF begin
      <3> QED
        BY <1>1, <1>2, <2>1, <3>1, SlotsFound, SlotsAreSlots
    <2>4. keysplit \in Keysplits
      <3>1. <<NewPatch>> \in Keysplits
        BY DefaultsOk DEF Keysplits
      <3> QED
        BY <1>1, <3>1
    <2> DEFINE c == Command("instrument", i, keysplit)
    <2> HIDE DEF i
    <2>5. c \in Commands
      BY <2>3, <2>4 DEF Command, Commands
    <2>6. show_empty' = show_empty /\ PushAndCommit(c, i, panels, TRUE, None)
      BY <1>7, <2>2 DEF AddInstrument
    <2> HIDE DEF c
    <2> QED
      BY <1>4, <2>3, <2>5, <2>6
  <1>8. CASE RemoveInstrument
    <2> DEFINE i == IF show_empty THEN instrument ELSE NextFilled(FilledInstruments, instrument)
               c == Command("instrument", instrument, None)
               p == [panels EXCEPT !.instr = None]
    <2>1. PushAndCommit(c, i, p, FALSE, None) /\ show_empty' \in BOOLEAN
      BY <1>1, <1>8 DEF RemoveInstrument
    <2>2. i \in InstrumentSlots
      <3>1. NextFilled(FilledInstruments, instrument) \in InstrumentSlots
        BY <1>1, <1>2, SlotsFound, SlotsAreSlots
      <3> QED
        BY <1>1, <3>1
    <2>3. c \in Commands
      BY <1>1 DEF Command, Commands
    <2>4. IsPanels(p) /\ p.instr = None
      BY <1>1 DEF IsPanels, panels
    <2> HIDE DEF i, c, p
    <2> QED
      BY <1>1, <2>1, <2>2, <2>3, <2>4, PushAndCommitStep
  <1>9. CASE DropInstrument
    <2>1. PICK drag \in VisibleInstruments, replace \in VisibleInstruments :
            PushAndCommit(Command("swap_instruments", drag, replace), replace, panels,
                          TRUE, None)
      BY <1>9 DEF DropInstrument
    <2>2. drag \in InstrumentSlots /\ replace \in InstrumentSlots
      BY <1>2
    <2> DEFINE c == Command("swap_instruments", drag, replace)
    <2>3. c \in Commands
      BY <2>2 DEF Command, Commands
    <2>4. show_empty' = show_empty /\ PushAndCommit(c, replace, panels, TRUE, None)
      BY <1>9, <2>1 DEF DropInstrument
    <2> HIDE DEF c
    <2> QED
      BY <1>4, <2>2, <2>3, <2>4
  <1>10. CASE TypeInstrument
    <2>1. PICK i \in InstrumentSlots :
            PushAndCommit(Command("other", 0, 0), i, panels, TRUE, None)
      BY <1>10 DEF TypeInstrument
    <2> DEFINE c == Command("other", 0, 0)
    <2>2. c \in Commands
      BY DEF Command, Commands
    <2>3. show_empty' = show_empty /\ PushAndCommit(c, i, panels, TRUE, None)
      BY <1>10, <2>1 DEF TypeInstrument
    <2> HIDE DEF c
    <2> QED
      BY <1>4, <2>2, <2>3
  <1> QED
    BY <1>5, <1>6, <1>7, <1>8, <1>9, <1>10

(* The list of samples.                                                    *)
LEMMA SampleSteps ==
  ASSUME DialogsInv, AddSample \/ ReplaceSample \/ RemoveSample \/ DropSample
  PROVE  StepOk
  <1>1. /\ IsPanels(panels) /\ panels.instr = dialog /\ PanelsOk
        /\ instrument \in InstrumentSlots /\ show_empty \in BOOLEAN
        /\ sample_dialog \in SampleDialogs /\ sample_dialog.curr_sample \in SampleSlots
        /\ document.samples \in SUBSET SampleSlots
        /\ sample_dialog # None
    BY PanelsAreOk DEF DialogsInv, PanelsOk, AddSample, ReplaceSample, RemoveSample, DropSample,
                       SampleDialogs, DocumentStates
  <1>2. ASSUME NEW c \in Commands, NEW sample \in SampleSlots, EditSamples(c, sample)
        PROVE  StepOk
    <2> DEFINE p == [panels EXCEPT !.sample.curr_sample = sample]
               e == [sample_dialog EXCEPT !.curr_sample = sample]
    <2>1. e \in SampleDialogs
      BY <1>1 DEF SampleDialogs
    <2>2. p = [instr |-> dialog, sample |-> e]
      BY DEF panels
    <2> HIDE DEF e
    <2>3. IsPanels(p) /\ p.instr = dialog
      <3> HIDE DEF p
      <3> QED
        BY <1>1, <2>1, <2>2 DEF IsPanels, PanelsOk
    <2>4. PushAndCommit(c, instrument, p, FALSE, None) /\ show_empty' \in BOOLEAN
      BY <1>1, <1>2 DEF EditSamples
    <2> HIDE DEF p
    <2> QED
      BY <1>1, <1>2, <2>3, <2>4, PushAndCommitStep
  <1>3. \A i \in SampleSlots, v \in BOOLEAN : Command("sample", i, v) \in Commands
    BY DEF Command, Commands
  <1>4. CASE AddSample
    <2> DEFINE begin == IF sample_dialog.show_empty THEN sample_dialog.curr_sample ELSE 0
               empty == EmptySlots(SampleSlots, document.samples, begin)
               i == Min(empty)
    <2>1. empty # {} /\ EditSamples(Command("sample", i, TRUE), i)
      BY <1>4 DEF AddSample
    <2>2. i \in SampleSlots
      <3> HIDE DEF begin
      <3> QED
        BY <1>1, <2>1, SlotsFound, SlotsAreSlots
    <2> DEFINE c == Command("sample", i, TRUE)
    <2> HIDE DEF i
    <2>3. c \in Commands /\ EditSamples(c, i)
      BY <1>3, <2>1, <2>2
    <2> HIDE DEF c
    <2> QED
      BY <1>2, <2>2, <2>3
  <1>5. CASE ReplaceSample
    <2> DEFINE i == sample_dialog.curr_sample
               c == Command("sample", i, TRUE)
    <2>1. c \in Commands /\ EditSamples(c, i) /\ i \in SampleSlots
      BY <1>1, <1>3, <1>5 DEF ReplaceSample
    <2> HIDE DEF i, c
    <2> QED
      BY <1>2, <2>1
  <1>6. CASE RemoveSample
    <2> DEFINE i == sample_dialog.curr_sample
               c == Command("sample", i, FALSE)
               next == IF sample_dialog.show_empty THEN i ELSE NextFilled(document.samples, i)
    <2>1. c \in Commands /\ EditSamples(c, next) /\ i \in SampleSlots
      BY <1>1, <1>3, <1>6 DEF RemoveSample
    <2>2. NextFilled(document.samples, i) \in SampleSlots
      BY <1>1, <2>1, SlotsFound, SlotsAreSlots
    <2>3. next \in SampleSlots
      BY <2>1, <2>2
    <2> HIDE DEF i, c, next
    <2> QED
      BY <1>2, <2>1, <2>3
  <1>7. CASE DropSample
    <2>1. PICK drag \in VisibleSamples, replace \in VisibleSamples :
            PushAndCommit(Command("swap_samples", drag, replace), instrument, panels,
                          FALSE, replace)
      BY <1>7 DEF DropSample
    <2>2. drag \in SampleSlots /\ replace \in SampleSlots
      BY <1>1 DEF VisibleSamples
    <2> DEFINE c == Command("swap_samples", drag, replace)
    <2>3. c \in Commands /\ c.kind = "swap_samples"
      BY <2>2 DEF Command, Commands
    <2>4. /\ PushAndCommit(c, instrument, panels, FALSE, replace)
          /\ show_empty' \in BOOLEAN
      BY <1>1, <1>7, <2>1 DEF DropSample
    <2> HIDE DEF c
    <2> QED
      BY <1>1, <2>2, <2>3, <2>4, PushAndCommitStep
  <1> QED
    BY <1>4, <1>5, <1>6, <1>7

-----------------------------------------------------------------------------
LEMMA Begins ==
  ASSUME Init
  PROVE  DialogsInv
  <1>1. 0 \in InstrumentSlots
    BY SlotsAssumption DEF InstrumentSlots
  <1>2. /\ document \in DocumentStates /\ instrument \in InstrumentSlots
        /\ dialog = None /\ sample_dialog = None /\ show_empty \in BOOLEAN
        /\ undo_stack = <<>> /\ redo_stack = <<>> /\ edits = 0
    BY <1>1, DocumentsAssumption DEF Init
  <1>3. undo_stack \in Seq(Commands) /\ redo_stack \in Seq(Commands)
    BY <1>2
  <1> QED
    BY <1>2, <1>3 DEF DialogsInv, PanelsOk, HistoryOk, DialogShowsPatch

LEMMA StepsAreOk ==
  ASSUME DialogsInv, Next
  PROVE  StepOk
  BY HistorySteps, AddPatchStep, RemovePatchStep, MovePatchSteps, OnSetSteps,
     OnPatchChangedStep, DialogSteps, InstrumentSteps, SampleSteps DEF Next

LEMMA DialogsInvHolds == Spec => []DialogsInv
  <1>1. DialogsInv /\ [Next]_vars => DialogsInv'
    <2>1. ASSUME DialogsInv, Next PROVE DialogsInv'
      BY <2>1, StepsAreOk DEF StepOk
    <2>2. ASSUME DialogsInv, UNCHANGED vars PROVE DialogsInv'
      BY <2>2 DEF DialogsInv, PanelsOk, HistoryOk, DialogShowsPatch, Keysplit, vars
    <2> QED
      BY <2>1, <2>2
  <1> QED
    BY <1>1, Begins, PTL DEF Spec

(* An open instrument dialog shows the patch, the samples and the length   *)
(* of the keysplit that the document has, whatever is edited, undone,      *)
(* selected, dragged or opened.                                            *)
THEOREM DialogShowsPatchHolds == Spec => []DialogShowsPatch
  <1>1. DialogsInv => DialogShowsPatch
    BY DEF DialogsInv, PanelsOk
  <1> QED
    BY <1>1, DialogsInvHolds, PTL

(* If the graph can draw the whole of every envelope the sliders can make, *)
(* it draws the whole envelope of the patch that is shown.                 *)
THEOREM DialogInSyncHolds ==
  ASSUME \A adsr \in Adsrs : Envelopes[adsr]
  PROVE  Spec => []DialogInSync
  <1>1. DialogsInv => DialogInSync
    <2>1. ASSUME DialogsInv, dialog # None, Keysplit # <<>>
          PROVE  Envelopes[dialog.patch.adsr]
      <3>1. /\ dialog.patch = Keysplit[dialog.curr_patch]
            /\ dialog.curr_patch \in 1 .. Len(Keysplit)
        BY <2>1 DEF DialogsInv, PanelsOk, DialogShowsPatch
      <3>2. Keysplit \in Keysplits
        BY <2>1, PanelsAreOk DEF DialogsInv
      <3>3. Keysplit[dialog.curr_patch] \in Patches
        BY <3>1, <3>2, KeysplitNotes
      <3>4. dialog.patch.adsr \in Adsrs
        BY <3>1, <3>3 DEF Patches
      <3> QED
        BY <3>4
    <2> QED
      BY <2>1 DEF DialogInSync, DialogsInv, PanelsOk
  <1> QED
    BY <1>1, DialogsInvHolds, PTL

(* After an edit of a keysplit the edited patch is the one selected, the   *)
(* others keep their order, and only moving a patch takes a sorted         *)
(* keysplit out of order.                                                  *)
THEOREM EditsFollowPatchHolds == Spec => EditsFollowPatch
  <1>1. DialogsInv /\ [Next]_vars => [EditsFollow]_vars
    BY StepsAreOk DEF StepOk
  <1>2. EditsFollow =>
          (KeysplitEdited =>
             LET row == dialog.curr_patch
                 before == Keysplit
                 after == Keysplit'
             IN  /\ CASE Len(after) > Len(before) -> RemoveAt(after, row') = before
                      [] Len(after) = Len(before) ->
                           RemoveAt(after, row') = RemoveAt(before, row)
                      [] OTHER -> /\ after = RemoveAt(before, row)
                                  /\ row' = Min({row, Len(after)})
                 /\ Sorted(before) /\ ~Sorted(after) => after[row'] = before[row])
    BY DEF EditsFollow, EditGoesTo
  <1> QED
    BY <1>1, <1>2, DialogsInvHolds, PTL DEF Spec, EditsFollowPatch

(* When an open instrument dialog comes to another sample, an open sample  *)
(* dialog shows that sample too, unless samples have just been swapped.    *)
THEOREM SampleDialogFollowsHolds == Spec => SampleDialogFollows
  <1>1. DialogsInv /\ [Next]_vars => [~SamplesSwapped => SampleTold]_vars
    BY StepsAreOk DEF StepOk
  <1>2. (~SamplesSwapped => SampleTold) =>
          (/\ dialog' # None /\ sample_dialog # None /\ sample_dialog' # None
           /\ dialog = None \/ dialog.prev_sample # dialog'.prev_sample
           /\ dialog'.prev_sample # None
           /\ ~SamplesSwapped
           => sample_dialog'.curr_sample = dialog'.prev_sample)
    BY DEF SampleTold
  <1> QED
    BY <1>1, <1>2, DialogsInvHolds, PTL DEF Spec, SampleDialogFollows
=============================================================================
