------------------------- MODULE PatternEditorProofs -------------------------
(***************************************************************************)
(* The keys of the pattern editor keep the cursor and the selection where  *)
(* the document has columns, the selection at the cursor and the tracks in *)
(* order, for any documents, settings and row heights and any order of     *)
(* keys.                                                                   *)
(***************************************************************************)
EXTENDS PatternEditor, FiniteSetTheorems, FunctionTheorems, SequenceTheorems,
        WellFoundedInduction, TLAPS

-----------------------------------------------------------------------------
(* Numbers and sequences.                                                  *)

LEMMA LeastOfTwo ==
  ASSUME NEW a \in Int, NEW b \in Int
  PROVE  Min({a, b}) = IF a <= b THEN a ELSE b
  BY DEF Min

LEMMA GreatestOfTwo ==
  ASSUME NEW a \in Int, NEW b \in Int
  PROVE  Max({a, b}) = IF a >= b THEN a ELSE b
  BY DEF Max

LEMMA MinIsLeast ==
  ASSUME NEW S \in SUBSET Nat, S # {}
  PROVE  Min(S) \in S /\ \A i \in S : Min(S) <= i
  <1>1. PICK m \in S : \A i \in S : ~(<<i, m>> \in OpToRel(<, Nat))
    BY NatLessThanWellFounded, WFMin
  <1>2. ASSUME NEW i \in S PROVE m <= i
    <2>1. i \in Nat /\ m \in Nat
      OBVIOUS
    <2>2. ~(i < m)
      BY <1>1, <2>1 DEF OpToRel
    <2> QED
      BY <2>1, <2>2
  <1> QED
    BY <1>2 DEF Min

LEMMA MaxIsGreatest ==
  ASSUME NEW n \in Nat, NEW S \in SUBSET (0 .. n), S # {}
  PROVE  Max(S) \in S /\ \A i \in S : i <= Max(S)
  <1> DEFINE Distances == {n - i : i \in S}
  <1>1. Distances \in SUBSET Nat /\ Distances # {}
    <2>1. \A i \in S : n - i \in Nat
      OBVIOUS
    <2>2. PICK i \in S : TRUE
      OBVIOUS
    <2>3. n - i \in Distances
      OBVIOUS
    <2> QED
      BY <2>1, <2>3
  <1>2. PICK d \in Distances : \A e \in Distances : d <= e
    <2>1. Min(Distances) \in Distances /\ \A e \in Distances : Min(Distances) <= e
      <3> HIDE DEF Distances
      <3> QED
        BY <1>1, MinIsLeast
    <2> QED
      BY <2>1
  <1>3. PICK m \in S : d = n - m
    OBVIOUS
  <1>4. ASSUME NEW i \in S PROVE m >= i
    <2>1. d <= n - i
      BY <1>2
    <2> QED
      BY <1>3, <2>1
  <1> QED
    BY <1>4 DEF Max

LEMMA InsertAtShape ==
  ASSUME NEW S, NEW s \in Seq(S), NEW i \in 1 .. Len(s) + 1, NEW e \in S
  PROVE  /\ InsertAt(s, i, e) \in Seq(S)
         /\ Len(InsertAt(s, i, e)) = Len(s) + 1
         /\ \A j \in 1 .. Len(s) + 1 :
              InsertAt(s, i, e)[j] = IF j < i THEN s[j] ELSE IF j = i THEN e ELSE s[j - 1]
  <1> DEFINE n == Len(s)
             a == SubSeq(s, 1, i - 1)
             b == SubSeq(s, i, n)
             c == a \o <<e>>
             t == c \o b
  <1>1. n \in Nat /\ i \in 1 .. n + 1
    OBVIOUS
  <1>2. a \in Seq(S) /\ Len(a) = i - 1 /\ \A j \in 1 .. i - 1 : a[j] = s[j]
    BY <1>1
  <1>3. b \in Seq(S) /\ Len(b) = n - i + 1 /\ \A j \in 1 .. n - i + 1 : b[j] = s[i + j - 1]
    BY <1>1
  <1>4. InsertAt(s, i, e) = t
    BY DEF InsertAt
  <1> HIDE DEF a, b, n
  <1>5. c \in Seq(S) /\ Len(c) = i /\ \A j \in 1 .. i : c[j] = IF j < i THEN a[j] ELSE e
    BY <1>1, <1>2
  <1> HIDE DEF c
  <1>6. t \in Seq(S) /\ Len(t) = n + 1
        /\ \A j \in 1 .. n + 1 : t[j] = IF j <= i THEN c[j] ELSE b[j - i]
    BY <1>1, <1>3, <1>5, ConcatProperties
  <1> HIDE DEF t
  <1>7. ASSUME NEW j \in 1 .. n + 1
        PROVE  t[j] = IF j < i THEN s[j] ELSE IF j = i THEN e ELSE s[j - 1]
    <2>1. CASE j <= i
      BY <1>1, <1>2, <1>5, <1>6, <2>1
    <2>2. CASE j > i
      <3>1. t[j] = b[j - i] /\ j - i \in 1 .. n - i + 1 /\ i + (j - i) - 1 = j - 1
        BY <1>1, <1>6, <2>2
      <3> QED
        BY <1>1, <1>3, <2>2, <3>1
    <2> QED
      BY <1>1, <2>1, <2>2
  <1> QED
    BY <1>4, <1>6, <1>7 DEF n

(* Counting up to n stays in a set that it starts in and does not leave.   *)
LEMMA CountUp ==
  ASSUME NEW n \in Nat, NEW S, 0 \in S, \A k \in 1 .. n : k - 1 \in S => k \in S
  PROVE  \A k \in 0 .. n : k \in S
  <1> SUFFICES ASSUME {k \in 0 .. n : k \notin S} # {} PROVE FALSE
    OBVIOUS
  <1> DEFINE T == {k \in 0 .. n : k \notin S}
  <1>1. T \subseteq Nat /\ T # {}
    OBVIOUS
  <1>2. PICK x \in T : \A y \in T : ~(<<y, x>> \in OpToRel(<, Nat))
    BY <1>1, NatLessThanWellFounded, WFMin
  <1>3. x \in 1 .. n /\ x - 1 \in 0 .. n /\ x - 1 < x
    OBVIOUS
  <1>4. x - 1 \notin T
    <2>1. <<x - 1, x>> \in OpToRel(<, Nat)
      BY <1>3 DEF OpToRel
    <2> QED
      BY <1>2, <2>1
  <1>5. x - 1 \in S
    BY <1>3, <1>4
  <1> QED
    BY <1>2, <1>3, <1>5

(* n steps from a on: step k goes from s to step[<<k, s>>].                *)
Steps(f, n, a, step) ==
  f = [k \in 0 .. n |-> IF k = 0 THEN a ELSE step[<<k, f[k - 1]>>]]

LEMMA StepsStay ==
  ASSUME NEW S, NEW a \in S, NEW n \in Nat, NEW f,
         f[0] = a,
         NEW step \in [(Nat \ {0}) \X S -> S],
         \A k \in 1 .. n : f[k - 1] \in S => f[k] = step[<<k, f[k - 1]>>]
  PROVE  \A k \in 0 .. n : f[k] \in S
  <1> DEFINE T == {k \in 0 .. n : f[k] \in S}
  <1>1. 0 \in T
    OBVIOUS
  <1>2. ASSUME NEW k \in 1 .. n, k - 1 \in T PROVE k \in T
    <2>1. f[k - 1] \in S /\ <<k, f[k - 1]>> \in (Nat \ {0}) \X S
      BY <1>2
    <2> QED
      BY <2>1
  <1>3. \A k \in 0 .. n : k \in T
    <2> HIDE DEF T
    <2> QED
      BY <1>1, <1>2, CountUp
  <1> QED
    BY <1>3

LEMMA StepsExist ==
  ASSUME NEW S, NEW a \in S, NEW n \in Nat, NEW step \in [(Nat \ {0}) \X S -> S]
  PROVE  \E f \in [0 .. n -> S] : Steps(f, n, a, step)
  <1> DEFINE T == {m \in 0 .. n : \E f \in [0 .. m -> S] : Steps(f, m, a, step)}
  <1>1. 0 \in T
    <2> DEFINE f == [k \in 0 .. 0 |-> a]
    <2>1. f \in [0 .. 0 -> S] /\ Steps(f, 0, a, step)
      BY DEF Steps
    <2> QED
      BY <2>1
  <1>2. ASSUME NEW m \in 1 .. n, m - 1 \in T PROVE m \in T
    <2>1. PICK f \in [0 .. m - 1 -> S] : Steps(f, m - 1, a, step)
      BY <1>2
    <2>2. \A k \in 0 .. m - 1 : f[k] = IF k = 0 THEN a ELSE step[<<k, f[k - 1]>>]
      BY <2>1 DEF Steps
    <2> DEFINE g == [k \in 0 .. m |-> IF k < m THEN f[k] ELSE step[<<m, f[m - 1]>>]]
    <2>3. step[<<m, f[m - 1]>>] \in S
      <3>1. f[m - 1] \in S /\ <<m, f[m - 1]>> \in (Nat \ {0}) \X S
        OBVIOUS
      <3> QED
        BY <3>1
    <2>4. g \in [0 .. m -> S]
          /\ \A k \in 0 .. m : g[k] = IF k < m THEN f[k] ELSE step[<<m, f[m - 1]>>]
      BY <2>3
    <2> HIDE DEF g
    <2>5. ASSUME NEW k \in 0 .. m
          PROVE  g[k] = IF k = 0 THEN a ELSE step[<<k, g[k - 1]>>]
      <3>1. CASE k = 0
        <4>1. k \in 0 .. m - 1 /\ k < m
          BY <3>1
        <4>2. f[k] = a
          BY <2>2, <3>1, <4>1
        <4> QED
          BY <2>4, <3>1, <4>1, <4>2
      <3>2. CASE k # 0
        <4>1. k - 1 \in 0 .. m /\ k - 1 < m
          BY <3>2
        <4>2. g[k - 1] = f[k - 1]
          BY <2>4, <4>1
        <4>3. g[k] = step[<<k, f[k - 1]>>]
          <5>1. CASE k < m
            <6>1. k \in 0 .. m - 1
              BY <5>1
            <6> QED
              BY <2>2, <2>4, <3>2, <5>1, <6>1
          <5>2. CASE k = m
            BY <2>4, <5>2
          <5> QED
            BY <5>1, <5>2
        <4> QED
          BY <3>2, <4>2, <4>3
      <3> QED
        BY <3>1, <3>2
    <2>6. g = [k \in 0 .. m |-> IF k = 0 THEN a ELSE step[<<k, g[k - 1]>>]]
      BY <2>4, <2>5
    <2>7. Steps(g, m, a, step)
      BY <2>6 DEF Steps
    <2> QED
      BY <2>4, <2>7
  <1>3. \A m \in 0 .. n : m \in T
    <2> HIDE DEF T
    <2> QED
      BY <1>1, <1>2, CountUp
  <1> QED
    BY <1>3

-----------------------------------------------------------------------------
(* Columns and their cells.                                                *)

XPos == [column : Nat, subcolumn : Nat, cell : Nat]

DocumentOk(doc) == Ncol(doc) \in Nat \ {0} /\ doc \in DocumentsOf(Ncol(doc))

LEMMA DocumentFields ==
  ASSUME NEW doc, DocumentOk(doc)
  PROVE  /\ Ncol(doc) \in Nat /\ Ncol(doc) > 0
         /\ DOMAIN doc.tracks = 0 .. Ncol(doc) - 1
         /\ doc.tracks \in [0 .. Ncol(doc) - 1 -> Track]
         /\ doc.n_effect_col \in [0 .. Ncol(doc) - 1 -> 1 .. 2]
         /\ doc.effect_name_chars \in {1, 2}
         /\ doc.options.ticks_per_beat \in Nat \ {0}
         /\ doc.options.beats_per_measure \in Nat \ {0}
  <1>1. Len(EffectFields) = 2
    BY DEF EffectFields
  <1>2. doc \in DocumentsOf(Ncol(doc)) /\ Ncol(doc) \in Nat \ {0}
    BY DEF DocumentOk
  <1> DEFINE n == Ncol(doc)
  <1> HIDE DEF n
  <1>3. doc \in DocumentsOf(n) /\ n \in Nat \ {0}
    BY <1>2 DEF n
  <1>4. /\ doc.tracks \in [0 .. n - 1 -> Track]
        /\ doc.n_effect_col \in [0 .. n - 1 -> 1 .. 2]
        /\ doc.effect_name_chars \in {1, 2}
        /\ doc.options.ticks_per_beat \in Nat \ {0}
        /\ doc.options.beats_per_measure \in Nat \ {0}
    BY <1>1, <1>3 DEF DocumentsOf
  <1> QED
    BY <1>3, <1>4 DEF n

LEMMA NsubcolBounds ==
  ASSUME NEW doc, DocumentOk(doc), NEW x, x.column \in DOMAIN doc.tracks
  PROVE  Nsubcol(doc, x) \in 4 .. 5
  <1>1. doc.n_effect_col[x.column] \in 1 .. 2
    BY DocumentFields
  <1> QED
    BY <1>1 DEF Nsubcol

LEMMA NcellBounds ==
  ASSUME NEW doc, DocumentOk(doc), NEW x
  PROVE  Ncell(doc, x) \in 1 .. 4
  <1>1. doc.effect_name_chars + 2 \in 1 .. 4
    BY DocumentFields
  <1> QED
    BY <1>1 DEF Ncell

(* How many there are does not depend on where in them the cursor is.      *)
LEMMA CountsOf ==
  ASSUME NEW doc, NEW x, NEW y
  PROVE  /\ x.column = y.column => Nsubcol(doc, x) = Nsubcol(doc, y)
         /\ x.subcolumn = y.subcolumn => Ncell(doc, x) = Ncell(doc, y)
  BY DEF Nsubcol, Ncell, SubColumnAt

LEMMA LastCellOk ==
  ASSUME NEW doc, DocumentOk(doc), NEW x \in XPos, x.column \in DOMAIN doc.tracks,
         x.subcolumn < Nsubcol(doc, x)
  PROVE  LastCell(doc, x) \in XPos /\ XOk(doc, LastCell(doc, x))
  <1> DEFINE y == LastCell(doc, x)
  <1>1. Ncell(doc, x) \in 1 .. 4
    BY NcellBounds
  <1>2. y = [column |-> x.column, subcolumn |-> x.subcolumn, cell |-> Ncell(doc, x) - 1]
    BY DEF LastCell, XPos
  <1>3. Nsubcol(doc, y) = Nsubcol(doc, x) /\ Ncell(doc, y) = Ncell(doc, x)
    BY <1>2, CountsOf
  <1> HIDE DEF y
  <1>4. y \in XPos
    BY <1>1, <1>2 DEF XPos
  <1>5. y.column = x.column /\ y.subcolumn = x.subcolumn /\ y.cell = Ncell(doc, x) - 1
    BY <1>2
  <1>6. XOk(doc, y)
    BY <1>1, <1>3, <1>5 DEF XOk
  <1> QED
    BY <1>4, <1>6 DEF y

LEMMA LastSubColumnOk ==
  ASSUME NEW doc, DocumentOk(doc), NEW x \in XPos, x.column \in DOMAIN doc.tracks
  PROVE  LastSubColumn(doc, x) \in XPos /\ XOk(doc, LastSubColumn(doc, x))
  <1> DEFINE y == [x EXCEPT !.subcolumn = Nsubcol(doc, x) - 1]
  <1>1. Nsubcol(doc, x) \in 4 .. 5
    BY NsubcolBounds
  <1>2. y \in XPos /\ y.column = x.column /\ y.subcolumn = Nsubcol(doc, x) - 1
    BY <1>1 DEF XPos
  <1>3. Nsubcol(doc, y) = Nsubcol(doc, x)
    BY <1>2, CountsOf
  <1>4. LastSubColumn(doc, x) = LastCell(doc, y)
    BY DEF LastSubColumn
  <1> HIDE DEF y
  <1> QED
    BY <1>1, <1>2, <1>3, <1>4, LastCellOk

(* The column to the left or to the right, around the ends.                *)
LEMMA NextColumns ==
  ASSUME NEW doc, DocumentOk(doc), NEW c \in DOMAIN doc.tracks
  PROVE  /\ (IF c > 0 THEN c - 1 ELSE Ncol(doc) - 1) \in DOMAIN doc.tracks
         /\ (IF c + 1 < Ncol(doc) THEN c + 1 ELSE 0) \in DOMAIN doc.tracks
  BY DocumentFields

LEMMA MoveLeftOk ==
  ASSUME NEW doc, DocumentOk(doc), NEW x \in XPos, XOk(doc, x)
  PROVE  MoveLeft(doc, x) \in XPos /\ XOk(doc, MoveLeft(doc, x))
  <1>1. x.column \in DOMAIN doc.tracks /\ x.subcolumn < Nsubcol(doc, x) /\ x.cell < Ncell(doc, x)
    BY DEF XOk
  <1>2. Nsubcol(doc, x) \in 4 .. 5 /\ Ncell(doc, x) \in 1 .. 4
    BY <1>1, NsubcolBounds, NcellBounds
  <1>3. CASE x.cell > 0
    <2> DEFINE y == [x EXCEPT !.cell = @ - 1]
    <2>1. y \in XPos /\ y.column = x.column /\ y.subcolumn = x.subcolumn /\ y.cell = x.cell - 1
      BY <1>3 DEF XPos
    <2>2. Nsubcol(doc, y) = Nsubcol(doc, x) /\ Ncell(doc, y) = Ncell(doc, x)
      BY <2>1, CountsOf
    <2>3. MoveLeft(doc, x) = y
      BY <1>3 DEF MoveLeft
    <2> HIDE DEF y
    <2>4. x.cell \in Nat
      BY DEF XPos
    <2>5. XOk(doc, y)
      BY <1>1, <1>2, <2>1, <2>2, <2>4 DEF XOk
    <2> QED
      BY <2>1, <2>3, <2>5
  <1>4. CASE ~(x.cell > 0) /\ x.subcolumn > 0
    <2> DEFINE y == [x EXCEPT !.subcolumn = @ - 1]
    <2>1. y \in XPos /\ y.column = x.column /\ y.subcolumn = x.subcolumn - 1
      BY <1>4 DEF XPos
    <2>2. Nsubcol(doc, y) = Nsubcol(doc, x)
      BY <2>1, CountsOf
    <2>3. MoveLeft(doc, x) = LastCell(doc, y)
      BY <1>4 DEF MoveLeft
    <2>4. x.subcolumn \in Nat
      BY DEF XPos
    <2> HIDE DEF y
    <2> QED
      BY <1>1, <1>2, <2>1, <2>2, <2>3, <2>4, LastCellOk
  <1>5. CASE ~(x.cell > 0) /\ ~(x.subcolumn > 0)
    <2> DEFINE c == IF x.column > 0 THEN x.column - 1 ELSE Ncol(doc) - 1
               y == [x EXCEPT !.column = c]
    <2>1. c \in DOMAIN doc.tracks
      BY <1>1, NextColumns
    <2>2. MoveLeft(doc, x) = LastSubColumn(doc, y)
      BY <1>5 DEF MoveLeft
    <2>3. c \in Nat
      BY <2>1, DocumentFields
    <2> HIDE DEF c
    <2>4. y \in XPos /\ y.column = c
      BY <2>3 DEF XPos
    <2> HIDE DEF y
    <2> QED
      BY <2>1, <2>2, <2>4, LastSubColumnOk
  <1> QED
    BY <1>3, <1>4, <1>5

LEMMA MoveRightOk ==
  ASSUME NEW doc, DocumentOk(doc), NEW x \in XPos, XOk(doc, x)
  PROVE  MoveRight(doc, x) \in XPos /\ XOk(doc, MoveRight(doc, x))
  <1> DEFINE y == MoveRight(doc, x)
             c == IF x.column + 1 < Ncol(doc) THEN x.column + 1 ELSE 0
  <1>1. x.column \in DOMAIN doc.tracks /\ x.subcolumn < Nsubcol(doc, x) /\ x.cell < Ncell(doc, x)
        /\ x.column \in Nat /\ x.subcolumn \in Nat /\ x.cell \in Nat
    BY DEF XOk, XPos
  <1>2. Nsubcol(doc, x) \in 4 .. 5 /\ Ncell(doc, x) \in 1 .. 4
    BY <1>1, NsubcolBounds, NcellBounds
  <1>3. c \in DOMAIN doc.tracks /\ c \in Nat
    BY <1>1, NextColumns
  <1>4. CASE x.cell + 1 < Ncell(doc, x)
    <2>1. y = CursorX(x.column, x.subcolumn, x.cell + 1)
      BY <1>4 DEF MoveRight, CursorX, XPos
    <2> HIDE DEF y
    <2>2. y \in XPos /\ y.column = x.column /\ y.subcolumn = x.subcolumn /\ y.cell = x.cell + 1
      BY <1>1, <2>1 DEF XPos, CursorX
    <2>3. Nsubcol(doc, y) = Nsubcol(doc, x) /\ Ncell(doc, y) = Ncell(doc, x)
      BY <2>2, CountsOf
    <2> QED
      BY <1>1, <1>4, <2>2, <2>3 DEF XOk, y
  <1>5. CASE ~(x.cell + 1 < Ncell(doc, x)) /\ x.subcolumn + 1 < Nsubcol(doc, x)
    <2>1. y = CursorX(x.column, x.subcolumn + 1, 0)
      BY <1>5 DEF MoveRight
    <2> HIDE DEF y
    <2>2. y \in XPos /\ y.column = x.column /\ y.subcolumn = x.subcolumn + 1 /\ y.cell = 0
      BY <1>1, <2>1 DEF XPos, CursorX
    <2>3. Nsubcol(doc, y) = Nsubcol(doc, x) /\ Ncell(doc, y) \in 1 .. 4
      BY <2>2, CountsOf, NcellBounds
    <2> QED
      BY <1>1, <1>5, <2>2, <2>3 DEF XOk, y
  <1>6. CASE ~(x.cell + 1 < Ncell(doc, x)) /\ ~(x.subcolumn + 1 < Nsubcol(doc, x))
    <2>1. y = CursorX(c, 0, 0)
      BY <1>6 DEF MoveRight
    <2> HIDE DEF y, c
    <2>2. y \in XPos /\ y.column = c /\ y.subcolumn = 0 /\ y.cell = 0
      BY <1>3, <2>1 DEF XPos, CursorX
    <2>3. Nsubcol(doc, y) \in 4 .. 5 /\ Ncell(doc, y) \in 1 .. 4
      BY <1>3, <2>2, NsubcolBounds, NcellBounds
    <2> QED
      BY <1>3, <2>2, <2>3 DEF XOk, y
  <1> QED
    BY <1>4, <1>5, <1>6

LEMMA CursorClampSubcolOk ==
  ASSUME NEW doc, DocumentOk(doc), NEW x \in XPos, x.column \in DOMAIN doc.tracks
  PROVE  CursorClampSubcol(doc, x) \in XPos /\ XOk(doc, CursorClampSubcol(doc, x))
  <1>1. Nsubcol(doc, x) \in 4 .. 5 /\ Ncell(doc, x) \in 1 .. 4
    BY NsubcolBounds, NcellBounds
  <1>2. CASE x.subcolumn >= Nsubcol(doc, x)
    BY <1>2, LastSubColumnOk DEF CursorClampSubcol
  <1>3. CASE ~(x.subcolumn >= Nsubcol(doc, x))
    <2> DEFINE k == Min({x.cell, Ncell(doc, x) - 1})
               y == [x EXCEPT !.cell = k]
    <2>1. CursorClampSubcol(doc, x) = y
      BY <1>3 DEF CursorClampSubcol
    <2>2. x.cell \in Nat /\ x.subcolumn \in Nat
      BY DEF XPos
    <2>3. k \in Nat /\ k < Ncell(doc, x)
      <3>1. k = IF x.cell <= Ncell(doc, x) - 1 THEN x.cell ELSE Ncell(doc, x) - 1
        BY <1>1, <2>2, LeastOfTwo
      <3> QED
        BY <1>1, <2>2, <3>1
    <2> HIDE DEF k
    <2>4. y \in XPos /\ y.column = x.column /\ y.subcolumn = x.subcolumn /\ y.cell = k
      BY <2>3 DEF XPos
    <2>5. Nsubcol(doc, y) = Nsubcol(doc, x) /\ Ncell(doc, y) = Ncell(doc, x)
      BY <2>4, CountsOf
    <2> HIDE DEF y
    <2>6. XOk(doc, y)
      BY <1>1, <1>3, <2>2, <2>3, <2>4, <2>5 DEF XOk
    <2> QED
      BY <2>1, <2>4, <2>6
  <1> QED
    BY <1>2, <1>3

LEMMA ScrollOk ==
  ASSUME NEW doc, DocumentOk(doc), NEW x \in XPos, XOk(doc, x)
  PROVE  /\ ScrollLeft(doc, x) \in XPos /\ XOk(doc, ScrollLeft(doc, x))
         /\ ScrollRight(doc, x) \in XPos /\ XOk(doc, ScrollRight(doc, x))
  <1> DEFINE l == IF x.column > 0 THEN x.column - 1 ELSE Ncol(doc) - 1
             r == IF x.column + 1 < Ncol(doc) THEN x.column + 1 ELSE 0
  <1>1. l \in DOMAIN doc.tracks /\ r \in DOMAIN doc.tracks
    BY NextColumns DEF XOk
  <1>2. l \in Nat /\ r \in Nat
    BY <1>1, DocumentFields
  <1>3. /\ ScrollLeft(doc, x) = CursorClampSubcol(doc, [x EXCEPT !.column = l])
        /\ ScrollRight(doc, x) = CursorClampSubcol(doc, [x EXCEPT !.column = r])
    BY DEF ScrollLeft, ScrollRight
  <1> HIDE DEF l, r
  <1>4. ASSUME NEW c \in DOMAIN doc.tracks, c \in Nat
        PROVE  LET y == CursorClampSubcol(doc, [x EXCEPT !.column = c])
               IN  y \in XPos /\ XOk(doc, y)
    <2> DEFINE z == [x EXCEPT !.column = c]
    <2>1. z \in XPos /\ z.column = c
      BY <1>4 DEF XPos
    <2> HIDE DEF z
    <2>2. CursorClampSubcol(doc, z) \in XPos /\ XOk(doc, CursorClampSubcol(doc, z))
      BY <2>1, CursorClampSubcolOk
    <2> QED
      BY <2>2 DEF z
  <1> QED
    BY <1>1, <1>2, <1>3, <1>4

-----------------------------------------------------------------------------
(* The grid of beats, rows and measures.                                   *)

OptionsOk(opts) ==
  opts.ticks_per_beat \in Nat \ {0} /\ opts.beats_per_measure \in Nat \ {0}

(* What \div and % are.                                                    *)
LEMMA DivisionIs ==
  ASSUME NEW a \in Int, NEW d \in Nat \ {0}
  PROVE  /\ a \div d \in Int /\ a % d \in 0 .. d - 1
         /\ a = (a \div d) * d + (a % d)
  OBVIOUS

LEMMA DivisionIsUnique ==
  ASSUME NEW d \in Nat \ {0}, NEW q \in Int, NEW e \in 0 .. d - 1
  PROVE  (q * d + e) \div d = q /\ ((q * d) + e) % d = e
  <1> DEFINE a == q * d + e
             p == a \div d
             f == a % d
  <1>1. a \in Int /\ p \in Int /\ f \in 0 .. d - 1 /\ a = p * d + f
    BY DivisionIs
  <1>2. (p - q) * d = e - f
    BY <1>1
  <1> HIDE DEF a, p, f
  <1>3. p - q = 0
    <2>1. p - q >= 1 => (p - q) * d >= d
      BY <1>1
    <2>2. p - q <= -1 => (p - q) * d <= -d
      BY <1>1
    <2>3. e - f < d /\ e - f > -d
      BY <1>1
    <2> QED
      BY <1>1, <1>2, <2>1, <2>2, <2>3
  <1>4. p = q /\ f = e
    BY <1>1, <1>2, <1>3
  <1> QED
    BY <1>4 DEF a, p, f

LEMMA DivisionOfNat ==
  ASSUME NEW a \in Nat, NEW d \in Nat \ {0}
  PROVE  a \div d \in Nat /\ (a \div d) * d \in Nat /\ (a \div d) * d <= a
         /\ a < (a \div d) * d + d
  <1> DEFINE q == a \div d
             e == a % d
  <1>1. q \in Int /\ e \in 0 .. d - 1 /\ a = q * d + e
    BY DivisionIs
  <1> HIDE DEF q, e
  <1>2. q >= 0
    <2>1. q <= -1 => q * d <= -d
      BY <1>1
    <2> QED
      BY <1>1, <2>1
  <1>3. q * d \in Nat
    BY <1>1, <1>2
  <1> QED
    BY <1>1, <1>2, <1>3 DEF q

(* There is no multiple of d between two that follow each other.           *)
LEMMA NoneBetween ==
  ASSUME NEW d \in Nat \ {0}, NEW q \in Int, NEW a \in Int, q * d < a, a < q * d + d
  PROVE  a % d # 0
  <1> DEFINE e == a - q * d
  <1>1. q * d \in Int
    OBVIOUS
  <1>2. e \in 0 .. d - 1 /\ e # 0
    BY <1>1
  <1>3. a = q * d + e
    BY <1>1
  <1> HIDE DEF e
  <1> QED
    BY <1>2, <1>3, DivisionIsUnique

Beats == [time : Int, beat_in_measure : Int]
Rows == [beat : Beats, row_in_beat : Int]

LEMMA BeatsAre ==
  ASSUME NEW opts, OptionsOk(opts), NEW y \in Int
  PROVE  /\ BeatAt(opts, y) \in Beats
         /\ \A beat \in Beats : BeatNext(opts, beat) \in Beats /\ BeatPrev(opts, beat) \in Beats
  <1>1. opts.ticks_per_beat \in Nat \ {0} /\ opts.beats_per_measure \in Nat \ {0}
    BY DEF OptionsOk
  <1> DEFINE tpb == opts.ticks_per_beat
             bpm == opts.beats_per_measure
  <1>2. BeatAt(opts, y) = [time |-> (y \div tpb) * tpb, beat_in_measure |-> (y \div tpb) % bpm]
    BY DEF BeatAt
  <1>3. \A beat \in Beats :
          /\ BeatNext(opts, beat) =
               [time |-> beat.time + tpb, beat_in_measure |-> (beat.beat_in_measure + 1) % bpm]
          /\ BeatPrev(opts, beat) = IF beat.time < tpb THEN [time |-> 0, beat_in_measure |-> 0]
               ELSE [time |-> beat.time - tpb,
                     beat_in_measure |-> (beat.beat_in_measure + bpm - 1) % bpm]
    BY DEF BeatNext, BeatPrev
  <1> HIDE DEF tpb, bpm
  <1>4. tpb \in Nat \ {0} /\ bpm \in Nat \ {0}
    BY <1>1 DEF tpb, bpm
  <1>5. \A i \in Int : i % bpm \in Int /\ i \div tpb \in Int
    BY <1>4, DivisionIs
  <1>6. (y \div tpb) * tpb \in Int
    BY <1>4, <1>5
  <1>7. BeatAt(opts, y) \in Beats
    BY <1>2, <1>5, <1>6 DEF Beats
  <1>8. ASSUME NEW beat \in Beats
        PROVE  BeatNext(opts, beat) \in Beats /\ BeatPrev(opts, beat) \in Beats
    <2>1. beat.time \in Int /\ beat.beat_in_measure \in Int
      BY DEF Beats
    <2>2. (beat.beat_in_measure + 1) % bpm \in Int
          /\ (beat.beat_in_measure + bpm - 1) % bpm \in Int
      BY <1>4, <1>5, <2>1
    <2>3. beat.time + tpb \in Int /\ beat.time - tpb \in Int
      BY <1>4, <2>1
    <2>4. BeatNext(opts, beat) \in Beats
      BY <1>3, <2>2, <2>3 DEF Beats
    <2>5. BeatPrev(opts, beat) \in Beats
      BY <1>3, <2>2, <2>3 DEF Beats
    <2> QED
      BY <2>4, <2>5
  <1> QED
    BY <1>7, <1>8

LEMMA RowsAre ==
  ASSUME NEW opts, OptionsOk(opts), NEW y \in Int, NEW height \in Nat \ {0}
  PROVE  /\ RowAt(opts, y, height) \in Rows
         /\ \A row \in Rows : /\ RowNext(opts, row, height) \in Rows
                              /\ RowPrev(opts, row, height) \in Rows
                              /\ RowTime(row, height) \in Int
  <1>1. opts.ticks_per_beat \in Nat \ {0}
    BY DEF OptionsOk
  <1>2. RowAt(opts, y, height) \in Rows
    <2> DEFINE beat == BeatAt(opts, y)
    <2>1. beat \in Beats
      BY BeatsAre
    <2>2. RowAt(opts, y, height) = [beat |-> beat, row_in_beat |-> (y - beat.time) \div height]
      BY DEF RowAt
    <2> HIDE DEF beat
    <2>3. beat.time \in Int
      BY <2>1 DEF Beats
    <2>4. (y - beat.time) \div height \in Int
      BY <2>3, DivisionIs
    <2> QED
      BY <2>1, <2>2, <2>4 DEF Rows
  <1>3. ASSUME NEW row \in Rows
        PROVE  /\ RowNext(opts, row, height) \in Rows
               /\ RowPrev(opts, row, height) \in Rows
               /\ RowTime(row, height) \in Int
    <2>1. row.beat \in Beats /\ row.row_in_beat \in Int /\ row.beat.time \in Int
      BY DEF Rows, Beats
    <2>2. BeatNext(opts, row.beat) \in Beats /\ BeatPrev(opts, row.beat) \in Beats
      BY <2>1, BeatsAre
    <2>3. (opts.ticks_per_beat - 1) \div height \in Int
      BY <1>1, DivisionIs, SMTT(30)
    <2>4. \A i \in Int : [row EXCEPT !.row_in_beat = i] \in Rows
      BY DEF Rows
    <2>5. RowNext(opts, row, height) \in Rows
      <3>1. [row EXCEPT !.row_in_beat = row.row_in_beat + 1] \in Rows
        BY <2>1, <2>4
      <3>2. [beat |-> BeatNext(opts, row.beat), row_in_beat |-> 0] \in Rows
        BY <2>2 DEF Rows
      <3> QED
        BY <3>1, <3>2 DEF RowNext
    <2>6. RowPrev(opts, row, height) \in Rows
      <3>1. [row EXCEPT !.row_in_beat = row.row_in_beat - 1] \in Rows
        BY <2>1, <2>4
      <3>2. [beat |-> BeatPrev(opts, row.beat),
             row_in_beat |-> (opts.ticks_per_beat - 1) \div height] \in Rows
        BY <2>2, <2>3 DEF Rows
      <3> QED
        BY <3>1, <3>2 DEF RowPrev
    <2>7. RowTime(row, height) \in Int
      <3>1. row.row_in_beat * height \in Int
        BY <2>1
      <3> QED
        BY <2>1, <3>1 DEF RowTime
    <2> QED
      BY <2>5, <2>6, <2>7
  <1> QED
    BY <1>2, <1>3

(* The rows that n steps up and down go through.                           *)
RowsUp(f, n, opts, height, from, snapped) ==
  f = [k \in 0 .. n |->
         IF k <= snapped THEN from ELSE RowPrev(opts, f[k - 1], height)]

RowsDown(f, n, opts, height, from) ==
  f = [k \in 0 .. n |-> IF k = 0 THEN from ELSE RowNext(opts, f[k - 1], height)]

LEMMA RowsUpExist ==
  ASSUME NEW opts, OptionsOk(opts), NEW height \in Nat \ {0}, NEW n \in Nat,
         NEW from \in Rows, NEW snapped \in {0, 1}
  PROVE  \E f : RowsUp(f, n, opts, height, from, snapped)
  <1> DEFINE step == [p \in (Nat \ {0}) \X Rows |->
                        IF p[1] <= snapped THEN from ELSE RowPrev(opts, p[2], height)]
  <1>1. \A row \in Rows : RowPrev(opts, row, height) \in Rows
    BY RowsAre
  <1>2. step \in [(Nat \ {0}) \X Rows -> Rows]
    BY <1>1
  <1>3. \A k \in Nat \ {0}, row \in Rows :
          step[<<k, row>>] = IF k <= snapped THEN from ELSE RowPrev(opts, row, height)
    OBVIOUS
  <1> HIDE DEF step
  <1>4. PICK f \in [0 .. n -> Rows] : Steps(f, n, from, step)
    BY <1>2, StepsExist
  <1>5. ASSUME NEW k \in 0 .. n
        PROVE  f[k] = IF k <= snapped THEN from ELSE RowPrev(opts, f[k - 1], height)
    <2>1. CASE k = 0
      BY <1>4, <2>1 DEF Steps
    <2>2. CASE k # 0
      <3>1. f[k] = step[<<k, f[k - 1]>>]
        BY <1>4, <2>2 DEF Steps
      <3>2. k - 1 \in 0 .. n /\ k \in Nat \ {0}
        BY <2>2
      <3>3. f[k - 1] \in Rows
        BY <1>4, <3>2
      <3> QED
        BY <1>3, <3>1, <3>2, <3>3
    <2> QED
      BY <2>1, <2>2
  <1>6. RowsUp(f, n, opts, height, from, snapped)
    BY <1>4, <1>5 DEF RowsUp
  <1> QED
    BY <1>6

LEMMA RowsDownExist ==
  ASSUME NEW opts, OptionsOk(opts), NEW height \in Nat \ {0}, NEW n \in Nat,
         NEW from \in Rows
  PROVE  \E f : RowsDown(f, n, opts, height, from)
  <1> DEFINE step == [p \in (Nat \ {0}) \X Rows |-> RowNext(opts, p[2], height)]
  <1>1. \A row \in Rows : RowNext(opts, row, height) \in Rows
    BY RowsAre
  <1>2. step \in [(Nat \ {0}) \X Rows -> Rows]
    BY <1>1
  <1>3. \A k \in Nat \ {0}, row \in Rows : step[<<k, row>>] = RowNext(opts, row, height)
    OBVIOUS
  <1> HIDE DEF step
  <1>4. PICK f \in [0 .. n -> Rows] : Steps(f, n, from, step)
    BY <1>2, StepsExist
  <1>5. ASSUME NEW k \in 0 .. n
        PROVE  f[k] = IF k = 0 THEN from ELSE RowNext(opts, f[k - 1], height)
    <2>1. CASE k = 0
      BY <1>4, <2>1 DEF Steps
    <2>2. CASE k # 0
      <3>1. f[k] = step[<<k, f[k - 1]>>]
        BY <1>4, <2>2 DEF Steps
      <3>2. k - 1 \in 0 .. n /\ k \in Nat \ {0}
        BY <2>2
      <3>3. f[k - 1] \in Rows
        BY <1>4, <3>2
      <3> QED
        BY <1>3, <2>2, <3>1, <3>2, <3>3
    <2> QED
      BY <2>1, <2>2
  <1>6. RowsDown(f, n, opts, height, from)
    BY <1>4, <1>5 DEF RowsDown
  <1> QED
    BY <1>6

(* The rows themselves, and the time of the last one.                      *)
LEMMA PrevRowsIs ==
  ASSUME NEW opts, OptionsOk(opts), NEW y \in Int, NEW height \in Nat \ {0}, NEW n \in Nat
  PROVE  LET from == RowAt(opts, y, height)
             snapped == IF RowTime(from, height) = y THEN 0 ELSE 1
         IN  \E f : /\ RowsUp(f, n, opts, height, from, snapped)
                    /\ PrevRows(opts, y, height, n) = RowTime(f[n], height)
  <1> DEFINE from == RowAt(opts, y, height)
             snapped == IF RowTime(from, height) = y THEN 0 ELSE 1
             f == CHOOSE f : RowsUp(f, n, opts, height, from, snapped)
  <1>1. PrevRows(opts, y, height, n) = RowTime(f[n], height)
    BY DEF PrevRows, RowsUp
  <1>2. from \in Rows /\ snapped \in {0, 1}
    BY RowsAre
  <1>3. RowsUp(f, n, opts, height, from, snapped)
    <2> HIDE DEF from, snapped
    <2>1. \E g : RowsUp(g, n, opts, height, from, snapped)
      BY <1>2, RowsUpExist
    <2> QED
      BY <2>1
  <1> QED
    BY <1>1, <1>3

LEMMA NextRowsIs ==
  ASSUME NEW opts, OptionsOk(opts), NEW y \in Int, NEW height \in Nat \ {0}, NEW n \in Nat
  PROVE  \E f : /\ RowsDown(f, n, opts, height, RowAt(opts, y, height))
                /\ NextRows(opts, y, height, n) = RowTime(f[n], height)
  <1> DEFINE from == RowAt(opts, y, height)
             f == CHOOSE f : RowsDown(f, n, opts, height, from)
  <1>1. NextRows(opts, y, height, n) = RowTime(f[n], height)
    BY DEF NextRows, RowsDown
  <1>2. from \in Rows
    BY RowsAre
  <1>3. RowsDown(f, n, opts, height, from)
    <2> HIDE DEF from
    <2>1. \E g : RowsDown(g, n, opts, height, from)
      BY <1>2, RowsDownExist
    <2> QED
      BY <2>1
  <1> QED
    BY <1>1, <1>3

LEMMA RowMovesAreInts ==
  ASSUME NEW opts, OptionsOk(opts), NEW y \in Int, NEW height \in Nat \ {0}, NEW n \in Nat
  PROVE  PrevRows(opts, y, height, n) \in Int /\ NextRows(opts, y, height, n) \in Int
  <1> DEFINE from == RowAt(opts, y, height)
             snapped == IF RowTime(from, height) = y THEN 0 ELSE 1
  <1>1. from \in Rows /\ snapped \in {0, 1}
    BY RowsAre
  <1>2. PICK f : /\ RowsUp(f, n, opts, height, from, snapped)
                 /\ PrevRows(opts, y, height, n) = RowTime(f[n], height)
    BY PrevRowsIs
  <1>3. PICK g : /\ RowsDown(g, n, opts, height, from)
                 /\ NextRows(opts, y, height, n) = RowTime(g[n], height)
    BY NextRowsIs
  <1> HIDE DEF from, snapped
  <1> DEFINE S == {k \in 0 .. n : f[k] \in Rows /\ g[k] \in Rows}
  <1>4. 0 \in S
    BY <1>1, <1>2, <1>3 DEF RowsUp, RowsDown
  <1>5. ASSUME NEW k \in 1 .. n, k - 1 \in S PROVE k \in S
    <2>1. k \in 0 .. n /\ k # 0
      OBVIOUS
    <2>2. f[k] = from \/ f[k] = RowPrev(opts, f[k - 1], height)
      BY <1>2, <2>1 DEF RowsUp
    <2>3. g[k] = RowNext(opts, g[k - 1], height)
      BY <1>3, <2>1 DEF RowsDown
    <2>4. f[k - 1] \in Rows /\ g[k - 1] \in Rows
      BY <1>5
    <2> QED
      BY <1>1, <2>1, <2>2, <2>3, <2>4, RowsAre
  <1>6. n \in S
    <2> HIDE DEF S
    <2>1. \A k \in 0 .. n : k \in S
      BY <1>4, <1>5, CountUp
    <2> QED
      BY <2>1
  <1>7. f[n] \in Rows /\ g[n] \in Rows
    BY <1>6
  <1> QED
    BY <1>2, <1>3, <1>7, RowsAre

LEMMA BeatMovesAreInts ==
  ASSUME NEW opts, OptionsOk(opts), NEW y \in Int
  PROVE  PrevBeat(opts, y) \in Int /\ NextBeat(opts, y) \in Int
  <1> DEFINE beat == BeatAt(opts, y)
  <1>1. beat \in Beats /\ BeatNext(opts, beat) \in Beats /\ BeatPrev(opts, beat) \in Beats
    BY BeatsAre
  <1>2. \A b \in Beats : b.time \in Int
    BY DEF Beats
  <1> QED
    BY <1>1, <1>2 DEF PrevBeat, NextBeat

(* The row at or before y: row r of the beat that begins at b, and the     *)
(* next row comes no later than the next beat.                             *)
LEMMA RowAtIs ==
  ASSUME NEW opts, OptionsOk(opts), NEW y \in Nat, NEW height \in Nat \ {0}
  PROVE  LET row == RowAt(opts, y, height)
             i == y \div opts.ticks_per_beat
             b == i * opts.ticks_per_beat
             r == (y - b) \div height
         IN  /\ row.beat.time = b /\ row.row_in_beat = r /\ RowTime(row, height) = b + r * height
             /\ i \in Nat /\ b \in Nat /\ r \in Nat /\ r * height \in Nat
             /\ b + r * height <= y /\ y < b + r * height + height
             /\ y < b + opts.ticks_per_beat
  <1> DEFINE row == RowAt(opts, y, height)
             tpb == opts.ticks_per_beat
             i == y \div tpb
             b == i * tpb
             r == (y - b) \div height
  <1>1. row.beat.time = b /\ row.row_in_beat = r
    BY DEF RowAt, BeatAt
  <1>2. RowTime(row, height) = b + r * height
    BY <1>1 DEF RowTime
  <1>3. tpb \in Nat \ {0}
    BY DEF OptionsOk
  <1> HIDE DEF row, tpb
  <1>4. i \in Nat /\ b \in Nat /\ b <= y /\ y < b + tpb
    BY <1>3, DivisionOfNat
  <1> HIDE DEF i, b
  <1>5. y - b \in Nat
    BY <1>4
  <1>6. r \in Nat /\ r * height \in Nat /\ r * height <= y - b /\ y - b < r * height + height
    BY <1>5, DivisionOfNat
  <1> HIDE DEF r
  <1>7. b + r * height <= y /\ y < b + r * height + height
    BY <1>4, <1>5, <1>6
  <1> QED
    BY <1>1, <1>2, <1>4, <1>6, <1>7 DEF row, tpb, i, b, r

IsGridRow(t, tpb, height) == (t % tpb) % height = 0

(* The rows of the beat that begins at i * tpb are the multiples of the    *)
(* height in it.                                                           *)
LEMMA GridOfBeat ==
  ASSUME NEW tpb \in Nat \ {0}, NEW height \in Nat \ {0}, NEW i \in Int,
         NEW e \in 0 .. tpb - 1
  PROVE  IsGridRow(i * tpb + e, tpb, height) <=> e % height = 0
  <1>1. ((i * tpb) + e) % tpb = e
    BY DivisionIsUnique
  <1> QED
    BY <1>1 DEF IsGridRow

LEMMA RowsOfBeat ==
  ASSUME NEW tpb \in Nat \ {0}, NEW height \in Nat \ {0}, NEW i \in Int, NEW r \in Int,
         r * height >= 0, r * height < tpb
  PROVE  IsGridRow(i * tpb + r * height, tpb, height)
  <1>1. r * height \in 0 .. tpb - 1
    OBVIOUS
  <1>2. ((r * height) + 0) % height = 0
    BY DivisionIsUnique
  <1>3. (r * height) % height = 0
    BY <1>2
  <1> QED
    BY <1>1, <1>3, GridOfBeat

(* Between a row and the next, or the next beat, there is none.            *)
LEMMA NoRowsBetween ==
  ASSUME NEW tpb \in Nat \ {0}, NEW height \in Nat \ {0}, NEW i \in Int, NEW r \in Nat,
         NEW t \in Int,
         i * tpb + r * height < t, t < i * tpb + r * height + height, t < i * tpb + tpb
  PROVE  ~IsGridRow(t, tpb, height)
  <1> DEFINE e == t - i * tpb
  <1>1. i * tpb \in Int /\ r * height \in Nat
    OBVIOUS
  <1>2. e \in 0 .. tpb - 1 /\ r * height < e /\ e < r * height + height /\ t = i * tpb + e
    BY <1>1
  <1> HIDE DEF e
  <1>3. e % height # 0
    <2>1. r \in Int /\ e \in Int /\ r * height < e /\ e < r * height + height
      BY <1>2
    <2> QED
      BY <2>1, NoneBetween
  <1> QED
    BY <1>2, <1>3, GridOfBeat

(* A step down goes to the next row, a step up to the one before.          *)
NextRowOk(y, down, tpb, height) ==
  /\ down \in Nat /\ down > y /\ IsGridRow(down, tpb, height)
  /\ \A t \in y + 1 .. down - 1 : ~IsGridRow(t, tpb, height)

PrevRowOk(y, up, tpb, height) ==
  /\ up \in Nat /\ (up < y \/ up = 0)
  /\ IsGridRow(up, tpb, height)
  /\ \A t \in up + 1 .. y - 1 : ~IsGridRow(t, tpb, height)

LEMMA StepDownIs ==
  ASSUME NEW opts, OptionsOk(opts), NEW y \in Nat, NEW height \in Nat \ {0}
  PROVE  NextRows(opts, y, height, 1)
           = RowTime(RowNext(opts, RowAt(opts, y, height), height), height)
  <1>1. PICK f : /\ RowsDown(f, 1, opts, height, RowAt(opts, y, height))
                 /\ NextRows(opts, y, height, 1) = RowTime(f[1], height)
    BY NextRowsIs
  <1>2. \A k \in 0 .. 1 :
          f[k] = IF k = 0 THEN RowAt(opts, y, height) ELSE RowNext(opts, f[k - 1], height)
    BY <1>1 DEF RowsDown
  <1>3. f[0] = RowAt(opts, y, height) /\ f[1] = RowNext(opts, f[0], height)
    BY <1>2
  <1> QED
    BY <1>1, <1>3

LEMMA StepUpIs ==
  ASSUME NEW opts, OptionsOk(opts), NEW y \in Nat, NEW height \in Nat \ {0}
  PROVE  LET from == RowAt(opts, y, height)
         IN  PrevRows(opts, y, height, 1)
               = RowTime(IF RowTime(from, height) = y THEN RowPrev(opts, from, height) ELSE from,
                         height)
  <1> DEFINE from == RowAt(opts, y, height)
             snapped == IF RowTime(from, height) = y THEN 0 ELSE 1
  <1>1. PICK f : /\ RowsUp(f, 1, opts, height, from, snapped)
                 /\ PrevRows(opts, y, height, 1) = RowTime(f[1], height)
    BY PrevRowsIs
  <1>2. \A k \in 0 .. 1 :
          f[k] = IF k <= snapped THEN from ELSE RowPrev(opts, f[k - 1], height)
    BY <1>1 DEF RowsUp
  <1> HIDE DEF from
  <1>3. f[0] = from
    BY <1>2
  <1>4. f[1] = IF RowTime(from, height) = y THEN RowPrev(opts, f[0], height) ELSE from
    BY <1>2
  <1> QED
    BY <1>1, <1>3, <1>4 DEF from

LEMMA StepDownOk ==
  ASSUME NEW opts, OptionsOk(opts), NEW y \in Nat, NEW height \in Nat \ {0}
  PROVE  NextRowOk(y, NextRows(opts, y, height, 1), opts.ticks_per_beat, height)
  <1> DEFINE row == RowAt(opts, y, height)
             tpb == opts.ticks_per_beat
             i == y \div tpb
             b == i * tpb
             r == (y - b) \div height
             down == NextRows(opts, y, height, 1)
  <1>1. tpb \in Nat \ {0} /\ row \in Rows
    BY RowsAre DEF OptionsOk
  <1>2. /\ row.beat.time = b /\ row.row_in_beat = r
        /\ i \in Nat /\ b \in Nat /\ r \in Nat /\ r * height \in Nat
        /\ b + r * height <= y /\ y < b + r * height + height /\ y < b + tpb
    BY RowAtIs
  <1>3. down = RowTime(RowNext(opts, row, height), height)
    BY StepDownIs
  <1> DEFINE last == (row.row_in_beat + 1) * height >= tpb
  <1>4. RowNext(opts, row, height) =
          IF last THEN [beat |-> BeatNext(opts, row.beat), row_in_beat |-> 0]
          ELSE [row EXCEPT !.row_in_beat = row.row_in_beat + 1]
    BY DEF RowNext
  <1>5. BeatNext(opts, row.beat).time = row.beat.time + tpb
    BY DEF BeatNext
  <1> HIDE DEF row, tpb, r
  <1>6. (r + 1) * height = r * height + height
    BY <1>2
  <1> DEFINE k == r * height
  <1>7. CASE last
    <2>1. k + height >= tpb
      BY <1>2, <1>6, <1>7
    <2>2. down = BeatNext(opts, row.beat).time + 0 * height
      BY <1>3, <1>4, <1>7 DEF RowTime
    <2>3. down = b + tpb
      BY <1>1, <1>2, <1>5, <2>2
    <2>4. down = (i + 1) * tpb + 0 * height
      BY <1>1, <1>2, <2>3
    <2>5. i + 1 \in Int /\ 0 \in Int /\ 0 * height >= 0 /\ 0 * height < tpb
      BY <1>1, <1>2
    <2>6. IsGridRow(down, tpb, height)
      <3> HIDE DEF i, b, down
      <3> QED
        BY <1>1, <2>4, <2>5, RowsOfBeat
    <2>7. ASSUME NEW t \in y + 1 .. down - 1 PROVE ~IsGridRow(t, tpb, height)
      <3> HIDE DEF down, i
      <3>1. t \in Int /\ b + r * height < t /\ t < b + r * height + height /\ t < b + tpb
        BY <1>1, <1>2, <2>1, <2>3
      <3>2. i \in Int /\ r \in Nat
        BY <1>2
      <3> QED
        BY <1>1, <3>1, <3>2, NoRowsBetween
    <2>8. down \in Nat /\ down > y
      BY <1>1, <1>2, <2>3
    <2> HIDE DEF down, tpb
    <2>9. NextRowOk(y, down, tpb, height)
      BY <2>6, <2>7, <2>8 DEF NextRowOk
    <2> QED
      BY <2>9 DEF down, tpb
  <1>8. CASE ~last
    <2>1. k + height < tpb
      BY <1>1, <1>2, <1>6, <1>8
    <2>2. down = row.beat.time + (row.row_in_beat + 1) * height
      <3> DEFINE next == [row EXCEPT !.row_in_beat = row.row_in_beat + 1]
      <3>1. next.beat = row.beat /\ next.row_in_beat = row.row_in_beat + 1
        BY <1>1 DEF Rows
      <3>2. down = RowTime(next, height)
        BY <1>3, <1>4, <1>8
      <3> HIDE DEF next, down
      <3> QED
        BY <3>1, <3>2 DEF RowTime
    <2>3. down = b + (r + 1) * height /\ down = b + k + height
      BY <1>2, <1>6, <2>2
    <2>4. i \in Int /\ r + 1 \in Int /\ (r + 1) * height >= 0 /\ (r + 1) * height < tpb
      BY <1>2, <1>6, <2>1
    <2>5. IsGridRow(down, tpb, height)
      <3>1. down = i * tpb + (r + 1) * height
        BY <2>3
      <3> HIDE DEF i, b, down
      <3> QED
        BY <1>1, <2>4, <3>1, RowsOfBeat
    <2>6. ASSUME NEW t \in y + 1 .. down - 1 PROVE ~IsGridRow(t, tpb, height)
      <3> HIDE DEF down, i
      <3>1. t \in Int /\ b + r * height < t /\ t < b + r * height + height /\ t < b + tpb
        BY <1>1, <1>2, <2>1, <2>3
      <3>2. i \in Int /\ r \in Nat
        BY <1>2
      <3> QED
        BY <1>1, <3>1, <3>2, NoRowsBetween
    <2>7. down \in Nat /\ down > y
      BY <1>1, <1>2, <2>3
    <2> HIDE DEF down, tpb
    <2>8. NextRowOk(y, down, tpb, height)
      BY <2>5, <2>6, <2>7 DEF NextRowOk
    <2> QED
      BY <2>8 DEF down, tpb
  <1> QED
    BY <1>7, <1>8

(* An up at row r of beat i, or at the one where y is already.             *)
LEMMA UpToRow ==
  ASSUME NEW y \in Nat, NEW tpb \in Nat \ {0}, NEW height \in Nat \ {0}, NEW i \in Nat,
         NEW r \in Nat, NEW up, up = i * tpb + r * height, r * height < tpb, up < y \/ up = 0,
         y <= i * tpb + r * height + height, y <= i * tpb + tpb
  PROVE  PrevRowOk(y, up, tpb, height)
  <1>1. i * tpb \in Nat /\ r * height \in Nat /\ i \in Int /\ r \in Int
    OBVIOUS
  <1>2. up \in Nat
    BY <1>1
  <1>3. IsGridRow(up, tpb, height)
    BY <1>1, RowsOfBeat
  <1>4. ASSUME NEW t \in up + 1 .. y - 1 PROVE ~IsGridRow(t, tpb, height)
    <2>1. t \in Int /\ i * tpb + r * height < t /\ t < i * tpb + r * height + height
          /\ t < i * tpb + tpb
      BY <1>1, <1>2
    <2> QED
      BY <1>1, <2>1, NoRowsBetween
  <1> QED
    BY <1>2, <1>3, <1>4 DEF PrevRowOk

LEMMA StepUpOk ==
  ASSUME NEW opts, OptionsOk(opts), NEW y \in Nat, NEW height \in Nat \ {0}
  PROVE  PrevRowOk(y, PrevRows(opts, y, height, 1), opts.ticks_per_beat, height)
  <1> DEFINE row == RowAt(opts, y, height)
             tpb == opts.ticks_per_beat
             i == y \div tpb
             b == i * tpb
             r == (y - b) \div height
             up == PrevRows(opts, y, height, 1)
  <1>1. tpb \in Nat \ {0} /\ row \in Rows
    BY RowsAre DEF OptionsOk
  <1>2. /\ row.beat.time = b /\ row.row_in_beat = r /\ RowTime(row, height) = b + r * height
        /\ i \in Nat /\ b \in Nat /\ r \in Nat /\ r * height \in Nat
        /\ b + r * height <= y /\ y < b + r * height + height /\ y < b + tpb
    BY RowAtIs
  <1>3. up = RowTime(IF RowTime(row, height) = y THEN RowPrev(opts, row, height) ELSE row, height)
    BY StepUpIs
  <1>4. RowPrev(opts, row, height) =
          IF row.row_in_beat > 0 THEN [row EXCEPT !.row_in_beat = row.row_in_beat - 1]
          ELSE IF row.beat.time < tpb THEN row
          ELSE [beat |-> BeatPrev(opts, row.beat), row_in_beat |-> (tpb - 1) \div height]
    BY DEF RowPrev
  <1>5. BeatPrev(opts, row.beat).time = IF row.beat.time < tpb THEN 0 ELSE row.beat.time - tpb
    BY DEF BeatPrev
  <1> SUFFICES PrevRowOk(y, up, tpb, height)
    OBVIOUS
  <1> HIDE DEF row, tpb, up, r
  <1>6. CASE RowTime(row, height) # y
    <2>0. up = RowTime(row, height)
      BY <1>3, <1>6
    <2>1. up = i * tpb + r * height /\ up < y
      <3>1. RowTime(row, height) <= y /\ RowTime(row, height) \in Nat
        BY <1>2
      <3> QED
        BY <1>2, <1>6, <2>0, <3>1
    <2>2. r * height < tpb /\ y <= i * tpb + r * height + height /\ y <= i * tpb + tpb
      BY <1>1, <1>2
    <2> HIDE DEF i
    <2> QED
      BY <1>1, <1>2, <2>1, <2>2, UpToRow
  <1>7. CASE RowTime(row, height) = y /\ r > 0
    <2>1. up = b + (r - 1) * height
      <3> DEFINE prev == [row EXCEPT !.row_in_beat = row.row_in_beat - 1]
      <3>1. prev.beat = row.beat /\ prev.row_in_beat = row.row_in_beat - 1
        BY <1>1 DEF Rows
      <3>2. up = RowTime(prev, height)
        BY <1>2, <1>3, <1>4, <1>7
      <3> HIDE DEF prev
      <3> QED
        BY <1>2, <3>1, <3>2 DEF RowTime
    <2>2. (r - 1) * height = r * height - height
      BY <1>2
    <2> DEFINE k == r - 1
    <2>3. k \in Nat /\ k * height \in Nat /\ up = i * tpb + k * height
      BY <1>2, <1>7, <2>1
    <2>4. k * height < tpb /\ up < y
          /\ y <= i * tpb + k * height + height /\ y <= i * tpb + tpb
      BY <1>1, <1>2, <1>7, <2>1, <2>2
    <2> HIDE DEF i, k
    <2> QED
      BY <1>1, <1>2, <2>3, <2>4, UpToRow
  <1>8. CASE RowTime(row, height) = y /\ ~(r > 0) /\ b < tpb
    <2>1. r = 0 /\ r * height = 0 /\ y = b
      BY <1>1, <1>2, <1>8
    <2>2. i = 0
      <3>1. i >= 1 => i * tpb >= tpb
        BY <1>1, <1>2
      <3> QED
        BY <1>1, <1>2, <1>8, <3>1
    <2>3. y = 0
      BY <1>1, <2>1, <2>2
    <2>4. RowPrev(opts, row, height) = row
      BY <1>2, <1>4, <1>8, <2>1
    <2>5. up = 0
      BY <1>3, <1>8, <2>3, <2>4
    <2>6. i * tpb = 0
      BY <1>1, <2>2
    <2>7. up = i * tpb + r * height /\ r * height < tpb
          /\ y <= i * tpb + r * height + height /\ y <= i * tpb + tpb
      BY <1>1, <2>1, <2>3, <2>5, <2>6
    <2> HIDE DEF i
    <2> QED
      BY <1>1, <1>2, <2>5, <2>7, UpToRow
  <1>9. CASE RowTime(row, height) = y /\ ~(r > 0) /\ ~(b < tpb)
    <2> DEFINE q == (tpb - 1) \div height
               prev == [beat |-> BeatPrev(opts, row.beat), row_in_beat |-> q]
               j == i - 1
    <2>1. r = 0 /\ r * height = 0 /\ y = b
      BY <1>1, <1>2, <1>9
    <2>2. tpb - 1 \in Nat
      BY <1>1
    <2>3. q \in Nat /\ q * height \in Nat /\ q * height <= tpb - 1 /\ tpb - 1 < q * height + height
      BY <2>2, DivisionOfNat
    <2>4. prev.beat.time = b - tpb /\ prev.row_in_beat = q
      BY <1>2, <1>5, <1>9
    <2>5. RowPrev(opts, row, height) = prev
      BY <1>2, <1>4, <1>9
    <2>6. up = RowTime(prev, height)
      BY <1>3, <1>9, <2>5
    <2> HIDE DEF prev, q
    <2>7. up = b - tpb + q * height
      BY <2>4, <2>6 DEF RowTime
    <2>8. j \in Nat /\ j * tpb = b - tpb
      <3>1. i # 0
        BY <1>1, <1>2, <1>9
      <3> QED
        BY <1>1, <1>2, <3>1
    <2>9. up = j * tpb + q * height /\ q * height < tpb /\ up < y
          /\ y <= j * tpb + q * height + height /\ y <= j * tpb + tpb
      BY <1>1, <1>2, <2>1, <2>3, <2>7, <2>8
    <2> HIDE DEF j
    <2> QED
      BY <1>1, <2>3, <2>8, <2>9, UpToRow
  <1> QED
    BY <1>6, <1>7, <1>8, <1>9

-----------------------------------------------------------------------------
(* Looking into a track.                                                   *)

LEMMA ProductGrows ==
  ASSUME NEW a \in Int, NEW b \in Int, NEW d \in Nat, a <= b
  PROVE  a * d \in Int /\ b * d \in Int /\ a * d <= b * d
  <1>1. (b - a) * d >= 0
    OBVIOUS
  <1>2. (b - a) * d = b * d - a * d
    OBVIOUS
  <1> QED
    BY <1>1, <1>2

LEMMA BlockFields ==
  ASSUME NEW track \in Track, NEW k \in 1 .. Len(track)
  PROVE  /\ track[k] \in Block
         /\ track[k].begin_tick \in Nat
         /\ track[k].loop_count \in Nat /\ track[k].loop_count >= 1
         /\ track[k].length_ticks \in Nat /\ track[k].length_ticks >= 1
         /\ track[k].events \in Seq(Event)
         /\ EndTime(track[k]) \in Nat
         /\ EndTime(track[k]) >= track[k].begin_tick + track[k].length_ticks
  <1> DEFINE loops == track[k].loop_count
             length == track[k].length_ticks
  <1>1. track[k] \in Block
    BY DEF Track
  <1>2. /\ track[k].begin_tick \in Nat /\ track[k].events \in Seq(Event)
        /\ loops \in Nat /\ loops >= 1 /\ length \in Nat /\ length >= 1
    BY <1>1 DEF Block
  <1>3. EndTime(track[k]) = track[k].begin_tick + loops * length
    BY DEF EndTime
  <1> HIDE DEF loops, length
  <1>4. loops * length \in Nat /\ loops * length >= 1 * length /\ 1 * length = length
    BY <1>2, ProductGrows
  <1> QED
    BY <1>1, <1>2, <1>3, <1>4 DEF loops, length

LEMMA BlockAtIs ==
  ASSUME NEW track \in Track, NEW now \in Int
  PROVE  /\ BlockAt(track, now) \in 1 .. Len(track) + 1
         /\ BlockAt(track, now) <= Len(track) => now < EndTime(track[BlockAt(track, now)])
         /\ \A j \in 1 .. Len(track) : j < BlockAt(track, now) => EndTime(track[j]) <= now
  <1> DEFINE S == {k \in 1 .. Len(track) + 1 : k > Len(track) \/ now < EndTime(track[k])}
             b == BlockAt(track, now)
  <1>1. Len(track) \in Nat
    BY DEF Track
  <1>2. S \in SUBSET Nat /\ Len(track) + 1 \in S
    BY <1>1
  <1>3. b = Min(S)
    BY DEF BlockAt
  <1>4. b \in S /\ \A i \in S : b <= i
    <2> HIDE DEF S, b
    <2> QED
      BY <1>2, <1>3, MinIsLeast
  <1> HIDE DEF b
  <1>5. ASSUME NEW j \in 1 .. Len(track), j < b PROVE EndTime(track[j]) <= now
    <2>1. j \notin S
      BY <1>1, <1>4, <1>5
    <2>2. ~(now < EndTime(track[j]))
      BY <1>1, <2>1
    <2> QED
      BY <2>2, BlockFields
  <1>6. b \in 1 .. Len(track) + 1 /\ (b <= Len(track) => now < EndTime(track[b]))
    BY <1>1, <1>4
  <1> QED
    BY <1>5, <1>6 DEF b

(* The pattern that plays at now.                                          *)
LEMMA PatternAtIs ==
  ASSUME NEW track \in Track, NEW now \in Int, ~SnappedLater(track, now)
  PROVE  LET p == PatternAt(track, now)
         IN  /\ p.block = BlockAt(track, now) /\ p.block \in 1 .. Len(track)
             /\ p.loop \in 0 .. track[p.block].loop_count - 1
             /\ PatternBegin(track, p) \in Int
             /\ PatternBegin(track, p) <= now
             /\ now < PatternBegin(track, p) + track[p.block].length_ticks
  <1> DEFINE p == PatternAt(track, now)
             k == BlockAt(track, now)
             begin == track[k].begin_tick
             length == track[k].length_ticks
             loops == track[k].loop_count
             loop == (now - begin) \div length
  <1>1. k \in 1 .. Len(track) + 1 /\ Len(track) \in Nat
    BY BlockAtIs DEF Track
  <1>2. k \in 1 .. Len(track) /\ ~(now < begin)
    BY <1>1 DEF SnappedLater
  <1>3. /\ begin \in Nat /\ loops \in Nat /\ length \in Nat \ {0}
        /\ now < EndTime(track[k]) /\ EndTime(track[k]) = begin + loops * length
    <2> HIDE DEF k
    <2>1. /\ track[k].begin_tick \in Nat /\ track[k].loop_count \in Nat
          /\ track[k].length_ticks \in Nat /\ track[k].length_ticks >= 1
      BY <1>2, BlockFields
    <2>2. now < EndTime(track[k])
      BY <1>2, BlockAtIs, SMTT(30) DEF k
    <2> QED
      BY <2>1, <2>2 DEF EndTime
  <1>4. p = [block |-> k, loop |-> loop]
    BY DEF PatternAt, PatternIter
  <1>5. PatternBegin(track, p) = begin + loop * length
    BY <1>4 DEF PatternBegin, LoopTime
  <1>6. p.block = k /\ p.loop = loop
    BY <1>4
  <1> HIDE DEF p, k, begin, length, loops
  <1>7. now - begin \in Nat
    BY <1>2, <1>3
  <1>8. loop \in Nat /\ loop * length \in Nat /\ loop * length <= now - begin
        /\ now - begin < loop * length + length
    BY <1>3, <1>7, DivisionOfNat
  <1> HIDE DEF loop
  <1>9. loop < loops
    <2>1. loops <= loop => loops * length <= loop * length
      BY <1>3, <1>8, ProductGrows
    <2>2. loops * length \in Int
      BY <1>3
    <2> QED
      BY <1>3, <1>7, <1>8, <2>1, <2>2
  <1>10. PatternBegin(track, p) \in Int /\ PatternBegin(track, p) <= now
         /\ now < PatternBegin(track, p) + length
    BY <1>3, <1>5, <1>8
  <1>11. p.block \in 1 .. Len(track) /\ p.loop \in 0 .. track[p.block].loop_count - 1
         /\ length = track[p.block].length_ticks
    BY <1>2, <1>3, <1>6, <1>8, <1>9 DEF loops, length
  <1> QED
    BY <1>6, <1>10, <1>11 DEF p, k

LEMMA SnappedAtIs ==
  ASSUME NEW track \in Track, NEW now \in Int, SnappedLater(track, now)
  PROVE  /\ PatternAt(track, now) = PatternIter(BlockAt(track, now), 0)
         /\ BlockAt(track, now) <= Len(track) => now < track[BlockAt(track, now)].begin_tick
  <1>1. BlockAt(track, now) \in 1 .. Len(track) + 1 /\ Len(track) \in Nat
    BY BlockAtIs DEF Track
  <1> QED
    BY <1>1 DEF PatternAt, SnappedLater

LEMMA EventFields ==
  ASSUME NEW events \in Seq(Event), NEW k \in 1 .. Len(events)
  PROVE  events[k] \in Event /\ events[k].anchor_tick \in Nat /\ events[k].v \in SUBSET Fields
  <1>1. events[k] \in Event
    OBVIOUS
  <1> QED
    BY <1>1 DEF Event

LEMMA TickEndIs ==
  ASSUME NEW events \in Seq(Event), NEW t \in Int
  PROVE  /\ TickEnd(events, t) \in 1 .. Len(events) + 1
         /\ TickEnd(events, t) <= Len(events) => t < events[TickEnd(events, t)].anchor_tick
         /\ \A j \in 1 .. Len(events) : j < TickEnd(events, t) => events[j].anchor_tick <= t
  <1> DEFINE S == {k \in 1 .. Len(events) + 1 : k > Len(events) \/ t < events[k].anchor_tick}
             b == TickEnd(events, t)
  <1>1. Len(events) \in Nat
    OBVIOUS
  <1>2. S \in SUBSET Nat /\ Len(events) + 1 \in S
    BY <1>1
  <1>3. b = Min(S)
    BY DEF TickEnd
  <1>4. b \in S /\ \A i \in S : b <= i
    <2> HIDE DEF S, b
    <2> QED
      BY <1>2, <1>3, MinIsLeast
  <1> HIDE DEF b
  <1>5. ASSUME NEW j \in 1 .. Len(events), j < b PROVE events[j].anchor_tick <= t
    <2>1. j \notin S
      BY <1>1, <1>4, <1>5
    <2>2. ~(t < events[j].anchor_tick)
      BY <1>1, <2>1
    <2> QED
      BY <2>2, EventFields
  <1>6. b \in 1 .. Len(events) + 1 /\ (b <= Len(events) => t < events[b].anchor_tick)
    BY <1>1, <1>4
  <1> QED
    BY <1>5, <1>6 DEF b

LEMMA TickBeginIs ==
  ASSUME NEW events \in Seq(Event), NEW t \in Int
  PROVE  /\ TickBegin(events, t) \in 1 .. Len(events) + 1
         /\ TickBegin(events, t) <= Len(events) => t <= events[TickBegin(events, t)].anchor_tick
         /\ \A j \in 1 .. Len(events) : j < TickBegin(events, t) => events[j].anchor_tick < t
  <1> DEFINE S == {k \in 1 .. Len(events) + 1 : k > Len(events) \/ t <= events[k].anchor_tick}
             b == TickBegin(events, t)
  <1>1. Len(events) \in Nat
    OBVIOUS
  <1>2. S \in SUBSET Nat /\ Len(events) + 1 \in S
    BY <1>1
  <1>3. b = Min(S)
    BY DEF TickBegin
  <1>4. b \in S /\ \A i \in S : b <= i
    <2> HIDE DEF S, b
    <2> QED
      BY <1>2, <1>3, MinIsLeast
  <1> HIDE DEF b
  <1>5. ASSUME NEW j \in 1 .. Len(events), j < b PROVE events[j].anchor_tick < t
    <2>1. j \notin S
      BY <1>1, <1>4, <1>5
    <2>2. ~(t <= events[j].anchor_tick)
      BY <1>1, <2>1
    <2> QED
      BY <2>2, EventFields
  <1>6. b \in 1 .. Len(events) + 1 /\ (b <= Len(events) => t <= events[b].anchor_tick)
    BY <1>1, <1>4
  <1> QED
    BY <1>5, <1>6 DEF b

(* The order of a whole track and of a whole pattern.                      *)
LEMMA BlocksOrdered ==
  ASSUME NEW track \in Track, BlocksInOrder(track)
  PROVE  \A i, j \in 1 .. Len(track) : i < j => EndTime(track[i]) <= track[j].begin_tick
  <1>1. Len(track) \in Nat /\ DOMAIN track = 1 .. Len(track)
    BY DEF Track
  <1> SUFFICES ASSUME NEW i \in 1 .. Len(track)
               PROVE  \A j \in 1 .. Len(track) : i < j => EndTime(track[i]) <= track[j].begin_tick
    OBVIOUS
  <1> DEFINE S == {j \in 0 .. Len(track) : i < j => EndTime(track[i]) <= track[j].begin_tick}
  <1>2. 0 \in S
    BY <1>1
  <1>3. ASSUME NEW j \in 1 .. Len(track), j - 1 \in S PROVE j \in S
    <2>1. CASE i < j - 1
      <3>1. j - 1 \in 1 .. Len(track) /\ j > 1
        BY <1>1, <2>1
      <3>2. EndTime(track[i]) <= track[j - 1].begin_tick
        BY <1>3, <2>1
      <3>3. EndTime(track[j - 1]) <= track[j].begin_tick
        BY <1>1, <3>1 DEF BlocksInOrder
      <3>4. EndTime(track[i]) \in Nat /\ track[j].begin_tick \in Nat
        BY BlockFields
      <3>5. /\ EndTime(track[j - 1]) \in Nat /\ track[j - 1].begin_tick \in Nat
            /\ EndTime(track[j - 1]) >= track[j - 1].begin_tick
        <4> DEFINE k == j - 1
        <4>1. k \in 1 .. Len(track)
          BY <3>1
        <4> HIDE DEF k
        <4>2. /\ EndTime(track[k]) \in Nat /\ track[k].begin_tick \in Nat
              /\ track[k].length_ticks \in Nat
              /\ EndTime(track[k]) >= track[k].begin_tick + track[k].length_ticks
          BY <4>1, BlockFields
        <4>3. EndTime(track[k]) >= track[k].begin_tick
          BY <4>2
        <4> QED
          BY <4>2, <4>3 DEF k
      <3>6. EndTime(track[i]) <= track[j].begin_tick
        <4> DEFINE a == EndTime(track[i])
                   b == track[j - 1].begin_tick
                   c == EndTime(track[j - 1])
                   d == track[j].begin_tick
        <4> HIDE DEF a, b, c, d
        <4>1. a \in Nat /\ b \in Nat /\ c \in Nat /\ d \in Nat /\ a <= b /\ b <= c /\ c <= d
          BY <3>2, <3>3, <3>4, <3>5 DEF a, b, c, d
        <4>2. a <= d
          BY <4>1
        <4> QED
          BY <4>2 DEF a, d
      <3> QED
        BY <1>1, <3>6
    <2>2. CASE i = j - 1
      <3>1. EndTime(track[j - 1]) <= track[j].begin_tick
        BY <1>1, <2>2 DEF BlocksInOrder
      <3> QED
        BY <1>1, <2>2, <3>1
    <2>3. CASE i > j - 1
      BY <1>1, <2>3
    <2> QED
      BY <1>1, <2>1, <2>2, <2>3
  <1>4. \A j \in 0 .. Len(track) : j \in S
    <2> HIDE DEF S
    <2> QED
      BY <1>1, <1>2, <1>3, CountUp
  <1> QED
    BY <1>1, <1>4

LEMMA EventsOrdered ==
  ASSUME NEW events \in Seq(Event),
         \A k \in DOMAIN events : k > 1 => events[k - 1].anchor_tick < events[k].anchor_tick
  PROVE  \A i, j \in 1 .. Len(events) : i < j => events[i].anchor_tick < events[j].anchor_tick
  <1>0. \A k \in 1 .. Len(events) :
          k > 1 => events[k - 1].anchor_tick < events[k].anchor_tick
    <2>1. DOMAIN events = 1 .. Len(events)
      OBVIOUS
    <2> QED
      BY <2>1, Zenon
  <1>1. Len(events) \in Nat /\ DOMAIN events = 1 .. Len(events)
    OBVIOUS
  <1> SUFFICES ASSUME NEW i \in 1 .. Len(events)
               PROVE  \A j \in 1 .. Len(events) :
                        i < j => events[i].anchor_tick < events[j].anchor_tick
    OBVIOUS
  <1> DEFINE S == {j \in 0 .. Len(events) : i < j => events[i].anchor_tick < events[j].anchor_tick}
  <1>2. 0 \in S
    BY <1>1
  <1>3. ASSUME NEW j \in 1 .. Len(events), j - 1 \in S PROVE j \in S
    <2>1. CASE i < j - 1
      <3>1. j - 1 \in 1 .. Len(events) /\ j > 1
        BY <1>1, <2>1
      <3>2. events[i].anchor_tick < events[j - 1].anchor_tick
        BY <1>3, <2>1
      <3>3. events[j - 1].anchor_tick < events[j].anchor_tick
        BY <1>0, <3>1
      <3>4. /\ events[i].anchor_tick \in Nat /\ events[j].anchor_tick \in Nat
            /\ events[j - 1].anchor_tick \in Nat
        BY <3>1, EventFields
      <3>5. events[i].anchor_tick < events[j].anchor_tick
        BY <3>2, <3>3, <3>4
      <3> QED
        BY <1>1, <3>5
    <2>2. CASE i = j - 1
      <3>0. j > 1
        BY <1>1, <2>2
      <3>1. events[j - 1].anchor_tick < events[j].anchor_tick
        BY <1>0, <3>0
      <3> QED
        BY <1>1, <2>2, <3>1
    <2>3. CASE i > j - 1
      BY <1>1, <2>3
    <2> QED
      BY <1>1, <2>1, <2>2, <2>3
  <1>4. \A j \in 0 .. Len(events) : j \in S
    <2> HIDE DEF S
    <2> QED
      BY <1>1, <1>2, <1>3, CountUp
  <1> QED
    BY <1>1, <1>4

-----------------------------------------------------------------------------
(* The patterns of a track in their order.                                 *)

(* Where an iterator can be.                                               *)
Places(track) ==
  {p \in [block : 0 .. Len(track) + 1, loop : Nat] :
     p.block \in 1 .. Len(track) => p.loop < track[p.block].loop_count}

Patterns(track) == {p \in Places(track) : HasPattern(track, p)}

UpTo(p, q) == p.block < q.block \/ (p.block = q.block /\ p.loop <= q.loop)

LEMMA PlacesAre ==
  ASSUME NEW track \in Track, NEW k \in 0 .. Len(track) + 1, NEW loop \in Nat,
         k \in 1 .. Len(track) => loop < track[k].loop_count
  PROVE  /\ PatternIter(k, loop) \in Places(track)
         /\ PatternIter(k, loop).block = k /\ PatternIter(k, loop).loop = loop
  BY DEF Places, PatternIter

LEMMA PatternFields ==
  ASSUME NEW track \in Track, NEW p \in Patterns(track)
  PROVE  /\ p.block \in 1 .. Len(track) /\ p.loop \in 0 .. track[p.block].loop_count - 1
         /\ p = PatternIter(p.block, p.loop)
         /\ PatternBegin(track, p) \in Nat
         /\ PatternBegin(track, p) >= track[p.block].begin_tick
         /\ PatternEnd(track, p) = PatternBegin(track, p) + track[p.block].length_ticks
         /\ PatternEnd(track, p) \in Nat /\ PatternEnd(track, p) > PatternBegin(track, p)
         /\ PatternEnd(track, p) <= EndTime(track[p.block])
  <1> DEFINE k == p.block
             begin == track[k].begin_tick
             length == track[k].length_ticks
             loops == track[k].loop_count
  <1>1. DOMAIN track = 1 .. Len(track)
    BY DEF Track
  <1>2. k \in 1 .. Len(track) /\ p.loop \in Nat /\ p.loop < loops
        /\ p \in [block : 0 .. Len(track) + 1, loop : Nat]
    BY <1>1 DEF Patterns, Places, HasPattern
  <1>3. p = PatternIter(p.block, p.loop)
    BY <1>2 DEF PatternIter
  <1>4. /\ PatternBegin(track, p) = begin + p.loop * length
        /\ PatternEnd(track, p) = begin + (p.loop + 1) * length
        /\ EndTime(track[k]) = begin + loops * length
    BY DEF PatternBegin, PatternEnd, LoopTime, EndTime
  <1>5. begin \in Nat /\ length \in Nat /\ length >= 1 /\ loops \in Nat
    BY <1>2, BlockFields
  <1> DEFINE l == p.loop
             b == PatternBegin(track, p)
             e == PatternEnd(track, p)
             f == EndTime(track[k])
  <1> HIDE DEF begin, length, loops, b, e, f, l
  <1>6. l \in Nat /\ l < loops /\ b = begin + l * length /\ e = begin + (l + 1) * length
        /\ f = begin + loops * length
    BY <1>2, <1>4 DEF b, e, f, l
  <1>7. l * length \in Nat /\ (l + 1) * length = l * length + length
    BY <1>5, <1>6
  <1>8. (l + 1) * length <= loops * length /\ loops * length \in Int
    BY <1>5, <1>6, ProductGrows
  <1>9. b \in Nat /\ b >= begin /\ e = b + length /\ e \in Nat /\ e > b /\ e <= f
    BY <1>5, <1>6, <1>7, <1>8
  <1>10. l \in 0 .. loops - 1
    BY <1>5, <1>6
  <1> QED
    BY <1>2, <1>3, <1>9, <1>10 DEF begin, length, loops, b, e, f, l

(* One pattern ends before the next one begins.                            *)
LEMMA PatternsOrdered ==
  ASSUME NEW track \in Track, BlocksInOrder(track), NEW p \in Patterns(track),
         NEW q \in Patterns(track), ~UpTo(q, p)
  PROVE  PatternEnd(track, p) <= PatternBegin(track, q)
  <1>1. /\ p.block \in 1 .. Len(track) /\ p.loop \in Nat
        /\ q.block \in 1 .. Len(track) /\ q.loop \in Nat /\ Len(track) \in Nat
    BY PatternFields DEF Track
  <1>2. CASE p.block < q.block
    <2>1. EndTime(track[p.block]) <= track[q.block].begin_tick
      BY <1>1, <1>2, BlocksOrdered
    <2>2. PatternEnd(track, p) <= EndTime(track[p.block]) /\ PatternEnd(track, p) \in Nat
      BY PatternFields
    <2>3. PatternBegin(track, q) >= track[q.block].begin_tick /\ PatternBegin(track, q) \in Nat
      BY PatternFields
    <2>4. EndTime(track[p.block]) \in Nat /\ track[q.block].begin_tick \in Nat
      BY <1>1, BlockFields
    <2> QED
      BY <2>1, <2>2, <2>3, <2>4
  <1>3. CASE p.block = q.block /\ p.loop < q.loop
    <2> DEFINE begin == track[p.block].begin_tick
               length == track[p.block].length_ticks
    <2>1. begin \in Nat /\ length \in Nat
      BY <1>1, BlockFields
    <2>2. /\ PatternEnd(track, p) = begin + (p.loop + 1) * length
          /\ PatternBegin(track, q) = begin + q.loop * length
      BY <1>3 DEF PatternBegin, PatternEnd, LoopTime
    <2> HIDE DEF begin, length
    <2>3. p.loop + 1 \in Int /\ q.loop \in Int /\ p.loop + 1 <= q.loop
      BY <1>1, <1>3
    <2>4. /\ (p.loop + 1) * length <= q.loop * length
          /\ (p.loop + 1) * length \in Int /\ q.loop * length \in Int
      BY <2>1, <2>3, ProductGrows
    <2> QED
      BY <2>1, <2>2, <2>4
  <1>4. p.block < q.block \/ (p.block = q.block /\ p.loop < q.loop)
    BY <1>1 DEF UpTo
  <1> QED
    BY <1>2, <1>3, <1>4

(* An order it is, and the iterators go through it.                        *)
LEMMA OrderIsTotal ==
  ASSUME NEW track \in Track, NEW p \in Places(track), NEW q \in Places(track)
  PROVE  /\ UpTo(p, p)
         /\ UpTo(p, q) \/ UpTo(q, p)
         /\ UpTo(p, q) /\ UpTo(q, p) => p = q
         /\ \A r \in Places(track) : UpTo(p, q) /\ UpTo(q, r) => UpTo(p, r)
  <1>1. \A r \in Places(track) : r \in [block : 0 .. Len(track) + 1, loop : Nat]
                                 /\ r.block \in Int /\ r.loop \in Int
    BY DEF Places, Track
  <1>2. UpTo(p, q) /\ UpTo(q, p) => p = q
    <2>1. UpTo(p, q) /\ UpTo(q, p) => p.block = q.block /\ p.loop = q.loop
      BY <1>1 DEF UpTo
    <2>2. p = [block |-> p.block, loop |-> p.loop] /\ q = [block |-> q.block, loop |-> q.loop]
      BY <1>1
    <2> QED
      BY <2>1, <2>2
  <1>3. \A r \in Places(track) : UpTo(p, q) /\ UpTo(q, r) => UpTo(p, r)
    BY <1>1 DEF UpTo
  <1> QED
    BY <1>1, <1>2, <1>3 DEF UpTo

LEMMA NextPatternIs ==
  ASSUME NEW track \in Track, NEW p \in Patterns(track)
  PROVE  LET n == NextPattern(track, p)
         IN  /\ n \in Places(track) /\ n.block >= 1
             /\ ~UpTo(n, p)
             /\ \A q \in Patterns(track) : UpTo(p, q) => q = p \/ UpTo(n, q)
  <1> DEFINE n == NextPattern(track, p)
             k == p.block
             loops == track[k].loop_count
  <1>1. k \in 1 .. Len(track) /\ p.loop \in Nat /\ p.loop < loops /\ p = PatternIter(k, p.loop)
        /\ Len(track) \in Nat /\ loops \in Nat
    <2>1. k \in 1 .. Len(track) /\ p.loop \in 0 .. loops - 1 /\ p = PatternIter(k, p.loop)
      BY PatternFields
    <2>2. Len(track) \in Nat /\ loops \in Nat
      BY <2>1, BlockFields DEF Track
    <2> QED
      BY <2>1, <2>2
  <1>2. \A q \in Patterns(track) : /\ q.block \in 1 .. Len(track) /\ q.loop \in Nat
                                   /\ q.loop < track[q.block].loop_count
                                   /\ q = PatternIter(q.block, q.loop)
    <2> TAKE q \in Patterns(track)
    <2>1. q.block \in 1 .. Len(track) /\ q.loop \in 0 .. track[q.block].loop_count - 1
          /\ q = PatternIter(q.block, q.loop)
      BY PatternFields
    <2>2. track[q.block].loop_count \in Nat
      BY <2>1, BlockFields
    <2> QED
      BY <2>1, <2>2
  <1>3. CASE p.loop + 1 < loops
    <2>1. n = PatternIter(k, p.loop + 1)
      BY <1>3 DEF NextPattern
    <2>2. n \in Places(track) /\ n.block = k /\ n.loop = p.loop + 1
      <3>1. k \in 0 .. Len(track) + 1 /\ p.loop + 1 \in Nat
            /\ (k \in 1 .. Len(track) => p.loop + 1 < track[k].loop_count)
        BY <1>1, <1>3
      <3> HIDE DEF n, k
      <3> QED
        BY <2>1, <3>1, PlacesAre
    <2> HIDE DEF n
    <2>3. ASSUME NEW q \in Patterns(track), UpTo(p, q) PROVE q = p \/ UpTo(n, q)
      <3>1. p.block < q.block \/ (p.block = q.block /\ p.loop <= q.loop)
        BY <2>3 DEF UpTo
      <3>2. CASE p.block = q.block /\ p.loop = q.loop
        BY <1>1, <1>2, <3>2
      <3>3. CASE p.block < q.block \/ (p.block = q.block /\ p.loop < q.loop)
        BY <1>1, <1>2, <2>2, <3>3 DEF UpTo
      <3> QED
        BY <1>1, <1>2, <3>1, <3>2, <3>3
    <2>4. n.block >= 1 /\ ~UpTo(n, p)
      BY <1>1, <2>2 DEF UpTo
    <2> QED
      BY <2>2, <2>3, <2>4 DEF n
  <1>4. CASE ~(p.loop + 1 < loops)
    <2>1. n = PatternIter(k + 1, 0)
      BY <1>4 DEF NextPattern
    <2>2. n \in Places(track) /\ n.block = k + 1 /\ n.loop = 0
      <3>1. k + 1 \in 1 .. Len(track) => 0 < track[k + 1].loop_count
        BY BlockFields
      <3>2. k + 1 \in 0 .. Len(track) + 1 /\ 0 \in Nat
        BY <1>1
      <3> HIDE DEF n, k
      <3> QED
        BY <2>1, <3>1, <3>2, PlacesAre
    <2> HIDE DEF n
    <2>3. ASSUME NEW q \in Patterns(track), UpTo(p, q) PROVE q = p \/ UpTo(n, q)
      <3>1. p.block < q.block \/ (p.block = q.block /\ p.loop <= q.loop)
        BY <2>3 DEF UpTo
      <3>2. CASE p.block = q.block
        <4>1. q.loop = p.loop
          BY <1>1, <1>2, <1>4, <3>1, <3>2
        <4> QED
          BY <1>1, <1>2, <3>2, <4>1
      <3>3. CASE p.block < q.block
        BY <1>1, <1>2, <2>2, <3>3 DEF UpTo
      <3> QED
        BY <3>1, <3>2, <3>3
    <2>4. n.block >= 1 /\ ~UpTo(n, p)
      BY <1>1, <2>2 DEF UpTo
    <2> QED
      BY <2>2, <2>3, <2>4 DEF n
  <1> QED
    BY <1>3, <1>4

LEMMA PrevPatternIs ==
  ASSUME NEW track \in Track, NEW p \in Places(track), p.block >= 1,
         HasPattern(track, p) \/ p.loop = 0
  PROVE  LET n == PrevPattern(track, p)
         IN  /\ n \in Places(track) /\ n.block <= Len(track)
             /\ ~UpTo(p, n)
             /\ \A q \in Patterns(track) : UpTo(q, p) => q = p \/ UpTo(q, n)
  <1> DEFINE n == PrevPattern(track, p)
             k == p.block
  <1>1. k \in 1 .. Len(track) + 1 /\ p.loop \in Nat /\ p = PatternIter(k, p.loop)
        /\ Len(track) \in Nat /\ (k \in 1 .. Len(track) => p.loop < track[k].loop_count)
    <2>1. p \in [block : 0 .. Len(track) + 1, loop : Nat] /\ Len(track) \in Nat
          /\ (k \in 1 .. Len(track) => p.loop < track[k].loop_count)
      BY DEF Places, Track
    <2> QED
      BY <2>1 DEF PatternIter
  <1>2. \A q \in Patterns(track) : /\ q.block \in 1 .. Len(track) /\ q.loop \in Nat
                                   /\ q.loop < track[q.block].loop_count
                                   /\ track[q.block].loop_count \in Nat
                                   /\ q = PatternIter(q.block, q.loop)
    <2> TAKE q \in Patterns(track)
    <2>1. q.block \in 1 .. Len(track) /\ q.loop \in 0 .. track[q.block].loop_count - 1
          /\ q = PatternIter(q.block, q.loop)
      BY PatternFields
    <2>2. track[q.block].loop_count \in Nat
      BY <2>1, BlockFields
    <2> QED
      BY <2>1, <2>2
  <1>3. CASE p.loop > 0
    <2>1. n = PatternIter(k, p.loop - 1)
      BY <1>3 DEF PrevPattern
    <2>2. k \in 1 .. Len(track)
      <3>1. HasPattern(track, p) /\ DOMAIN track = 1 .. Len(track)
        BY <1>3 DEF Track
      <3> QED
        BY <3>1 DEF HasPattern
    <2>3. n \in Places(track) /\ n.block = k /\ n.loop = p.loop - 1
      <3>1. k \in 0 .. Len(track) + 1 /\ p.loop - 1 \in Nat
            /\ (k \in 1 .. Len(track) => p.loop - 1 < track[k].loop_count)
        <4>1. track[k].loop_count \in Nat
          BY <2>2, BlockFields
        <4> QED
          BY <1>1, <1>3, <2>2, <4>1
      <3> HIDE DEF n, k
      <3> QED
        BY <2>1, <3>1, PlacesAre
    <2> HIDE DEF n
    <2>4. ASSUME NEW q \in Patterns(track), UpTo(q, p) PROVE q = p \/ UpTo(q, n)
      <3>1. q.block < p.block \/ (p.block = q.block /\ q.loop <= p.loop)
        BY <2>4 DEF UpTo
      <3>2. CASE p.block = q.block /\ p.loop = q.loop
        BY <1>1, <1>2, <3>2
      <3>3. CASE q.block < p.block \/ (p.block = q.block /\ q.loop < p.loop)
        BY <1>1, <1>2, <2>3, <3>3 DEF UpTo
      <3> QED
        BY <1>1, <1>2, <3>1, <3>2, <3>3
    <2>5. n.block <= Len(track) /\ ~UpTo(p, n)
      BY <1>1, <2>2, <2>3 DEF UpTo
    <2> QED
      BY <2>3, <2>4, <2>5 DEF n
  <1>4. CASE p.loop = 0
    <2> DEFINE last == IF k > 1 THEN track[k - 1].loop_count - 1 ELSE 0
    <2>1. n = PatternIter(k - 1, last)
      BY <1>4 DEF PrevPattern
    <2>2. last \in Nat /\ (k - 1 \in 1 .. Len(track) => last = track[k - 1].loop_count - 1
                                                    /\ track[k - 1].loop_count \in Nat)
      <3>1. CASE k > 1
        <4>1. k - 1 \in 1 .. Len(track)
          BY <1>1, <3>1
        <4>2. track[k - 1].loop_count \in Nat /\ track[k - 1].loop_count >= 1
          BY <4>1, BlockFields
        <4> QED
          BY <3>1, <4>2
      <3>2. CASE ~(k > 1)
        BY <1>1, <3>2
      <3> QED
        BY <3>1, <3>2
    <2> HIDE DEF last
    <2>3. n \in Places(track) /\ n.block = k - 1 /\ n.loop = last
      <3>1. k - 1 \in 0 .. Len(track) + 1 /\ last \in Nat
            /\ (k - 1 \in 1 .. Len(track) => last < track[k - 1].loop_count)
        BY <1>1, <2>2
      <3> HIDE DEF n, k
      <3> QED
        BY <2>1, <3>1, PlacesAre
    <2> HIDE DEF n
    <2>4. ASSUME NEW q \in Patterns(track), UpTo(q, p) PROVE q = p \/ UpTo(q, n)
      <3>1. q.block < p.block \/ (p.block = q.block /\ q.loop <= p.loop)
        BY <2>4 DEF UpTo
      <3>2. CASE p.block = q.block
        <4>1. q.loop = p.loop
          BY <1>1, <1>2, <1>4, <3>1, <3>2
        <4> QED
          BY <1>1, <1>2, <3>2, <4>1
      <3>3. CASE q.block = p.block - 1
        <4>1. q.loop <= last
          BY <1>1, <1>2, <2>2, <3>3
        <4> QED
          BY <1>1, <2>3, <3>3, <4>1 DEF UpTo
      <3>4. CASE q.block < p.block - 1
        BY <1>1, <1>2, <2>3, <3>4 DEF UpTo
      <3> QED
        BY <1>1, <1>2, <3>1, <3>2, <3>3, <3>4
    <2>5. n.block <= Len(track) /\ ~UpTo(p, n)
      BY <1>1, <2>3 DEF UpTo
    <2> QED
      BY <2>3, <2>4, <2>5 DEF n
  <1> QED
    BY <1>1, <1>3, <1>4

(* The iterator starts at the first pattern that ends after y, or at the   *)
(* last that begins no later than y.                                       *)
LEMMA PatternAtPlace ==
  ASSUME NEW track \in Track, BlocksInOrder(track), NEW y \in Int
  PROVE  /\ PatternAt(track, y) \in Places(track) /\ PatternAt(track, y).block >= 1
         /\ PatternAt(track, y).block = BlockAt(track, y)
         /\ SnappedLater(track, y) => PatternAt(track, y).loop = 0
         /\ ~SnappedLater(track, y) => PatternAt(track, y) \in Patterns(track)
  <1> DEFINE k == BlockAt(track, y)
             p == PatternAt(track, y)
  <1>1. k \in 1 .. Len(track) + 1 /\ Len(track) \in Nat /\ DOMAIN track = 1 .. Len(track)
    BY BlockAtIs DEF Track
  <1>2. CASE SnappedLater(track, y)
    <2>1. p = PatternIter(k, 0)
      BY <1>2, SnappedAtIs
    <2>2. k \in 0 .. Len(track) + 1 /\ 0 \in Nat
          /\ (k \in 1 .. Len(track) => 0 < track[k].loop_count)
      BY <1>1, BlockFields
    <2> HIDE DEF k, p
    <2>3. p \in Places(track) /\ p.block = k /\ p.loop = 0
      BY <2>1, <2>2, PlacesAre
    <2> QED
      BY <1>1, <1>2, <2>3 DEF k, p
  <1>3. CASE ~SnappedLater(track, y)
    <2>1. p.block = k /\ p.block \in 1 .. Len(track) /\ p.loop \in 0 .. track[p.block].loop_count - 1
      BY <1>3, PatternAtIs
    <2>2. \E loop : p = PatternIter(k, loop)
      BY DEF PatternAt
    <2>3. PICK loop : p = PatternIter(k, loop)
      BY <2>2
    <2>4. p.loop = loop /\ p = PatternIter(p.block, p.loop)
      BY <2>1, <2>3 DEF PatternIter
    <2> HIDE DEF k, p
    <2>5. track[p.block].loop_count \in Nat
      BY <2>1, BlockFields
    <2>6. PatternIter(p.block, p.loop) \in Places(track)
      <3>1. p.block \in 0 .. Len(track) + 1 /\ p.loop \in Nat /\ p.loop < track[p.block].loop_count
        BY <1>1, <2>1, <2>5
      <3> QED
        BY <3>1, PlacesAre
    <2>7. p \in Places(track) /\ HasPattern(track, p)
      BY <1>1, <2>1, <2>4, <2>6 DEF HasPattern
    <2>8. p \in Patterns(track)
      BY <2>7 DEF Patterns
    <2> QED
      BY <1>1, <1>3, <2>1, <2>7, <2>8 DEF k, p
  <1> QED
    BY <1>2, <1>3

LEMMA FwdFromTimeIs ==
  ASSUME NEW track \in Track, BlocksInOrder(track), NEW y \in Int
  PROVE  /\ FwdFromTime(track, y) \in Places(track) /\ FwdFromTime(track, y).block >= 1
         /\ \A q \in Patterns(track) : y < PatternEnd(track, q) <=> UpTo(FwdFromTime(track, y), q)
  <1> DEFINE p == FwdFromTime(track, y)
             k == BlockAt(track, y)
  <1>1. p = PatternAt(track, y)
    BY DEF FwdFromTime
  <1>2. p \in Places(track) /\ p.block >= 1 /\ p.block = k
    BY <1>1, PatternAtPlace
  <1>3. k \in 1 .. Len(track) + 1 /\ Len(track) \in Nat
        /\ (k <= Len(track) => y < EndTime(track[k]))
        /\ (\A j \in 1 .. Len(track) : j < k => EndTime(track[j]) <= y)
    BY BlockAtIs, SMTT(30) DEF Track
  <1>4. ASSUME NEW q \in Patterns(track)
        PROVE  y < PatternEnd(track, q) <=> UpTo(p, q)
    <2>1. /\ q.block \in 1 .. Len(track) /\ q.loop \in 0 .. track[q.block].loop_count - 1
          /\ PatternBegin(track, q) \in Nat /\ PatternEnd(track, q) \in Nat
          /\ PatternBegin(track, q) >= track[q.block].begin_tick
          /\ PatternBegin(track, q) < PatternEnd(track, q)
          /\ PatternEnd(track, q) <= EndTime(track[q.block])
      BY PatternFields
    <2>2. track[q.block].begin_tick \in Nat /\ EndTime(track[q.block]) \in Nat
          /\ track[q.block].loop_count \in Nat
      BY <2>1, BlockFields
    <2>3. CASE q.block < k
      <3>1. PatternEnd(track, q) <= y
        BY <1>3, <2>1, <2>2, <2>3
      <3>2. ~UpTo(p, q)
        BY <1>2, <1>3, <2>1, <2>3 DEF UpTo
      <3> QED
        BY <2>1, <3>1, <3>2
    <2>4. CASE q.block > k
      <3>1. k \in 1 .. Len(track) /\ k < q.block
        BY <1>3, <2>1, <2>4
      <3>2. y < EndTime(track[k]) /\ EndTime(track[k]) <= track[q.block].begin_tick
            /\ EndTime(track[k]) \in Nat
        BY <1>3, <2>1, <3>1, BlocksOrdered, BlockFields
      <3>3. y < PatternEnd(track, q)
        BY <2>1, <2>2, <3>2
      <3>4. UpTo(p, q)
        BY <1>2, <3>1 DEF UpTo
      <3> QED
        BY <3>3, <3>4
    <2>5. CASE q.block = k /\ SnappedLater(track, y)
      <3>1. p.loop = 0
        BY <1>1, <2>5, PatternAtPlace
      <3>2. UpTo(p, q)
        BY <1>2, <2>1, <2>2, <2>5, <3>1 DEF UpTo
      <3>3. y < track[k].begin_tick
        BY <1>3, <2>1, <2>5, SnappedAtIs
      <3>4. y < PatternEnd(track, q)
        BY <2>1, <2>2, <2>5, <3>3
      <3> QED
        BY <3>2, <3>4
    <2>6. CASE q.block = k /\ ~SnappedLater(track, y)
      <3>1. p \in Patterns(track)
        BY <1>1, <2>6, PatternAtPlace
      <3>2. /\ PatternBegin(track, p) <= y /\ y < PatternEnd(track, p)
            /\ PatternBegin(track, p) \in Int /\ PatternEnd(track, p) \in Int
        <4>1. /\ PatternBegin(track, p) <= y
              /\ y < PatternBegin(track, p) + track[p.block].length_ticks
          BY <1>1, <2>6, PatternAtIs
        <4>2. /\ PatternEnd(track, p) = PatternBegin(track, p) + track[p.block].length_ticks
              /\ PatternBegin(track, p) \in Int /\ PatternEnd(track, p) \in Int
          BY <3>1, PatternFields
        <4> QED
          BY <4>1, <4>2
      <3>3. CASE UpTo(p, q)
        <4>1. CASE p = q
          BY <3>2, <3>3, <4>1
        <4>2. CASE p # q
          <5>1. p \in Places(track) /\ q \in Places(track)
            BY <1>2 DEF Patterns
          <5>2. ~UpTo(q, p)
            BY <3>3, <4>2, <5>1, OrderIsTotal
          <5>3. PatternEnd(track, p) <= PatternBegin(track, q)
            BY <3>1, <5>2, PatternsOrdered
          <5>4. y < PatternEnd(track, q)
            BY <2>1, <3>2, <5>3
          <5> QED
            BY <3>3, <5>4
        <4> QED
          BY <4>1, <4>2
      <3>4. CASE ~UpTo(p, q)
        <4>1. PatternEnd(track, q) <= PatternBegin(track, p)
          BY <3>1, <3>4, PatternsOrdered
        <4>2. PatternEnd(track, q) <= y
          BY <2>1, <3>2, <4>1
        <4> QED
          BY <2>1, <3>4, <4>2
      <3> QED
        BY <3>3, <3>4
    <2> QED
      BY <1>3, <2>1, <2>3, <2>4, <2>5, <2>6
  <1> QED
    BY <1>2, <1>4

LEMMA RevFromTimeIs ==
  ASSUME NEW track \in Track, BlocksInOrder(track), NEW y \in Int
  PROVE  /\ RevFromTime(track, y) \in Places(track) /\ RevFromTime(track, y).block <= Len(track)
         /\ \A q \in Patterns(track) : PatternBegin(track, q) <= y <=> UpTo(q, RevFromTime(track, y))
  <1> DEFINE at == PatternAt(track, y)
             p == RevFromTime(track, y)
             k == BlockAt(track, y)
  <1>1. k \in 1 .. Len(track) + 1 /\ Len(track) \in Nat
        /\ (k <= Len(track) => y < EndTime(track[k]))
        /\ (\A j \in 1 .. Len(track) : j < k => EndTime(track[j]) <= y)
    BY BlockAtIs, SMTT(30) DEF Track
  <1>2. at \in Places(track) /\ at.block >= 1 /\ at.block = k
    BY PatternAtPlace
  <1>3. \A q \in Patterns(track) :
          /\ q.block \in 1 .. Len(track) /\ q.loop \in Nat /\ q \in Places(track)
          /\ PatternBegin(track, q) \in Nat /\ PatternEnd(track, q) \in Nat
          /\ PatternBegin(track, q) >= track[q.block].begin_tick
          /\ PatternBegin(track, q) < PatternEnd(track, q)
          /\ PatternEnd(track, q) <= EndTime(track[q.block])
          /\ track[q.block].begin_tick \in Nat /\ EndTime(track[q.block]) \in Nat
    BY PatternFields, BlockFields DEF Patterns
  <1>4. CASE SnappedLater(track, y)
    <2>1. p = PrevPattern(track, at) /\ at.loop = 0
      BY <1>4, PatternAtPlace DEF RevFromTime
    <2>2. /\ p \in Places(track) /\ p.block <= Len(track) /\ ~UpTo(at, p)
          /\ \A q \in Patterns(track) : UpTo(q, at) => q = at \/ UpTo(q, p)
      BY <1>2, <2>1, PrevPatternIs
    <2>3. k <= Len(track) => y < track[k].begin_tick
      BY <1>4, SnappedAtIs
    <2>4. ASSUME NEW q \in Patterns(track)
          PROVE  PatternBegin(track, q) <= y <=> UpTo(q, p)
      <3>1. CASE q.block < k
        <4>1. PatternBegin(track, q) <= y
          <5>1. EndTime(track[q.block]) <= y
            BY <1>1, <1>3, <3>1
          <5>2. PatternBegin(track, q) < EndTime(track[q.block])
            BY <1>3
          <5> QED
            BY <1>3, <5>1, <5>2
        <4>2. UpTo(q, at) /\ q # at
          BY <1>1, <1>2, <1>3, <3>1 DEF UpTo
        <4> QED
          BY <2>2, <4>1, <4>2
      <3>2. CASE q.block >= k
        <4>1. k \in 1 .. Len(track)
          BY <1>1, <1>3, <3>2
        <4>2. y < track[q.block].begin_tick
          <5>1. CASE q.block = k
            BY <2>3, <4>1, <5>1
          <5>2. CASE q.block > k
            <6>1. EndTime(track[k]) <= track[q.block].begin_tick
              BY <1>1, <1>3, <4>1, <5>2, BlocksOrdered
            <6>2. y < EndTime(track[k]) /\ EndTime(track[k]) \in Nat
              BY <1>1, <4>1, BlockFields
            <6> QED
              BY <1>3, <6>1, <6>2
          <5> QED
            BY <1>1, <1>3, <3>2, <5>1, <5>2
        <4>3. ~(PatternBegin(track, q) <= y)
          BY <1>3, <4>2
        <4>4. UpTo(at, q)
          BY <1>1, <1>2, <1>3, <2>1, <3>2 DEF UpTo
        <4>5. ~UpTo(q, p)
          <5>1. q \in Places(track)
            BY <1>3
          <5> QED
            BY <1>2, <2>2, <4>4, <5>1, OrderIsTotal
        <4> QED
          BY <4>3, <4>5
      <3> QED
        BY <1>1, <1>3, <3>1, <3>2
    <2> QED
      BY <2>2, <2>4
  <1>5. CASE ~SnappedLater(track, y)
    <2>1. p = at
      BY <1>5 DEF RevFromTime
    <2>2. at \in Patterns(track)
      BY <1>5, PatternAtPlace
    <2>3. PatternBegin(track, at) <= y /\ y < PatternEnd(track, at)
      <3>1. /\ PatternBegin(track, at) <= y
            /\ y < PatternBegin(track, at) + track[at.block].length_ticks
        BY <1>5, PatternAtIs
      <3>2. PatternEnd(track, at) = PatternBegin(track, at) + track[at.block].length_ticks
        BY <2>2, PatternFields
      <3> QED
        BY <3>1, <3>2
    <2>4. PatternBegin(track, at) \in Nat /\ PatternEnd(track, at) \in Nat
      BY <1>3, <2>2
    <2>5. ASSUME NEW q \in Patterns(track)
          PROVE  PatternBegin(track, q) <= y <=> UpTo(q, at)
      <3>1. CASE ~UpTo(q, at)
        <4>1. PatternEnd(track, at) <= PatternBegin(track, q)
          BY <2>2, <3>1, PatternsOrdered
        <4> QED
          BY <1>3, <2>3, <2>4, <3>1, <4>1
      <3>2. CASE UpTo(q, at) /\ q = at
        BY <2>3, <3>2
      <3>3. CASE UpTo(q, at) /\ q # at
        <4>1. q \in Places(track)
          BY <1>3
        <4>2. ~UpTo(at, q)
          BY <1>2, <3>3, <4>1, OrderIsTotal
        <4>3. PatternEnd(track, q) <= PatternBegin(track, at)
          BY <2>2, <4>2, PatternsOrdered
        <4>4. PatternBegin(track, q) <= y
          BY <1>3, <2>3, <2>4, <4>3
        <4> QED
          BY <3>3, <4>4
      <3> QED
        BY <3>1, <3>2, <3>3
    <2>6. at.block <= Len(track)
      BY <1>3, <2>2
    <2> QED
      BY <1>2, <2>1, <2>5, <2>6
  <1> QED
    BY <1>4, <1>5

(* The end of the track bounds its patterns.                               *)
LEMMA MaxPatternsIs ==
  ASSUME NEW track \in Track, BlocksInOrder(track)
  PROVE  /\ MaxPatterns(track) \in Nat
         /\ \A q \in Patterns(track) : PatternEnd(track, q) <= MaxPatterns(track)
  <1>1. Len(track) \in Nat /\ (track = <<>> <=> Len(track) = 0)
    BY DEF Track
  <1>2. MaxPatterns(track) \in Nat
    <2>1. CASE track = <<>>
      BY <2>1 DEF MaxPatterns
    <2>2. CASE track # <<>>
      <3>1. Len(track) \in 1 .. Len(track)
        BY <1>1, <2>2
      <3>2. EndTime(track[Len(track)]) \in Nat
        BY <3>1, BlockFields
      <3> QED
        BY <2>2, <3>2 DEF MaxPatterns
    <2> QED
      BY <2>1, <2>2
  <1>3. ASSUME NEW q \in Patterns(track) PROVE PatternEnd(track, q) <= MaxPatterns(track)
    <2>1. q.block \in 1 .. Len(track) /\ PatternEnd(track, q) \in Nat
          /\ PatternEnd(track, q) <= EndTime(track[q.block])
      BY PatternFields
    <2> DEFINE n == Len(track)
    <2>2. n \in 1 .. Len(track) /\ track # <<>>
      BY <1>1, <2>1
    <2>3. MaxPatterns(track) = EndTime(track[n])
      BY <2>2 DEF MaxPatterns
    <2> HIDE DEF n
    <2>4. EndTime(track[q.block]) \in Nat /\ EndTime(track[n]) \in Nat
          /\ track[n].begin_tick \in Nat /\ track[n].begin_tick <= EndTime(track[n])
      BY <2>1, <2>2, BlockFields, SMTT(30)
    <2>5. EndTime(track[q.block]) <= EndTime(track[n])
      <3>1. CASE q.block = n
        BY <2>4, <3>1
      <3>2. CASE q.block < n
        <4>1. EndTime(track[q.block]) <= track[n].begin_tick
          BY <2>1, <2>2, <3>2, BlocksOrdered
        <4> QED
          BY <2>4, <4>1
      <3> QED
        BY <1>1, <2>1, <3>1, <3>2 DEF n
    <2> QED
      BY <2>1, <2>3, <2>4, <2>5
  <1> QED
    BY <1>2, <1>3

(* The iterator n steps on from a place, and n steps back.                 *)
Forward(f, n, track, from) ==
  f = [k \in 0 .. n |->
         IF k = 0 THEN from
         ELSE IF HasPattern(track, f[k - 1]) THEN NextPattern(track, f[k - 1]) ELSE f[k - 1]]

LEMMA ForwardExists ==
  ASSUME NEW track \in Track, NEW n \in Nat, NEW from \in Places(track)
  PROVE  \E f : Forward(f, n, track, from)
  <1> DEFINE step == [p \in (Nat \ {0}) \X Places(track) |->
                        IF HasPattern(track, p[2]) THEN NextPattern(track, p[2]) ELSE p[2]]
  <1>1. \A p \in Places(track) : HasPattern(track, p) => NextPattern(track, p) \in Places(track)
    <2> SUFFICES ASSUME NEW p \in Places(track), HasPattern(track, p)
                 PROVE  NextPattern(track, p) \in Places(track)
      OBVIOUS
    <2>1. p \in Patterns(track)
      BY DEF Patterns
    <2> QED
      BY <2>1, NextPatternIs
  <1>2. step \in [(Nat \ {0}) \X Places(track) -> Places(track)]
    BY <1>1
  <1>3. \A k \in Nat \ {0}, p \in Places(track) :
          step[<<k, p>>] = IF HasPattern(track, p) THEN NextPattern(track, p) ELSE p
    OBVIOUS
  <1> HIDE DEF step
  <1>4. PICK f \in [0 .. n -> Places(track)] : Steps(f, n, from, step)
    BY <1>2, StepsExist
  <1>5. ASSUME NEW k \in 0 .. n
        PROVE  f[k] = IF k = 0 THEN from
                      ELSE IF HasPattern(track, f[k - 1]) THEN NextPattern(track, f[k - 1])
                      ELSE f[k - 1]
    <2>1. CASE k = 0
      BY <1>4, <2>1 DEF Steps
    <2>2. CASE k # 0
      <3>1. f[k] = step[<<k, f[k - 1]>>]
        BY <1>4, <2>2 DEF Steps
      <3>2. k - 1 \in 0 .. n /\ k \in Nat \ {0}
        BY <2>2
      <3>3. f[k - 1] \in Places(track)
        BY <1>4, <3>2
      <3> QED
        BY <1>3, <2>2, <3>1, <3>2, <3>3
    <2> QED
      BY <2>1, <2>2
  <1>6. Forward(f, n, track, from)
    BY <1>4, <1>5 DEF Forward
  <1> QED
    BY <1>6

Backward(f, n, track, from) ==
  f = [k \in 0 .. n |->
         IF k = 0 THEN from
         ELSE IF HasPattern(track, f[k - 1]) THEN PrevPattern(track, f[k - 1]) ELSE f[k - 1]]

LEMMA BackwardExists ==
  ASSUME NEW track \in Track, NEW n \in Nat, NEW from \in Places(track)
  PROVE  \E f : Backward(f, n, track, from)
  <1> DEFINE step == [p \in (Nat \ {0}) \X Places(track) |->
                        IF HasPattern(track, p[2]) THEN PrevPattern(track, p[2]) ELSE p[2]]
  <1>1. \A p \in Places(track) : HasPattern(track, p) => PrevPattern(track, p) \in Places(track)
    <2> SUFFICES ASSUME NEW p \in Places(track), HasPattern(track, p)
                 PROVE  PrevPattern(track, p) \in Places(track)
      OBVIOUS
    <2>1. p \in Patterns(track)
      BY DEF Patterns
    <2>2. p.block >= 1
      BY <2>1, PatternFields
    <2> QED
      BY <2>2, PrevPatternIs
  <1>2. step \in [(Nat \ {0}) \X Places(track) -> Places(track)]
    BY <1>1
  <1>3. \A k \in Nat \ {0}, p \in Places(track) :
          step[<<k, p>>] = IF HasPattern(track, p) THEN PrevPattern(track, p) ELSE p
    OBVIOUS
  <1> HIDE DEF step
  <1>4. PICK f \in [0 .. n -> Places(track)] : Steps(f, n, from, step)
    BY <1>2, StepsExist
  <1>5. ASSUME NEW k \in 0 .. n
        PROVE  f[k] = IF k = 0 THEN from
                      ELSE IF HasPattern(track, f[k - 1]) THEN PrevPattern(track, f[k - 1])
                      ELSE f[k - 1]
    <2>1. CASE k = 0
      BY <1>4, <2>1 DEF Steps
    <2>2. CASE k # 0
      <3>1. f[k] = step[<<k, f[k - 1]>>]
        BY <1>4, <2>2 DEF Steps
      <3>2. k - 1 \in 0 .. n /\ k \in Nat \ {0}
        BY <2>2
      <3>3. f[k - 1] \in Places(track)
        BY <1>4, <3>2
      <3> QED
        BY <1>3, <2>2, <3>1, <3>2, <3>3
    <2> QED
      BY <2>1, <2>2
  <1>6. Backward(f, n, track, from)
    BY <1>4, <1>5 DEF Backward
  <1> QED
    BY <1>6

(* It comes to every pattern on its way, each once and in order.           *)
LEMMA ForwardVisits ==
  ASSUME NEW track \in Track, BlocksInOrder(track), NEW from \in Places(track),
         from.block >= 1, NEW f, Forward(f, MaxPatterns(track), track, from)
  PROVE  /\ f[0] = from
         /\ \A n \in 0 .. MaxPatterns(track) : f[n] \in Places(track)
         /\ \A q \in Patterns(track) :
              UpTo(from, q) => \E m \in 0 .. MaxPatterns(track) : f[m] = q
         /\ \A n \in 0 .. MaxPatterns(track) : f[n] \in Patterns(track) =>
              \A m \in 0 .. n - 1 : f[m] \in Patterns(track) /\ ~UpTo(f[n], f[m])
  <1> DEFINE N == MaxPatterns(track)
             Nigh(n) == \A q \in Patterns(track) :
                          UpTo(from, q) => UpTo(f[n], q) \/ \E m \in 0 .. N : f[m] = q
             Past(n) == \A m \in 0 .. n - 1 : f[m] \in Patterns(track) /\ ~UpTo(f[n], f[m])
             S == {n \in 0 .. N : /\ f[n] \in Places(track) /\ f[n].block >= 1
                                  /\ f[n] \in Patterns(track) => PatternBegin(track, f[n]) >= n /\ Past(n)
                                  /\ Nigh(n)}
  <1>1. N \in Nat /\ \A q \in Patterns(track) : /\ PatternEnd(track, q) <= N
                                                 /\ PatternBegin(track, q) \in Nat
                                                 /\ PatternEnd(track, q) \in Nat
                                                 /\ PatternBegin(track, q) < PatternEnd(track, q)
    BY MaxPatternsIs, PatternFields
  <1>2. f[0] = from
    BY <1>1 DEF Forward
  <1>3. ASSUME NEW n \in 1 .. N
        PROVE  f[n] = IF HasPattern(track, f[n - 1]) THEN NextPattern(track, f[n - 1]) ELSE f[n - 1]
    <2>1. n \in 0 .. N /\ n # 0
      BY <1>1
    <2> QED
      BY <2>1 DEF Forward
  <1>4. 0 \in S
    <2>1. f[0] \in Patterns(track) => PatternBegin(track, f[0]) >= 0
      BY <1>1
    <2>2. Past(0) /\ Nigh(0)
      BY <1>2
    <2> HIDE DEF Past, Nigh, N
    <2> QED
      BY <1>1, <1>2, <2>1, <2>2
  <1> HIDE DEF N
  <1>5. ASSUME NEW n \in 1 .. N, n - 1 \in S PROVE n \in S
    <2>1. n \in 0 .. N /\ n - 1 \in 0 .. N
      BY <1>1
    <2> DEFINE p == f[n - 1]
               s == f[n]
    <2>2. /\ p \in Places(track) /\ p.block >= 1 /\ Nigh(n - 1)
          /\ p \in Patterns(track) => PatternBegin(track, p) >= n - 1 /\ Past(n - 1)
      BY <1>5
    <2>3. CASE ~HasPattern(track, p)
      <3>1. s = p
        BY <1>3, <2>3
      <3>2. p \notin Patterns(track)
        BY <2>3 DEF Patterns
      <3>3. Nigh(n)
        BY <2>2, <3>1
      <3> HIDE DEF Nigh, Past
      <3> QED
        BY <2>1, <2>2, <3>1, <3>2, <3>3
    <2>4. CASE HasPattern(track, p)
      <3>1. s = NextPattern(track, p) /\ p \in Patterns(track)
        BY <1>3, <2>2, <2>4 DEF Patterns
      <3>2. /\ s \in Places(track) /\ s.block >= 1 /\ ~UpTo(s, p)
            /\ \A q \in Patterns(track) : UpTo(p, q) => q = p \/ UpTo(s, q)
        <4> HIDE DEF p, s
        <4> QED
          BY <3>1, NextPatternIs
      <3>3. Nigh(n)
        <4> SUFFICES ASSUME NEW q \in Patterns(track), UpTo(from, q)
                     PROVE  UpTo(s, q) \/ \E m \in 0 .. N : f[m] = q
          OBVIOUS
        <4>1. UpTo(p, q) \/ \E m \in 0 .. N : f[m] = q
          BY <2>2
        <4> QED
          BY <2>1, <3>2, <4>1
      <3>4. ASSUME s \in Patterns(track) PROVE PatternBegin(track, s) >= n
        <4>1. PatternEnd(track, p) <= PatternBegin(track, s)
          BY <3>1, <3>2, <3>4, PatternsOrdered
        <4> HIDE DEF p, s, Nigh, Past
        <4> QED
          BY <1>1, <2>1, <2>2, <3>1, <3>4, <4>1
      <3>5. ASSUME NEW m \in 0 .. n - 1 PROVE f[m] \in Patterns(track) /\ ~UpTo(s, f[m])
        <4>1. CASE m = n - 1
          BY <3>1, <3>2, <4>1
        <4>2. CASE m # n - 1
          <5>1. m \in 0 .. n - 1 - 1
            BY <2>1, <4>2
          <5>2. f[m] \in Patterns(track) /\ ~UpTo(p, f[m])
            BY <2>2, <3>1, <5>1
          <5> DEFINE r == f[m]
          <5>3. r \in Places(track)
            BY <5>2 DEF Patterns
          <5>4. UpTo(p, s)
            <6> HIDE DEF p, s
            <6> QED
              BY <2>2, <3>2, OrderIsTotal
          <5>5. UpTo(s, r) => UpTo(p, r)
            <6> HIDE DEF p, s, r
            <6> QED
              BY <2>2, <3>2, <5>3, <5>4, OrderIsTotal
          <5> QED
            BY <5>2, <5>5
        <4> QED
          BY <4>1, <4>2
      <3>6. Past(n)
        BY <3>5
      <3> HIDE DEF Nigh, Past
      <3> QED
        BY <2>1, <3>2, <3>3, <3>4, <3>6
    <2> QED
      BY <2>3, <2>4
  <1>6. \A n \in 0 .. N : n \in S
    <2> HIDE DEF S
    <2> QED
      BY <1>1, <1>4, <1>5, CountUp
  <1>7. ASSUME NEW q \in Patterns(track), UpTo(from, q)
        PROVE  \E m \in 0 .. N : f[m] = q
    <2> DEFINE p == f[N]
    <2>1. p \in Places(track) /\ p.block >= 1
          /\ (p \in Patterns(track) => PatternBegin(track, p) >= N) /\ Nigh(N)
      BY <1>1, <1>6
    <2>2. CASE UpTo(p, q)
      <3>1. q.block \in 1 .. Len(track) /\ p.block \in Int /\ DOMAIN track = 1 .. Len(track)
            /\ Len(track) \in Nat
        BY <2>1, PatternFields DEF Places, Track
      <3> HIDE DEF p
      <3>2. p.block \in 1 .. Len(track)
        BY <2>1, <2>2, <3>1 DEF UpTo
      <3>3. p \in Patterns(track)
        BY <2>1, <3>1, <3>2 DEF Patterns, HasPattern
      <3>4. FALSE
        BY <1>1, <2>1, <3>3
      <3> QED
        BY <3>4
    <2>3. CASE ~UpTo(p, q)
      BY <1>7, <2>1, <2>3
    <2> QED
      BY <2>2, <2>3
  <1>8. ASSUME NEW n \in 0 .. N, f[n] \in Patterns(track)
        PROVE  Past(n)
    BY <1>6, <1>8
  <1>9. \A n \in 0 .. N : f[n] \in Places(track)
    BY <1>6
  <1> QED
    BY <1>2, <1>7, <1>8, <1>9 DEF N

LEMMA BackwardVisits ==
  ASSUME NEW track \in Track, BlocksInOrder(track), NEW from \in Places(track),
         from.block <= Len(track), NEW f, Backward(f, MaxPatterns(track), track, from)
  PROVE  /\ f[0] = from
         /\ \A n \in 0 .. MaxPatterns(track) : f[n] \in Places(track)
         /\ \A q \in Patterns(track) :
              UpTo(q, from) => \E m \in 0 .. MaxPatterns(track) : f[m] = q
         /\ \A n \in 0 .. MaxPatterns(track) : f[n] \in Patterns(track) =>
              \A m \in 0 .. n - 1 : f[m] \in Patterns(track) /\ ~UpTo(f[m], f[n])
  <1> DEFINE N == MaxPatterns(track)
             Nigh(n) == \A q \in Patterns(track) :
                          UpTo(q, from) => UpTo(q, f[n]) \/ \E m \in 0 .. N : f[m] = q
             Past(n) == \A m \in 0 .. n - 1 : f[m] \in Patterns(track) /\ ~UpTo(f[m], f[n])
             S == {n \in 0 .. N : /\ f[n] \in Places(track) /\ f[n].block <= Len(track)
                                  /\ f[n] \in Patterns(track) => PatternEnd(track, f[n]) + n <= N /\ Past(n)
                                  /\ Nigh(n)}
  <1>1. N \in Nat /\ \A q \in Patterns(track) : /\ PatternEnd(track, q) <= N
                                                 /\ PatternBegin(track, q) \in Nat
                                                 /\ PatternEnd(track, q) \in Nat
                                                 /\ PatternBegin(track, q) < PatternEnd(track, q)
    BY MaxPatternsIs, PatternFields
  <1>2. f[0] = from
    BY <1>1 DEF Backward
  <1>3. ASSUME NEW n \in 1 .. N
        PROVE  f[n] = IF HasPattern(track, f[n - 1]) THEN PrevPattern(track, f[n - 1]) ELSE f[n - 1]
    <2>1. n \in 0 .. N /\ n # 0
      BY <1>1
    <2> QED
      BY <2>1 DEF Backward
  <1>4. 0 \in S
    <2>1. f[0] \in Patterns(track) => PatternEnd(track, f[0]) + 0 <= N
      BY <1>1
    <2>2. Past(0) /\ Nigh(0)
      BY <1>2
    <2> HIDE DEF Past, Nigh, N
    <2> QED
      BY <1>1, <1>2, <2>1, <2>2
  <1> HIDE DEF N
  <1>5. ASSUME NEW n \in 1 .. N, n - 1 \in S PROVE n \in S
    <2>1. n \in 0 .. N /\ n - 1 \in 0 .. N
      BY <1>1
    <2> DEFINE p == f[n - 1]
               s == f[n]
    <2>2. /\ p \in Places(track) /\ p.block <= Len(track) /\ Nigh(n - 1)
          /\ p \in Patterns(track) => PatternEnd(track, p) + (n - 1) <= N /\ Past(n - 1)
      BY <1>5
    <2>3. CASE ~HasPattern(track, p)
      <3>1. s = p
        BY <1>3, <2>3
      <3>2. p \notin Patterns(track)
        BY <2>3 DEF Patterns
      <3>3. Nigh(n)
        BY <2>2, <3>1
      <3> HIDE DEF Nigh, Past
      <3> QED
        BY <2>1, <2>2, <3>1, <3>2, <3>3
    <2>4. CASE HasPattern(track, p)
      <3>1. s = PrevPattern(track, p) /\ p \in Patterns(track)
        BY <1>3, <2>2, <2>4 DEF Patterns
      <3>1a. p.block >= 1 /\ p \in Places(track) /\ HasPattern(track, p)
        BY <2>2, <2>4, <3>1, PatternFields
      <3>2. /\ s \in Places(track) /\ s.block <= Len(track) /\ ~UpTo(p, s)
            /\ \A q \in Patterns(track) : UpTo(q, p) => q = p \/ UpTo(q, s)
        <4> HIDE DEF p, s
        <4> QED
          BY <3>1, <3>1a, PrevPatternIs
      <3>3. Nigh(n)
        <4> SUFFICES ASSUME NEW q \in Patterns(track), UpTo(q, from)
                     PROVE  UpTo(q, s) \/ \E m \in 0 .. N : f[m] = q
          OBVIOUS
        <4>1. UpTo(q, p) \/ \E m \in 0 .. N : f[m] = q
          BY <2>2
        <4> QED
          BY <2>1, <3>2, <4>1
      <3>4. ASSUME s \in Patterns(track) PROVE PatternEnd(track, s) + n <= N
        <4>1. PatternEnd(track, s) <= PatternBegin(track, p)
          BY <3>1, <3>2, <3>4, PatternsOrdered
        <4> HIDE DEF p, s, Nigh, Past
        <4> QED
          BY <1>1, <2>1, <2>2, <3>1, <3>4, <4>1
      <3>5. ASSUME NEW m \in 0 .. n - 1 PROVE f[m] \in Patterns(track) /\ ~UpTo(f[m], s)
        <4>1. CASE m = n - 1
          BY <3>1, <3>2, <4>1
        <4>2. CASE m # n - 1
          <5>1. m \in 0 .. n - 1 - 1
            BY <2>1, <4>2
          <5>2. f[m] \in Patterns(track) /\ ~UpTo(f[m], p)
            BY <2>2, <3>1, <5>1
          <5> DEFINE r == f[m]
          <5>3. r \in Places(track)
            BY <5>2 DEF Patterns
          <5>4. UpTo(s, p)
            <6> HIDE DEF p, s
            <6> QED
              BY <2>2, <3>2, OrderIsTotal
          <5>5. UpTo(r, s) => UpTo(r, p)
            <6> HIDE DEF p, s, r
            <6> QED
              BY <2>2, <3>2, <5>3, <5>4, OrderIsTotal
          <5> QED
            BY <5>2, <5>5
        <4> QED
          BY <4>1, <4>2
      <3>6. Past(n)
        BY <3>5
      <3> HIDE DEF Nigh, Past
      <3> QED
        BY <2>1, <3>2, <3>3, <3>4, <3>6
    <2> QED
      BY <2>3, <2>4
  <1>6. \A n \in 0 .. N : n \in S
    <2> HIDE DEF S
    <2> QED
      BY <1>1, <1>4, <1>5, CountUp
  <1>7. ASSUME NEW q \in Patterns(track), UpTo(q, from)
        PROVE  \E m \in 0 .. N : f[m] = q
    <2> DEFINE p == f[N]
    <2>1. p \in Places(track) /\ p.block <= Len(track)
          /\ (p \in Patterns(track) => PatternEnd(track, p) + N <= N) /\ Nigh(N)
      BY <1>1, <1>6
    <2>2. CASE UpTo(q, p)
      <3>1. q.block \in 1 .. Len(track) /\ p.block \in Int /\ DOMAIN track = 1 .. Len(track)
            /\ Len(track) \in Nat
        BY <2>1, PatternFields DEF Places, Track
      <3> HIDE DEF p
      <3>2. p.block \in 1 .. Len(track)
        BY <2>1, <2>2, <3>1 DEF UpTo
      <3>3. p \in Patterns(track)
        BY <2>1, <3>1, <3>2 DEF Patterns, HasPattern
      <3>4. FALSE
        BY <1>1, <2>1, <3>3
      <3> QED
        BY <3>4
    <2>3. CASE ~UpTo(q, p)
      BY <1>7, <2>1, <2>3
    <2> QED
      BY <2>2, <2>3
  <1>8. ASSUME NEW n \in 0 .. N, f[n] \in Patterns(track)
        PROVE  Past(n)
    BY <1>6, <1>8
  <1>9. \A n \in 0 .. N : f[n] \in Places(track)
    BY <1>6
  <1> QED
    BY <1>2, <1>7, <1>8, <1>9 DEF N

-----------------------------------------------------------------------------
(* Jumping to events.                                                      *)

EventsOf(track, p) == track[p.block].events

EventsAreOk(track) == \A k \in DOMAIN track : EventsInOrder(track[k])

LEMMA EventsOfPattern ==
  ASSUME NEW track \in Track, EventsAreOk(track), NEW p \in Patterns(track)
  PROVE  LET events == EventsOf(track, p)
         IN  /\ events \in Seq(Event) /\ Len(events) \in Nat
             /\ \A i \in 1 .. Len(events) : /\ events[i].anchor_tick \in Nat
                                            /\ events[i].anchor_tick < track[p.block].length_ticks
                                            /\ events[i].v # {}
             /\ \A i, j \in 1 .. Len(events) :
                  i < j => events[i].anchor_tick < events[j].anchor_tick
  <1> DEFINE events == EventsOf(track, p)
  <1>1. p.block \in 1 .. Len(track) /\ DOMAIN track = 1 .. Len(track)
    BY PatternFields DEF Track
  <1>2. events \in Seq(Event)
    BY <1>1, BlockFields DEF EventsOf
  <1>3. EventsInOrder(track[p.block])
    BY <1>1 DEF EventsAreOk
  <1>4. DOMAIN events = 1 .. Len(events) /\ Len(events) \in Nat
    BY <1>2
  <1>5. /\ \A k \in DOMAIN events : events[k].v # {}
                                    /\ events[k].anchor_tick < track[p.block].length_ticks
        /\ \A k \in DOMAIN events : k > 1 => events[k - 1].anchor_tick < events[k].anchor_tick
    BY <1>3 DEF EventsInOrder, EventsOf
  <1> HIDE DEF events
  <1>6. \A i \in 1 .. Len(events) : events[i].anchor_tick \in Nat
    BY <1>2, EventFields
  <1>7. \A i, j \in 1 .. Len(events) : i < j => events[i].anchor_tick < events[j].anchor_tick
    BY <1>2, <1>5, EventsOrdered
  <1>8. \A i \in 1 .. Len(events) :
          events[i].anchor_tick < track[p.block].length_ticks /\ events[i].v # {}
    BY <1>4, <1>5
  <1>9. /\ events \in Seq(Event) /\ Len(events) \in Nat
        /\ \A i \in 1 .. Len(events) : /\ events[i].anchor_tick \in Nat
                                       /\ events[i].anchor_tick < track[p.block].length_ticks
                                       /\ events[i].v # {}
        /\ \A i, j \in 1 .. Len(events) :
             i < j => events[i].anchor_tick < events[j].anchor_tick
    BY <1>2, <1>4, <1>6, <1>7, <1>8
  <1> QED
    BY <1>9 DEF events

LEMMA EventTimeIs ==
  ASSUME NEW track \in Track, EventsAreOk(track), NEW p \in Patterns(track),
         NEW i \in 1 .. Len(EventsOf(track, p))
  PROVE  /\ EventTime(track, p, i) = PatternBegin(track, p) + EventsOf(track, p)[i].anchor_tick
         /\ EventTime(track, p, i) \in Nat
         /\ PatternBegin(track, p) <= EventTime(track, p, i)
         /\ EventTime(track, p, i) < PatternEnd(track, p)
         /\ \A j \in 1 .. Len(EventsOf(track, p)) :
              i < j => EventTime(track, p, i) < EventTime(track, p, j)
  <1> DEFINE events == EventsOf(track, p)
             begin == PatternBegin(track, p)
  <1>1. \A j \in 1 .. Len(events) : EventTime(track, p, j) = begin + events[j].anchor_tick
    BY DEF EventTime, EventsOf
  <1>2. /\ Len(events) \in Nat
        /\ \A j \in 1 .. Len(events) : events[j].anchor_tick \in Nat
                                       /\ events[j].anchor_tick < track[p.block].length_ticks
        /\ \A j, k \in 1 .. Len(events) : j < k => events[j].anchor_tick < events[k].anchor_tick
    BY EventsOfPattern
  <1>3. begin \in Nat /\ PatternEnd(track, p) = begin + track[p.block].length_ticks
        /\ PatternEnd(track, p) \in Nat
        /\ track[p.block].length_ticks \in Nat
    BY PatternFields, BlockFields
  <1> HIDE DEF events, begin
  <1>4. i \in 1 .. Len(events)
    BY DEF events
  <1>5. /\ EventTime(track, p, i) = begin + events[i].anchor_tick
        /\ EventTime(track, p, i) \in Nat
        /\ begin <= EventTime(track, p, i)
        /\ EventTime(track, p, i) < PatternEnd(track, p)
    BY <1>1, <1>2, <1>3, <1>4, SMTT(30)
  <1>6. ASSUME NEW j \in 1 .. Len(events), i < j
        PROVE  EventTime(track, p, i) < EventTime(track, p, j)
    <2>1. events[i].anchor_tick < events[j].anchor_tick
      BY <1>2, <1>4, <1>6
    <2>2. EventTime(track, p, j) = begin + events[j].anchor_tick
      BY <1>1
    <2>3. events[i].anchor_tick \in Nat /\ events[j].anchor_tick \in Nat
      BY <1>2, <1>4
    <2> QED
      BY <1>3, <1>5, <2>1, <2>2, <2>3, SMTT(30)
  <1> QED
    BY <1>5, <1>6 DEF events, begin

(* The nearest event after y, wherever its pattern is.                     *)
NearestAfter(track, y, t) ==
  \/ /\ t = y
     /\ \A q \in Patterns(track) : \A j \in 1 .. Len(EventsOf(track, q)) : EventTime(track, q, j) <= y
  \/ /\ t \in Nat /\ t > y
     /\ \E p \in Patterns(track) : \E i \in 1 .. Len(EventsOf(track, p)) : t = EventTime(track, p, i)
     /\ \A q \in Patterns(track) : \A j \in 1 .. Len(EventsOf(track, q)) :
          EventTime(track, q, j) > y => t <= EventTime(track, q, j)

NearestBefore(track, y, t) ==
  \/ /\ t = y
     /\ \A q \in Patterns(track) : \A j \in 1 .. Len(EventsOf(track, q)) : EventTime(track, q, j) >= y
  \/ /\ t \in Nat /\ t < y
     /\ \E p \in Patterns(track) : \E i \in 1 .. Len(EventsOf(track, p)) : t = EventTime(track, p, i)
     /\ \A q \in Patterns(track) : \A j \in 1 .. Len(EventsOf(track, q)) :
          EventTime(track, q, j) < y => t >= EventTime(track, q, j)

(* The first event that NextEvent takes from the pattern that is n on.     *)
FirstAfter(track, y, f, n) ==
  IF n = 0 THEN TickEnd(EventsOf(track, f[n]), y - PatternBegin(track, f[n])) ELSE 1

HitsAfter(track, y, f) ==
  {n \in 0 .. MaxPatterns(track) :
     HasPattern(track, f[n]) /\ FirstAfter(track, y, f, n) <= Len(EventsOf(track, f[n]))}

LEMMA NextEventIs ==
  ASSUME NEW track \in Track, NEW y
  PROVE  LET from == FwdFromTime(track, y)
             f == CHOOSE f : Forward(f, MaxPatterns(track), track, from)
             h == Min(HitsAfter(track, y, f))
         IN  NextEvent(track, y) = IF HitsAfter(track, y, f) = {} THEN y
                                   ELSE EventTime(track, f[h], FirstAfter(track, y, f, h))
  BY DEF NextEvent, Forward, HitsAfter, FirstAfter, EventsOf

LEMMA FirstAfterIs ==
  ASSUME NEW track \in Track, BlocksInOrder(track), EventsAreOk(track), NEW y \in Int, NEW f,
         Forward(f, MaxPatterns(track), track, FwdFromTime(track, y)),
         NEW n \in 0 .. MaxPatterns(track), f[n] \in Patterns(track)
  PROVE  /\ FirstAfter(track, y, f, n) \in Nat /\ FirstAfter(track, y, f, n) >= 1
         /\ \A j \in 1 .. Len(EventsOf(track, f[n])) :
              EventTime(track, f[n], j) > y <=> j >= FirstAfter(track, y, f, n)
  <1> DEFINE p == f[n]
             events == EventsOf(track, p)
             first == FirstAfter(track, y, f, n)
  <1>1. /\ events \in Seq(Event) /\ Len(events) \in Nat
        /\ \A i \in 1 .. Len(events) : events[i].anchor_tick \in Nat
        /\ \A i, j \in 1 .. Len(events) : i < j => events[i].anchor_tick < events[j].anchor_tick
    BY EventsOfPattern
  <1>2. PatternBegin(track, p) \in Nat
    BY PatternFields
  <1>3. \A j \in 1 .. Len(events) :
          /\ EventTime(track, p, j) = PatternBegin(track, p) + events[j].anchor_tick
          /\ EventTime(track, p, j) \in Nat
          /\ PatternBegin(track, p) <= EventTime(track, p, j)
    BY EventTimeIs
  <1>4. CASE n = 0
    <2> DEFINE rel == y - PatternBegin(track, p)
    <2>1. first = TickEnd(events, rel) /\ rel \in Int
      BY <1>2, <1>4 DEF FirstAfter
    <2> HIDE DEF first, rel, events, p
    <2>2. /\ first \in 1 .. Len(events) + 1
          /\ first <= Len(events) => rel < events[first].anchor_tick
          /\ \A j \in 1 .. Len(events) : j < first => events[j].anchor_tick <= rel
      BY <1>1, <2>1, TickEndIs
    <2>3. ASSUME NEW j \in 1 .. Len(events)
          PROVE  rel < events[j].anchor_tick <=> j >= first
      <3>1. CASE j < first
        BY <1>1, <2>1, <2>2, <3>1
      <3>2. CASE j = first
        BY <1>1, <2>1, <2>2, <3>2
      <3>3. CASE j > first
        <4>1. first \in 1 .. Len(events)
          BY <1>1, <2>2, <3>3
        <4> QED
          BY <1>1, <2>1, <2>2, <3>3, <4>1
      <3> QED
        BY <1>1, <2>2, <3>1, <3>2, <3>3
    <2>4. first \in Nat /\ first >= 1
      BY <1>1, <2>2
    <2>5. \A j \in 1 .. Len(events) : EventTime(track, p, j) > y <=> j >= first
      BY <1>1, <1>2, <1>3, <2>3 DEF rel
    <2> QED
      BY <2>4, <2>5 DEF first, events, p
  <1>5. CASE n # 0
    <2>1. first = 1
      BY <1>5 DEF FirstAfter
    <2>2. /\ FwdFromTime(track, y) \in Places(track) /\ FwdFromTime(track, y).block >= 1
          /\ \A q \in Patterns(track) :
               y < PatternEnd(track, q) <=> UpTo(FwdFromTime(track, y), q)
      BY FwdFromTimeIs
    <2>3. f[0] = FwdFromTime(track, y) /\ f[0] \in Patterns(track) /\ ~UpTo(p, f[0])
      <3>1. 0 \in 0 .. n - 1 /\ MaxPatterns(track) \in Nat
        BY <1>5, MaxPatternsIs
      <3> QED
        BY <2>2, <3>1, ForwardVisits
    <2>4. y < PatternEnd(track, f[0])
      BY <2>2, <2>3, OrderIsTotal
    <2>5. PatternEnd(track, f[0]) <= PatternBegin(track, p)
      BY <2>3, PatternsOrdered
    <2>6. PatternEnd(track, f[0]) \in Nat
      BY <2>3, PatternFields
    <2> HIDE DEF first, events, p
    <2>7. \A j \in 1 .. Len(events) : EventTime(track, p, j) > y /\ j >= first
      BY <1>1, <1>2, <1>3, <2>1, <2>4, <2>5, <2>6
    <2>8. first \in Nat /\ first >= 1
      BY <2>1
    <2> QED
      BY <2>7, <2>8 DEF first, events, p
  <1> QED
    BY <1>4, <1>5


LEMMA NextEventOk ==
  ASSUME NEW track \in Track, BlocksInOrder(track), EventsAreOk(track), NEW y \in Int
  PROVE  NearestAfter(track, y, NextEvent(track, y))
  <1> DEFINE from == FwdFromTime(track, y)
             f == CHOOSE f : Forward(f, MaxPatterns(track), track, from)
             hits == HitsAfter(track, y, f)
  <1>1. Forward(f, MaxPatterns(track), track, from)
    <2>1. \E g : Forward(g, MaxPatterns(track), track, from)
      BY FwdFromTimeIs, MaxPatternsIs, ForwardExists
    <2> QED
      BY <2>1
  <1>2. NextEvent(track, y) = IF hits = {} THEN y
                              ELSE EventTime(track, f[Min(hits)], FirstAfter(track, y, f, Min(hits)))
    BY NextEventIs
  <1> HIDE DEF f
  <1>3. /\ \A n \in 0 .. MaxPatterns(track) : f[n] \in Places(track)
        /\ \A q \in Patterns(track) :
             UpTo(from, q) => \E m \in 0 .. MaxPatterns(track) : f[m] = q
        /\ \A n \in 0 .. MaxPatterns(track) : f[n] \in Patterns(track) =>
             \A m \in 0 .. n - 1 : f[m] \in Patterns(track) /\ ~UpTo(f[n], f[m])
    BY <1>1, FwdFromTimeIs, ForwardVisits
  <1>4. \A q \in Patterns(track) : y < PatternEnd(track, q) => UpTo(from, q)
    BY FwdFromTimeIs
  <1> HIDE DEF from
  <1>5. hits \in SUBSET Nat /\ \A n \in hits : n \in 0 .. MaxPatterns(track)
    BY DEF HitsAfter
  <1>6. ASSUME NEW n \in 0 .. MaxPatterns(track), f[n] \in Patterns(track)
        PROVE  /\ FirstAfter(track, y, f, n) \in Nat /\ FirstAfter(track, y, f, n) >= 1
               /\ \A j \in 1 .. Len(EventsOf(track, f[n])) :
                    EventTime(track, f[n], j) > y <=> j >= FirstAfter(track, y, f, n)
    BY <1>1, <1>6, FirstAfterIs DEF from
  <1>7. ASSUME NEW n \in hits
        PROVE  /\ f[n] \in Patterns(track)
               /\ FirstAfter(track, y, f, n) \in 1 .. Len(EventsOf(track, f[n]))
    <2>1. n \in 0 .. MaxPatterns(track) /\ HasPattern(track, f[n])
          /\ FirstAfter(track, y, f, n) <= Len(EventsOf(track, f[n]))
      BY DEF HitsAfter
    <2>2. f[n] \in Patterns(track)
      BY <1>3, <2>1 DEF Patterns
    <2>3. Len(EventsOf(track, f[n])) \in Nat
      BY <2>2, EventsOfPattern
    <2> QED
      BY <1>6, <2>1, <2>2, <2>3
  <1>8. ASSUME NEW q \in Patterns(track), NEW j \in 1 .. Len(EventsOf(track, q)),
               EventTime(track, q, j) > y
        PROVE  \E m \in hits : f[m] = q /\ j >= FirstAfter(track, y, f, m)
    <2>1. y < PatternEnd(track, q)
      <3>1. /\ EventTime(track, q, j) \in Nat /\ EventTime(track, q, j) < PatternEnd(track, q)
            /\ PatternEnd(track, q) \in Nat
        BY EventTimeIs, PatternFields
      <3> QED
        BY <1>8, <3>1
    <2>2. PICK m \in 0 .. MaxPatterns(track) : f[m] = q
      BY <1>3, <1>4, <2>1
    <2>3. j >= FirstAfter(track, y, f, m) /\ FirstAfter(track, y, f, m) \in Nat
      BY <1>6, <1>8, <2>2
    <2>4. FirstAfter(track, y, f, m) <= Len(EventsOf(track, f[m]))
      <3>1. Len(EventsOf(track, q)) \in Nat
        BY EventsOfPattern
      <3> QED
        BY <2>2, <2>3, <3>1
    <2>5. m \in hits
      BY <2>2, <2>4 DEF HitsAfter, Patterns
    <2> QED
      BY <2>2, <2>3, <2>5
  <1>9. CASE hits = {}
    <2>1. ASSUME NEW q \in Patterns(track), NEW j \in 1 .. Len(EventsOf(track, q))
          PROVE  EventTime(track, q, j) <= y
      <3>1. ~(EventTime(track, q, j) > y)
        BY <1>8, <1>9
      <3>2. EventTime(track, q, j) \in Nat
        BY EventTimeIs
      <3> QED
        BY <3>1, <3>2
    <2> QED
      BY <1>2, <1>9, <2>1 DEF NearestAfter
  <1>10. CASE hits # {}
    <2> DEFINE h == Min(hits)
               p == f[h]
               i == FirstAfter(track, y, f, h)
               t == EventTime(track, p, i)
    <2>1. h \in hits /\ \A m \in hits : h <= m
      BY <1>5, <1>10, MinIsLeast
    <2>2. NextEvent(track, y) = t
      BY <1>2, <1>10
    <2>3. p \in Patterns(track) /\ i \in 1 .. Len(EventsOf(track, p)) /\ h \in 0 .. MaxPatterns(track)
      BY <1>5, <1>7, <2>1
    <2>4. t > y
      <3>1. i >= i
        BY <2>3
      <3> QED
        BY <1>6, <2>3, <3>1
    <2>5. t \in Nat /\ t < PatternEnd(track, p)
          /\ \A j \in 1 .. Len(EventsOf(track, p)) : i < j => t < EventTime(track, p, j)
      <3> HIDE DEF i, p
      <3> QED
        BY <2>3, EventTimeIs
    <2> HIDE DEF h, i, hits
    <2>6. ASSUME NEW q \in Patterns(track), NEW j \in 1 .. Len(EventsOf(track, q)),
                 EventTime(track, q, j) > y
          PROVE  t <= EventTime(track, q, j)
      <3>1. PICK m \in hits : f[m] = q /\ j >= FirstAfter(track, y, f, m)
        BY <1>8, <2>6
      <3>2. h <= m /\ m \in 0 .. MaxPatterns(track)
        BY <1>5, <2>1, <3>1
      <3>3. CASE m = h
        <4>1. j >= i /\ q = p
          BY <3>1, <3>3 DEF i
        <4>2. j = i \/ j > i
          BY <2>3, <4>1
        <4>3. CASE j = i
          <5>1. t = EventTime(track, q, j)
            BY <4>1, <4>3
          <5> HIDE DEF t
          <5> QED
            BY <2>5, <5>1
        <4>4. CASE j > i
          <5>1. t < EventTime(track, q, j) /\ EventTime(track, q, j) \in Nat
            <6> HIDE DEF t, p
            <6> QED
              BY <2>3, <2>5, <4>1, <4>4, EventTimeIs
          <5> HIDE DEF t
          <5> QED
            BY <2>5, <5>1
        <4> QED
          BY <4>2, <4>3, <4>4
      <3>4. CASE m # h
        <4>1. h \in 0 .. m - 1
          BY <2>3, <3>2, <3>4
        <4>2. ~UpTo(q, p)
          BY <1>3, <3>1, <3>2, <4>1
        <4> HIDE DEF t, p
        <4>3. PatternEnd(track, p) <= PatternBegin(track, q)
          BY <2>3, <4>2, PatternsOrdered
        <4>4. /\ PatternBegin(track, q) <= EventTime(track, q, j)
              /\ EventTime(track, q, j) \in Nat /\ PatternBegin(track, q) \in Nat
              /\ PatternEnd(track, p) \in Nat
          BY <2>3, EventTimeIs, PatternFields
        <4> QED
          BY <2>5, <4>3, <4>4
      <3> QED
        BY <3>3, <3>4
    <2>7. \E a \in Patterns(track) : \E b \in 1 .. Len(EventsOf(track, a)) :
            t = EventTime(track, a, b)
      <3> HIDE DEF p
      <3> QED
        BY <2>3
    <2> HIDE DEF t, p
    <2> QED
      BY <2>2, <2>4, <2>5, <2>6, <2>7 DEF NearestAfter
  <1> QED
    BY <1>9, <1>10


(* The last event that PrevEvent takes from the pattern that is n back.    *)
LastBefore(track, y, f, n) ==
  IF n = 0 THEN TickBegin(EventsOf(track, f[n]), y - PatternBegin(track, f[n])) - 1
  ELSE Len(EventsOf(track, f[n]))

HitsBefore(track, y, f) ==
  {n \in 0 .. MaxPatterns(track) : HasPattern(track, f[n]) /\ LastBefore(track, y, f, n) > 0}

LEMMA PrevEventIs ==
  ASSUME NEW track \in Track, NEW y
  PROVE  LET from == RevFromTime(track, y)
             f == CHOOSE f : Backward(f, MaxPatterns(track), track, from)
             h == Min(HitsBefore(track, y, f))
         IN  PrevEvent(track, y) = IF HitsBefore(track, y, f) = {} THEN y
                                   ELSE EventTime(track, f[h], LastBefore(track, y, f, h))
  BY DEF PrevEvent, Backward, HitsBefore, LastBefore, EventsOf

LEMMA LastBeforeIs ==
  ASSUME NEW track \in Track, BlocksInOrder(track), EventsAreOk(track), NEW y \in Int, NEW f,
         Backward(f, MaxPatterns(track), track, RevFromTime(track, y)),
         NEW n \in 0 .. MaxPatterns(track), f[n] \in Patterns(track)
  PROVE  /\ LastBefore(track, y, f, n) \in Nat
         /\ LastBefore(track, y, f, n) <= Len(EventsOf(track, f[n]))
         /\ \A j \in 1 .. Len(EventsOf(track, f[n])) :
              EventTime(track, f[n], j) < y <=> j <= LastBefore(track, y, f, n)
  <1> DEFINE p == f[n]
             events == EventsOf(track, p)
             last == LastBefore(track, y, f, n)
  <1>1. /\ events \in Seq(Event) /\ Len(events) \in Nat
        /\ \A i \in 1 .. Len(events) : events[i].anchor_tick \in Nat
        /\ \A i, j \in 1 .. Len(events) : i < j => events[i].anchor_tick < events[j].anchor_tick
    BY EventsOfPattern
  <1>2. PatternBegin(track, p) \in Nat /\ PatternEnd(track, p) \in Nat
    BY PatternFields
  <1>3. \A j \in 1 .. Len(events) :
          /\ EventTime(track, p, j) = PatternBegin(track, p) + events[j].anchor_tick
          /\ EventTime(track, p, j) \in Nat
          /\ EventTime(track, p, j) < PatternEnd(track, p)
    BY EventTimeIs
  <1>4. CASE n = 0
    <2> DEFINE rel == y - PatternBegin(track, p)
               above == TickBegin(events, rel)
    <2>1. last = above - 1 /\ rel \in Int
      BY <1>2, <1>4 DEF LastBefore
    <2> HIDE DEF last, rel, events, p
    <2>2. /\ above \in 1 .. Len(events) + 1
          /\ above <= Len(events) => rel <= events[above].anchor_tick
          /\ \A j \in 1 .. Len(events) : j < above => events[j].anchor_tick < rel
      BY <1>1, <2>1, TickBeginIs
    <2> HIDE DEF above
    <2>3. ASSUME NEW j \in 1 .. Len(events)
          PROVE  events[j].anchor_tick < rel <=> j < above
      <3>1. CASE j < above
        BY <1>1, <2>1, <2>2, <3>1
      <3>2. CASE j = above
        BY <1>1, <2>1, <2>2, <3>2
      <3>3. CASE j > above
        <4>1. above \in 1 .. Len(events)
          BY <1>1, <2>2, <3>3
        <4> QED
          BY <1>1, <2>1, <2>2, <3>3, <4>1
      <3> QED
        BY <1>1, <2>2, <3>1, <3>2, <3>3
    <2>4. last \in Nat /\ last <= Len(events)
      BY <1>1, <2>1, <2>2
    <2>5. ASSUME NEW j \in 1 .. Len(events)
          PROVE  EventTime(track, p, j) < y <=> j <= last
      <3>1. events[j].anchor_tick < y - PatternBegin(track, p) <=> j < above
        BY <2>3 DEF rel
      <3>2. EventTime(track, p, j) < y <=> j < above
        BY <1>1, <1>2, <1>3, <3>1
      <3> QED
        BY <1>1, <2>1, <2>2, <3>2
    <2> QED
      BY <2>4, <2>5 DEF last, events, p
  <1>5. CASE n # 0
    <2>1. last = Len(events)
      BY <1>5 DEF LastBefore
    <2>2. /\ RevFromTime(track, y) \in Places(track) /\ RevFromTime(track, y).block <= Len(track)
          /\ \A q \in Patterns(track) :
               PatternBegin(track, q) <= y <=> UpTo(q, RevFromTime(track, y))
      BY RevFromTimeIs
    <2>3. f[0] = RevFromTime(track, y) /\ f[0] \in Patterns(track) /\ ~UpTo(f[0], p)
      <3>1. 0 \in 0 .. n - 1 /\ MaxPatterns(track) \in Nat
        BY <1>5, MaxPatternsIs
      <3> QED
        BY <2>2, <3>1, BackwardVisits
    <2>4. PatternBegin(track, f[0]) <= y
      BY <2>2, <2>3, OrderIsTotal
    <2>5. PatternEnd(track, p) <= PatternBegin(track, f[0])
      BY <2>3, PatternsOrdered
    <2>6. PatternBegin(track, f[0]) \in Nat
      BY <2>3, PatternFields
    <2> HIDE DEF last, events, p
    <2>7. \A j \in 1 .. Len(events) : EventTime(track, p, j) < y /\ j <= last
      BY <1>1, <1>2, <1>3, <2>1, <2>4, <2>5, <2>6
    <2>8. last \in Nat /\ last <= Len(events)
      BY <1>1, <2>1
    <2> QED
      BY <2>7, <2>8 DEF last, events, p
  <1> QED
    BY <1>4, <1>5

LEMMA PrevEventOk ==
  ASSUME NEW track \in Track, BlocksInOrder(track), EventsAreOk(track), NEW y \in Int
  PROVE  NearestBefore(track, y, PrevEvent(track, y))
  <1> DEFINE from == RevFromTime(track, y)
             f == CHOOSE f : Backward(f, MaxPatterns(track), track, from)
             hits == HitsBefore(track, y, f)
  <1>1. Backward(f, MaxPatterns(track), track, from)
    <2>1. \E g : Backward(g, MaxPatterns(track), track, from)
      BY RevFromTimeIs, MaxPatternsIs, BackwardExists
    <2> QED
      BY <2>1
  <1>2. PrevEvent(track, y) = IF hits = {} THEN y
                              ELSE EventTime(track, f[Min(hits)], LastBefore(track, y, f, Min(hits)))
    BY PrevEventIs
  <1> HIDE DEF f
  <1>3. /\ \A n \in 0 .. MaxPatterns(track) : f[n] \in Places(track)
        /\ \A q \in Patterns(track) :
             UpTo(q, from) => \E m \in 0 .. MaxPatterns(track) : f[m] = q
        /\ \A n \in 0 .. MaxPatterns(track) : f[n] \in Patterns(track) =>
             \A m \in 0 .. n - 1 : f[m] \in Patterns(track) /\ ~UpTo(f[m], f[n])
    BY <1>1, RevFromTimeIs, BackwardVisits
  <1>4. \A q \in Patterns(track) : PatternBegin(track, q) <= y => UpTo(q, from)
    BY RevFromTimeIs
  <1> HIDE DEF from
  <1>5. hits \in SUBSET Nat /\ \A n \in hits : n \in 0 .. MaxPatterns(track)
    BY DEF HitsBefore
  <1>6. ASSUME NEW n \in 0 .. MaxPatterns(track), f[n] \in Patterns(track)
        PROVE  /\ LastBefore(track, y, f, n) \in Nat
               /\ LastBefore(track, y, f, n) <= Len(EventsOf(track, f[n]))
               /\ \A j \in 1 .. Len(EventsOf(track, f[n])) :
                    EventTime(track, f[n], j) < y <=> j <= LastBefore(track, y, f, n)
    BY <1>1, <1>6, LastBeforeIs DEF from
  <1>7. ASSUME NEW n \in hits
        PROVE  /\ f[n] \in Patterns(track)
               /\ LastBefore(track, y, f, n) \in 1 .. Len(EventsOf(track, f[n]))
    <2>1. n \in 0 .. MaxPatterns(track) /\ HasPattern(track, f[n])
          /\ LastBefore(track, y, f, n) > 0
      BY DEF HitsBefore
    <2>2. f[n] \in Patterns(track)
      BY <1>3, <2>1 DEF Patterns
    <2>3. Len(EventsOf(track, f[n])) \in Nat
      BY <2>2, EventsOfPattern
    <2> QED
      BY <1>6, <2>1, <2>2, <2>3
  <1>8. ASSUME NEW q \in Patterns(track), NEW j \in 1 .. Len(EventsOf(track, q)),
               EventTime(track, q, j) < y
        PROVE  \E m \in hits : f[m] = q /\ j <= LastBefore(track, y, f, m)
    <2>1. PatternBegin(track, q) <= y
      <3>1. /\ EventTime(track, q, j) \in Nat /\ PatternBegin(track, q) <= EventTime(track, q, j)
            /\ PatternBegin(track, q) \in Nat
        BY EventTimeIs, PatternFields
      <3> QED
        BY <1>8, <3>1
    <2>2. PICK m \in 0 .. MaxPatterns(track) : f[m] = q
      BY <1>3, <1>4, <2>1
    <2>3. j <= LastBefore(track, y, f, m) /\ LastBefore(track, y, f, m) \in Nat
      BY <1>6, <1>8, <2>2
    <2>4. LastBefore(track, y, f, m) > 0
      BY <2>3
    <2>5. m \in hits
      BY <2>2, <2>4 DEF HitsBefore, Patterns
    <2> QED
      BY <2>2, <2>3, <2>5
  <1>9. CASE hits = {}
    <2>1. ASSUME NEW q \in Patterns(track), NEW j \in 1 .. Len(EventsOf(track, q))
          PROVE  EventTime(track, q, j) >= y
      <3>1. ~(EventTime(track, q, j) < y)
        BY <1>8, <1>9
      <3>2. EventTime(track, q, j) \in Nat
        BY EventTimeIs
      <3> QED
        BY <3>1, <3>2
    <2> QED
      BY <1>2, <1>9, <2>1 DEF NearestBefore
  <1>10. CASE hits # {}
    <2> DEFINE h == Min(hits)
               p == f[h]
               i == LastBefore(track, y, f, h)
               t == EventTime(track, p, i)
    <2>1. h \in hits /\ \A m \in hits : h <= m
      BY <1>5, <1>10, MinIsLeast
    <2>2. PrevEvent(track, y) = t
      BY <1>2, <1>10
    <2>3. p \in Patterns(track) /\ i \in 1 .. Len(EventsOf(track, p)) /\ h \in 0 .. MaxPatterns(track)
      BY <1>5, <1>7, <2>1
    <2>4. t < y
      <3>1. i <= i
        BY <2>3
      <3> QED
        BY <1>6, <2>3, <3>1
    <2>5. t \in Nat /\ t >= PatternBegin(track, p) /\ PatternBegin(track, p) \in Nat
      <3> HIDE DEF i, p
      <3>1. t \in Nat /\ PatternBegin(track, p) <= t
        BY <2>3, EventTimeIs
      <3>2. PatternBegin(track, p) \in Nat
        BY <2>3, PatternFields
      <3> HIDE DEF t
      <3> QED
        BY <3>1, <3>2
    <2> HIDE DEF h, i, hits
    <2>6. ASSUME NEW q \in Patterns(track), NEW j \in 1 .. Len(EventsOf(track, q)),
                 EventTime(track, q, j) < y
          PROVE  t >= EventTime(track, q, j)
      <3>1. PICK m \in hits : f[m] = q /\ j <= LastBefore(track, y, f, m)
        BY <1>8, <2>6
      <3>2. h <= m /\ m \in 0 .. MaxPatterns(track)
        BY <1>5, <2>1, <3>1
      <3>3. CASE m = h
        <4>1. j <= i /\ q = p
          BY <3>1, <3>3 DEF i
        <4>2. j = i \/ j < i
          BY <2>3, <4>1
        <4>3. CASE j = i
          <5>1. t = EventTime(track, q, j)
            BY <4>1, <4>3
          <5> HIDE DEF t
          <5> QED
            BY <2>5, <5>1
        <4>4. CASE j < i
          <5>1. EventTime(track, q, j) < t /\ EventTime(track, q, j) \in Nat
            <6>1. i \in 1 .. Len(EventsOf(track, q)) /\ t = EventTime(track, q, i)
              BY <2>3, <4>1
            <6> HIDE DEF t, p
            <6> QED
              BY <4>4, <6>1, EventTimeIs
          <5> HIDE DEF t
          <5> QED
            BY <2>5, <5>1
        <4> QED
          BY <4>2, <4>3, <4>4
      <3>4. CASE m # h
        <4>1. h \in 0 .. m - 1
          BY <2>3, <3>2, <3>4
        <4>2. ~UpTo(p, q)
          BY <1>3, <3>1, <3>2, <4>1
        <4> HIDE DEF t, p
        <4>3. PatternEnd(track, q) <= PatternBegin(track, p)
          BY <2>3, <4>2, PatternsOrdered
        <4>4. /\ EventTime(track, q, j) < PatternEnd(track, q)
              /\ EventTime(track, q, j) \in Nat /\ PatternEnd(track, q) \in Nat
          BY EventTimeIs, PatternFields
        <4> QED
          BY <2>5, <4>3, <4>4
      <3> QED
        BY <3>3, <3>4
    <2>7. \E a \in Patterns(track) : \E b \in 1 .. Len(EventsOf(track, a)) :
            t = EventTime(track, a, b)
      <3> HIDE DEF p
      <3> QED
        BY <2>3
    <2> HIDE DEF t, p
    <2> QED
      BY <2>2, <2>4, <2>5, <2>6, <2>7 DEF NearestBefore
  <1> QED
    BY <1>9, <1>10


LEMMA WrittenTimes ==
  ASSUME NEW track \in Track, EventsAreOk(track), NEW t
  PROVE  t \in {x[1] : x \in Written(track)}
           <=> \E p \in Patterns(track) : \E i \in 1 .. Len(EventsOf(track, p)) :
                 t = EventTime(track, p, i)
  <1>1. Len(track) \in Nat /\ DOMAIN track = 1 .. Len(track)
    BY DEF Track
  <1>2. ASSUME NEW x \in Written(track)
        PROVE  \E p \in Patterns(track) : \E i \in 1 .. Len(EventsOf(track, p)) :
                 x[1] = EventTime(track, p, i)
    <2>1. PICK k \in DOMAIN track : \E i \in DOMAIN track[k].events :
            x \in {<<LoopTime(track[k], loop) + track[k].events[i].anchor_tick, f>> :
                     loop \in 0 .. track[k].loop_count - 1, f \in track[k].events[i].v}
      BY DEF Written
    <2>2. PICK i \in DOMAIN track[k].events :
            x \in {<<LoopTime(track[k], loop) + track[k].events[i].anchor_tick, f>> :
                     loop \in 0 .. track[k].loop_count - 1, f \in track[k].events[i].v}
      BY <2>1
    <2>3. PICK loop \in 0 .. track[k].loop_count - 1, f \in track[k].events[i].v :
            x = <<LoopTime(track[k], loop) + track[k].events[i].anchor_tick, f>>
      BY <2>2
    <2>4. k \in 1 .. Len(track) /\ track[k].loop_count \in Nat
          /\ DOMAIN track[k].events = 1 .. Len(track[k].events)
      BY <1>1, BlockFields
    <2>5. k \in 0 .. Len(track) + 1 /\ loop \in Nat /\ loop < track[k].loop_count
      BY <1>1, <2>4
    <2> DEFINE p == PatternIter(k, loop)
    <2>6. p \in Places(track) /\ p.block = k /\ p.loop = loop
      BY <2>5, PlacesAre
    <2> HIDE DEF p
    <2>7. p \in Patterns(track)
      BY <2>6 DEF Patterns, HasPattern
    <2>8. x[1] = EventTime(track, p, i)
      BY <2>3, <2>6 DEF EventTime, PatternBegin
    <2>9. i \in 1 .. Len(EventsOf(track, p))
      BY <2>4, <2>6 DEF EventsOf
    <2> QED
      BY <2>7, <2>8, <2>9
  <1>3. ASSUME NEW p \in Patterns(track), NEW i \in 1 .. Len(EventsOf(track, p))
        PROVE  \E x \in Written(track) : x[1] = EventTime(track, p, i)
    <2>1. p.block \in DOMAIN track /\ p.loop \in 0 .. track[p.block].loop_count - 1
          /\ DOMAIN track[p.block].events = 1 .. Len(track[p.block].events)
      BY <1>1, PatternFields, BlockFields
    <2>2. EventsOf(track, p)[i].v # {}
      BY EventsOfPattern
    <2>3. PICK f \in track[p.block].events[i].v : TRUE
      BY <2>2 DEF EventsOf
    <2>4. i \in DOMAIN track[p.block].events
      BY <2>1 DEF EventsOf
    <2> DEFINE x == <<LoopTime(track[p.block], p.loop) + track[p.block].events[i].anchor_tick, f>>
    <2>5. x \in Written(track)
      <3> DEFINE block == track[p.block]
                 Plays(k, j) == {<<LoopTime(track[k], loop) + track[k].events[j].anchor_tick, g>> :
                                   loop \in 0 .. track[k].loop_count - 1, g \in track[k].events[j].v}
      <3>1. x \in Plays(p.block, i)
        BY <2>1, <2>3
      <3>2. Written(track)
              = UNION {UNION {Plays(k, j) : j \in DOMAIN track[k].events} : k \in DOMAIN track}
        BY DEF Written
      <3> HIDE DEF Plays, x
      <3>3. x \in UNION {Plays(p.block, j) : j \in DOMAIN track[p.block].events}
        BY <2>4, <3>1
      <3> QED
        BY <2>1, <3>2, <3>3
    <2>6. x[1] = EventTime(track, p, i)
      BY DEF EventTime, PatternBegin
    <2> HIDE DEF x
    <2> QED
      BY <2>5, <2>6
  <1>4. t \in {x[1] : x \in Written(track)} <=> \E x \in Written(track) : t = x[1]
    OBVIOUS
  <1> QED
    BY <1>2, <1>3, <1>4, ZenonT(30)

LEMMA JumpsAreNearest ==
  ASSUME NEW track \in Track, BlocksInOrder(track), EventsAreOk(track), NEW y \in Int
  PROVE  LET times == {x[1] : x \in Written(track)}
             before == {t \in times : t < y}
             after == {t \in times : t > y}
         IN  /\ PrevEvent(track, y) = IF before = {} THEN y ELSE Max(before)
             /\ NextEvent(track, y) = IF after = {} THEN y ELSE Min(after)
  <1> DEFINE times == {x[1] : x \in Written(track)}
             before == {t \in times : t < y}
             after == {t \in times : t > y}
             prev == PrevEvent(track, y)
             next == NextEvent(track, y)
  <1>1. \A t : t \in times <=> \E p \in Patterns(track) : \E i \in 1 .. Len(EventsOf(track, p)) :
                                 t = EventTime(track, p, i)
    BY WrittenTimes
  <1>2. ASSUME NEW t \in times
        PROVE  t \in Nat
    <2>1. PICK p \in Patterns(track) : \E i \in 1 .. Len(EventsOf(track, p)) :
                 t = EventTime(track, p, i)
      BY <1>1
    <2>2. PICK i \in 1 .. Len(EventsOf(track, p)) : t = EventTime(track, p, i)
      BY <2>1
    <2>3. EventTime(track, p, i) \in Nat
      BY EventTimeIs
    <2> QED
      BY <2>2, <2>3
  <1>3. NearestBefore(track, y, prev) /\ NearestAfter(track, y, next)
    BY PrevEventOk, NextEventOk
  <1> HIDE DEF times, prev, next
  <1>4. \/ prev = y /\ \A t \in times : t >= y
        \/ prev \in Nat /\ prev < y /\ prev \in times /\ \A t \in times : t < y => prev >= t
    BY <1>1, <1>3 DEF NearestBefore
  <1>5. \/ next = y /\ \A t \in times : t <= y
        \/ next \in Nat /\ next > y /\ next \in times /\ \A t \in times : t > y => next <= t
    BY <1>1, <1>3 DEF NearestAfter
  <1>6. prev = IF before = {} THEN y ELSE Max(before)
    <2>1. CASE prev = y /\ \A t \in times : t >= y
      <3>1. before = {}
        BY <1>2, <2>1
      <3> QED
        BY <2>1, <3>1
    <2>2. CASE prev \in Nat /\ prev < y /\ prev \in times /\ \A t \in times : t < y => prev >= t
      <3>1. prev \in before /\ \A t \in before : prev >= t /\ t \in Nat
        BY <1>2, <2>2
      <3> HIDE DEF before
      <3>2. Max(before) \in before /\ \A t \in before : Max(before) >= t
        BY <3>1 DEF Max
      <3>3. Max(before) = prev
        <4> DEFINE m == Max(before)
        <4>1. m \in before /\ m \in Nat
          BY <3>1, <3>2
        <4>2. m <= prev /\ prev <= m
          BY <3>1, <3>2, <4>1
        <4> HIDE DEF m
        <4>3. m = prev
          BY <2>2, <4>1, <4>2
        <4> QED
          BY <4>3 DEF m
      <3> QED
        BY <3>1, <3>3
    <2> QED
      BY <1>4, <2>1, <2>2
  <1>7. next = IF after = {} THEN y ELSE Min(after)
    <2>1. CASE next = y /\ \A t \in times : t <= y
      <3>1. after = {}
        BY <1>2, <2>1
      <3> QED
        BY <2>1, <3>1
    <2>2. CASE next \in Nat /\ next > y /\ next \in times /\ \A t \in times : t > y => next <= t
      <3>1. next \in after /\ \A t \in after : next <= t /\ t \in Nat
        BY <1>2, <2>2
      <3> HIDE DEF after
      <3>2. Min(after) \in after /\ \A t \in after : Min(after) <= t
        BY <3>1 DEF Min
      <3>3. Min(after) = next
        <4> DEFINE m == Min(after)
        <4>1. m \in after /\ m \in Nat
          BY <3>1, <3>2
        <4>2. m <= next /\ next <= m
          BY <3>1, <3>2, <4>1
        <4> HIDE DEF m
        <4>3. m = next
          BY <2>2, <4>1, <4>2
        <4> QED
          BY <4>3 DEF m
      <3> QED
        BY <3>1, <3>3
    <2> QED
      BY <1>5, <2>1, <2>2
  <1> QED
    BY <1>6, <1>7 DEF times, prev, next

LEMMA EventMovesAreInts ==
  ASSUME NEW track \in Track, BlocksInOrder(track), EventsAreOk(track), NEW y \in Int
  PROVE  PrevEvent(track, y) \in Int /\ NextEvent(track, y) \in Int
  BY PrevEventOk, NextEventOk DEF NearestBefore, NearestAfter

-----------------------------------------------------------------------------
(* The end of the song.                                                    *)

LEMMA SongLengthIs ==
  ASSUME NEW n \in Nat, NEW tracks \in [0 .. n - 1 -> Track]
  PROVE  SongLength(tracks) \in Nat
  <1> DEFINE end(c) == EndTime(tracks[c][Len(tracks[c])])
             used == {d \in DOMAIN tracks : tracks[d] # <<>>}
             ends == {0} \cup {end(c) : c \in used}
             Bounded == {k \in 0 .. n : \E b \in Nat : \A c \in used : c < k => end(c) <= b}
  <1>1. ASSUME NEW c \in used
        PROVE  end(c) \in Nat /\ c \in 0 .. n - 1
    <2>1. c \in 0 .. n - 1 /\ tracks[c] \in Track /\ tracks[c] # <<>>
      OBVIOUS
    <2>2. Len(tracks[c]) \in 1 .. Len(tracks[c])
      BY <2>1 DEF Track
    <2> QED
      BY <2>1, <2>2, BlockFields
  <1>2. 0 \in Bounded
    <2>1. \A c \in used : ~(c < 0)
      BY <1>1
    <2> QED
      BY <2>1
  <1>3. ASSUME NEW k \in 1 .. n, k - 1 \in Bounded
        PROVE  k \in Bounded
    <2>1. PICK b \in Nat : \A c \in used : c < k - 1 => end(c) <= b
      BY <1>3
    <2>2. ASSUME NEW m \in Nat, b <= m, k - 1 \in used => end(k - 1) <= m
          PROVE  k \in Bounded
      <3>1. ASSUME NEW c \in used, c < k PROVE end(c) <= m
        <4>1. c \in 0 .. n - 1 /\ end(c) \in Nat
          BY <1>1
        <4>2. CASE c = k - 1
          BY <2>2, <4>2
        <4>3. CASE c # k - 1
          <5>1. end(c) <= b
            BY <2>1, <3>1, <4>1, <4>3
          <5> HIDE DEF end
          <5> QED
            BY <2>2, <4>1, <5>1
        <4> QED
          BY <4>2, <4>3
      <3> HIDE DEF used, end
      <3> QED
        BY <3>1
    <2>3. CASE k - 1 \in used
      <3>1. end(k - 1) \in Nat
        BY <1>1, <2>3
      <3> HIDE DEF end, used, Bounded
      <3>2. PICK m \in Nat : b <= m /\ end(k - 1) <= m
        BY <3>1
      <3> QED
        BY <2>2, <3>2
    <2>4. CASE k - 1 \notin used
      <3> HIDE DEF end, used, Bounded
      <3> QED
        BY <2>2, <2>4
    <2> QED
      BY <2>3, <2>4
  <1>4. n \in Bounded
    <2> HIDE DEF Bounded
    <2> QED
      BY <1>2, <1>3, CountUp
  <1>5. PICK b \in Nat : \A c \in used : c < n => end(c) <= b
    BY <1>4
  <1>6. ends \in SUBSET (0 .. b) /\ ends # {}
    <2>1. ASSUME NEW c \in used PROVE end(c) \in 0 .. b
      <3>1. c < n /\ end(c) \in Nat
        BY <1>1
      <3>2. end(c) <= b
        BY <1>5, <3>1
      <3> HIDE DEF end
      <3> QED
        BY <3>1, <3>2
    <2> HIDE DEF used, end
    <2> QED
      BY <2>1
  <1>7. Max(ends) \in ends
    <2> HIDE DEF ends
    <2> QED
      BY <1>6, MaxIsGreatest
  <1>8. SongLength(tracks) = Max(ends)
    BY DEF SongLength
  <1> HIDE DEF ends
  <1>9. Max(ends) \in 0 .. b
    BY <1>6, <1>7
  <1> QED
    BY <1>8, <1>9

-----------------------------------------------------------------------------
(* Gaps and measures.                                                      *)

LEMMA MeasureIs ==
  ASSUME NEW opts, OptionsOk(opts), NEW now \in Nat
  PROVE  /\ MeasureAt(opts, now) \in Nat /\ MeasureAt(opts, now) <= now
         /\ MeasureNext(opts, MeasureAt(opts, now)) \in Nat
         /\ now < MeasureNext(opts, MeasureAt(opts, now))
  <1> DEFINE tpb == opts.ticks_per_beat
             bpm == opts.beats_per_measure
             i == now \div tpb
             q == i \div bpm
             e == i % bpm
  <1>1. tpb \in Nat \ {0} /\ bpm \in Nat \ {0}
    BY DEF OptionsOk
  <1>2. MeasureAt(opts, now) = i * tpb - e * tpb
        /\ MeasureNext(opts, MeasureAt(opts, now)) = (i * tpb - e * tpb) + bpm * tpb
    BY DEF MeasureAt, MeasureNext, BeatAt
  <1> HIDE DEF tpb, bpm
  <1>3. i \in Nat /\ i * tpb \in Nat /\ i * tpb <= now /\ now < i * tpb + tpb
    BY <1>1, DivisionOfNat
  <1> HIDE DEF i
  <1>4. q \in Nat /\ q * bpm \in Nat /\ e \in 0 .. bpm - 1 /\ i = q * bpm + e
    <2>1. q \in Nat /\ q * bpm \in Nat
      BY <1>1, <1>3, DivisionOfNat
    <2>2. e \in 0 .. bpm - 1 /\ i = q * bpm + e
      <3>1. i \in Int
        BY <1>3
      <3> QED
        BY <1>1, <3>1, DivisionIs
    <2> HIDE DEF q, e
    <2> QED
      BY <2>1, <2>2
  <1> HIDE DEF q, e
  <1>5. 0 <= i - e /\ i - e <= i /\ 1 <= bpm - e /\ i - e \in Int /\ bpm - e \in Int /\ i \in Int
    BY <1>1, <1>3, <1>4
  <1>6. 0 * tpb <= (i - e) * tpb /\ (i - e) * tpb <= i * tpb /\ 1 * tpb <= (bpm - e) * tpb
        /\ (i - e) * tpb \in Int /\ (bpm - e) * tpb \in Int
    BY <1>1, <1>5, ProductGrows
  <1>7. (i - e) * tpb = i * tpb - e * tpb /\ (bpm - e) * tpb = bpm * tpb - e * tpb
        /\ e * tpb \in Int /\ bpm * tpb \in Int
    BY <1>1, <1>3, <1>4
  <1> QED
    BY <1>1, <1>2, <1>3, <1>6, <1>7

LEMMA GapIs ==
  ASSUME NEW opts, OptionsOk(opts), NEW track \in Track, NEW now \in Nat,
         SnappedLater(track, now)
  PROVE  LET k == BlockAt(track, now)
         IN  /\ k \in 1 .. Len(track) + 1
             /\ GapBegin(opts, track, now) \in Nat /\ GapEnd(opts, track, now) \in Nat
             /\ GapBegin(opts, track, now) <= now /\ now < GapEnd(opts, track, now)
             /\ k > 1 => k - 1 \in 1 .. Len(track) /\ EndTime(track[k - 1]) <= now
                         /\ EndTime(track[k - 1]) <= GapBegin(opts, track, now)
             /\ k <= Len(track) => GapEnd(opts, track, now) <= track[k].begin_tick
  <1> DEFINE k == BlockAt(track, now)
             begin == GapBegin(opts, track, now)
             end == GapEnd(opts, track, now)
             measure == MeasureAt(opts, now)
             next == MeasureNext(opts, measure)
  <1>1. k \in 1 .. Len(track) + 1 /\ Len(track) \in Nat
    BY BlockAtIs DEF Track
  <1>2. measure \in Nat /\ measure <= now /\ next \in Nat /\ now < next
    BY MeasureIs
  <1>3. begin = (IF k > 1 THEN Max({measure, EndTime(track[k - 1])}) ELSE measure)
        /\ end = (IF k <= Len(track) THEN Min({next, track[k].begin_tick}) ELSE next)
    BY DEF GapBegin, GapEnd
  <1>4. \A j \in 1 .. Len(track) : j < k => EndTime(track[j]) <= now
    BY BlockAtIs
  <1>5. k <= Len(track) => now < track[k].begin_tick
    BY SnappedAtIs
  <1> HIDE DEF k, begin, end, measure, next
  <1>6. /\ begin \in Nat /\ begin <= now
        /\ k > 1 => k - 1 \in 1 .. Len(track) /\ EndTime(track[k - 1]) <= now
                    /\ EndTime(track[k - 1]) <= begin
    <2>1. CASE k > 1
      <3> DEFINE above == EndTime(track[k - 1])
      <3>1. k - 1 \in 1 .. Len(track)
        BY <1>1, <2>1
      <3>2. above \in Nat /\ above <= now
        BY <1>1, <1>4, <3>1, BlockFields
      <3>3. begin = Max({measure, above})
        BY <1>3, <2>1
      <3> HIDE DEF above
      <3>4. begin = IF measure >= above THEN measure ELSE above
        BY <1>2, <3>2, <3>3, GreatestOfTwo
      <3>5. begin \in Nat /\ begin <= now /\ above <= begin
        BY <1>2, <3>2, <3>4
      <3> QED
        BY <3>1, <3>2, <3>5 DEF above
    <2>2. CASE ~(k > 1)
      BY <1>2, <1>3, <2>2
    <2> QED
      BY <2>1, <2>2
  <1>7. end \in Nat /\ now < end /\ (k <= Len(track) => end <= track[k].begin_tick)
    <2>1. CASE k <= Len(track)
      <3> DEFINE below == track[k].begin_tick
      <3>1. below \in Nat /\ now < below
        BY <1>1, <1>5, <2>1, BlockFields
      <3>2. end = Min({next, below})
        BY <1>3, <2>1
      <3> HIDE DEF below
      <3>3. end = IF next <= below THEN next ELSE below
        BY <1>2, <3>1, <3>2, LeastOfTwo
      <3>4. end \in Nat /\ now < end /\ end <= below
        BY <1>2, <3>1, <3>3
      <3> QED
        BY <3>4 DEF below
    <2>2. CASE ~(k <= Len(track))
      BY <1>2, <1>3, <2>2
    <2> QED
      BY <2>1, <2>2
  <1> QED
    BY <1>1, <1>6, <1>7 DEF k, begin, end

-----------------------------------------------------------------------------
(* Commands.                                                               *)

PatternValues == [length_ticks : Nat \ {0}, events : Seq(Event)]

(* What a command must hold for the track to stay in order.                *)
EditPatternOk(track, c) ==
  /\ c.class = "EditPattern" /\ c.block \in 1 .. Len(track)
  /\ c.value \in PatternValues /\ EventsInOrder(c.value)
  /\ c.block < Len(track) =>
       track[c.block].begin_tick + track[c.block].loop_count * c.value.length_ticks
         <= track[c.block + 1].begin_tick

AddBlockOk(track, c) ==
  /\ c.class = "AddBlock" /\ c.block \in 1 .. Len(track) + 1
  /\ Len(track) < MAX_BLOCKS_PER_TRACK
  /\ c.value \in Block /\ EventsInOrder(c.value)
  /\ Len(c.value.events) <= MAX_EVENTS_PER_PATTERN
  /\ c.block > 1 => EndTime(track[c.block - 1]) <= c.value.begin_tick
  /\ c.block <= Len(track) => EndTime(c.value) <= track[c.block].begin_tick

CommandOk(track, c) == c.class = "Null" \/ EditPatternOk(track, c) \/ AddBlockOk(track, c)

(* TrackOk() block by block, for proofs.                                   *)
BlockOk(block) ==
  Len(block.events) <= MAX_EVENTS_PER_PATTERN /\ EventsInOrder(block)

LEMMA TrackOkIs ==
  ASSUME NEW track \in Track
  PROVE  TrackOk(track) <=>
           /\ Len(track) <= MAX_BLOCKS_PER_TRACK
           /\ \A k \in 1 .. Len(track) : BlockOk(track[k])
           /\ \A k \in 1 .. Len(track) :
                k > 1 => EndTime(track[k - 1]) <= track[k].begin_tick
  <1>1. DOMAIN track = 1 .. Len(track)
    BY DEF Track
  <1>2. \A k \in 1 .. Len(track) : track[k].loop_count > 0 /\ track[k].length_ticks > 0
    BY BlockFields
  <1> QED
    BY <1>1, <1>2 DEF TrackOk, BlocksInOrder, BlockOk

LEMMA EditedBlock ==
  ASSUME NEW old \in Block, NEW length, NEW events
  PROVE  [[old EXCEPT !.length_ticks = length] EXCEPT !.events = events]
           = [begin_tick |-> old.begin_tick, loop_count |-> old.loop_count,
              length_ticks |-> length, events |-> events]
  <1> DEFINE edited == [begin_tick |-> old.begin_tick, loop_count |-> old.loop_count,
                        length_ticks |-> length, events |-> old.events]
  <1>1. old = [begin_tick |-> old.begin_tick, loop_count |-> old.loop_count,
               length_ticks |-> old.length_ticks, events |-> old.events]
    BY DEF Block
  <1>2. [old EXCEPT !.length_ticks = length] = edited
    BY <1>1
  <1>3. [edited EXCEPT !.events = events]
          = [begin_tick |-> old.begin_tick, loop_count |-> old.loop_count,
             length_ticks |-> length, events |-> events]
    OBVIOUS
  <1> QED
    BY <1>2, <1>3

Edited(new, track, k, value) ==
  new = [track EXCEPT ![k].length_ticks = value.length_ticks, ![k].events = value.events]

LEMMA EditedPattern ==
  ASSUME NEW track \in Track, NEW k \in 1 .. Len(track), NEW value \in PatternValues,
         NEW new, Edited(new, track, k, value)
  PROVE  /\ new \in Track /\ Len(new) = Len(track)
         /\ \A j \in 1 .. Len(track) : j # k => new[j] = track[j]
         /\ new[k].begin_tick = track[k].begin_tick /\ new[k].loop_count = track[k].loop_count
         /\ new[k].length_ticks = value.length_ticks /\ new[k].events = value.events
  <1> DEFINE block == [begin_tick |-> track[k].begin_tick, loop_count |-> track[k].loop_count,
                       length_ticks |-> value.length_ticks, events |-> value.events]
             edited == [track[k] EXCEPT !.length_ticks = value.length_ticks]
  <1>1. track \in Seq(Block) /\ DOMAIN track = 1 .. Len(track) /\ track[k] \in Block
    BY BlockFields DEF Track
  <1>2. value.length_ticks \in Nat \ {0} /\ value.events \in Seq(Event)
    BY DEF PatternValues
  <1>3. [edited EXCEPT !.events = value.events] = block
    BY <1>1, EditedBlock
  <1>5. new = [track EXCEPT ![k] = [edited EXCEPT !.events = value.events]]
    BY <1>1 DEF Edited
  <1>6. new = [track EXCEPT ![k] = block]
    BY <1>3, <1>5
  <1>7. block \in Block
    BY <1>1, <1>2 DEF Block
  <1>8. new[k] = block /\ Len(new) = Len(track) /\ new \in Seq(Block)
        /\ \A j \in 1 .. Len(track) : j # k => new[j] = track[j]
    <2> HIDE DEF block
    <2>1. /\ [track EXCEPT ![k] = block] \in Seq(Block)
          /\ Len([track EXCEPT ![k] = block]) = Len(track)
          /\ \A j \in 1 .. Len(track) :
               [track EXCEPT ![k] = block][j] = IF j = k THEN block ELSE track[j]
      BY <1>1, <1>7, ExceptSeq
    <2> QED
      BY <1>6, <2>1
  <1> QED
    BY <1>8 DEF Track

LEMMA EditPatternKeeps ==
  ASSUME NEW track \in Track, TrackOk(track), NEW c, EditPatternOk(track, c)
  PROVE  TrackAfter(c, track) \in Track /\ TrackOk(TrackAfter(c, track))
  <1>1. CASE Rejected(c)
    <2>1. TrackAfter(c, track) = track
      BY <1>1 DEF TrackAfter, EditPatternOk
    <2> QED
      BY <2>1
  <1>2. CASE ~Rejected(c)
    <2> DEFINE k == c.block
               new == [track EXCEPT ![k].length_ticks = c.value.length_ticks,
                                    ![k].events = c.value.events]
    <2>1. TrackAfter(c, track) = new
      BY <1>2 DEF TrackAfter, EditPatternOk
    <2>2. /\ c.value \in PatternValues /\ EventsInOrder(c.value) /\ k \in 1 .. Len(track)
          /\ k < Len(track) =>
               track[k].begin_tick + track[k].loop_count * c.value.length_ticks
                 <= track[k + 1].begin_tick
          /\ Len(track) \in Nat
      BY DEF EditPatternOk, Track
    <2>3. Len(c.value.events) <= MAX_EVENTS_PER_PATTERN
      <3>1. Len(c.value.events) \in Nat
        BY <2>2 DEF PatternValues
      <3> QED
        BY <1>2, <3>1, MaxEventsAssumption DEF Rejected, EditPatternOk
    <2> HIDE DEF new, k
    <2>4. /\ new \in Track /\ Len(new) = Len(track)
          /\ \A j \in 1 .. Len(track) : j # k => new[j] = track[j]
          /\ new[k].begin_tick = track[k].begin_tick /\ new[k].loop_count = track[k].loop_count
          /\ new[k].length_ticks = c.value.length_ticks /\ new[k].events = c.value.events
      <3> DEFINE value == c.value
      <3>1. Edited(new, track, k, value)
        BY DEF new, Edited
      <3>2. value \in PatternValues /\ k \in 1 .. Len(track)
        BY <2>2
      <3> HIDE DEF value
      <3>3. /\ new \in Track /\ Len(new) = Len(track)
            /\ \A j \in 1 .. Len(track) : j # k => new[j] = track[j]
            /\ new[k].begin_tick = track[k].begin_tick /\ new[k].loop_count = track[k].loop_count
            /\ new[k].length_ticks = value.length_ticks /\ new[k].events = value.events
        BY <3>1, <3>2, EditedPattern
      <3> QED
        BY <3>3 DEF value
    <2>5. /\ Len(track) <= MAX_BLOCKS_PER_TRACK /\ \A j \in 1 .. Len(track) : BlockOk(track[j])
          /\ \A j \in 1 .. Len(track) : j > 1 => EndTime(track[j - 1]) <= track[j].begin_tick
      BY TrackOkIs
    <2>6. BlockOk(new[k])
      BY <2>2, <2>3, <2>4 DEF BlockOk, EventsInOrder
    <2>7. \A j \in 1 .. Len(track) : BlockOk(new[j])
      BY <2>4, <2>5, <2>6
    <2>8. ASSUME NEW j \in 1 .. Len(track), j > 1
          PROVE  EndTime(new[j - 1]) <= new[j].begin_tick
      <3>1. j - 1 \in 1 .. Len(track)
        BY <2>2, <2>8
      <3>2. new[j].begin_tick = track[j].begin_tick
        BY <2>4
      <3>3. CASE j - 1 = k
        <4>1. k < Len(track) /\ j = k + 1
          BY <2>2, <3>3
        <4>2. EndTime(new[k]) = track[k].begin_tick + track[k].loop_count * c.value.length_ticks
          BY <2>4 DEF EndTime
        <4> QED
          BY <2>2, <3>2, <3>3, <4>1, <4>2
      <3>4. CASE j - 1 # k
        BY <2>4, <2>5, <2>8, <3>1, <3>2, <3>4
      <3> QED
        BY <3>3, <3>4
    <2>9. TrackOk(new)
      BY <2>4, <2>5, <2>7, <2>8, TrackOkIs
    <2> QED
      BY <2>1, <2>4, <2>9
  <1> QED
    BY <1>1, <1>2

LEMMA AddBlockKeeps ==
  ASSUME NEW track \in Track, TrackOk(track), NEW c, AddBlockOk(track, c)
  PROVE  TrackAfter(c, track) \in Track /\ TrackOk(TrackAfter(c, track))
  <1> DEFINE k == c.block
             block == c.value
             n == Len(track)
             new == InsertAt(track, k, block)
  <1>1. TrackAfter(c, track) = new
    BY DEF TrackAfter, AddBlockOk, Rejected
  <1>2. /\ block \in Block /\ EventsInOrder(block) /\ k \in 1 .. n + 1
        /\ Len(block.events) <= MAX_EVENTS_PER_PATTERN
        /\ n < MAX_BLOCKS_PER_TRACK /\ n \in Nat
        /\ k > 1 => EndTime(track[k - 1]) <= block.begin_tick
        /\ k <= n => EndTime(block) <= track[k].begin_tick
    BY DEF AddBlockOk, Track
  <1>3. /\ n <= MAX_BLOCKS_PER_TRACK /\ \A j \in 1 .. n : BlockOk(track[j])
        /\ \A j \in 1 .. n : j > 1 => EndTime(track[j - 1]) <= track[j].begin_tick
    BY TrackOkIs
  <1> HIDE DEF k, block, new
  <1>4. /\ new \in Track /\ Len(new) = n + 1
        /\ \A j \in 1 .. n + 1 :
             new[j] = IF j < k THEN track[j] ELSE IF j = k THEN block ELSE track[j - 1]
    BY <1>2, InsertAtShape DEF new, Track
  <1> HIDE DEF n
  <1>5. ASSUME NEW j \in 1 .. n + 1
        PROVE  BlockOk(new[j])
    <2>1. CASE j = k
      BY <1>2, <1>4, <2>1 DEF BlockOk
    <2>2. CASE j < k
      <3>1. j \in 1 .. n /\ new[j] = track[j]
        BY <1>2, <1>4, <2>2
      <3> QED
        BY <1>3, <3>1
    <2>3. CASE j > k
      <3>1. j - 1 \in 1 .. n /\ new[j] = track[j - 1]
        BY <1>2, <1>4, <2>3
      <3> QED
        BY <1>3, <3>1
    <2> QED
      BY <1>2, <2>1, <2>2, <2>3
  <1>6. ASSUME NEW j \in 1 .. n + 1, j > 1
        PROVE  EndTime(new[j - 1]) <= new[j].begin_tick
    <2>1. j - 1 \in 1 .. n + 1 /\ j \in Nat /\ k \in Nat
      BY <1>2, <1>6
    <2>2. CASE j < k
      <3>1. new[j] = track[j] /\ new[j - 1] = track[j - 1] /\ j \in 1 .. n
        BY <1>2, <1>4, <2>1, <2>2
      <3> QED
        BY <1>3, <1>6, <3>1
    <2>3. CASE j = k
      <3>1. new[j] = block /\ new[j - 1] = track[j - 1]
        BY <1>4, <2>1, <2>3
      <3> QED
        BY <1>2, <1>6, <2>3, <3>1
    <2>4. CASE j = k + 1
      <3>1. new[j] = track[k] /\ new[j - 1] = block /\ k <= n
        BY <1>2, <1>4, <2>1, <2>4
      <3> QED
        BY <1>2, <3>1
    <2>5. CASE j > k + 1
      <3>1. new[j] = track[j - 1] /\ new[j - 1] = track[j - 1 - 1] /\ j - 1 \in 1 .. n /\ j - 1 > 1
        BY <1>2, <1>4, <2>1, <2>5
      <3> QED
        BY <1>3, <3>1
    <2> QED
      BY <2>1, <2>2, <2>3, <2>4, <2>5
  <1>7. n + 1 <= MAX_BLOCKS_PER_TRACK
    BY <1>2, MaxBlocksAssumption
  <1>8. TrackOk(new)
    BY <1>4, <1>5, <1>6, <1>7, TrackOkIs
  <1> QED
    BY <1>1, <1>4, <1>8

LEMMA CommandKeepsTrack ==
  ASSUME NEW track \in Track, TrackOk(track), NEW c, CommandOk(track, c)
  PROVE  TrackAfter(c, track) \in Track /\ TrackOk(TrackAfter(c, track))
  <1>1. CASE c.class = "Null"
    <2>1. TrackAfter(c, track) = track
      BY <1>1 DEF TrackAfter
    <2> QED
      BY <2>1
  <1> QED
    BY <1>1, EditPatternKeeps, AddBlockKeeps DEF CommandOk

-----------------------------------------------------------------------------
(* Making room for an event.                                               *)

MadeOf(track, made) ==
  \E class, block, value, rel :
    /\ made = CreateOrEdit(class, block, value, rel)
    /\ rel \in Nat /\ rel < value.length_ticks
    /\ \/ EditPatternOk(track, Command(class, block, value))
       \/ AddBlockOk(track, Command(class, block, value)) /\ value.events = <<>>

LEMMA CommandFields ==
  ASSUME NEW class, NEW block, NEW value
  PROVE  /\ Command(class, block, value).class = class
         /\ Command(class, block, value).block = block
         /\ Command(class, block, value).value = value
  BY DEF Command

(* A pattern of a track in order, left as it is or made longer.            *)
LEMMA PatternMadeOf ==
  ASSUME NEW track \in Track, TrackOk(track), NEW k \in 1 .. Len(track),
         NEW length \in Nat, length >= track[k].length_ticks,
         length = track[k].length_ticks
           \/ (k < Len(track) =>
                 track[k].begin_tick + track[k].loop_count * length <= track[k + 1].begin_tick),
         NEW rel \in Nat, rel < length, NEW value,
         value = [length_ticks |-> length, events |-> track[k].events]
  PROVE  MadeOf(track, CreateOrEdit("EditPattern", k, value, rel))
  <1> DEFINE c == Command("EditPattern", k, value)
  <1>1. c.class = "EditPattern" /\ c.block = k /\ c.value = value
    BY CommandFields
  <1> HIDE DEF c
  <1>2. /\ track[k].length_ticks \in Nat /\ track[k].length_ticks >= 1
        /\ track[k].events \in Seq(Event) /\ EventsInOrder(track[k])
        /\ k < Len(track) => EndTime(track[k]) <= track[k + 1].begin_tick
    <2>1. \A j \in 1 .. Len(track) : BlockOk(track[j])
      BY TrackOkIs
    <2>2. \A j \in 1 .. Len(track) : j > 1 => EndTime(track[j - 1]) <= track[j].begin_tick
      BY TrackOkIs
    <2>3. ASSUME k < Len(track) PROVE EndTime(track[k]) <= track[k + 1].begin_tick
      <3>1. k + 1 \in 1 .. Len(track) /\ k + 1 > 1 /\ k + 1 - 1 = k
        BY <2>3
      <3> QED
        BY <2>2, <3>1
    <2> QED
      BY <2>1, <2>3, BlockFields DEF BlockOk
  <1>3. value.length_ticks = length /\ value.events = track[k].events
    OBVIOUS
  <1>4. value \in PatternValues
    BY <1>2 DEF PatternValues
  <1>5. EventsInOrder(value)
    <2> DEFINE events == track[k].events
    <2>1. \A i \in 1 .. Len(events) : events[i].anchor_tick \in Nat
      BY <1>2, EventFields
    <2>2. DOMAIN events = 1 .. Len(events)
      BY <1>2
    <2>3. \A i \in DOMAIN events : /\ events[i].v # {} /\ ~({"note", "cut"} \subseteq events[i].v)
                                   /\ events[i].anchor_tick < track[k].length_ticks
      BY <1>2 DEF EventsInOrder
    <2>4. \A i \in DOMAIN events : i > 1 => events[i - 1].anchor_tick < events[i].anchor_tick
      BY <1>2 DEF EventsInOrder
    <2> HIDE DEF events
    <2>5. \A i \in DOMAIN events : events[i].anchor_tick < length
      BY <1>2, <2>1, <2>2, <2>3
    <2>6. value.events = events /\ value.length_ticks = length
      BY <1>3 DEF events
    <2> QED
      BY <2>3, <2>4, <2>5, <2>6 DEF EventsInOrder
  <1>6. ASSUME k < Len(track)
        PROVE  track[k].begin_tick + track[k].loop_count * value.length_ticks
                 <= track[k + 1].begin_tick
    BY <1>2, <1>3, <1>6 DEF EndTime
  <1>7. EditPatternOk(track, c)
    BY <1>1, <1>4, <1>5, <1>6 DEF EditPatternOk
  <1> QED
    BY <1>3, <1>7 DEF MadeOf, c

LEMMA PatternHereOk ==
  ASSUME NEW track \in Track, TrackOk(track), NEW now \in Nat, ~SnappedLater(track, now)
  PROVE  LET p == PatternAt(track, now)
         IN  MadeOf(track, CreateOrEdit("EditPattern", p.block, PatternOf(track[p.block]),
                                        now - PatternBegin(track, p)))
  <1> DEFINE p == PatternAt(track, now)
             k == p.block
             rel == now - PatternBegin(track, p)
             length == track[k].length_ticks
             value == PatternOf(track[k])
  <1>1. /\ k \in 1 .. Len(track) /\ PatternBegin(track, p) \in Int
        /\ PatternBegin(track, p) <= now /\ now < PatternBegin(track, p) + length
    BY PatternAtIs
  <1>2. length \in Nat
    BY <1>1, BlockFields
  <1>3. rel \in Nat /\ rel < length
    <2> HIDE DEF length, p
    <2> QED
      BY <1>1, <1>2
  <1>4. value = [length_ticks |-> length, events |-> track[k].events]
    BY DEF PatternOf
  <1>5. MadeOf(track, CreateOrEdit("EditPattern", k, value, rel))
    <2> HIDE DEF k, rel, value
    <2>1. length >= track[k].length_ticks
      BY <1>2
    <2> QED
      BY <1>1, <1>2, <1>3, <1>4, <2>1, PatternMadeOf
  <1> QED
    BY <1>5

LEMMA ExtendAboveOk ==
  ASSUME NEW opts, OptionsOk(opts), NEW track \in Track, TrackOk(track), NEW now \in Nat,
         SnappedLater(track, now), BlockAt(track, now) > 1,
         track[BlockAt(track, now) - 1].loop_count = 1
  PROVE  MadeOf(track, ExtendAbove(opts, track, now))
  <1> DEFINE k == BlockAt(track, now) - 1
             begin == track[k].begin_tick
             end == GapEnd(opts, track, now)
             length == end - begin
             rel == now - begin
             value == [length_ticks |-> length, events |-> track[k].events]
  <1>1. /\ BlockAt(track, now) \in 1 .. Len(track) + 1 /\ k \in 1 .. Len(track)
        /\ end \in Nat /\ now < end /\ EndTime(track[k]) <= now
        /\ BlockAt(track, now) <= Len(track) => end <= track[BlockAt(track, now)].begin_tick
    BY GapIs
  <1>2. begin \in Nat /\ track[k].loop_count = 1 /\ track[k].length_ticks \in Nat
        /\ EndTime(track[k]) = begin + track[k].length_ticks
    BY <1>1, BlockFields DEF EndTime
  <1>3. Len(track) \in Nat
    BY DEF Track
  <1>4. ExtendAbove(opts, track, now) = CreateOrEdit("EditPattern", k, value, rel)
    BY DEF ExtendAbove
  <1>5. k < Len(track) => end <= track[k + 1].begin_tick
    BY <1>1, <1>3
  <1> HIDE DEF k, end
  <1>6. length \in Nat /\ length >= track[k].length_ticks /\ rel \in Nat /\ rel < length
    <2> DEFINE old == track[k].length_ticks
    <2>1. old \in Nat /\ begin + old <= now
      BY <1>1, <1>2
    <2>2. begin \in Nat /\ end \in Nat /\ now < end
      BY <1>1, <1>2
    <2> HIDE DEF old, begin
    <2>3. length \in Nat /\ length >= old /\ rel \in Nat /\ rel < length
      BY <2>1, <2>2
    <2> QED
      BY <2>3 DEF old
  <1>7. ASSUME k < Len(track)
        PROVE  begin + track[k].loop_count * length <= track[k + 1].begin_tick
    BY <1>1, <1>2, <1>5, <1>7
  <1>8. MadeOf(track, CreateOrEdit("EditPattern", k, value, rel))
    <2> HIDE DEF length, rel
    <2> QED
      BY <1>1, <1>6, <1>7, PatternMadeOf
  <1> QED
    BY <1>4, <1>8

LEMMA TryCreateBlockOk ==
  ASSUME NEW opts, OptionsOk(opts), NEW track \in Track, TrackOk(track), NEW now \in Nat,
         SnappedLater(track, now), NEW begin \in Nat, begin <= now,
         BlockAt(track, now) > 1 => EndTime(track[BlockAt(track, now) - 1]) <= begin
  PROVE  LET made == TryCreateBlock(opts, track, now, begin)
         IN  made = None \/ MadeOf(track, made)
  <1> DEFINE k == BlockAt(track, now)
             end == GapEnd(opts, track, now)
             length == end - begin
             rel == now - begin
             value == [begin_tick |-> begin, loop_count |-> 1, length_ticks |-> length,
                       events |-> <<>>]
             c == Command("AddBlock", k, value)
  <1>1. /\ k \in 1 .. Len(track) + 1 /\ end \in Nat /\ now < end
        /\ k <= Len(track) => end <= track[k].begin_tick
    BY GapIs
  <1>2. CASE Len(track) >= MAX_BLOCKS_PER_TRACK
    BY <1>2 DEF TryCreateBlock
  <1>3. CASE ~(Len(track) >= MAX_BLOCKS_PER_TRACK)
    <2>1. TryCreateBlock(opts, track, now, begin) = CreateOrEdit("AddBlock", k, value, rel)
      BY <1>3 DEF TryCreateBlock
    <2>2. length \in Nat \ {0} /\ rel \in Nat /\ rel < length /\ begin + 1 * length = end
      <3> HIDE DEF end
      <3> QED
        BY <1>1
    <2>3. Len(track) \in Nat /\ Len(track) < MAX_BLOCKS_PER_TRACK
      BY <1>3, MaxBlocksAssumption DEF Track
    <2>4. c.class = "AddBlock" /\ c.block = k /\ c.value = value
      BY CommandFields
    <2>5. value \in Block /\ value.events = <<>> /\ value.length_ticks = length
          /\ value.begin_tick = begin /\ EndTime(value) = end
      <3>1. <<>> \in Seq(Event)
        OBVIOUS
      <3> HIDE DEF length, end
      <3> QED
        BY <2>2, <3>1 DEF Block, EndTime
    <2> HIDE DEF k, end, length, rel, value, c
    <2>6. EventsInOrder(value) /\ Len(value.events) <= MAX_EVENTS_PER_PATTERN
      <3>1. DOMAIN value.events = {} /\ Len(value.events) = 0
        BY <2>5
      <3> QED
        BY <3>1, MaxEventsAssumption DEF EventsInOrder
    <2>7. k > 1 => EndTime(track[k - 1]) <= begin
      BY DEF k
    <2>8. AddBlockOk(track, c)
      BY <1>1, <2>3, <2>4, <2>5, <2>6, <2>7 DEF AddBlockOk
    <2> QED
      BY <2>1, <2>2, <2>5, <2>8 DEF MadeOf, c
  <1> QED
    BY <1>2, <1>3

LEMMA TryMakeInGapOk ==
  ASSUME NEW opts, OptionsOk(opts), NEW track \in Track, TrackOk(track), NEW now \in Nat,
         SnappedLater(track, now), NEW mode
  PROVE  LET made == TryMakeInGap(opts, track, now, mode)
         IN  made = None \/ MadeOf(track, made)
  <1> DEFINE k == BlockAt(track, now)
             above == k > 1
             above_unlooped == above /\ track[k - 1].loop_count = 1
             begin == IF above THEN EndTime(track[k - 1]) ELSE 0
             made == TryMakeInGap(opts, track, now, mode)
             new == TryCreateBlock(opts, track, now, begin)
             new_in_measure == TryCreateBlock(opts, track, now, GapBegin(opts, track, now))
  <1>1. \/ above_unlooped /\ made = ExtendAbove(opts, track, now)
        \/ made = new \/ made = new_in_measure
    BY DEF TryMakeInGap
  <1>2. /\ GapBegin(opts, track, now) \in Nat /\ GapBegin(opts, track, now) <= now
        /\ above => k - 1 \in 1 .. Len(track) /\ EndTime(track[k - 1]) <= now
                    /\ EndTime(track[k - 1]) <= GapBegin(opts, track, now)
    BY GapIs
  <1>3. above_unlooped => MadeOf(track, ExtendAbove(opts, track, now))
    BY ExtendAboveOk
  <1>4. new_in_measure = None \/ MadeOf(track, new_in_measure)
    BY <1>2, TryCreateBlockOk
  <1>5. begin \in Nat /\ begin <= now /\ (above => EndTime(track[k - 1]) <= begin)
    BY <1>2, BlockFields
  <1>6. new = None \/ MadeOf(track, new)
    <2> HIDE DEF begin
    <2> QED
      BY <1>5, TryCreateBlockOk
  <1> HIDE DEF made, new, new_in_measure, above_unlooped
  <1>7. made = None \/ MadeOf(track, made)
    BY <1>1, <1>3, <1>4, <1>6
  <1> QED
    BY <1>7 DEF made

LEMMA TryMakeOk ==
  ASSUME NEW opts, OptionsOk(opts), NEW track \in Track, TrackOk(track), NEW now \in Nat,
         NEW mode
  PROVE  LET made == TryMake(opts, track, now, mode)
         IN  made = None \/ MadeOf(track, made)
  <1>1. CASE SnappedLater(track, now)
    BY <1>1, TryMakeInGapOk DEF TryMake
  <1>2. CASE ~SnappedLater(track, now)
    BY <1>2, PatternHereOk DEF TryMake
  <1> QED
    BY <1>1, <1>2

-----------------------------------------------------------------------------
(* Setting fields of an event.                                             *)

Good(e) == e.v # {} /\ ~({"note", "cut"} \subseteq e.v)

EventsOk(events, length) ==
  /\ \A k \in 1 .. Len(events) : Good(events[k]) /\ events[k].anchor_tick < length
  /\ \A k \in 1 .. Len(events) : k > 1 => events[k - 1].anchor_tick < events[k].anchor_tick

LEMMA EventsInOrderIs ==
  ASSUME NEW block, block.events \in Seq(Event)
  PROVE  EventsInOrder(block) <=> EventsOk(block.events, block.length_ticks)
  <1>1. DOMAIN block.events = 1 .. Len(block.events)
    OBVIOUS
  <1> QED
    BY <1>1, Zenon DEF EventsInOrder, EventsOk, Good

(* The events with the one that GetOrInsert() found or made, at k.         *)
WithEventAt(new, k, t, length) ==
  /\ k \in 1 .. Len(new) /\ new[k].anchor_tick = t
  /\ ~({"note", "cut"} \subseteq new[k].v)
  /\ \A j \in 1 .. Len(new) : new[j].anchor_tick < length
  /\ \A j \in 1 .. Len(new) : j # k => Good(new[j])
  /\ \A j \in 1 .. Len(new) : j > 1 => new[j - 1].anchor_tick < new[j].anchor_tick

LEMMA InsertedIs ==
  ASSUME NEW events \in Seq(Event), NEW length \in Nat, EventsOk(events, length),
         NEW t \in Nat, t < length, ~HasEventAt(events, t)
  PROVE  LET i == TickEnd(events, t)
             new == InsertAt(events, i, [anchor_tick |-> t, v |-> {}])
         IN  /\ new \in Seq(Event) /\ Len(new) = Len(events) + 1
             /\ TickEnd(new, t) = i + 1
             /\ WithEventAt(new, i, t, length)
  <1> DEFINE n == Len(events)
             i == TickEnd(events, t)
             e == [anchor_tick |-> t, v |-> {}]
             new == InsertAt(events, i, e)
             tick(j) == events[j].anchor_tick
  <1>1. n \in Nat /\ e \in Event /\ e.anchor_tick = t /\ e.v = {}
    BY DEF Event
  <1>2. /\ i \in 1 .. n + 1
        /\ i <= n => t < tick(i)
        /\ \A j \in 1 .. n : j < i => tick(j) <= t
    <2>1. t \in Int
      OBVIOUS
    <2> QED
      BY <2>1, TickEndIs, Zenon
  <1>3. \A j \in 1 .. n : tick(j) \in Nat
    BY EventFields
  <1>4. \A j, m \in 1 .. n : j < m => tick(j) < tick(m)
    <2>1. DOMAIN events = 1 .. n
      OBVIOUS
    <2>2. \A k \in DOMAIN events : k > 1 => events[k - 1].anchor_tick < events[k].anchor_tick
      BY <2>1 DEF EventsOk
    <2> QED
      BY <2>2, EventsOrdered
  <1>5. i > 1 => tick(i - 1) # t
    BY <1>2 DEF HasEventAt
  <1> HIDE DEF i, e
  <1>6. /\ new \in Seq(Event) /\ Len(new) = n + 1
        /\ \A j \in 1 .. n + 1 :
             new[j] = IF j < i THEN events[j] ELSE IF j = i THEN e ELSE events[j - 1]
    BY <1>1, <1>2, InsertAtShape
  <1>7. ASSUME NEW j \in 1 .. n
        PROVE  /\ j < i => tick(j) < t
               /\ j >= i => tick(j) > t
    <2>1. CASE j < i
      <3>1. i > 1 /\ i - 1 \in 1 .. n /\ tick(i - 1) < t
        <4>1. i > 1 /\ i - 1 \in 1 .. n
          BY <1>1, <1>2, <2>1
        <4>2. tick(i - 1) <= t /\ tick(i - 1) # t /\ tick(i - 1) \in Nat
          BY <1>2, <1>3, <1>5, <4>1
        <4> HIDE DEF tick
        <4> QED
          BY <4>1, <4>2
      <3>2. j = i - 1 \/ tick(j) < tick(i - 1)
        BY <1>2, <1>4, <2>1, <3>1
      <3> HIDE DEF tick
      <3> QED
        BY <1>2, <1>3, <2>1, <3>1, <3>2
    <2>2. CASE j >= i
      <3>1. i \in 1 .. n /\ t < tick(i)
        BY <1>1, <1>2, <2>2
      <3>2. j = i \/ tick(i) < tick(j)
        BY <1>2, <1>4, <2>2, <3>1
      <3> HIDE DEF tick
      <3> QED
        BY <1>2, <1>3, <2>2, <3>1, <3>2
    <2> QED
      BY <1>2, <2>1, <2>2
  <1> HIDE DEF n, new
  <1>8. ASSUME NEW j \in 1 .. n + 1
        PROVE  \/ j < i /\ j \in 1 .. n /\ new[j] = events[j]
               \/ j = i /\ new[j] = e
               \/ j > i /\ j - 1 \in 1 .. n /\ new[j] = events[j - 1] /\ j - 1 >= i
    BY <1>1, <1>2, <1>6
  <1>9. TickEnd(new, t) = i + 1
    <2> DEFINE m == TickEnd(new, t)
    <2>1. /\ m \in 1 .. n + 1 + 1
          /\ m <= n + 1 => t < new[m].anchor_tick
          /\ \A j \in 1 .. n + 1 : j < m => new[j].anchor_tick <= t
      <3>1. t \in Int /\ new \in Seq(Event)
        BY <1>6
      <3>2. /\ m \in 1 .. Len(new) + 1
            /\ m <= Len(new) => t < new[m].anchor_tick
            /\ \A j \in 1 .. Len(new) : j < m => new[j].anchor_tick <= t
        BY <3>1, TickEndIs, Zenon
      <3> HIDE DEF m
      <3> QED
        BY <1>6, <3>2
    <2> HIDE DEF m
    <2>2. CASE m < i
      <3>1. m \in 1 .. n + 1 /\ m \in 1 .. n /\ new[m] = events[m]
        BY <1>1, <1>2, <1>6, <2>1, <2>2
      <3>2. t < tick(m) /\ tick(m) < t
        BY <1>7, <2>1, <2>2, <3>1
      <3> QED
        BY <1>3, <3>1, <3>2
    <2>3. CASE m = i
      <3>1. new[i] = e /\ i \in 1 .. n + 1
        BY <1>2, <1>6
      <3>2. t < t
        BY <1>1, <2>1, <2>3, <3>1
      <3> QED
        BY <3>2
    <2>4. CASE m > i + 1
      <3>1. i + 1 \in 1 .. n + 1 /\ i \in 1 .. n /\ new[i + 1] = events[i]
        BY <1>1, <1>2, <1>6, <2>1, <2>4
      <3>2. tick(i) <= t /\ tick(i) > t
        BY <1>7, <2>1, <2>4, <3>1
      <3> QED
        BY <1>3, <3>1, <3>2
    <2> QED
      BY <1>1, <1>2, <2>1, <2>2, <2>3, <2>4 DEF m
  <1>10. i \in 1 .. Len(new) /\ new[i].anchor_tick = t /\ ~({"note", "cut"} \subseteq new[i].v)
    BY <1>1, <1>2, <1>6
  <1>11. ASSUME NEW j \in 1 .. n + 1
         PROVE  new[j].anchor_tick < length /\ (j # i => Good(new[j]))
    <2>1. \A h \in 1 .. n : Good(events[h]) /\ events[h].anchor_tick < length
      BY DEF EventsOk, n
    <2> QED
      BY <1>1, <1>8, <2>1
  <1>12. ASSUME NEW j \in 1 .. n + 1, j > 1
         PROVE  new[j - 1].anchor_tick < new[j].anchor_tick
    <2>1. j - 1 \in 1 .. n + 1 /\ j \in Nat /\ i \in Nat
      BY <1>1, <1>2, <1>12
    <2>2. CASE j < i
      <3>1. new[j] = events[j] /\ new[j - 1] = events[j - 1] /\ j - 1 \in 1 .. n /\ j \in 1 .. n
        BY <1>1, <1>2, <1>6, <2>1, <2>2
      <3> QED
        BY <1>4, <2>1, <3>1
    <2>3. CASE j = i
      <3>1. new[j] = e /\ new[j - 1] = events[j - 1] /\ j - 1 \in 1 .. n /\ j - 1 < i
        BY <1>1, <1>2, <1>6, <2>1, <2>3
      <3> QED
        BY <1>1, <1>7, <3>1
    <2>4. CASE j = i + 1
      <3>1. new[j] = events[i] /\ new[j - 1] = e /\ i \in 1 .. n
        BY <1>1, <1>2, <1>6, <2>1, <2>4
      <3>2. tick(i) > t
        BY <1>2, <1>7, <3>1
      <3>3. tick(i) \in Nat
        BY <1>3, <3>1
      <3> QED
        BY <1>1, <3>1, <3>2, <3>3
    <2>5. CASE j > i + 1
      <3>1. new[j] = events[j - 1] /\ new[j - 1] = events[j - 1 - 1]
            /\ j - 1 \in 1 .. n /\ j - 1 - 1 \in 1 .. n /\ j - 1 - 1 < j - 1
        BY <1>1, <1>2, <1>6, <2>1, <2>5
      <3> QED
        BY <1>4, <3>1
    <2> QED
      BY <2>1, <2>2, <2>3, <2>4, <2>5
  <1>13. WithEventAt(new, i, t, length)
    BY <1>6, <1>10, <1>11, <1>12 DEF WithEventAt
  <1> QED
    BY <1>6, <1>9, <1>13 DEF new, i, n, e

LEMMA GetOrInsertIs ==
  ASSUME NEW events \in Seq(Event), NEW length \in Nat, EventsOk(events, length),
         NEW t \in Nat, t < length
  PROVE  LET new == GetOrInsert(events, t)
         IN  /\ new \in Seq(Event) /\ Len(new) <= Len(events) + 1
             /\ WithEventAt(new, TickEnd(new, t) - 1, t, length)
  <1>1. CASE HasEventAt(events, t)
    <2> DEFINE k == TickEnd(events, t) - 1
    <2>1. GetOrInsert(events, t) = events
      BY <1>1 DEF GetOrInsert
    <2>2. k \in 1 .. Len(events) /\ events[k].anchor_tick = t /\ Len(events) \in Nat
      <3>1. TickEnd(events, t) \in 1 .. Len(events) + 1 /\ k > 0 /\ events[k].anchor_tick = t
        BY <1>1, TickEndIs DEF HasEventAt
      <3>2. Len(events) \in Nat
        OBVIOUS
      <3> QED
        BY <3>1, <3>2
    <2> HIDE DEF k
    <2>3. WithEventAt(events, k, t, length)
      BY <2>2 DEF EventsOk, Good, WithEventAt
    <2> QED
      BY <2>1, <2>2, <2>3 DEF k
  <1>2. CASE ~HasEventAt(events, t)
    <2> DEFINE i == TickEnd(events, t)
               new == InsertAt(events, i, [anchor_tick |-> t, v |-> {}])
    <2>1. GetOrInsert(events, t) = new
      BY <1>2 DEF GetOrInsert
    <2>2. new \in Seq(Event) /\ Len(new) = Len(events) + 1 /\ TickEnd(new, t) = i + 1
          /\ WithEventAt(new, i, t, length)
      BY <1>2, InsertedIs
    <2>3. i \in Int
      BY TickEndIs
    <2> HIDE DEF i, new
    <2>4. TickEnd(new, t) - 1 = i /\ Len(new) <= Len(events) + 1
      BY <2>2, <2>3
    <2> QED
      BY <2>1, <2>2, <2>4
  <1> QED
    BY <1>1, <1>2


(* Which fields an edit drops and sets: never a note and a cut, and        *)
(* something.                                                              *)
FieldsOk(dropped, set) ==
  /\ set \in SUBSET Fields /\ set # {}
  /\ \/ {"note", "cut"} \subseteq dropped /\ ~({"note", "cut"} \subseteq set)
     \/ "note" \notin set /\ "cut" \notin set

FieldsSet(new, k, dropped, set) == [new EXCEPT ![k].v = (@ \ dropped) \cup set]

LEMMA FieldsSetIs ==
  ASSUME NEW new \in Seq(Event), NEW k, NEW t, NEW length, WithEventAt(new, k, t, length),
         NEW dropped, NEW set, FieldsOk(dropped, set)
  PROVE  /\ FieldsSet(new, k, dropped, set) \in Seq(Event)
         /\ Len(FieldsSet(new, k, dropped, set)) = Len(new)
         /\ EventsOk(FieldsSet(new, k, dropped, set), length)
  <1> DEFINE old == new[k]
             fields == (old.v \ dropped) \cup set
             e == [anchor_tick |-> old.anchor_tick, v |-> fields]
             edited == [new EXCEPT ![k] = e]
  <1>1. /\ k \in 1 .. Len(new) /\ ~({"note", "cut"} \subseteq old.v)
        /\ \A j \in 1 .. Len(new) : new[j].anchor_tick < length
        /\ \A j \in 1 .. Len(new) : j # k => Good(new[j])
        /\ \A j \in 1 .. Len(new) : j > 1 => new[j - 1].anchor_tick < new[j].anchor_tick
        /\ Len(new) \in Nat /\ DOMAIN new = 1 .. Len(new)
    BY DEF WithEventAt
  <1>2. old \in Event /\ old.anchor_tick \in Nat /\ old.v \in SUBSET Fields
    BY <1>1, EventFields
  <1>3. FieldsSet(new, k, dropped, set) = edited
    <2>1. old = [anchor_tick |-> old.anchor_tick, v |-> old.v]
      BY <1>2 DEF Event
    <2>2. FieldsSet(new, k, dropped, set) = [new EXCEPT ![k] = [old EXCEPT !.v = fields]]
      BY <1>1 DEF FieldsSet
    <2>3. [old EXCEPT !.v = fields] = e
      <3> HIDE DEF fields, old
      <3> QED
        BY <2>1
    <2> QED
      BY <2>2, <2>3
  <1>4. e \in Event /\ Good(e)
    <2>1. set \in SUBSET Fields /\ set # {}
      BY DEF FieldsOk
    <2>2. fields \in SUBSET Fields /\ fields # {}
      <3> HIDE DEF old
      <3> QED
        BY <1>2, <2>1
    <2>3. ~({"note", "cut"} \subseteq fields)
      <3> HIDE DEF old
      <3> QED
        BY <1>1 DEF FieldsOk
    <2> HIDE DEF fields, old
    <2> QED
      BY <1>2, <2>2, <2>3 DEF Event, Good
  <1>5. /\ edited \in Seq(Event) /\ Len(edited) = Len(new)
        /\ \A j \in 1 .. Len(new) : edited[j] = IF j = k THEN e ELSE new[j]
    <2> HIDE DEF e
    <2> QED
      BY <1>1, <1>4, ExceptSeq
  <1>6. e.anchor_tick = new[k].anchor_tick
    OBVIOUS
  <1> HIDE DEF e, edited
  <1>7. \A j \in 1 .. Len(new) : edited[j].anchor_tick = new[j].anchor_tick
    BY <1>5, <1>6
  <1>8. \A j \in 1 .. Len(new) : Good(edited[j]) /\ edited[j].anchor_tick < length
    BY <1>1, <1>4, <1>5, <1>7
  <1>9. ASSUME NEW j \in 1 .. Len(new), j > 1
        PROVE  edited[j - 1].anchor_tick < edited[j].anchor_tick
    <2>1. j - 1 \in 1 .. Len(new)
      BY <1>1, <1>9
    <2> QED
      BY <1>1, <1>7, <1>9, <2>1
  <1>10. EventsOk(edited, length)
    BY <1>5, <1>8, <1>9 DEF EventsOk
  <1> QED
    BY <1>3, <1>5, <1>10

(* A command whose value's events are changed.                             *)
LEMMA EventsOfPatternValue ==
  ASSUME NEW value \in PatternValues, NEW events \in Seq(Event),
         EventsOk(events, value.length_ticks)
  PROVE  LET new == [value EXCEPT !.events = events]
         IN  /\ new \in PatternValues /\ new.length_ticks = value.length_ticks
             /\ new.events = events /\ EventsInOrder(new)
  <1> DEFINE new == [length_ticks |-> value.length_ticks, events |-> events]
  <1>1. value = [length_ticks |-> value.length_ticks, events |-> value.events]
        /\ value.length_ticks \in Nat \ {0}
    BY DEF PatternValues
  <1>2. [value EXCEPT !.events = events] = new
    BY <1>1
  <1>3. new \in PatternValues /\ new.length_ticks = value.length_ticks /\ new.events = events
    BY <1>1 DEF PatternValues
  <1> HIDE DEF new
  <1>4. EventsInOrder(new)
    BY <1>3, EventsInOrderIs
  <1> QED
    BY <1>2, <1>3, <1>4

LEMMA EventsOfBlock ==
  ASSUME NEW value \in Block, NEW events \in Seq(Event), EventsOk(events, value.length_ticks)
  PROVE  LET new == [value EXCEPT !.events = events]
         IN  /\ new \in Block /\ new.begin_tick = value.begin_tick
             /\ EndTime(new) = EndTime(value)
             /\ new.events = events /\ EventsInOrder(new)
  <1> DEFINE new == [begin_tick |-> value.begin_tick, loop_count |-> value.loop_count,
                     length_ticks |-> value.length_ticks, events |-> events]
  <1>1. value = [begin_tick |-> value.begin_tick, loop_count |-> value.loop_count,
                 length_ticks |-> value.length_ticks, events |-> value.events]
        /\ value.begin_tick \in Nat /\ value.loop_count \in Nat \ {0}
        /\ value.length_ticks \in Nat \ {0}
    BY DEF Block
  <1>2. [value EXCEPT !.events = events] = new
    BY <1>1
  <1>3. new \in Block /\ new.begin_tick = value.begin_tick /\ new.events = events
        /\ new.length_ticks = value.length_ticks /\ EndTime(new) = EndTime(value)
    BY <1>1 DEF Block, EndTime
  <1> HIDE DEF new
  <1>4. EventsInOrder(new)
    BY <1>3, EventsInOrderIs
  <1> QED
    BY <1>2, <1>3, <1>4

LEMMA EditedPatternOk ==
  ASSUME NEW track \in Track, NEW k, NEW value,
         EditPatternOk(track, Command("EditPattern", k, value)),
         NEW events \in Seq(Event), EventsOk(events, value.length_ticks)
  PROVE  CommandOk(track, Command("EditPattern", k, [value EXCEPT !.events = events]))
  <1> DEFINE c == Command("EditPattern", k, value)
             new == [value EXCEPT !.events = events]
             d == Command("EditPattern", k, new)
  <1>1. /\ c.class = "EditPattern" /\ c.block = k /\ c.value = value
        /\ d.class = "EditPattern" /\ d.block = k /\ d.value = new
    BY CommandFields
  <1> HIDE DEF c, d
  <1>2. EditPatternOk(track, c)
    BY DEF c
  <1>3. /\ k \in 1 .. Len(track) /\ value \in PatternValues
        /\ k < Len(track) =>
             track[k].begin_tick + track[k].loop_count * value.length_ticks
               <= track[k + 1].begin_tick
    BY <1>1, <1>2 DEF EditPatternOk
  <1>4. new \in PatternValues /\ new.length_ticks = value.length_ticks /\ EventsInOrder(new)
    BY <1>3, EventsOfPatternValue
  <1> HIDE DEF new
  <1>5. EditPatternOk(track, d)
    BY <1>1, <1>3, <1>4 DEF EditPatternOk
  <1> QED
    BY <1>5 DEF CommandOk, d, new

LEMMA EditedBlockOk ==
  ASSUME NEW track \in Track, NEW k, NEW value,
         AddBlockOk(track, Command("AddBlock", k, value)),
         NEW events \in Seq(Event), EventsOk(events, value.length_ticks), Len(events) <= 1
  PROVE  CommandOk(track, Command("AddBlock", k, [value EXCEPT !.events = events]))
  <1> DEFINE c == Command("AddBlock", k, value)
             new == [value EXCEPT !.events = events]
             d == Command("AddBlock", k, new)
  <1>1. /\ c.class = "AddBlock" /\ c.block = k /\ c.value = value
        /\ d.class = "AddBlock" /\ d.block = k /\ d.value = new
    BY CommandFields
  <1> HIDE DEF c, d
  <1>2. AddBlockOk(track, c)
    BY DEF c
  <1>3. /\ k \in 1 .. Len(track) + 1 /\ value \in Block /\ Len(track) < MAX_BLOCKS_PER_TRACK
        /\ k > 1 => EndTime(track[k - 1]) <= value.begin_tick
        /\ k <= Len(track) => EndTime(value) <= track[k].begin_tick
    BY <1>1, <1>2 DEF AddBlockOk
  <1>4. /\ new \in Block /\ new.begin_tick = value.begin_tick /\ EndTime(new) = EndTime(value)
        /\ new.events = events /\ EventsInOrder(new)
    BY <1>3, EventsOfBlock
  <1>5. Len(new.events) <= MAX_EVENTS_PER_PATTERN
    <2>1. Len(events) \in Nat /\ new.events = events
      BY <1>4
    <2> HIDE DEF new
    <2> QED
      BY <2>1, MaxEventsAssumption
  <1> HIDE DEF new
  <1>6. AddBlockOk(track, d)
    BY <1>1, <1>3, <1>4, <1>5 DEF AddBlockOk
  <1> QED
    BY <1>6 DEF CommandOk, d, new

LEMMA SettingFieldsOk ==
  ASSUME NEW track \in Track, NEW made, MadeOf(track, made), NEW dropped, NEW set,
         FieldsOk(dropped, set)
  PROVE  CommandOk(track, SettingFields(made, dropped, set))
  <1>1. PICK class, block, value, t :
          /\ made = CreateOrEdit(class, block, value, t)
          /\ t \in Nat /\ t < value.length_ticks
          /\ \/ EditPatternOk(track, Command(class, block, value))
             \/ AddBlockOk(track, Command(class, block, value)) /\ value.events = <<>>
    BY DEF MadeOf
  <1> DEFINE c == Command(class, block, value)
             new == GetOrInsert(value.events, t)
             k == TickEnd(new, t) - 1
             events == FieldsSet(new, k, dropped, set)
  <1>2. c.class = class /\ c.block = block /\ c.value = value
    BY CommandFields
  <1>3. /\ value.events \in Seq(Event) /\ value.length_ticks \in Nat
        /\ EventsInOrder(value)
    <2>1. CASE EditPatternOk(track, c)
      BY <1>2, <2>1 DEF EditPatternOk, PatternValues
    <2>2. CASE AddBlockOk(track, c)
      BY <1>2, <2>2 DEF AddBlockOk, Block
    <2> QED
      BY <1>1, <2>1, <2>2
  <1>4. made.command = c /\ made.rel_tick = t
    BY <1>1 DEF CreateOrEdit
  <1>5. SettingFields(made, dropped, set) = Command(class, block, [value EXCEPT !.events = events])
    <2>1. SettingFields(made, dropped, set) = [c EXCEPT !.value.events = events]
      BY <1>2, <1>4 DEF SettingFields, FieldsSet
    <2> HIDE DEF events, c
    <2>2. c = [class |-> class, block |-> block, value |-> value]
      BY DEF c, Command
    <2>3. [c EXCEPT !.value.events = events]
            = [class |-> class, block |-> block, value |-> [value EXCEPT !.events = events]]
      BY <2>2
    <2> QED
      BY <2>1, <2>3 DEF Command
  <1>6. EventsOk(value.events, value.length_ticks)
    BY <1>3, EventsInOrderIs
  <1>7. new \in Seq(Event) /\ Len(new) <= Len(value.events) + 1
        /\ WithEventAt(new, k, t, value.length_ticks)
    BY <1>1, <1>3, <1>6, GetOrInsertIs
  <1> HIDE DEF new, k
  <1>8. events \in Seq(Event) /\ Len(events) = Len(new) /\ EventsOk(events, value.length_ticks)
    BY <1>7, FieldsSetIs
  <1> HIDE DEF events
  <1>9. CASE EditPatternOk(track, c)
    <2>1. class = "EditPattern"
      BY <1>2, <1>9 DEF EditPatternOk
    <2> QED
      BY <1>5, <1>8, <1>9, <2>1, EditedPatternOk
  <1>10. CASE AddBlockOk(track, c) /\ value.events = <<>>
    <2>1. class = "AddBlock"
      BY <1>2, <1>10 DEF AddBlockOk
    <2>2. Len(events) <= 1
      BY <1>7, <1>8, <1>10
    <2> QED
      BY <1>5, <1>8, <1>10, <2>1, <2>2, EditedBlockOk
  <1> QED
    BY <1>1, <1>9, <1>10

-----------------------------------------------------------------------------
(* Deleting.                                                               *)

(* As EventsOk(), with events that are left empty.                         *)
MayErase(events, length) ==
  /\ \A k \in 1 .. Len(events) : /\ ~({"note", "cut"} \subseteq events[k].v)
                                 /\ events[k].anchor_tick < length
  /\ \A k \in 1 .. Len(events) : k > 1 => events[k - 1].anchor_tick < events[k].anchor_tick

Kept(f, events) ==
  f = [n \in 0 .. Len(events) |->
         IF n = 0 THEN <<>>
         ELSE IF events[n].v = {} THEN f[n - 1] ELSE Append(f[n - 1], events[n])]

LEMMA KeptExists ==
  ASSUME NEW events \in Seq(Event)
  PROVE  \E f : Kept(f, events)
  <1> DEFINE n == Len(events)
             S == Seq(Event)
             step == [p \in (Nat \ {0}) \X S |->
                        IF p[1] \in 1 .. n /\ events[p[1]].v # {} THEN Append(p[2], events[p[1]])
                        ELSE p[2]]
  <1>1. n \in Nat /\ <<>> \in S
    OBVIOUS
  <1>2. \A k \in 1 .. n : events[k] \in Event
    BY EventFields
  <1>3. step \in [(Nat \ {0}) \X S -> S]
    <2>1. \A p \in (Nat \ {0}) \X S :
            (IF p[1] \in 1 .. n /\ events[p[1]].v # {} THEN Append(p[2], events[p[1]]) ELSE p[2]) \in S
      BY <1>2, AppendProperties
    <2> HIDE DEF S
    <2> QED
      BY <2>1
  <1>4. \A k \in Nat \ {0}, s \in S :
          step[<<k, s>>] = IF k \in 1 .. n /\ events[k].v # {} THEN Append(s, events[k]) ELSE s
    OBVIOUS
  <1> HIDE DEF step, S, n
  <1>5. PICK f \in [0 .. n -> S] : Steps(f, n, <<>>, step)
    BY <1>1, <1>3, StepsExist
  <1>6. ASSUME NEW k \in 0 .. n
        PROVE  f[k] = IF k = 0 THEN <<>>
                      ELSE IF events[k].v = {} THEN f[k - 1] ELSE Append(f[k - 1], events[k])
    <2>1. CASE k = 0
      BY <1>5, <2>1 DEF Steps
    <2>2. CASE k # 0
      <3>1. f[k] = step[<<k, f[k - 1]>>]
        BY <1>5, <2>2 DEF Steps
      <3>2. k - 1 \in 0 .. n /\ k \in Nat \ {0} /\ k \in 1 .. n
        BY <1>1, <2>2
      <3>3. f[k - 1] \in S
        BY <1>5, <3>2
      <3> QED
        BY <1>4, <2>2, <3>1, <3>2, <3>3
    <2> QED
      BY <2>1, <2>2
  <1>7. f = [k \in 0 .. n |->
               IF k = 0 THEN <<>>
               ELSE IF events[k].v = {} THEN f[k - 1] ELSE Append(f[k - 1], events[k])]
    BY <1>5, <1>6
  <1> QED
    BY <1>7 DEF Kept, n

LEMMA EraseEmptyIs ==
  ASSUME NEW events \in Seq(Event), NEW length, MayErase(events, length)
  PROVE  EraseEmpty(events) \in Seq(Event) /\ EventsOk(EraseEmpty(events), length)
  <1> DEFINE f == CHOOSE f : Kept(f, events)
             N == Len(events)
             LastOk(n) == Len(f[n]) > 0 =>
                            /\ n > 0
                            /\ f[n][Len(f[n])].anchor_tick <= events[n].anchor_tick
             S == {n \in 0 .. N : f[n] \in Seq(Event) /\ EventsOk(f[n], length) /\ LastOk(n)}
  <1>1. EraseEmpty(events) = f[N]
    BY DEF EraseEmpty, Kept
  <1>2. Kept(f, events)
    <2>1. \E g : Kept(g, events)
      BY KeptExists
    <2> QED
      BY <2>1
  <1> HIDE DEF f
  <1>3. N \in Nat /\ \A k \in 1 .. N : events[k] \in Event /\ events[k].anchor_tick \in Nat
    BY EventFields
  <1>4. \A k \in 1 .. N : /\ ~({"note", "cut"} \subseteq events[k].v)
                          /\ events[k].anchor_tick < length
                          /\ k > 1 => events[k - 1].anchor_tick < events[k].anchor_tick
    BY DEF MayErase
  <1>5. f[0] = <<>>
    BY <1>2, <1>3 DEF Kept
  <1>6. ASSUME NEW k \in 1 .. N
        PROVE  f[k] = IF events[k].v = {} THEN f[k - 1] ELSE Append(f[k - 1], events[k])
    <2>1. k \in 0 .. N /\ k # 0
      BY <1>3
    <2> QED
      BY <1>2, <2>1 DEF Kept
  <1> HIDE DEF N
  <1>7. 0 \in S
    <2>1. f[0] \in Seq(Event) /\ Len(f[0]) = 0
      BY <1>5
    <2>2. EventsOk(f[0], length)
      BY <2>1 DEF EventsOk
    <2> QED
      BY <1>3, <2>1, <2>2
  <1>8. ASSUME NEW n \in 1 .. N, n - 1 \in S
        PROVE  n \in S
    <2> DEFINE old == f[n - 1]
               new == f[n]
               m == Len(old)
               e == events[n]
    <2>1. /\ old \in Seq(Event) /\ EventsOk(old, length) /\ m \in Nat
          /\ m > 0 => n - 1 > 0 /\ old[m].anchor_tick <= events[n - 1].anchor_tick
      BY <1>8
    <2>2. n \in 0 .. N /\ n > 0 /\ e \in Event /\ e.anchor_tick \in Nat
          /\ ~({"note", "cut"} \subseteq e.v) /\ e.anchor_tick < length
      BY <1>3, <1>4
    <2>3. m > 0 => old[m].anchor_tick < e.anchor_tick /\ old[m].anchor_tick \in Nat
      <3> SUFFICES ASSUME m > 0
                   PROVE  old[m].anchor_tick < e.anchor_tick /\ old[m].anchor_tick \in Nat
        OBVIOUS
      <3>1. n - 1 \in 1 .. N /\ n > 1
        BY <1>3, <2>1
      <3>2. events[n - 1].anchor_tick < e.anchor_tick /\ events[n - 1].anchor_tick \in Nat
        BY <1>3, <1>4, <3>1
      <3>3. m \in 1 .. Len(old)
        BY <2>1
      <3>4. old[m].anchor_tick \in Nat
        BY <2>1, <3>3, EventFields
      <3> HIDE DEF old, e, m
      <3> QED
        BY <2>1, <2>2, <3>2, <3>4
    <2>4. CASE e.v = {}
      <3>1. new = old
        BY <1>6, <2>4
      <3>2. Len(new) > 0 => n > 0 /\ new[Len(new)].anchor_tick <= e.anchor_tick
        <4> HIDE DEF old, new, e
        <4> QED
          BY <2>2, <2>3, <3>1
      <3>3. LastOk(n)
        BY <3>2
      <3> HIDE DEF LastOk
      <3> QED
        BY <2>1, <2>2, <3>1, <3>3
    <2>5. CASE e.v # {}
      <3>1. new = Append(old, e)
        BY <1>6, <2>5
      <3>2. /\ new \in Seq(Event) /\ Len(new) = m + 1
            /\ \A i \in 1 .. m : new[i] = old[i]
            /\ new[m + 1] = e
        <4> HIDE DEF old, e, new
        <4> QED
          BY <2>1, <2>2, <3>1, AppendProperties
      <3> HIDE DEF e, new
      <3>3. ASSUME NEW i \in 1 .. m + 1
            PROVE  Good(new[i]) /\ new[i].anchor_tick < length
        <4>1. CASE i = m + 1
          BY <2>2, <2>5, <3>2, <4>1 DEF Good
        <4>2. CASE i # m + 1
          <5>1. i \in 1 .. m
            BY <2>1, <4>2
          <5> QED
            BY <2>1, <3>2, <5>1 DEF EventsOk
        <4> QED
          BY <4>1, <4>2
      <3>4. ASSUME NEW i \in 1 .. m + 1, i > 1
            PROVE  new[i - 1].anchor_tick < new[i].anchor_tick
        <4>1. CASE i = m + 1
          <5>1. m > 0 /\ i - 1 = m /\ m \in 1 .. m
            BY <2>1, <3>4, <4>1
          <5> QED
            BY <2>3, <3>2, <4>1, <5>1
        <4>2. CASE i # m + 1
          <5>1. i \in 1 .. m /\ i - 1 \in 1 .. m
            BY <2>1, <3>4, <4>2
          <5> QED
            BY <2>1, <3>2, <3>4, <5>1 DEF EventsOk
        <4> QED
          BY <4>1, <4>2
      <3>5. EventsOk(new, length)
        BY <3>2, <3>3, <3>4 DEF EventsOk
      <3>6. n > 0 /\ new[Len(new)].anchor_tick <= e.anchor_tick
        BY <2>2, <3>2
      <3>7. LastOk(n)
        BY <3>6 DEF new, e
      <3> HIDE DEF LastOk
      <3>8. f[n] \in Seq(Event) /\ EventsOk(f[n], length)
        BY <3>2, <3>5 DEF new
      <3> QED
        BY <2>2, <3>7, <3>8
    <2> QED
      BY <2>4, <2>5
  <1>9. N \in S
    <2> HIDE DEF S
    <2>1. \A n \in 0 .. N : n \in S
      BY <1>3, <1>7, <1>8, CountUp
    <2> QED
      BY <1>3, <2>1
  <1> QED
    BY <1>1, <1>9

LEMMA DeleteCellOk ==
  ASSUME NEW track \in Track, TrackOk(track), NEW field, NEW now \in Nat
  PROVE  CommandOk(track, DeleteCell(track, field, now))
  <1>1. CASE SnappedLater(track, now)
    BY <1>1 DEF DeleteCell, CommandOk, NullEditCommand, Command
  <1>2. CASE ~SnappedLater(track, now)
    <2> DEFINE p == PatternAt(track, now)
               k == p.block
               value == PatternOf(track[k])
               rel_tick == now - PatternBegin(track, p)
               erased(e) == IF e.anchor_tick = rel_tick
                              THEN [e EXCEPT !.v = @ \ ErasedFields(field)] ELSE e
               events == value.events
               left == [j \in DOMAIN events |-> erased(events[j])]
    <2>1. DeleteCell(track, field, now)
            = Command("EditPattern", k, [value EXCEPT !.events = EraseEmpty(left)])
      BY <1>2 DEF DeleteCell
    <2>2. EditPatternOk(track, Command("EditPattern", k, value))
      <3>1. k \in 1 .. Len(track) /\ Len(track) \in Nat
        BY <1>2, PatternAtIs DEF Track
      <3>2. track[k].length_ticks \in Nat \ {0} /\ track[k].events \in Seq(Event)
            /\ BlockOk(track[k])
        BY <3>1, BlockFields, TrackOkIs
      <3>3. value.length_ticks = track[k].length_ticks /\ value.events = track[k].events
            /\ value \in PatternValues
        BY <3>2 DEF PatternOf, PatternValues
      <3>4. k < Len(track) => EndTime(track[k]) <= track[k + 1].begin_tick
        <4> SUFFICES ASSUME k < Len(track)
                     PROVE  EndTime(track[k]) <= track[k + 1].begin_tick
          OBVIOUS
        <4> HIDE DEF k
        <4> DEFINE m == k + 1
        <4>1. m \in 1 .. Len(track) /\ m > 1 /\ m - 1 = k
          BY <3>1
        <4>2. \A j \in 1 .. Len(track) : j > 1 => EndTime(track[j - 1]) <= track[j].begin_tick
          BY TrackOkIs
        <4> HIDE DEF m
        <4>3. EndTime(track[k]) <= track[m].begin_tick
          BY <4>1, <4>2
        <4> QED
          BY <4>3 DEF m
      <3>5. EventsInOrder(value)
        <4> HIDE DEF value, k
        <4> QED
          BY <3>2, <3>3 DEF BlockOk, EventsInOrder
      <3> HIDE DEF value, k
      <3> QED
        BY <3>1, <3>3, <3>4, <3>5 DEF EditPatternOk, Command, EndTime
    <2>3. events \in Seq(Event) /\ EventsInOrder(value)
      <3> HIDE DEF value, k
      <3> QED
        BY <2>2 DEF EditPatternOk, Command, PatternValues
    <2> HIDE DEF value, k, rel_tick
    <2>4. EventsOk(events, value.length_ticks)
      BY <2>3, EventsInOrderIs
    <2> HIDE DEF events
    <2>5. ASSUME NEW e \in Event
          PROVE  erased(e) \in Event /\ erased(e).anchor_tick = e.anchor_tick
                 /\ erased(e).v \subseteq e.v
      <3>1. CASE e.anchor_tick = rel_tick
        <4> DEFINE new == [anchor_tick |-> e.anchor_tick, v |-> e.v \ ErasedFields(field)]
        <4>1. e = [anchor_tick |-> e.anchor_tick, v |-> e.v] /\ e.anchor_tick \in Nat
              /\ e.v \in SUBSET Fields
          BY DEF Event
        <4>2. [e EXCEPT !.v = @ \ ErasedFields(field)] = new
          BY <4>1
        <4>3. erased(e) = new
          BY <3>1, <4>2
        <4>4. new \in Event /\ new.anchor_tick = e.anchor_tick /\ new.v \subseteq e.v
          BY <4>1 DEF Event
        <4> QED
          BY <4>3, <4>4
      <3>2. CASE e.anchor_tick # rel_tick
        BY <3>2
      <3> QED
        BY <3>1, <3>2
    <2> HIDE DEF erased
    <2>6. DOMAIN events = 1 .. Len(events) /\ Len(events) \in Nat
          /\ \A j \in 1 .. Len(events) : events[j] \in Event
      BY <2>3
    <2>7. left \in Seq(Event) /\ Len(left) = Len(events)
          /\ \A j \in 1 .. Len(events) : left[j] = erased(events[j])
      <3>1. left = [j \in 1 .. Len(events) |-> erased(events[j])]
        BY <2>6
      <3> HIDE DEF left
      <3> QED
        BY <2>5, <2>6, <3>1
    <2> HIDE DEF left
    <2>8. \A j \in 1 .. Len(events) : left[j].anchor_tick = events[j].anchor_tick
                                      /\ left[j].v \subseteq events[j].v
      BY <2>5, <2>6, <2>7
    <2>9. MayErase(left, value.length_ticks)
      <3>1. \A j \in 1 .. Len(events) : /\ ~({"note", "cut"} \subseteq left[j].v)
                                        /\ left[j].anchor_tick < value.length_ticks
        BY <2>4, <2>8 DEF EventsOk, Good
      <3>2. ASSUME NEW j \in 1 .. Len(events), j > 1
            PROVE  left[j - 1].anchor_tick < left[j].anchor_tick
        <4>1. j - 1 \in 1 .. Len(events)
          BY <2>6, <3>2
        <4> QED
          BY <2>4, <2>8, <3>2, <4>1 DEF EventsOk
      <3> QED
        BY <2>7, <3>1, <3>2 DEF MayErase
    <2>10. EraseEmpty(left) \in Seq(Event) /\ EventsOk(EraseEmpty(left), value.length_ticks)
      BY <2>7, <2>9, EraseEmptyIs
    <2> QED
      BY <2>1, <2>2, <2>10, EditedPatternOk
  <1> QED
    BY <1>1, <1>2

-----------------------------------------------------------------------------
(* Typing.                                                                 *)

SubColumnFields == {"note", "instr", "volume", "effect0", "effect1"}

LEMMA MadeCommandOk ==
  ASSUME NEW track \in Track, NEW made, MadeOf(track, made)
  PROVE  CommandOk(track, made.command)
  <1>1. PICK class, block, value, t :
          /\ made = CreateOrEdit(class, block, value, t)
          /\ \/ EditPatternOk(track, Command(class, block, value))
             \/ AddBlockOk(track, Command(class, block, value)) /\ value.events = <<>>
    BY DEF MadeOf
  <1>2. made.command = Command(class, block, value)
    BY <1>1 DEF CreateOrEdit
  <1> QED
    BY <1>1, <1>2 DEF CommandOk

LEMMA TypingOk ==
  ASSUME NEW opts, OptionsOk(opts), NEW track \in Track, TrackOk(track), NEW now \in Nat,
         NEW mode
  PROVE  /\ \A note \in {"note", "cut"}, instrument \in BOOLEAN :
              CommandOk(track, InsertNote(opts, track, now, mode, note, instrument))
         /\ \A field \in SubColumnFields \ {"note"} :
              /\ CommandOk(track, AddDigit(opts, track, now, mode, field))
              /\ CommandOk(track, AddEffectChar(opts, track, now, mode, field))
  <1> DEFINE made == TryMake(opts, track, now, mode)
  <1>1. CommandOk(track, NullEditCommand)
    BY DEF CommandOk, NullEditCommand, Command
  <1>2. made = None \/ MadeOf(track, made)
    BY TryMakeOk
  <1>3. ASSUME NEW note \in {"note", "cut"}, NEW instrument \in BOOLEAN
        PROVE  CommandOk(track, InsertNote(opts, track, now, mode, note, instrument))
    <2> DEFINE dropped == {"note", "cut"} \cup (IF note = "cut" THEN {"instr"} ELSE {})
               set == {note} \cup (IF instrument /\ note # "cut" THEN {"instr"} ELSE {})
    <2>1. FieldsOk(dropped, set)
      BY DEF FieldsOk, Fields
    <2>2. InsertNote(opts, track, now, mode, note, instrument)
            = IF made = None THEN NullEditCommand ELSE SettingFields(made, dropped, set)
      BY DEF InsertNote
    <2> HIDE DEF made, dropped, set
    <2> QED
      BY <1>1, <1>2, <2>1, <2>2, SettingFieldsOk
  <1>4. ASSUME NEW field \in SubColumnFields \ {"note"}
        PROVE  /\ CommandOk(track, AddDigit(opts, track, now, mode, field))
               /\ CommandOk(track, AddEffectChar(opts, track, now, mode, field))
    <2>1. FieldsOk({}, {field})
      BY DEF FieldsOk, Fields, SubColumnFields
    <2>2. /\ AddDigit(opts, track, now, mode, field)
               = IF made = None THEN NullEditCommand
                 ELSE IF field \in {"instr", "volume"} THEN SettingFields(made, {}, {field})
                 ELSE made.command
          /\ AddEffectChar(opts, track, now, mode, field)
               = IF made = None THEN NullEditCommand ELSE SettingFields(made, {}, {field})
      BY DEF AddDigit, AddEffectChar
    <2>3. made # None => /\ CommandOk(track, SettingFields(made, {}, {field}))
                         /\ CommandOk(track, made.command)
      <3> HIDE DEF made
      <3> QED
        BY <1>2, <2>1, SettingFieldsOk, MadeCommandOk
    <2> HIDE DEF made
    <2> QED
      BY <1>1, <2>2, <2>3
  <1> QED
    BY <1>3, <1>4

-----------------------------------------------------------------------------
(* The cursor and the selection.                                           *)

FreeCursor == [x : XPos, y : Int]

SelOk(doc, s) ==
  /\ s \in [begin : CursorPos, end : CursorPos, bottom_padding : RowHeights \cup {0},
            mode : {"Normal", "SelectChannels", "SelectAll"},
            orig_left : Int, orig_right : Int]
  /\ XOk(doc, s.begin.x) /\ XOk(doc, s.end.x)
  /\ s.mode # "Normal" => {s.orig_left, s.orig_right} \subseteq DOMAIN doc.tracks

Follows(cur, sel) ==
  /\ sel.end.y = cur.y
  /\ sel.mode = "Normal" => sel.end = cur

Shown(doc, cur, sel) ==
  /\ cur \in CursorPos /\ XOk(doc, cur.x)
  /\ sel = None \/ (SelOk(doc, sel) /\ Follows(cur, sel))

DocumentInOrder(doc) ==
  DocumentOk(doc) /\ \A c \in DOMAIN doc.tracks : TrackOk(doc.tracks[c])

EditorOk(doc, cur, sel, rows) ==
  DocumentInOrder(doc) /\ Shown(doc, cur, sel) /\ rows \in RowHeights

EditorInv ==
  /\ EditorOk(document, cursor, select, ticks_per_row)
  /\ edit_mode \in BOOLEAN
  /\ edits \in Nat

LEMMA InvGivesTypes ==
  ASSUME EditorInv
  PROVE  TypeOK /\ SelectionFollowsCursor
  <1>1. /\ DocumentOk(document) /\ Shown(document, cursor, select) /\ ticks_per_row \in RowHeights
        /\ edit_mode \in BOOLEAN /\ edits \in Nat
    BY DEF EditorInv, EditorOk, DocumentInOrder
  <1>2. CursorOk(cursor) /\ (select = None \/ SelOk(document, select))
    BY <1>1 DEF Shown, CursorOk
  <1>3. SelOk(document, select) => SelectOk(select)
    <2> SUFFICES ASSUME SelOk(document, select) PROVE SelectOk(select)
      OBVIOUS
    <2>1. select.begin \in CursorPos /\ select.end \in CursorPos
      BY DEF SelOk
    <2> QED
      BY <2>1 DEF SelOk, SelectOk, CursorOk, Columns
  <1>4. TypeOK
    BY <1>1, <1>2, <1>3 DEF TypeOK, DocumentOk
  <1>5. SelectionFollowsCursor
    BY <1>1 DEF Shown, Follows, SelectionFollowsCursor
  <1> QED
    BY <1>4, <1>5

LEMMA CursorFields ==
  ASSUME NEW c \in FreeCursor
  PROVE  c = [x |-> c.x, y |-> c.y] /\ c.x \in XPos /\ c.y \in Int
  BY DEF FreeCursor

LEMMA CursorPosFields ==
  ASSUME NEW c \in CursorPos
  PROVE  c \in FreeCursor /\ c.x \in XPos /\ c.y \in Nat /\ c.y <= MAX_TICK
  BY MaxTickAssumption DEF FreeCursor, CursorPos, XPos

LEMMA ClampCursorIs ==
  ASSUME NEW c \in FreeCursor
  PROVE  ClampCursor(c) \in CursorPos /\ ClampCursor(c).x = c.x
  <1> DEFINE top == Max({c.y, 0})
             y == Min({top, MAX_TICK})
  <1>1. c = [x |-> c.x, y |-> c.y] /\ c.x \in XPos /\ c.y \in Int
    BY CursorFields
  <1>2. top = IF c.y >= 0 THEN c.y ELSE 0
    BY <1>1, GreatestOfTwo
  <1>3. top \in Nat
    <2> HIDE DEF top
    <2> QED
      BY <1>1, <1>2
  <1> HIDE DEF top
  <1>4. y = IF top <= MAX_TICK THEN top ELSE MAX_TICK
    BY <1>3, MaxTickAssumption, LeastOfTwo
  <1> HIDE DEF y
  <1>5. y \in 0 .. MAX_TICK
    BY <1>3, <1>4, MaxTickAssumption
  <1>6. ClampCursor(c) = [x |-> c.x, y |-> y]
    <2>1. ClampCursor(c) = [c EXCEPT !.y = y]
      BY <1>1 DEF ClampCursor, y, top
    <2> QED
      BY <1>1, <2>1
  <1> QED
    BY <1>1, <1>5, <1>6 DEF CursorPos, XPos

LEMMA SetEndIs ==
  ASSUME NEW doc, NEW s, SelOk(doc, s), NEW c \in CursorPos, XOk(doc, c.x)
  PROVE  SelOk(doc, SetEnd(s, c)) /\ SetEnd(s, c).end = c
  <1> DEFINE new == [begin |-> s.begin, end |-> c, bottom_padding |-> s.bottom_padding,
                     mode |-> "Normal", orig_left |-> s.orig_left, orig_right |-> s.orig_right]
             moved == [begin |-> s.begin, end |-> c, bottom_padding |-> s.bottom_padding,
                       mode |-> s.mode, orig_left |-> s.orig_left, orig_right |-> s.orig_right]
  <1>1. /\ s = [begin |-> s.begin, end |-> s.end, bottom_padding |-> s.bottom_padding,
                mode |-> s.mode, orig_left |-> s.orig_left, orig_right |-> s.orig_right]
        /\ s.begin \in CursorPos /\ s.bottom_padding \in RowHeights \cup {0}
        /\ s.orig_left \in Int /\ s.orig_right \in Int
    BY DEF SelOk
  <1>2. XOk(doc, s.begin.x)
    BY DEF SelOk
  <1>3. [s EXCEPT !.end = c] = moved
    BY <1>1
  <1>4. [moved EXCEPT !.mode = "Normal"] = new
    OBVIOUS
  <1>5. SetEnd(s, c) = new
    BY <1>3, <1>4 DEF SetEnd
  <1>6. /\ new \in [begin : CursorPos, end : CursorPos, bottom_padding : RowHeights \cup {0},
                    mode : {"Normal", "SelectChannels", "SelectAll"},
                    orig_left : Int, orig_right : Int]
        /\ new.begin = s.begin /\ new.end = c /\ new.mode = "Normal"
    BY <1>1
  <1> HIDE DEF new
  <1> QED
    BY <1>2, <1>5, <1>6 DEF SelOk

(* CursorAndSelection::set(): the end of the selection moves along.        *)
LEMMA SetKeeps ==
  ASSUME NEW doc, NEW c \in FreeCursor, XOk(doc, c.x), NEW s, s = None \/ SelOk(doc, s)
  PROVE  Shown(doc, ClampCursor(c), IF s = None THEN None ELSE SetEnd(s, ClampCursor(c)))
  <1> DEFINE at == ClampCursor(c)
             new == SetEnd(s, at)
  <1>1. at \in CursorPos /\ at.x = c.x
    BY ClampCursorIs
  <1>2. XOk(doc, at.x)
    BY <1>1
  <1> HIDE DEF at
  <1>3. CASE s = None
    BY <1>1, <1>2, <1>3 DEF Shown, Follows, at
  <1>4. CASE s # None
    <2>1. SelOk(doc, new) /\ new.end = at
      BY <1>1, <1>2, <1>4, SetEndIs
    <2> HIDE DEF new
    <2>2. Shown(doc, at, new)
      BY <1>1, <1>2, <2>1 DEF Shown, Follows
    <2> QED
      BY <1>4, <2>2 DEF at, new
  <1> QED
    BY <1>3, <1>4

LEMMA EnabledSelectIs ==
  ASSUME EditorInv
  PROVE  SelOk(document, EnabledSelect) /\ Follows(cursor, EnabledSelect)
  <1>1. cursor \in CursorPos /\ XOk(document, cursor.x) /\ ticks_per_row \in RowHeights
        /\ (select = None \/ (SelOk(document, select) /\ Follows(cursor, select)))
    BY DEF EditorInv, EditorOk, Shown
  <1>2. SelOk(document, RawSelection(cursor)) /\ Follows(cursor, RawSelection(cursor))
    <2> DEFINE s == RawSelection(cursor)
    <2>1. /\ s \in [begin : CursorPos, end : CursorPos, bottom_padding : RowHeights \cup {0},
                    mode : {"Normal", "SelectChannels", "SelectAll"},
                    orig_left : Int, orig_right : Int]
          /\ s.begin = cursor /\ s.end = cursor /\ s.mode = "Normal"
      BY <1>1 DEF RawSelection
    <2> HIDE DEF s
    <2>2. SelOk(document, s) /\ Follows(cursor, s)
      BY <1>1, <2>1 DEF SelOk, Follows
    <2> QED
      BY <2>2 DEF s
  <1> QED
    BY <1>1, <1>2 DEF EnabledSelect

-----------------------------------------------------------------------------
(* The keys that move the cursor.                                          *)

LEMMA OnCursorMoveKeeps ==
  ASSUME EditorInv, NEW shift \in BOOLEAN, NEW c \in FreeCursor, XOk(document, c.x),
         OnCursorMove(shift, c)
  PROVE  EditorInv'
  <1> DEFINE s == IF shift THEN EnabledSelect ELSE None
  <1>1. DocumentInOrder(document) /\ ticks_per_row \in RowHeights
        /\ edit_mode \in BOOLEAN /\ edits \in Nat
    BY DEF EditorInv, EditorOk
  <1>2. /\ cursor' = ClampCursor(c)
        /\ select' = IF s = None THEN None ELSE SetEnd(s, ClampCursor(c))
        /\ document' = document /\ edit_mode' = edit_mode /\ ticks_per_row' = ticks_per_row
        /\ edits' = edits
    BY DEF OnCursorMove, Set
  <1>3. s = None \/ SelOk(document, s)
    BY EnabledSelectIs
  <1> HIDE DEF s
  <1>4. Shown(document, cursor', select')
    <2>1. Shown(document, ClampCursor(c), IF s = None THEN None ELSE SetEnd(s, ClampCursor(c)))
      BY <1>3, SetKeeps
    <2> QED
      BY <1>2, <2>1
  <1>5. EditorOk(document', cursor', select', ticks_per_row')
    BY <1>1, <1>2, <1>4 DEF EditorOk
  <1> QED
    BY <1>1, <1>2, <1>5 DEF EditorInv

LEMMA MoveYKeeps ==
  ASSUME EditorInv, NEW shift \in BOOLEAN, NEW y \in Int, MoveY(shift, y)
  PROVE  EditorInv'
  <1>1. cursor \in FreeCursor /\ XOk(document, cursor.x)
    BY CursorPosFields DEF EditorInv, EditorOk, Shown
  <1> DEFINE c == [cursor EXCEPT !.y = y]
  <1>2. c = [x |-> cursor.x, y |-> y] /\ cursor.x \in XPos
    BY <1>1, CursorFields
  <1>3. c \in FreeCursor /\ c.x = cursor.x
    BY <1>2 DEF FreeCursor
  <1>4. OnCursorMove(shift, c)
    BY DEF MoveY
  <1> HIDE DEF c
  <1> QED
    BY <1>1, <1>3, <1>4, OnCursorMoveKeeps

LEMMA MoveXKeeps ==
  ASSUME EditorInv, NEW shift \in BOOLEAN, NEW x \in XPos, XOk(document, x), MoveX(shift, x)
  PROVE  EditorInv'
  <1>1. cursor \in FreeCursor
    BY CursorPosFields DEF EditorInv, EditorOk, Shown
  <1> DEFINE c == [cursor EXCEPT !.x = x]
  <1>2. c = [x |-> x, y |-> cursor.y] /\ cursor.y \in Int
    BY <1>1, CursorFields
  <1>3. c \in FreeCursor /\ c.x = x
    BY <1>2 DEF FreeCursor
  <1>4. OnCursorMove(shift, c)
    BY DEF MoveX
  <1> HIDE DEF c
  <1> QED
    BY <1>3, <1>4, OnCursorMoveKeeps

(* What the keys find in the state.                                        *)
LEMMA InvFields ==
  ASSUME EditorInv
  PROVE  /\ DocumentOk(document) /\ OptionsOk(opt) /\ document.tracks \in [Columns -> Track]
         /\ \A c \in Columns : TrackOk(document.tracks[c]) /\ document.tracks[c] \in Track
         /\ cursor \in CursorPos /\ cursor.x \in XPos /\ cursor.y \in Nat
         /\ XOk(document, cursor.x) /\ cursor.x.column \in Columns
         /\ ticks_per_row \in Nat \ {0} /\ ticks_per_row \in RowHeights /\ ticks_per_row <= 48
         /\ CursorTrack \in Track /\ TrackOk(CursorTrack)
  <1>1. /\ DocumentOk(document) /\ Shown(document, cursor, select) /\ ticks_per_row \in RowHeights
        /\ \A c \in Columns : TrackOk(document.tracks[c])
    BY DEF EditorInv, EditorOk, DocumentInOrder, Columns
  <1>2. OptionsOk(opt) /\ document.tracks \in [Columns -> Track]
    BY <1>1, DocumentFields DEF OptionsOk, opt, Columns
  <1>3. cursor \in CursorPos /\ XOk(document, cursor.x)
    BY <1>1 DEF Shown
  <1>4. cursor.x \in XPos /\ cursor.y \in Nat /\ cursor.x.column \in Columns
    BY <1>3, CursorPosFields DEF XOk, Columns
  <1>5. ticks_per_row \in 1 .. 48
    BY <1>1, RowHeightsAssumption
  <1>6. ticks_per_row \in Nat \ {0} /\ ticks_per_row <= 48
    BY <1>5
  <1>7. CursorTrack \in Track /\ TrackOk(CursorTrack)
    BY <1>1, <1>2, <1>4 DEF CursorTrack
  <1> QED
    BY <1>1, <1>2, <1>3, <1>4, <1>6, <1>7

LEMMA EventsAreOkIn ==
  ASSUME NEW track, TrackOk(track)
  PROVE  BlocksInOrder(track) /\ EventsAreOk(track)
  BY DEF TrackOk, EventsAreOk

LEMMA UpAndDownAreInts ==
  ASSUME EditorInv, NEW step \in Nat
  PROVE  /\ MoveUp(opt, cursor.y, ticks_per_row, step) \in Int
         /\ MoveDown(opt, cursor.y, ticks_per_row, step) \in Int
  <1> DEFINE n == Max({1, step})
  <1>1. n \in Nat
    BY GreatestOfTwo
  <1> HIDE DEF n
  <1>2. OptionsOk(opt) /\ cursor.y \in Int /\ ticks_per_row \in Nat \ {0}
    BY InvFields
  <1>3. /\ PrevRows(opt, cursor.y, ticks_per_row, n) \in Int
        /\ NextRows(opt, cursor.y, ticks_per_row, n) \in Int
    BY <1>1, <1>2, RowMovesAreInts
  <1> QED
    BY <1>3 DEF MoveUp, MoveDown, n

LEMMA PagesAreInts ==
  ASSUME EditorInv
  PROVE  PageUp(cursor.y, ticks_per_row) \in Int /\ PageDown(cursor.y, ticks_per_row) \in Int
  <1>1. cursor.y \in Int /\ ticks_per_row * PageDownRows \in Int
    BY InvFields, PageDownRowsAssumption
  <1>2. cursor.y - ticks_per_row * PageDownRows \in Int
        /\ cursor.y + ticks_per_row * PageDownRows \in Int
    BY <1>1
  <1>3. Max({0, cursor.y - ticks_per_row * PageDownRows}) \in Int
    <2> DEFINE y == cursor.y - ticks_per_row * PageDownRows
    <2>1. y \in Int
      BY <1>2
    <2> HIDE DEF y
    <2>2. Max({0, y}) \in Int
      BY <2>1, GreatestOfTwo
    <2> QED
      BY <2>2 DEF y
  <1> QED
    BY <1>2, <1>3 DEF PageUp, PageDown

LEMMA CursorKeyKeeps ==
  ASSUME EditorInv, NEW shift \in BOOLEAN, CursorKey(shift)
  PROVE  EditorInv'
  <1>1. ASSUME NEW s \in Settings, UpPressed(shift, s.step) \/ DownPressed(shift, s.step)
        PROVE  EditorInv'
    BY <1>1, SettingsAssumption, UpAndDownAreInts, MoveYKeeps DEF UpPressed, DownPressed
  <1>2. ASSUME UpRowPressed(shift) \/ DownRowPressed(shift)
        PROVE  EditorInv'
    BY <1>2, UpAndDownAreInts, MoveYKeeps DEF UpRowPressed, DownRowPressed
  <1>3. ASSUME PrevBeatPressed(shift) \/ NextBeatPressed(shift)
        PROVE  EditorInv'
    <2>1. PrevBeat(opt, cursor.y) \in Int /\ NextBeat(opt, cursor.y) \in Int
      BY InvFields, BeatMovesAreInts
    <2> QED
      BY <1>3, <2>1, MoveYKeeps DEF PrevBeatPressed, NextBeatPressed
  <1>4. ASSUME PrevEventPressed(shift) \/ NextEventPressed(shift)
        PROVE  EditorInv'
    <2>1. PrevEvent(CursorTrack, cursor.y) \in Int /\ NextEvent(CursorTrack, cursor.y) \in Int
      BY InvFields, EventsAreOkIn, EventMovesAreInts
    <2> QED
      BY <1>4, <2>1, MoveYKeeps DEF PrevEventPressed, NextEventPressed
  <1>5. ASSUME ScrollPrevPressed(shift) \/ ScrollNextPressed(shift)
        PROVE  EditorInv'
    BY <1>5, PagesAreInts, MoveYKeeps DEF ScrollPrevPressed, ScrollNextPressed
  <1>6. ASSUME TopPressed(shift) \/ BottomPressed(shift)
        PROVE  EditorInv'
    <2>1. BlockEnd(document.tracks) \in Int
      <3>1. /\ Ncol(document) \in Nat
            /\ document.tracks \in [0 .. Ncol(document) - 1 -> Track]
        BY InvFields, DocumentFields
      <3>2. SongLength(document.tracks) \in Nat
        BY <3>1, SongLengthIs
      <3> QED
        BY <3>2 DEF BlockEnd
    <2> QED
      BY <1>6, <2>1, MoveYKeeps DEF TopPressed, BottomPressed, BlockBegin
  <1>7. ASSUME PrevPatternPressed(shift) \/ NextPatternPressed(shift)
        PROVE  EditorInv'
    BY <1>7, InvFields, MoveYKeeps
       DEF PrevPatternPressed, NextPatternPressed, PrevBlock, NextBlock
  <1>8. ASSUME LeftPressed(shift) \/ RightPressed(shift)
        PROVE  EditorInv'
    BY <1>8, InvFields, MoveLeftOk, MoveRightOk, MoveXKeeps DEF LeftPressed, RightPressed
  <1>9. ASSUME ScrollLeftPressed(shift) \/ ScrollRightPressed(shift)
        PROVE  EditorInv'
    BY <1>9, InvFields, ScrollOk, MoveXKeeps DEF ScrollLeftPressed, ScrollRightPressed
  <1> QED
    BY <1>1, <1>2, <1>3, <1>4, <1>5, <1>6, <1>7, <1>8, <1>9 DEF CursorKey

-----------------------------------------------------------------------------
(* Selecting.                                                              *)

LEMMA SetSelectKeeps ==
  ASSUME EditorInv, NEW s, s = None \/ (SelOk(document, s) /\ Follows(cursor, s)),
         SetSelect(s)
  PROVE  EditorInv'
  BY DEF SetSelect, EditorInv, EditorOk, Shown

LEMMA ColumnsOfSelection ==
  ASSUME NEW doc, NEW s, SelOk(doc, s)
  PROVE  LeftColumn(s) \in DOMAIN doc.tracks /\ RightColumn(s) \in DOMAIN doc.tracks
  BY DEF SelOk, XOk, LeftColumn, RightColumn

LEMMA ColumnsAreInts ==
  ASSUME NEW doc, DocumentOk(doc), NEW c \in DOMAIN doc.tracks
  PROVE  c \in Nat
  BY DocumentFields

(* A selection s after SelectBlock(), made over to a mode.                 *)
Reselected(t, s, left, right, mode) ==
  /\ t.begin.x = CursorX(left, 0, 0) /\ t.begin.y = s.begin.y
  /\ t.end.x = CursorX(right, Nsubcol(document, CursorX(right, 0, 0)) - 1, 0)
  /\ t.end.y = s.end.y
  /\ t.mode = mode

LEMMA SelectBlockIs ==
  ASSUME EditorInv, NEW s, SelOk(document, s), NEW left \in Columns, NEW right \in Columns
  PROVE  LET t == SelectBlock(s, left, right)
         IN  /\ t \in [begin : CursorPos, end : CursorPos, bottom_padding : RowHeights \cup {0},
                       mode : {"Normal", "SelectChannels", "SelectAll"},
                       orig_left : Int, orig_right : Int]
             /\ XOk(document, t.begin.x) /\ XOk(document, t.end.x)
             /\ t.end.y = s.end.y
             /\ t.orig_left = s.orig_left /\ t.orig_right = s.orig_right
  <1> DEFINE a == CursorX(left, 0, 0)
             last == Nsubcol(document, a)
             right_a == CursorX(right, 0, 0)
             m == Nsubcol(document, right_a)
             b == CursorX(right, m - 1, 0)
             begin == [x |-> a, y |-> s.begin.y]
             end == [x |-> b, y |-> s.end.y]
             t == [begin |-> begin, end |-> end, bottom_padding |-> ticks_per_row,
                   mode |-> s.mode, orig_left |-> s.orig_left, orig_right |-> s.orig_right]
  <1>1. DocumentOk(document) /\ ticks_per_row \in RowHeights
    BY InvFields
  <1>2. /\ s = [begin |-> s.begin, end |-> s.end, bottom_padding |-> s.bottom_padding,
                mode |-> s.mode, orig_left |-> s.orig_left, orig_right |-> s.orig_right]
        /\ s.begin \in CursorPos /\ s.end \in CursorPos
        /\ s.mode \in {"Normal", "SelectChannels", "SelectAll"}
        /\ s.orig_left \in Int /\ s.orig_right \in Int
    BY DEF SelOk
  <1>3. /\ s.begin = [x |-> s.begin.x, y |-> s.begin.y] /\ s.begin.y \in 0 .. MAX_TICK
        /\ s.end = [x |-> s.end.x, y |-> s.end.y] /\ s.end.y \in 0 .. MAX_TICK
    BY <1>2 DEF CursorPos
  <1>4. left \in Nat /\ right \in Nat /\ left \in DOMAIN document.tracks
        /\ right \in DOMAIN document.tracks
    BY <1>1, ColumnsAreInts DEF Columns
  <1>5. a.column = left /\ right_a.column = right /\ a.subcolumn = 0 /\ a.cell = 0
    BY DEF CursorX
  <1>6. last \in 4 .. 5 /\ m \in 4 .. 5
    <2> HIDE DEF a, right_a
    <2> QED
      BY <1>1, <1>4, <1>5, NsubcolBounds
  <1>7. a \in XPos /\ XOk(document, a)
    <2>1. a \in XPos
      BY <1>4 DEF CursorX, XPos
    <2>2. Ncell(document, a) \in 1 .. 4
      BY <1>1, NcellBounds
    <2> HIDE DEF a
    <2> QED
      BY <1>4, <1>5, <1>6, <2>1, <2>2 DEF XOk
  <1>8. b \in XPos /\ XOk(document, b)
    <2> HIDE DEF m
    <2>1. b \in XPos /\ b.column = right /\ b.subcolumn = m - 1 /\ b.cell = 0
      BY <1>4, <1>6 DEF CursorX, XPos
    <2> HIDE DEF b
    <2>2. Ncell(document, b) \in 1 .. 4
      BY <1>1, NcellBounds
    <2>3. Nsubcol(document, b) = m
      <3>1. b.column = right_a.column
        BY <1>5, <2>1
      <3> HIDE DEF right_a
      <3> QED
        BY <3>1, CountsOf DEF m
    <2> QED
      BY <1>4, <1>6, <2>1, <2>2, <2>3 DEF XOk
  <1>9. SelectBlock(s, left, right) = t
    <2> DEFINE s1 == [s EXCEPT !.begin.x = a]
               s2 == [s1 EXCEPT !.end.x = b]
               s3 == [s2 EXCEPT !.bottom_padding = ticks_per_row]
    <2>1. SelectBlock(s, left, right) = s3
      BY DEF SelectBlock
    <2> HIDE DEF a, b
    <2>2. s1 = [begin |-> begin, end |-> s.end, bottom_padding |-> s.bottom_padding,
                mode |-> s.mode, orig_left |-> s.orig_left, orig_right |-> s.orig_right]
      BY <1>2, <1>3
    <2>3. s2 = [begin |-> begin, end |-> end, bottom_padding |-> s.bottom_padding,
                mode |-> s.mode, orig_left |-> s.orig_left, orig_right |-> s.orig_right]
      <3> HIDE DEF s1
      <3> QED
        BY <1>3, <2>2
    <2>4. s3 = t
      <3> HIDE DEF s2
      <3> QED
        BY <2>3
    <2> QED
      BY <2>1, <2>4
  <1> HIDE DEF a, b
  <1>10. begin \in CursorPos /\ end \in CursorPos
    BY <1>3, <1>7, <1>8 DEF CursorPos, XPos
  <1>11. /\ t \in [begin : CursorPos, end : CursorPos, bottom_padding : RowHeights \cup {0},
                   mode : {"Normal", "SelectChannels", "SelectAll"},
                   orig_left : Int, orig_right : Int]
         /\ t.begin.x = a /\ t.end.x = b /\ t.end.y = s.end.y
         /\ t.orig_left = s.orig_left /\ t.orig_right = s.orig_right
    BY <1>1, <1>2, <1>10
  <1> HIDE DEF t
  <1> QED
    BY <1>7, <1>8, <1>9, <1>11

(* The fields of a selection that "select all" sets last.                  *)
LEMMA ModeSet ==
  ASSUME NEW t, t \in [begin : CursorPos, end : CursorPos, bottom_padding : RowHeights \cup {0},
                       mode : {"Normal", "SelectChannels", "SelectAll"},
                       orig_left : Int, orig_right : Int],
         XOk(document, t.begin.x), XOk(document, t.end.x),
         NEW left \in Int, NEW right \in Int, {left, right} \subseteq DOMAIN document.tracks,
         NEW mode \in {"SelectChannels", "SelectAll"}
  PROVE  LET u == [begin |-> t.begin, end |-> t.end, bottom_padding |-> t.bottom_padding,
                   mode |-> mode, orig_left |-> left, orig_right |-> right]
         IN  SelOk(document, u) /\ u.end.y = t.end.y /\ u.mode # "Normal"
  <1> DEFINE u == [begin |-> t.begin, end |-> t.end, bottom_padding |-> t.bottom_padding,
                   mode |-> mode, orig_left |-> left, orig_right |-> right]
  <1>1. /\ u \in [begin : CursorPos, end : CursorPos, bottom_padding : RowHeights \cup {0},
                  mode : {"Normal", "SelectChannels", "SelectAll"},
                  orig_left : Int, orig_right : Int]
        /\ u.begin = t.begin /\ u.end = t.end /\ u.mode = mode
        /\ u.orig_left = left /\ u.orig_right = right
    OBVIOUS
  <1> HIDE DEF u
  <1>2. SelOk(document, u)
    BY <1>1 DEF SelOk
  <1>3. u.end.y = t.end.y /\ u.mode # "Normal"
    BY <1>1
  <1> QED
    BY <1>2, <1>3 DEF u

LEMMA SelectAllIs ==
  ASSUME EditorInv, NEW s, SelOk(document, s), Follows(cursor, s)
  PROVE  SelOk(document, SelectAll(s)) /\ Follows(cursor, SelectAll(s))
  <1> DEFINE left == LeftColumn(s)
             right == RightColumn(s)
             last == Ncol(document) - 1
             new == SelectAll(s)
  <1>1. DocumentOk(document)
    BY InvFields
  <1>2. left \in Columns /\ right \in Columns /\ 0 \in Columns /\ last \in Columns
    BY <1>1, ColumnsOfSelection, DocumentFields DEF Columns
  <1>3. \A c \in Columns : c \in Int /\ c \in DOMAIN document.tracks
    BY <1>1, ColumnsAreInts DEF Columns
  <1>4. s.mode \in {"Normal", "SelectChannels", "SelectAll"} /\ s.end.y = cursor.y
        /\ (s.mode # "Normal" => s.orig_left \in Columns /\ s.orig_right \in Columns)
    BY DEF SelOk, Follows, Columns
  <1> HIDE DEF left, right, last
  <1>5. ASSUME NEW u, SelOk(document, u), u.end.y = s.end.y, u.mode # "Normal", new = u
        PROVE  SelOk(document, new) /\ Follows(cursor, new)
    <2> HIDE DEF new
    <2> QED
      BY <1>4, <1>5 DEF Follows
  <1>6. CASE s.mode = "Normal"
    <2> DEFINE t == SelectBlock(s, left, right)
               t1 == [begin |-> t.begin, end |-> t.end, bottom_padding |-> t.bottom_padding,
                      mode |-> t.mode, orig_left |-> left, orig_right |-> t.orig_right]
               t2 == [begin |-> t.begin, end |-> t.end, bottom_padding |-> t.bottom_padding,
                      mode |-> t.mode, orig_left |-> left, orig_right |-> right]
               u == [begin |-> t.begin, end |-> t.end, bottom_padding |-> t.bottom_padding,
                     mode |-> "SelectChannels", orig_left |-> left, orig_right |-> right]
    <2>1. new = [t EXCEPT !.orig_left = left, !.orig_right = right, !.mode = "SelectChannels"]
      BY <1>6 DEF SelectAll, left, right
    <2>2. /\ t \in [begin : CursorPos, end : CursorPos, bottom_padding : RowHeights \cup {0},
                    mode : {"Normal", "SelectChannels", "SelectAll"},
                    orig_left : Int, orig_right : Int]
          /\ XOk(document, t.begin.x) /\ XOk(document, t.end.x) /\ t.end.y = s.end.y
      BY <1>2, SelectBlockIs
    <2> HIDE DEF t, new
    <2>3. SelOk(document, u) /\ u.end.y = t.end.y /\ u.mode # "Normal"
      BY <1>2, <1>3, <2>2, ModeSet
    <2>4. new = u
      <3>1. t = [begin |-> t.begin, end |-> t.end, bottom_padding |-> t.bottom_padding,
                 mode |-> t.mode, orig_left |-> t.orig_left, orig_right |-> t.orig_right]
        BY <2>2
      <3>2. [t EXCEPT !.orig_left = left] = t1
        BY <3>1
      <3>3. [t1 EXCEPT !.orig_right = right] = t2
        OBVIOUS
      <3>4. [t2 EXCEPT !.mode = "SelectChannels"] = u
        OBVIOUS
      <3> QED
        BY <2>1, <3>2, <3>3, <3>4
    <2> HIDE DEF u
    <2>5. SelOk(document, new) /\ Follows(cursor, new)
      BY <1>5, <2>2, <2>3, <2>4
    <2> QED
      BY <2>5 DEF new
  <1>7. ASSUME NEW a \in Columns, NEW b \in Columns, NEW mode \in {"SelectChannels", "SelectAll"},
               s.mode # "Normal", new = [SelectBlock(s, a, b) EXCEPT !.mode = mode]
        PROVE  SelOk(document, new) /\ Follows(cursor, new)
    <2> DEFINE t == SelectBlock(s, a, b)
               u == [begin |-> t.begin, end |-> t.end, bottom_padding |-> t.bottom_padding,
                     mode |-> mode, orig_left |-> t.orig_left, orig_right |-> t.orig_right]
    <2>1. new = [t EXCEPT !.mode = mode]
      BY <1>7
    <2>2. /\ t \in [begin : CursorPos, end : CursorPos, bottom_padding : RowHeights \cup {0},
                    mode : {"Normal", "SelectChannels", "SelectAll"},
                    orig_left : Int, orig_right : Int]
          /\ XOk(document, t.begin.x) /\ XOk(document, t.end.x) /\ t.end.y = s.end.y
          /\ t.orig_left = s.orig_left /\ t.orig_right = s.orig_right
      BY SelectBlockIs
    <2> HIDE DEF t, new
    <2>3. t.orig_left \in Columns /\ t.orig_right \in Columns
      BY <1>4, <1>7, <2>2
    <2>4. t.orig_left \in Int /\ t.orig_right \in Int
          /\ {t.orig_left, t.orig_right} \subseteq DOMAIN document.tracks
      BY <1>3, <2>3
    <2>5. SelOk(document, u) /\ u.end.y = t.end.y /\ u.mode # "Normal"
      BY <2>2, <2>4, ModeSet
    <2>6. new = u
      BY <2>1, <2>2
    <2> HIDE DEF u
    <2> QED
      BY <1>5, <2>2, <2>5, <2>6
  <1>8. CASE s.mode = "SelectChannels"
    <2>1. new = [SelectBlock(s, 0, last) EXCEPT !.mode = "SelectAll"]
      BY <1>8 DEF SelectAll, last
    <2> HIDE DEF new
    <2>2. SelOk(document, new) /\ Follows(cursor, new)
      BY <1>2, <1>7, <1>8, <2>1
    <2> QED
      BY <2>2 DEF new
  <1>9. CASE s.mode = "SelectAll"
    <2>1. new = [SelectBlock(s, s.orig_left, s.orig_right) EXCEPT !.mode = "SelectChannels"]
      BY <1>9 DEF SelectAll
    <2> HIDE DEF new
    <2>2. SelOk(document, new) /\ Follows(cursor, new)
      BY <1>4, <1>7, <1>9, <2>1
    <2> QED
      BY <2>2 DEF new
  <1> QED
    BY <1>4, <1>6, <1>8, <1>9

LEMMA SelectingKeeps ==
  ASSUME EditorInv, EscapePressed \/ SelectAllPressed \/ SelectionPaddingPressed
  PROVE  EditorInv'
  <1>1. CASE EscapePressed
    BY <1>1, SetSelectKeeps DEF EscapePressed
  <1>2. SelOk(document, EnabledSelect) /\ Follows(cursor, EnabledSelect)
    BY EnabledSelectIs
  <1>3. CASE SelectAllPressed
    <2> DEFINE s == EnabledSelect
    <2>1. SetSelect(SelectAll(s))
      BY <1>3 DEF SelectAllPressed
    <2>2. SelOk(document, SelectAll(s)) /\ Follows(cursor, SelectAll(s))
      <3>1. Follows(cursor, s) /\ SelOk(document, s)
        BY <1>2
      <3> HIDE DEF s
      <3> QED
        BY <3>1, SelectAllIs
    <2> HIDE DEF s
    <2> QED
      BY <2>1, <2>2, SetSelectKeeps
  <1>4. CASE SelectionPaddingPressed
    <2>1. CASE select = None
      <3>1. SetSelect(EnabledSelect)
        BY <1>4, <2>1 DEF SelectionPaddingPressed, EnabledSelect
      <3> QED
        BY <1>2, <3>1, SetSelectKeeps
    <2>2. CASE select # None
      <3> DEFINE s == select
                 pad == IF s.bottom_padding = 0 THEN ticks_per_row ELSE 0
                 t == [begin |-> s.begin, end |-> s.end, bottom_padding |-> pad,
                       mode |-> s.mode, orig_left |-> s.orig_left, orig_right |-> s.orig_right]
      <3>1. SelOk(document, s) /\ Follows(cursor, s) /\ ticks_per_row \in RowHeights
        BY <2>2 DEF EditorInv, EditorOk, Shown
      <3>2. SetSelect([s EXCEPT !.bottom_padding = pad])
        BY <1>4, <2>2 DEF SelectionPaddingPressed
      <3> HIDE DEF s
      <3>3. /\ s = [begin |-> s.begin, end |-> s.end, bottom_padding |-> s.bottom_padding,
                    mode |-> s.mode, orig_left |-> s.orig_left, orig_right |-> s.orig_right]
            /\ s.begin \in CursorPos /\ s.end \in CursorPos
            /\ s.mode \in {"Normal", "SelectChannels", "SelectAll"}
            /\ s.orig_left \in Int /\ s.orig_right \in Int
        BY <3>1 DEF SelOk
      <3>4. pad \in RowHeights \cup {0}
        BY <3>1
      <3> HIDE DEF pad
      <3>5. [s EXCEPT !.bottom_padding = pad] = t
        BY <3>3
      <3>6. /\ t \in [begin : CursorPos, end : CursorPos, bottom_padding : RowHeights \cup {0},
                      mode : {"Normal", "SelectChannels", "SelectAll"},
                      orig_left : Int, orig_right : Int]
            /\ t.begin = s.begin /\ t.end = s.end /\ t.mode = s.mode
            /\ t.orig_left = s.orig_left /\ t.orig_right = s.orig_right
        BY <3>3, <3>4
      <3>7. SetSelect(t)
        BY <3>2, <3>5
      <3> HIDE DEF t
      <3>8. SelOk(document, t) /\ Follows(cursor, t)
        BY <2>2, <3>1, <3>6 DEF SelOk, Follows, s
      <3> QED
        BY <3>7, <3>8, SetSelectKeeps
    <2> QED
      BY <2>1, <2>2
  <1> QED
    BY <1>1, <1>3, <1>4

-----------------------------------------------------------------------------
(* The elements of a concatenation are elements of its parts. *)
LEMMA ConcatStays ==
  ASSUME NEW S, NEW a \in Seq(S), NEW b \in Seq(S)
  PROVE  \A i \in 1 .. Len(a) + Len(b) : (a \o b)[i] \in S
  <1> SUFFICES ASSUME NEW i \in 1 .. Len(a) + Len(b)
               PROVE  (a \o b)[i] \in S
    OBVIOUS
  <1>1. a \o b \in Seq(S) /\ Len(a \o b) = Len(a) + Len(b)
    BY ConcatProperties
  <1> QED
    BY <1>1

(* Edits.                                                                  *)

WithTrack(doc, c, track) == [doc EXCEPT !.tracks[c] = track]

LEMMA WithTrackIs ==
  ASSUME NEW doc, DocumentInOrder(doc), NEW c \in DOMAIN doc.tracks, NEW track \in Track,
         TrackOk(track)
  PROVE  LET new == WithTrack(doc, c, track)
         IN  /\ DocumentInOrder(new)
             /\ \A x : XOk(new, x) <=> XOk(doc, x)
             /\ \A s : SelOk(new, s) <=> SelOk(doc, s)
             /\ new.tracks = [doc.tracks EXCEPT ![c] = track]
             /\ new.options = doc.options
  <1> DEFINE new == WithTrack(doc, c, track)
             tracks == [doc.tracks EXCEPT ![c] = track]
             n == Ncol(doc)
             rec == [options |-> doc.options, effect_name_chars |-> doc.effect_name_chars,
                     n_effect_col |-> doc.n_effect_col, tracks |-> tracks]
  <1>1. DocumentOk(doc) /\ \A d \in DOMAIN doc.tracks : TrackOk(doc.tracks[d])
    BY DEF DocumentInOrder
  <1>2. n \in Nat \ {0} /\ doc \in DocumentsOf(n) /\ doc.tracks \in [0 .. n - 1 -> Track]
    BY <1>1, DocumentFields DEF DocumentOk
  <1> HIDE DEF n
  <1>3. /\ doc = [options |-> doc.options, effect_name_chars |-> doc.effect_name_chars,
                  n_effect_col |-> doc.n_effect_col, tracks |-> doc.tracks]
        /\ doc.options \in [ticks_per_beat : Nat \ {0}, beats_per_measure : Nat \ {0}]
        /\ doc.effect_name_chars \in {1, 2}
        /\ doc.n_effect_col \in [0 .. n - 1 -> 1 .. Len(EffectFields)]
    BY <1>2 DEF DocumentsOf
  <1>4. new = rec
    <2>1. new = [doc EXCEPT !.tracks = tracks]
      BY <1>3 DEF WithTrack
    <2> HIDE DEF tracks
    <2> QED
      BY <1>3, <2>1
  <1>5. tracks \in [0 .. n - 1 -> Track] /\ DOMAIN tracks = DOMAIN doc.tracks
        /\ \A d \in DOMAIN doc.tracks : tracks[d] = IF d = c THEN track ELSE doc.tracks[d]
    BY <1>2
  <1> HIDE DEF tracks
  <1>6. /\ rec \in DocumentsOf(n)
        /\ rec.tracks = tracks /\ rec.n_effect_col = doc.n_effect_col
        /\ rec.effect_name_chars = doc.effect_name_chars /\ rec.options = doc.options
    BY <1>3, <1>5 DEF DocumentsOf
  <1> HIDE DEF new, rec
  <1>7. Ncol(new) = n
    BY <1>4, <1>5, <1>6 DEF Ncol, n
  <1>8. DocumentOk(new)
    BY <1>2, <1>4, <1>6, <1>7 DEF DocumentOk
  <1>9. \A d \in DOMAIN new.tracks : TrackOk(new.tracks[d])
    BY <1>1, <1>4, <1>5, <1>6
  <1>10. DOMAIN new.tracks = DOMAIN doc.tracks
    BY <1>4, <1>5, <1>6
  <1>11. ASSUME NEW x PROVE XOk(new, x) <=> XOk(doc, x)
    <2>1. Nsubcol(new, x) = Nsubcol(doc, x)
      BY <1>4, <1>6 DEF Nsubcol
    <2>2. Ncell(new, x) = Ncell(doc, x)
      BY <1>4, <1>6 DEF Ncell
    <2> QED
      BY <1>10, <2>1, <2>2 DEF XOk
  <1>12. ASSUME NEW s PROVE SelOk(new, s) <=> SelOk(doc, s)
    BY <1>10, <1>11 DEF SelOk
  <1>13. new.tracks = tracks /\ new.options = doc.options
    BY <1>4, <1>6
  <1> QED
    BY <1>8, <1>9, <1>11, <1>12, <1>13 DEF new, tracks, DocumentInOrder

LEMMA PushEditKeeps ==
  ASSUME EditorInv, NEW command, CommandOk(CursorTrack, command), NEW after \in FreeCursor,
         XOk(document, after.x), PushEdit(command, after)
  PROVE  EditorInv'
  <1> DEFINE c == cursor.x.column
             track == TrackAfter(command, CursorTrack)
             new == WithTrack(document, c, track)
  <1>1. /\ DocumentInOrder(document) /\ ticks_per_row \in RowHeights
        /\ edit_mode \in BOOLEAN /\ edits \in Nat
        /\ select = None \/ SelOk(document, select)
    BY DEF EditorInv, EditorOk, Shown
  <1>2. c \in DOMAIN document.tracks /\ CursorTrack \in Track /\ TrackOk(CursorTrack)
    BY InvFields DEF Columns
  <1>3. track \in Track /\ TrackOk(track)
    BY <1>2, CommandKeepsTrack
  <1>4. /\ document' = new
        /\ cursor' = ClampCursor(after)
        /\ select' = IF select = None THEN None ELSE SetEnd(select, ClampCursor(after))
        /\ edits' = edits + 1 /\ edit_mode' = edit_mode /\ ticks_per_row' = ticks_per_row
    <2>1. document' = [document EXCEPT !.tracks[c] = TrackAfter(command, document.tracks[c])]
      BY DEF PushEdit
    <2>2. document' = new
      BY <2>1 DEF WithTrack, CursorTrack
    <2> QED
      BY <2>2 DEF PushEdit, Set
  <1> HIDE DEF c, track
  <1>5. /\ DocumentInOrder(new)
        /\ XOk(new, after.x) <=> XOk(document, after.x)
        /\ SelOk(new, select) <=> SelOk(document, select)
    BY <1>1, <1>2, <1>3, WithTrackIs
  <1> HIDE DEF new
  <1>6. Shown(new, cursor', select')
    <2>1. Shown(new, ClampCursor(after),
                IF select = None THEN None ELSE SetEnd(select, ClampCursor(after)))
      BY <1>1, <1>5, SetKeeps
    <2> QED
      BY <1>4, <2>1
  <1>7. EditorOk(document', cursor', select', ticks_per_row')
    BY <1>1, <1>4, <1>5, <1>6 DEF EditorOk
  <1> QED
    BY <1>1, <1>4, <1>7 DEF EditorInv

LEMMA StepDownOnlyIs ==
  ASSUME EditorInv, NEW s \in Settings, NEW x \in XPos, XOk(document, x),
         NEW c, c = [x |-> x, y |-> cursor.y]
  PROVE  StepDownOnly(c, s) \in FreeCursor /\ StepDownOnly(c, s).x = x
  <1> DEFINE track == document.tracks[x.column]
             y == CursorStep(opt, track, cursor.y, ticks_per_row, s.step, s.step_to_event)
  <1>1. track \in Track /\ TrackOk(track)
    BY InvFields DEF XOk, Columns
  <1>2. OptionsOk(opt) /\ cursor.y \in Int /\ ticks_per_row \in Nat \ {0} /\ s.step \in Nat
    BY InvFields, SettingsAssumption
  <1>3. y \in Int
    <2> HIDE DEF track
    <2>1. NextEvent(track, cursor.y) \in Int
      BY <1>1, <1>2, EventsAreOkIn, EventMovesAreInts
    <2>2. NextRows(opt, cursor.y, ticks_per_row, s.step) \in Int
      BY <1>2, RowMovesAreInts
    <2> QED
      BY <2>1, <2>2 DEF CursorStep
  <1>4. c.x = x /\ c.y = cursor.y
    OBVIOUS
  <1>5. StepDownOnly(c, s) = [c EXCEPT !.y = y]
    BY <1>4 DEF StepDownOnly
  <1> HIDE DEF y
  <1>6. StepDownOnly(c, s) = [x |-> x, y |-> y]
    BY <1>5
  <1> QED
    BY <1>3, <1>6 DEF FreeCursor

LEMMA StepCursorIs ==
  ASSUME EditorInv, NEW s \in Settings
  PROVE  StepCursor(s) \in FreeCursor /\ XOk(document, StepCursor(s).x)
  <1> DEFINE field == SubColumnAt(cursor.x)
             next_cell == cursor.x.cell + 1
             at_cell(n) == [cursor EXCEPT !.x.cell = n]
             ends == next_cell >= Ncell(document, cursor.x)
             digits == s.direction = "RightDigits" /\ IsEffect(field)
             chars == document.effect_name_chars
             new == StepCursor(s)
  <1>1. /\ DocumentOk(document) /\ cursor \in CursorPos /\ cursor.x \in XPos /\ cursor.y \in Nat
        /\ XOk(document, cursor.x)
    BY InvFields
  <1>2. s.direction \in StepDirections
    BY SettingsAssumption
  <1>3. cursor = [x |-> cursor.x, y |-> cursor.y]
    BY <1>1 DEF CursorPos
  <1>4. Ncell(document, cursor.x) \in 1 .. 4 /\ next_cell \in Nat /\ chars \in {1, 2}
        /\ (IsEffect(field) => Ncell(document, cursor.x) = chars + 2)
    <2>1. next_cell \in Nat
      BY <1>1 DEF XPos
    <2>2. chars \in {1, 2}
      BY <1>1, DocumentFields
    <2>3. IsEffect(field) => Ncell(document, cursor.x) = chars + 2
      BY DEF IsEffect, Ncell
    <2> QED
      BY <1>1, <2>1, <2>2, <2>3, NcellBounds
  <1>5. \/ new = StepDownOnly(cursor, s)
        \/ new = [cursor EXCEPT !.x = MoveRight(document, cursor.x)]
        \/ digits /\ ~ends /\ new = StepDownOnly(at_cell(0), s)
        \/ digits /\ new = StepDownOnly(at_cell(0), s)
        \/ digits /\ new = StepDownOnly(at_cell(chars), s)
        \/ new = StepDownOnly(at_cell(0), s)
        \/ ~ends /\ new = at_cell(next_cell)
    BY <1>2 DEF StepCursor, StepDirections
  <1> HIDE DEF field, next_cell, ends, new, chars
  <1>6. ASSUME NEW n \in Nat, n < Ncell(document, cursor.x)
        PROVE  LET x == [cursor.x EXCEPT !.cell = n]
               IN  /\ x \in XPos /\ XOk(document, x)
                   /\ at_cell(n) = [x |-> x, y |-> cursor.y]
    <2> DEFINE x == [column |-> cursor.x.column, subcolumn |-> cursor.x.subcolumn, cell |-> n]
    <2>1. cursor.x = [column |-> cursor.x.column, subcolumn |-> cursor.x.subcolumn,
                      cell |-> cursor.x.cell]
          /\ cursor.x.column \in Nat /\ cursor.x.subcolumn \in Nat
      BY <1>1 DEF XPos
    <2>2. [cursor.x EXCEPT !.cell = n] = x
      BY <2>1
    <2>3. x \in XPos /\ x.column = cursor.x.column /\ x.subcolumn = cursor.x.subcolumn
          /\ x.cell = n
      BY <2>1 DEF XPos
    <2>4. at_cell(n) = [cursor EXCEPT !.x = [cursor.x EXCEPT !.cell = n]]
      BY <1>3
    <2> HIDE DEF x
    <2>5. [cursor EXCEPT !.x = x] = [x |-> x, y |-> cursor.y]
      BY <1>3
    <2>6. XOk(document, x)
      <3>1. Nsubcol(document, x) = Nsubcol(document, cursor.x)
            /\ Ncell(document, x) = Ncell(document, cursor.x)
        BY <2>3, CountsOf
      <3> QED
        BY <1>1, <1>6, <2>3, <3>1 DEF XOk
    <2> HIDE DEF at_cell
    <2> QED
      BY <2>2, <2>3, <2>4, <2>5, <2>6
  <1> HIDE DEF at_cell
  <1>7. ASSUME NEW n \in Nat, n < Ncell(document, cursor.x)
        PROVE  /\ StepDownOnly(at_cell(n), s) \in FreeCursor
               /\ XOk(document, StepDownOnly(at_cell(n), s).x)
               /\ at_cell(n) \in FreeCursor /\ XOk(document, at_cell(n).x)
    <2> DEFINE x == [cursor.x EXCEPT !.cell = n]
    <2>1. x \in XPos /\ XOk(document, x) /\ at_cell(n) = [x |-> x, y |-> cursor.y]
      BY <1>6, <1>7
    <2> HIDE DEF x
    <2>2. StepDownOnly(at_cell(n), s) \in FreeCursor /\ StepDownOnly(at_cell(n), s).x = x
      BY <2>1, StepDownOnlyIs
    <2>3. at_cell(n) \in FreeCursor /\ at_cell(n).x = x
      BY <1>1, <2>1 DEF FreeCursor
    <2> QED
      BY <2>1, <2>2, <2>3
  <1>8. StepDownOnly(cursor, s) \in FreeCursor /\ XOk(document, StepDownOnly(cursor, s).x)
    <2>1. StepDownOnly(cursor, s) \in FreeCursor /\ StepDownOnly(cursor, s).x = cursor.x
      BY <1>1, <1>3, StepDownOnlyIs
    <2> QED
      BY <1>1, <2>1
  <1>9. CASE new = [cursor EXCEPT !.x = MoveRight(document, cursor.x)]
    <2> DEFINE x == MoveRight(document, cursor.x)
    <2>1. x \in XPos /\ XOk(document, x)
      BY <1>1, MoveRightOk
    <2>2. new = [cursor EXCEPT !.x = x]
      BY <1>9
    <2> HIDE DEF x
    <2>3. new = [x |-> x, y |-> cursor.y]
      BY <1>3, <2>2
    <2>4. new \in FreeCursor /\ new.x = x
      BY <1>1, <2>1, <2>3 DEF FreeCursor
    <2>5. new \in FreeCursor /\ XOk(document, new.x)
      BY <2>1, <2>4
    <2> QED
      BY <2>5 DEF new
  <1>10. CASE new = StepDownOnly(at_cell(0), s)
    <2>1. 0 \in Nat /\ 0 < Ncell(document, cursor.x)
      BY <1>4
    <2>2. new \in FreeCursor /\ XOk(document, new.x)
      BY <1>7, <1>10, <2>1
    <2> QED
      BY <2>2 DEF new
  <1>11. CASE digits /\ new = StepDownOnly(at_cell(chars), s)
    <2>1. chars \in Nat /\ chars < Ncell(document, cursor.x)
      BY <1>4, <1>11
    <2>2. new \in FreeCursor /\ XOk(document, new.x)
      BY <1>7, <1>11, <2>1
    <2> QED
      BY <2>2 DEF new
  <1>12. CASE ~ends /\ new = at_cell(next_cell)
    <2>1. next_cell \in Nat /\ next_cell < Ncell(document, cursor.x)
      BY <1>4, <1>12 DEF ends
    <2>2. new \in FreeCursor /\ XOk(document, new.x)
      BY <1>7, <1>12, <2>1
    <2> QED
      BY <2>2 DEF new
  <1>13. CASE new = StepDownOnly(cursor, s)
    BY <1>8, <1>13 DEF new
  <1> HIDE DEF digits
  <1> QED
    BY <1>5, <1>9, <1>10, <1>11, <1>12, <1>13

LEMMA FieldHere ==
  ASSUME EditorInv
  PROVE  SubColumnAt(cursor.x) \in SubColumnFields
  <1>1. DocumentOk(document) /\ cursor.x \in XPos /\ cursor.x.column \in Columns
        /\ XOk(document, cursor.x)
    BY InvFields
  <1>2. Nsubcol(document, cursor.x) \in 4 .. 5
    BY <1>1, NsubcolBounds DEF Columns
  <1>3. cursor.x.subcolumn \in 0 .. 4
    BY <1>1, <1>2 DEF XOk, XPos
  <1>4. cursor.x.subcolumn + 1 \in 1 .. 5
    BY <1>3
  <1>5. \A i \in 1 .. 5 : SubColumnTypes[i] \in SubColumnFields
    <2> DEFINE a == <<"note", "instr", "volume">>
               b == <<"effect0", "effect1">>
    <2>1. a \in Seq(SubColumnFields) /\ b \in Seq(SubColumnFields)
      BY DEF SubColumnFields
    <2>2. Len(a) = 3 /\ Len(b) = 2
      OBVIOUS
    <2>3. SubColumnTypes = a \o b
      BY DEF SubColumnTypes, EffectFields
    <2> HIDE DEF a, b
    <2>4. \A i \in 1 .. Len(a) + Len(b) : (a \o b)[i] \in SubColumnFields
      BY <2>1, ConcatStays
    <2>5. Len(a) + Len(b) = 5
      BY <2>2
    <2> QED
      BY <2>3, <2>4, <2>5
  <1> QED
    BY <1>4, <1>5 DEF SubColumnAt

LEMMA EditKeyKeeps ==
  ASSUME EditorInv, NEW s \in Settings, EditKey(s)
  PROVE  EditorInv'
  <1> DEFINE track == CursorTrack
             now == cursor.y
             field == SubColumnAt(cursor.x)
  <1>1. /\ OptionsOk(opt) /\ track \in Track /\ TrackOk(track) /\ now \in Nat
        /\ cursor.x \in XPos /\ XOk(document, cursor.x) /\ cursor \in CursorPos
    BY InvFields
  <1>2. StepCursor(s) \in FreeCursor /\ XOk(document, StepCursor(s).x)
    BY StepCursorIs
  <1>3. field \in SubColumnFields
    BY FieldHere
  <1>4. ASSUME NEW note \in {"note", "cut"}, NEW instrument \in BOOLEAN,
               NotePressed(s, note, instrument)
        PROVE  EditorInv'
    <2> DEFINE command == InsertNote(opt, track, now, s.extend_block, note, instrument)
    <2>1. CommandOk(track, command)
      <3> HIDE DEF track, now
      <3> QED
        BY <1>1, TypingOk
    <2>2. PushEdit(command, StepCursor(s))
      BY <1>4 DEF NotePressed
    <2> HIDE DEF command
    <2> QED
      BY <1>2, <2>1, <2>2, PushEditKeeps
  <1>5. ASSUME DigitPressed(s) PROVE EditorInv'
    <2> DEFINE command == AddDigit(opt, track, now, s.extend_block, field)
    <2>1. field # "note"
      BY <1>5 DEF DigitPressed, IsEffect
    <2>2. CommandOk(track, command)
      <3> HIDE DEF track, now, field
      <3> QED
        BY <1>1, <1>3, <2>1, TypingOk
    <2>3. PushEdit(command, StepCursor(s))
      BY <1>5 DEF DigitPressed
    <2> HIDE DEF command
    <2> QED
      BY <1>2, <2>2, <2>3, PushEditKeeps
  <1>6. ASSUME EffectCharPressed(s) PROVE EditorInv'
    <2> DEFINE command == AddEffectChar(opt, track, now, s.extend_block, field)
    <2>1. field # "note"
      BY <1>6 DEF EffectCharPressed, IsEffect
    <2>2. CommandOk(track, command)
      <3> HIDE DEF track, now, field
      <3> QED
        BY <1>1, <1>3, <2>1, TypingOk
    <2>3. PushEdit(command, StepCursor(s))
      BY <1>6 DEF EffectCharPressed
    <2> HIDE DEF command
    <2> QED
      BY <1>2, <2>2, <2>3, PushEditKeeps
  <1>7. ASSUME DeleteKeyPressed(s) PROVE EditorInv'
    <2> DEFINE command == DeleteCell(track, field, now)
    <2>1. CommandOk(track, command)
      <3> HIDE DEF track, now, field
      <3> QED
        BY <1>1, DeleteCellOk
    <2>2. StepDownOnly(cursor, s) \in FreeCursor /\ XOk(document, StepDownOnly(cursor, s).x)
      <3>1. cursor = [x |-> cursor.x, y |-> cursor.y]
        BY <1>1 DEF CursorPos
      <3>2. StepDownOnly(cursor, s) \in FreeCursor /\ StepDownOnly(cursor, s).x = cursor.x
        BY <1>1, <3>1, StepDownOnlyIs
      <3> QED
        BY <1>1, <3>2
    <2>3. PushEdit(command, StepDownOnly(cursor, s))
      BY <1>7 DEF DeleteKeyPressed
    <2> HIDE DEF command
    <2> QED
      BY <2>1, <2>2, <2>3, PushEditKeeps
  <1> QED
    BY <1>4, <1>5, <1>6, <1>7 DEF EditKey


-----------------------------------------------------------------------------
(* The main window.                                                        *)

LEMMA SetRowHeightKeeps ==
  ASSUME EditorInv, NEW h \in RowHeights, SetRowHeight(h)
  PROVE  EditorInv'
  <1>1. h \in 1 .. 48
    BY RowHeightsAssumption
  <1>2. h \in Int /\ Max({h, 1}) = h /\ Min({h, 48}) = h
    BY <1>1, GreatestOfTwo, LeastOfTwo
  <1>3. ticks_per_row' = h
    BY <1>2 DEF SetRowHeight
  <1> QED
    BY <1>3 DEF SetRowHeight, EditorInv, EditorOk

LEMMA ZoomKeeps ==
  ASSUME EditorInv, ZoomOutHalf \/ ZoomInHalf \/ ZoomOutTriplet \/ ZoomInTriplet
  PROVE  EditorInv'
  <1>1. ASSUME NEW heights \in SUBSET RowHeights, ZoomOut(heights) \/ ZoomIn(heights)
        PROVE  EditorInv'
    <2>1. heights # {} /\ (SetRowHeight(Min(heights)) \/ SetRowHeight(Max(heights)))
      BY <1>1 DEF ZoomOut, ZoomIn
    <2>2. heights \in SUBSET Nat /\ heights \in SUBSET (0 .. 48) /\ 48 \in Nat
      BY RowHeightsAssumption
    <2>3. Min(heights) \in heights
      BY <2>1, <2>2, MinIsLeast
    <2>4. Max(heights) \in heights
      BY <2>1, <2>2, MaxIsGreatest
    <2> QED
      BY <2>1, <2>3, <2>4, SetRowHeightKeeps
  <1>2. CASE ZoomOutHalf
    BY <1>1, <1>2 DEF ZoomOutHalf
  <1>3. CASE ZoomInHalf
    BY <1>1, <1>3 DEF ZoomInHalf
  <1>4. CASE ZoomOutTriplet
    BY <1>1, <1>4 DEF ZoomOutTriplet
  <1>5. CASE ZoomInTriplet
    BY <1>1, <1>5 DEF ZoomInTriplet
  <1> QED
    BY <1>2, <1>3, <1>4, <1>5

LEMMA FollowPlaybackKeeps ==
  ASSUME EditorInv, NEW ticks \in 0 .. MAX_TICK, FollowPlayback(ticks)
  PROVE  EditorInv'
  <1> DEFINE y == RowTime(RowAt(opt, ticks, ticks_per_row), ticks_per_row)
             c == [cursor EXCEPT !.y = y]
  <1>1. /\ OptionsOk(opt) /\ ticks_per_row \in Nat \ {0} /\ ticks \in Int
        /\ cursor \in CursorPos /\ cursor.x \in XPos /\ XOk(document, cursor.x)
    BY InvFields, MaxTickAssumption
  <1>2. y \in Int
    BY <1>1, RowsAre
  <1>3. /\ cursor' = ClampCursor(c)
        /\ select' = IF select = None THEN None ELSE SetEnd(select, ClampCursor(c))
        /\ document' = document /\ edit_mode' = edit_mode /\ ticks_per_row' = ticks_per_row
        /\ edits' = edits
    BY DEF FollowPlayback, Set
  <1> HIDE DEF y
  <1>4. c = [x |-> cursor.x, y |-> y]
    BY <1>1 DEF CursorPos
  <1>5. c \in FreeCursor /\ c.x = cursor.x
    BY <1>1, <1>2, <1>4 DEF FreeCursor
  <1> HIDE DEF c
  <1>6. select = None \/ SelOk(document, select)
    BY DEF EditorInv, EditorOk, Shown
  <1>7. Shown(document, cursor', select')
    <2>1. Shown(document, ClampCursor(c),
                IF select = None THEN None ELSE SetEnd(select, ClampCursor(c)))
      BY <1>1, <1>5, <1>6, SetKeeps
    <2> QED
      BY <1>3, <2>1
  <1> QED
    BY <1>3, <1>7 DEF EditorInv, EditorOk

LEMMA OpenedIs ==
  ASSUME NEW doc \in Documents
  PROVE  DocumentInOrder(doc) /\ Shown(doc, [x |-> CursorX(0, 0, 0), y |-> 0], None)
  <1> DEFINE x == CursorX(0, 0, 0)
  <1>1. DocumentOk(doc) /\ \A c \in DOMAIN doc.tracks : TrackOk(doc.tracks[c])
    BY DocumentsAssumption, OpenedTracksAssumption DEF DocumentOk
  <1>2. x \in XPos /\ x.column = 0 /\ x.subcolumn = 0 /\ x.cell = 0
    BY DEF CursorX, XPos
  <1>3. 0 \in DOMAIN doc.tracks
    BY <1>1, DocumentFields
  <1> HIDE DEF x
  <1>4. Nsubcol(doc, x) \in 4 .. 5 /\ Ncell(doc, x) \in 1 .. 4
    BY <1>1, <1>2, <1>3, NsubcolBounds, NcellBounds
  <1>5. XOk(doc, x)
    BY <1>2, <1>3, <1>4 DEF XOk
  <1>6. [x |-> x, y |-> 0] \in CursorPos
    BY <1>2, MaxTickAssumption DEF CursorPos, XPos
  <1> QED
    BY <1>1, <1>5, <1>6 DEF DocumentInOrder, Shown, x

LEMMA OpenDocumentKeeps ==
  ASSUME EditorInv, NEW doc \in Documents, NEW h \in RowHeights, OpenDocument(doc, h)
  PROVE  EditorInv'
  <1>1. h \in 1 .. 48
    BY RowHeightsAssumption
  <1>2. h \in Int /\ Max({h, 1}) = h /\ Min({h, 48}) = h
    BY <1>1, GreatestOfTwo, LeastOfTwo
  <1>3. /\ document' = doc /\ cursor' = [x |-> CursorX(0, 0, 0), y |-> 0] /\ select' = None
        /\ ticks_per_row' = h /\ edits' = 0 /\ edit_mode' = edit_mode
    BY <1>2 DEF OpenDocument
  <1>4. EditorOk(document', cursor', select', ticks_per_row')
    BY <1>3, OpenedIs DEF EditorOk
  <1> QED
    BY <1>3, <1>4 DEF EditorInv

-----------------------------------------------------------------------------
(* Theorems.                                                               *)

LEMMA EditorInit == Init => EditorInv
  <1> SUFFICES ASSUME Init PROVE EditorInv
    OBVIOUS
  <1>1. EditorOk(document, cursor, select, ticks_per_row)
    BY OpenedIs DEF Init, EditorOk
  <1> QED
    BY <1>1 DEF Init, EditorInv

LEMMA EditorStep == EditorInv /\ [Next]_vars => EditorInv'
  <1> SUFFICES ASSUME EditorInv, [Next]_vars PROVE EditorInv'
    OBVIOUS
  <1>1. CASE \E shift \in BOOLEAN : CursorKey(shift)
    BY <1>1, CursorKeyKeeps
  <1>2. CASE EscapePressed \/ SelectAllPressed \/ SelectionPaddingPressed
    BY <1>2, SelectingKeeps
  <1>3. CASE \E s \in Settings : EditKey(s)
    BY <1>3, EditKeyKeeps
  <1>4. CASE ToggleEditPressed
    BY <1>4 DEF ToggleEditPressed, EditorInv, EditorOk
  <1>5. CASE ZoomOutHalf \/ ZoomInHalf \/ ZoomOutTriplet \/ ZoomInTriplet
    BY <1>5, ZoomKeeps
  <1>6. CASE \E ticks \in 0 .. MAX_TICK : FollowPlayback(ticks)
    BY <1>6, FollowPlaybackKeeps
  <1>7. CASE \E doc \in Documents, h \in RowHeights : OpenDocument(doc, h)
    BY <1>7, OpenDocumentKeeps
  <1>8. CASE UNCHANGED vars
    BY <1>8 DEF vars, EditorInv, EditorOk
  <1> QED
    BY <1>1, <1>2, <1>3, <1>4, <1>5, <1>6, <1>7, <1>8 DEF Next

LEMMA EditorInvHolds == Spec => []EditorInv
  <1> QED
    BY EditorInit, EditorStep, PTL DEF Spec

(* The cursor and the corners of the selection are always columns,         *)
(* subcolumns and cells that the document has, however far the keys,       *)
(* playback and new documents take them: the code indexes with them        *)
(* unchecked.                                                              *)
THEOREM EditorTypesHold == Spec => []TypeOK
  <1>1. EditorInv => TypeOK
    BY InvGivesTypes
  <1> QED
    BY <1>1, EditorInvHolds, PTL

(* The selection reaches to the cursor, whatever moved it: the keys, an    *)
(* edit that steps on, or playback.                                        *)
THEOREM SelectionFollowsCursorHolds == Spec => []SelectionFollowsCursor
  <1>1. EditorInv => SelectionFollowsCursor
    BY InvGivesTypes
  <1> QED
    BY <1>1, EditorInvHolds, PTL

(* However notes are typed and deleted, whatever blocks that creates and   *)
(* extends, blocks do not overlap, events are in order and inside their    *)
(* pattern, and the assertions of try_make_in_gap() hold in every gap.     *)
THEOREM TracksOkHolds == Spec => []TracksOk
  <1>1. EditorInv => TracksOk
    <2> SUFFICES ASSUME EditorInv PROVE TracksOk
      OBVIOUS
    <2>1. ASSUME NEW c \in Columns, NEW now \in 0 .. MAX_TICK,
                 SnappedLater(document.tracks[c], now)
          PROVE  GapAsserts(opt, document.tracks[c], now)
      <3> DEFINE track == document.tracks[c]
      <3>1. OptionsOk(opt) /\ track \in Track /\ now \in Nat
        BY InvFields, MaxTickAssumption
      <3>2. /\ GapBegin(opt, track, now) \in Nat /\ GapEnd(opt, track, now) \in Nat
            /\ GapBegin(opt, track, now) <= now /\ now < GapEnd(opt, track, now)
        BY <2>1, <3>1, GapIs
      <3> HIDE DEF track
      <3>3. GapAsserts(opt, track, now)
        BY <3>1, <3>2 DEF GapAsserts
      <3> QED
        BY <3>3 DEF track
    <2> QED
      BY <2>1, InvFields DEF TracksOk
  <1> QED
    BY <1>1, EditorInvHolds, PTL

(* One step up or down goes to the nearest row of the grid, also when      *)
(* rows do not divide the beat and the last row of a beat is shorter.      *)
THEOREM RowsAreNeighboursHolds == Spec => []RowsAreNeighbours
  <1>1. EditorInv => RowsAreNeighbours
    <2> SUFFICES ASSUME EditorInv PROVE RowsAreNeighbours
      OBVIOUS
    <2> DEFINE y == cursor.y
               tpb == opt.ticks_per_beat
               up == MoveUp(opt, y, ticks_per_row, 1)
               down == MoveDown(opt, y, ticks_per_row, 1)
    <2>1. OptionsOk(opt) /\ y \in Nat /\ ticks_per_row \in Nat \ {0}
      BY InvFields
    <2>2. Max({1, 1}) = 1
      BY GreatestOfTwo
    <2>3. up = PrevRows(opt, y, ticks_per_row, 1) /\ down = NextRows(opt, y, ticks_per_row, 1)
      BY <2>2 DEF MoveUp, MoveDown
    <2> HIDE DEF up, down
    <2>4. PrevRowOk(y, up, tpb, ticks_per_row) /\ NextRowOk(y, down, tpb, ticks_per_row)
      BY <2>1, <2>3, StepUpOk, StepDownOk
    <2>5. \A t : GridRow(t) <=> IsGridRow(t, tpb, ticks_per_row)
      BY DEF GridRow, IsGridRow
    <2>6. (up < y \/ up = 0) /\ up \in Nat /\ down > y /\ down \in Nat
      BY <2>4 DEF PrevRowOk, NextRowOk
    <2>7. GridRow(up) /\ GridRow(down)
      BY <2>4, <2>5 DEF PrevRowOk, NextRowOk
    <2>8. ASSUME NEW t \in up + 1 .. down - 1, t # y
          PROVE  ~GridRow(t)
      <3>1. t \in up + 1 .. y - 1 \/ t \in y + 1 .. down - 1
        BY <2>1, <2>6, <2>8
      <3> QED
        BY <2>4, <2>5, <3>1 DEF PrevRowOk, NextRowOk
    <2>9. \A t \in up + 1 .. down - 1 : t # y => ~GridRow(t)
      BY <2>8
    <2> QED
      BY <2>6, <2>7, <2>9 DEF RowsAreNeighbours, up, down
  <1> QED
    BY <1>1, EditorInvHolds, PTL

(* The keys that jump to events go to the nearest one, over loops, gaps    *)
(* and empty patterns, in any track that edits leave.                      *)
THEOREM EventJumpsAreNearestHolds == Spec => []EventJumpsAreNearest
  <1>1. EditorInv => EventJumpsAreNearest
    <2> SUFFICES ASSUME EditorInv PROVE EventJumpsAreNearest
      OBVIOUS
    <2> DEFINE track == CursorTrack
               times == {x[1] : x \in Written(track)}
               before(y) == {t \in times : t < y}
               after(y) == {t \in times : t > y}
               ys == IF edits = MaxEdits THEN 0 .. MAX_TICK ELSE {cursor.y}
    <2>1. track \in Track /\ BlocksInOrder(track) /\ EventsAreOk(track)
      BY InvFields, EventsAreOkIn
    <2>2. \A y \in ys : y \in Int
      BY InvFields, MaxTickAssumption
    <2>3. ASSUME NEW y \in ys
          PROVE  /\ PrevEvent(track, y) = IF before(y) = {} THEN y ELSE Max(before(y))
                 /\ NextEvent(track, y) = IF after(y) = {} THEN y ELSE Min(after(y))
      <3>1. y \in Int
        BY <2>2
      <3> HIDE DEF track
      <3> QED
        BY <2>1, <3>1, JumpsAreNearest
    <2> QED
      BY <2>3 DEF EventJumpsAreNearest
  <1> QED
    BY <1>1, EditorInvHolds, PTL

-----------------------------------------------------------------------------
(* What edits change.                                                      *)

(* Field f is written at tick t of a pattern's events.                     *)
WrittenIn(events, t, f) ==
  \E i \in 1 .. Len(events) : events[i].anchor_tick = t /\ f \in events[i].v

(* The events are the same but for fields at t.                            *)
SameBut(old, new, t, fields) ==
  \A s \in Nat, f \in Fields :
    ~(s = t /\ f \in fields) => (WrittenIn(old, s, f) <=> WrittenIn(new, s, f))

LEMMA InsertedSame ==
  ASSUME NEW events \in Seq(Event), NEW i \in 1 .. Len(events) + 1, NEW t \in Nat,
         NEW s, NEW f
  PROVE  WrittenIn(events, s, f)
           <=> WrittenIn(InsertAt(events, i, [anchor_tick |-> t, v |-> {}]), s, f)
  <1> DEFINE e == [anchor_tick |-> t, v |-> {}]
             n == Len(events)
             new == InsertAt(events, i, e)
  <1>1. e \in Event /\ e.v = {} /\ n \in Nat /\ i \in Nat
    BY DEF Event
  <1> HIDE DEF e
  <1>2. /\ Len(new) = n + 1
        /\ \A j \in 1 .. n + 1 :
             new[j] = IF j < i THEN events[j] ELSE IF j = i THEN e ELSE events[j - 1]
    BY <1>1, InsertAtShape
  <1> HIDE DEF new
  <1>3. ASSUME NEW j \in 1 .. n, events[j].anchor_tick = s, f \in events[j].v
        PROVE  WrittenIn(new, s, f)
    <2>1. CASE j < i
      <3>1. new[j] = events[j] /\ j \in 1 .. n + 1
        BY <1>1, <1>2, <2>1
      <3> QED
        BY <1>2, <1>3, <3>1 DEF WrittenIn
    <2>2. CASE j >= i
      <3> DEFINE k == j + 1
      <3>1. k \in 1 .. n + 1 /\ ~(k < i) /\ k # i /\ k - 1 = j
        BY <1>1, <2>2
      <3> HIDE DEF k
      <3>2. new[k] = events[j]
        BY <1>2, <3>1
      <3> QED
        BY <1>2, <1>3, <3>1, <3>2 DEF WrittenIn
    <2> QED
      BY <1>1, <2>1, <2>2
  <1>4. ASSUME NEW j \in 1 .. n + 1, new[j].anchor_tick = s, f \in new[j].v
        PROVE  WrittenIn(events, s, f)
    <2>1. CASE j < i
      <3>1. new[j] = events[j] /\ j \in 1 .. n
        BY <1>1, <1>2, <2>1
      <3> QED
        BY <1>4, <3>1 DEF WrittenIn
    <2>2. CASE j = i
      BY <1>1, <1>2, <1>4, <2>2
    <2>3. CASE j > i
      <3>1. new[j] = events[j - 1] /\ j - 1 \in 1 .. n
        BY <1>1, <1>2, <2>3
      <3> QED
        BY <1>4, <3>1 DEF WrittenIn
    <2> QED
      BY <1>1, <2>1, <2>2, <2>3
  <1> QED
    BY <1>2, <1>3, <1>4 DEF WrittenIn, new, e

LEMMA GetOrInsertSame ==
  ASSUME NEW events \in Seq(Event), NEW t \in Nat, NEW s, NEW f
  PROVE  WrittenIn(events, s, f) <=> WrittenIn(GetOrInsert(events, t), s, f)
  <1>1. TickEnd(events, t) \in 1 .. Len(events) + 1
    BY TickEndIs
  <1>2. CASE HasEventAt(events, t)
    BY <1>2 DEF GetOrInsert
  <1>3. CASE ~HasEventAt(events, t)
    <2>1. GetOrInsert(events, t)
            = InsertAt(events, TickEnd(events, t), [anchor_tick |-> t, v |-> {}])
      BY <1>3 DEF GetOrInsert
    <2> QED
      BY <1>1, <2>1, InsertedSame
  <1> QED
    BY <1>2, <1>3

(* Sequences whose events are at the same ticks, and have the same fields  *)
(* but for some at t.                                                      *)
LEMMA FieldwiseSame ==
  ASSUME NEW old, NEW new, Len(new) = Len(old), NEW t, NEW fields,
         \A j \in 1 .. Len(old) :
           /\ new[j].anchor_tick = old[j].anchor_tick
           /\ \A f \in Fields : ~(old[j].anchor_tick = t /\ f \in fields) =>
                (f \in old[j].v <=> f \in new[j].v)
  PROVE  SameBut(old, new, t, fields)
  <1> SUFFICES ASSUME NEW s \in Nat, NEW f \in Fields, ~(s = t /\ f \in fields)
               PROVE  WrittenIn(old, s, f) <=> WrittenIn(new, s, f)
    BY DEF SameBut
  <1>1. \A j \in 1 .. Len(old) :
          (old[j].anchor_tick = s /\ f \in old[j].v)
            <=> (new[j].anchor_tick = s /\ f \in new[j].v)
    OBVIOUS
  <1> QED
    BY <1>1 DEF WrittenIn

LEMMA FieldsSetSame ==
  ASSUME NEW new \in Seq(Event), NEW k \in 1 .. Len(new), NEW t, new[k].anchor_tick = t,
         NEW dropped, NEW set
  PROVE  SameBut(new, FieldsSet(new, k, dropped, set), t, dropped \cup set)
  <1> DEFINE old == new[k]
             fields == (old.v \ dropped) \cup set
             e == [anchor_tick |-> old.anchor_tick, v |-> fields]
             edited == FieldsSet(new, k, dropped, set)
  <1>1. old \in Event /\ DOMAIN new = 1 .. Len(new) /\ Len(new) \in Nat
    BY EventFields
  <1>2. edited = [new EXCEPT ![k] = e]
    <2>1. old = [anchor_tick |-> old.anchor_tick, v |-> old.v]
      BY <1>1 DEF Event
    <2>2. edited = [new EXCEPT ![k] = [old EXCEPT !.v = fields]]
      BY <1>1 DEF FieldsSet
    <2>3. [old EXCEPT !.v = fields] = e
      <3> HIDE DEF fields, old
      <3> QED
        BY <2>1
    <2> HIDE DEF edited
    <2> QED
      BY <2>2, <2>3
  <1> HIDE DEF e, edited
  <1>3. Len(edited) = Len(new)
        /\ \A j \in 1 .. Len(new) : edited[j] = IF j = k THEN e ELSE new[j]
    BY <1>1, <1>2
  <1>4. e.anchor_tick = new[k].anchor_tick /\ e.v = fields
    BY DEF e
  <1>5. ASSUME NEW j \in 1 .. Len(new)
        PROVE  /\ edited[j].anchor_tick = new[j].anchor_tick
               /\ \A f \in Fields : ~(new[j].anchor_tick = t /\ f \in dropped \cup set) =>
                    (f \in new[j].v <=> f \in edited[j].v)
    BY <1>3, <1>4
  <1>6. SameBut(new, edited, t, dropped \cup set)
    BY <1>3, <1>5, FieldwiseSame
  <1> QED
    BY <1>6 DEF edited

LEMMA EraseEmptySame ==
  ASSUME NEW events \in Seq(Event), NEW s, NEW f
  PROVE  WrittenIn(EraseEmpty(events), s, f) <=> WrittenIn(events, s, f)
  <1> DEFINE g == CHOOSE g : Kept(g, events)
             N == Len(events)
             Upto(n) == \E i \in 1 .. n : events[i].anchor_tick = s /\ f \in events[i].v
             S == {n \in 0 .. N : g[n] \in Seq(Event) /\ (WrittenIn(g[n], s, f) <=> Upto(n))}
  <1>1. EraseEmpty(events) = g[N]
    BY DEF EraseEmpty, Kept
  <1>2. Kept(g, events)
    <2>1. \E h : Kept(h, events)
      BY KeptExists
    <2> QED
      BY <2>1
  <1> HIDE DEF g
  <1>3. N \in Nat /\ \A k \in 1 .. N : events[k] \in Event
    BY EventFields
  <1>4. g[0] = <<>>
    BY <1>2, <1>3 DEF Kept
  <1>5. ASSUME NEW k \in 1 .. N
        PROVE  g[k] = IF events[k].v = {} THEN g[k - 1] ELSE Append(g[k - 1], events[k])
    <2>1. k \in 0 .. N /\ k # 0
      BY <1>3
    <2> QED
      BY <1>2, <2>1 DEF Kept
  <1> HIDE DEF N
  <1>6. 0 \in S
    <2>1. g[0] \in Seq(Event) /\ Len(g[0]) = 0
      BY <1>4
    <2>2. ~WrittenIn(g[0], s, f) /\ ~Upto(0)
      BY <2>1 DEF WrittenIn
    <2> QED
      BY <1>3, <2>1, <2>2
  <1>7. ASSUME NEW n \in 1 .. N, n - 1 \in S
        PROVE  n \in S
    <2> DEFINE old == g[n - 1]
               new == g[n]
               e == events[n]
               here == e.anchor_tick = s /\ f \in e.v
    <2>1. old \in Seq(Event) /\ (WrittenIn(old, s, f) <=> Upto(n - 1)) /\ Len(old) \in Nat
      BY <1>7
    <2>2. n \in 0 .. N /\ e \in Event
      BY <1>3
    <2>3. Upto(n) <=> (Upto(n - 1) \/ here)
      <3>1. \A i \in 1 .. n : i \in 1 .. n - 1 \/ i = n
        BY <1>3
      <3>2. \A i \in 1 .. n - 1 : i \in 1 .. n
        BY <1>3
      <3>3. n \in 1 .. n
        BY <1>3
      <3> QED
        BY <3>1, <3>2, <3>3
    <2>4. CASE e.v = {}
      <3>1. new = old
        BY <1>5, <2>4
      <3>2. ~here
        BY <2>4
      <3> HIDE DEF Upto, old, new, here
      <3>3. new \in Seq(Event) /\ (WrittenIn(new, s, f) <=> Upto(n))
        BY <2>1, <2>3, <3>1, <3>2
      <3> QED
        BY <2>2, <3>3 DEF new
    <2>5. CASE e.v # {}
      <3>1. new = Append(old, e)
        BY <1>5, <2>5
      <3> DEFINE m == Len(old)
      <3>2. /\ new \in Seq(Event) /\ Len(new) = m + 1
            /\ \A i \in 1 .. m : new[i] = old[i]
            /\ new[m + 1] = e
        <4> HIDE DEF old, e, new
        <4> QED
          BY <2>1, <2>2, <3>1, AppendProperties
      <3>3. WrittenIn(new, s, f) <=> (WrittenIn(old, s, f) \/ here)
        <4> HIDE DEF old, e, new
        <4>1. /\ m \in Nat /\ m + 1 \in 1 .. m + 1
              /\ \A i \in 1 .. m + 1 : i \in 1 .. m \/ i = m + 1
              /\ \A i \in 1 .. m : i \in 1 .. m + 1
          BY <2>1
        <4> HIDE DEF m
        <4>2. WrittenIn(old, s, f) <=> \E i \in 1 .. m : old[i].anchor_tick = s /\ f \in old[i].v
          BY DEF WrittenIn, m
        <4>3. WrittenIn(new, s, f) <=> \E i \in 1 .. m + 1 : new[i].anchor_tick = s /\ f \in new[i].v
          BY <3>2 DEF WrittenIn
        <4> QED
          BY <3>2, <4>1, <4>2, <4>3
      <3> HIDE DEF Upto, old, new, here
      <3>4. new \in Seq(Event) /\ (WrittenIn(new, s, f) <=> Upto(n))
        BY <2>1, <2>3, <3>2, <3>3
      <3> QED
        BY <2>2, <3>4 DEF new
    <2> QED
      BY <2>4, <2>5
  <1>8. N \in S
    <2> HIDE DEF S
    <2>1. \A n \in 0 .. N : n \in S
      BY <1>3, <1>6, <1>7, CountUp
    <2> QED
      BY <1>3, <2>1
  <1> QED
    BY <1>1, <1>8 DEF WrittenIn, N

(* A block plays field f at t.                                             *)
PlaysAt(block, t, f) ==
  \E loop \in 0 .. block.loop_count - 1, rel \in Nat :
    t = LoopTime(block, loop) + rel /\ WrittenIn(block.events, rel, f)

LEMMA WrittenIs ==
  ASSUME NEW track \in Track
  PROVE  /\ \A x \in Written(track) :
              /\ x[1] \in Nat /\ x[2] \in Fields
              /\ \E k \in 1 .. Len(track) : PlaysAt(track[k], x[1], x[2])
         /\ \A x \in Nat \X Fields, k \in 1 .. Len(track) :
              PlaysAt(track[k], x[1], x[2]) => x \in Written(track)
  <1>1. DOMAIN track = 1 .. Len(track)
    BY DEF Track
  <1>2. ASSUME NEW x \in Written(track)
        PROVE  /\ x[1] \in Nat /\ x[2] \in Fields
               /\ \E k \in 1 .. Len(track) : PlaysAt(track[k], x[1], x[2])
    <2> DEFINE Plays(k, i) ==
                 {<<LoopTime(track[k], loop) + track[k].events[i].anchor_tick, f>> :
                    loop \in 0 .. track[k].loop_count - 1, f \in track[k].events[i].v}
    <2>1. PICK k \in 1 .. Len(track) : \E i \in DOMAIN track[k].events : x \in Plays(k, i)
      BY <1>1 DEF Written
    <2>2. track[k].events \in Seq(Event) /\ track[k].begin_tick \in Nat
          /\ track[k].length_ticks \in Nat /\ track[k].loop_count \in Nat
      BY BlockFields
    <2>3. PICK i \in 1 .. Len(track[k].events) : x \in Plays(k, i)
      <3>1. DOMAIN track[k].events = 1 .. Len(track[k].events)
        BY <2>2
      <3> HIDE DEF Plays
      <3> QED
        BY <2>1, <3>1
    <2>4. PICK loop \in 0 .. track[k].loop_count - 1, f \in track[k].events[i].v :
            x = <<LoopTime(track[k], loop) + track[k].events[i].anchor_tick, f>>
      BY <2>3
    <2>5. x[1] = LoopTime(track[k], loop) + track[k].events[i].anchor_tick /\ x[2] = f
      BY <2>4
    <2>6. track[k].events[i].anchor_tick \in Nat /\ f \in Fields
      BY <2>2, EventFields
    <2>7. LoopTime(track[k], loop) \in Nat
      <3> DEFINE length == track[k].length_ticks
                 begin == track[k].begin_tick
      <3>1. loop \in Nat /\ length \in Nat /\ begin \in Nat
        BY <2>2
      <3>2. LoopTime(track[k], loop) = begin + loop * length
        BY DEF LoopTime
      <3> HIDE DEF length, begin
      <3> QED
        BY <3>1, <3>2
    <2>8. WrittenIn(track[k].events, track[k].events[i].anchor_tick, f)
      BY DEF WrittenIn
    <2>9. PlaysAt(track[k], x[1], x[2])
      BY <2>5, <2>6, <2>8 DEF PlaysAt
    <2> QED
      BY <2>5, <2>6, <2>7, <2>9
  <1>3. ASSUME NEW x \in Nat \X Fields, NEW k \in 1 .. Len(track), PlaysAt(track[k], x[1], x[2])
        PROVE  x \in Written(track)
    <2>1. PICK loop \in 0 .. track[k].loop_count - 1, rel \in Nat :
            x[1] = LoopTime(track[k], loop) + rel /\ WrittenIn(track[k].events, rel, x[2])
      BY <1>3 DEF PlaysAt
    <2>2. PICK i \in 1 .. Len(track[k].events) :
            track[k].events[i].anchor_tick = rel /\ x[2] \in track[k].events[i].v
      BY <2>1 DEF WrittenIn
    <2>3. x = <<LoopTime(track[k], loop) + track[k].events[i].anchor_tick, x[2]>>
      BY <2>1, <2>2
    <2>4. i \in DOMAIN track[k].events
      BY BlockFields
    <2>5. x \in {<<LoopTime(track[k], l) + track[k].events[i].anchor_tick, f>> :
                   l \in 0 .. track[k].loop_count - 1, f \in track[k].events[i].v}
      BY <2>2, <2>3
    <2> QED
      BY <1>1, <2>4, <2>5 DEF Written
  <1> QED
    BY <1>2, <1>3

(* The command edits tick rel of a pattern or of a new block, and that is  *)
(* now, or now in another loop.                                            *)
Here(track, now, c, rel) ==
  \/ /\ c.class = "EditPattern" /\ c.block \in 1 .. Len(track)
     /\ \/ /\ c.value.length_ticks = track[c.block].length_ticks
           /\ rel < track[c.block].length_ticks
           /\ \E loop \in 0 .. track[c.block].loop_count - 1 :
                now = LoopTime(track[c.block], loop) + rel
        \/ track[c.block].loop_count = 1 /\ now = track[c.block].begin_tick + rel
  \/ /\ c.class = "AddBlock"
     /\ c.value.loop_count = 1 /\ now = c.value.begin_tick + rel

EventsBefore(track, c) == IF c.class = "AddBlock" THEN <<>> ELSE track[c.block].events

(* The command changes nothing but these fields, there.                    *)
LocalCommand(track, now, fields, c) ==
  \/ c.class = "Null"
  \/ \E rel \in Nat : /\ Here(track, now, c, rel)
                      /\ SameBut(EventsBefore(track, c), c.value.events, rel, fields)

(* Field f at t is the same in both tracks, unless it is one of these in   *)
(* the pattern at now.                                                     *)
SameElsewhere(old, new, now, fields) ==
  \A t \in Nat, f \in Fields :
    ~(SamePlace(old, now, t) /\ f \in fields) =>
      (<<t, f>> \in Written(old) <=> <<t, f>> \in Written(new))

LEMMA SameInLoops ==
  ASSUME NEW track \in Track, NEW k \in 1 .. Len(track), NEW rel \in Nat,
         rel < track[k].length_ticks,
         NEW a \in 0 .. track[k].loop_count - 1, NEW b \in 0 .. track[k].loop_count - 1
  PROVE  SamePlace(track, LoopTime(track[k], a) + rel, LoopTime(track[k], b) + rel)
  <1> DEFINE length == track[k].length_ticks
             begin == track[k].begin_tick
             loops == track[k].loop_count
             y == LoopTime(track[k], a) + rel
             t == LoopTime(track[k], b) + rel
  <1>1. length \in Nat \ {0} /\ begin \in Nat /\ loops \in Nat /\ k \in DOMAIN track
        /\ a \in Nat /\ b \in Nat /\ a <= loops - 1 /\ b <= loops - 1 /\ rel < length
    BY BlockFields DEF Track
  <1>2. y = begin + a * length + rel /\ t = begin + b * length + rel
        /\ EndTime(track[k]) = begin + loops * length
    BY DEF LoopTime, EndTime
  <1> HIDE DEF length, begin, loops, y, t
  <1>3. a * length + length <= loops * length /\ b * length + length <= loops * length
    <2>1. (a + 1) * length <= loops * length /\ (b + 1) * length <= loops * length
      BY <1>1, ProductGrows
    <2>2. (a + 1) * length = a * length + length /\ (b + 1) * length = b * length + length
      BY <1>1
    <2> QED
      BY <2>1, <2>2
  <1>4. a * length \in Nat /\ b * length \in Nat /\ loops * length \in Nat
    BY <1>1
  <1>5. {y, t} \subseteq begin .. EndTime(track[k]) - 1
    BY <1>1, <1>2, <1>3, <1>4
  <1>6. (y - t) % length = 0
    <2>1. y - t = (a - b) * length + 0
      BY <1>1, <1>2
    <2>2. a - b \in Int /\ 0 \in 0 .. length - 1
      BY <1>1
    <2>3. (((a - b) * length) + 0) % length = 0
      BY <1>1, <2>2, DivisionIsUnique
    <2> QED
      BY <2>1, <2>3
  <1> QED
    BY <1>1, <1>5, <1>6 DEF SamePlace, length, begin, y, t

LEMMA EditPatternLocal ==
  ASSUME NEW track \in Track, NEW c, EditPatternOk(track, c), NEW now \in Nat, NEW fields,
         NEW rel \in Nat, Here(track, now, c, rel),
         SameBut(track[c.block].events, c.value.events, rel, fields), ~Rejected(c),
         NEW t \in Nat, NEW f \in Fields, ~(SamePlace(track, now, t) /\ f \in fields)
  PROVE  LET new == TrackAfter(c, track)
         IN  /\ Len(new) = Len(track)
             /\ \A k \in 1 .. Len(track) : PlaysAt(track[k], t, f) <=> PlaysAt(new[k], t, f)
  <1> DEFINE k == c.block
             new == TrackAfter(c, track)
             old == track[k]
             edited == new[k]
             loops == old.loop_count
  <1>1. c.class = "EditPattern" /\ k \in 1 .. Len(track) /\ c.value \in PatternValues
    BY DEF EditPatternOk
  <1>2. Edited(new, track, k, c.value)
    BY <1>1 DEF TrackAfter, Edited
  <1> HIDE DEF new
  <1>3. /\ Len(new) = Len(track) /\ \A j \in 1 .. Len(track) : j # k => new[j] = track[j]
        /\ edited.begin_tick = old.begin_tick /\ edited.loop_count = loops
        /\ edited.length_ticks = c.value.length_ticks /\ edited.events = c.value.events
    BY <1>1, <1>2, EditedPattern
  <1>4. /\ old.begin_tick \in Nat /\ old.length_ticks \in Nat /\ loops \in Nat
        /\ c.value.length_ticks \in Nat
    BY <1>1, BlockFields DEF PatternValues
  <1>5. \A s \in Nat, g \in Fields :
          ~(s = rel /\ g \in fields) => (WrittenIn(old.events, s, g) <=> WrittenIn(edited.events, s, g))
    BY <1>3 DEF SameBut
  <1>6. \A loop \in 0 .. loops - 1 : LoopTime(edited, loop) = LoopTime(old, loop)
    <2>1. CASE c.value.length_ticks = old.length_ticks
      BY <1>3, <2>1 DEF LoopTime
    <2>2. CASE loops = 1
      <3>1. \A loop \in 0 .. loops - 1 : loop = 0
        BY <2>2
      <3>2. LoopTime(edited, 0) = LoopTime(old, 0)
        BY <1>3, <1>4 DEF LoopTime
      <3> QED
        BY <3>1, <3>2
    <2> QED
      BY <1>1, <2>1, <2>2 DEF Here
  <1>7. \A loop \in 0 .. loops - 1 : f \in fields => t # LoopTime(old, loop) + rel
    <2> SUFFICES ASSUME NEW loop \in 0 .. loops - 1, t = LoopTime(old, loop) + rel
                 PROVE  SamePlace(track, now, t)
      OBVIOUS
    <2>1. CASE /\ rel < old.length_ticks
               /\ \E l \in 0 .. loops - 1 : now = LoopTime(old, l) + rel
      BY <1>1, <2>1, SameInLoops
    <2>2. CASE loops = 1 /\ now = old.begin_tick + rel
      <3>1. loop = 0 /\ LoopTime(old, 0) = old.begin_tick
        BY <1>4, <2>2 DEF LoopTime
      <3> QED
        BY <2>2, <3>1 DEF SamePlace
    <2> QED
      BY <1>1, <2>1, <2>2 DEF Here
  <1> HIDE DEF old, edited, loops
  <1>8. PlaysAt(old, t, f) <=> PlaysAt(edited, t, f)
    <2>1. ASSUME NEW loop \in 0 .. loops - 1, NEW s \in Nat, t = LoopTime(old, loop) + s
          PROVE  WrittenIn(old.events, s, f) <=> WrittenIn(edited.events, s, f)
      BY <1>5, <1>7, <2>1
    <2>2. edited.loop_count = loops /\ old.loop_count = loops
      BY <1>3 DEF old, edited, loops
    <2> QED
      BY <1>6, <2>1, <2>2 DEF PlaysAt
  <1>9. ASSUME NEW j \in 1 .. Len(track)
        PROVE  PlaysAt(track[j], t, f) <=> PlaysAt(new[j], t, f)
    <2>1. CASE j = k
      BY <1>8, <2>1 DEF old, edited
    <2>2. CASE j # k
      BY <1>3, <2>2
    <2> QED
      BY <2>1, <2>2
  <1> QED
    BY <1>3, <1>9 DEF new

LEMMA AddBlockLocal ==
  ASSUME NEW track \in Track, NEW c, AddBlockOk(track, c), NEW now \in Nat, NEW fields,
         NEW rel \in Nat, c.value.loop_count = 1, now = c.value.begin_tick + rel,
         SameBut(<<>>, c.value.events, rel, fields),
         NEW t \in Nat, NEW f \in Fields, ~(SamePlace(track, now, t) /\ f \in fields)
  PROVE  LET new == TrackAfter(c, track)
         IN  (\E k \in 1 .. Len(track) : PlaysAt(track[k], t, f))
               <=> \E k \in 1 .. Len(new) : PlaysAt(new[k], t, f)
  <1> DEFINE k == c.block
             block == c.value
             n == Len(track)
             new == InsertAt(track, k, block)
  <1>1. TrackAfter(c, track) = new
    BY DEF TrackAfter, AddBlockOk, Rejected
  <1>2. block \in Block /\ k \in 1 .. n + 1 /\ n \in Nat
    BY DEF AddBlockOk, Track
  <1>3. ~PlaysAt(block, t, f)
    <2> SUFFICES ASSUME PlaysAt(block, t, f) PROVE FALSE
      OBVIOUS
    <2>1. PICK loop \in 0 .. block.loop_count - 1, s \in Nat :
            t = LoopTime(block, loop) + s /\ WrittenIn(block.events, s, f)
      BY DEF PlaysAt
    <2>2. loop = 0 /\ block.begin_tick \in Nat /\ block.length_ticks \in Nat
      BY <1>2 DEF Block
    <2>3. t = block.begin_tick + s
      BY <2>1, <2>2 DEF LoopTime
    <2>4. ~WrittenIn(<<>>, s, f)
      BY DEF WrittenIn
    <2>5. s = rel /\ f \in fields
      BY <2>1, <2>4 DEF SameBut
    <2>6. t = now
      BY <2>3, <2>5
    <2> QED
      BY <2>5, <2>6 DEF SamePlace
  <1> HIDE DEF k, block, new
  <1>4. /\ Len(new) = n + 1
        /\ \A j \in 1 .. n + 1 :
             new[j] = IF j < k THEN track[j] ELSE IF j = k THEN block ELSE track[j - 1]
    BY <1>2, InsertAtShape DEF new, Track
  <1> HIDE DEF n
  <1>5. ASSUME NEW j \in 1 .. n, PlaysAt(track[j], t, f)
        PROVE  \E i \in 1 .. n + 1 : PlaysAt(new[i], t, f)
    <2>1. CASE j < k
      <3>1. new[j] = track[j] /\ j \in 1 .. n + 1
        BY <1>2, <1>4, <2>1
      <3> QED
        BY <1>5, <3>1
    <2>2. CASE j >= k
      <3> DEFINE i == j + 1
      <3>1. i \in 1 .. n + 1 /\ ~(i < k) /\ i # k /\ i - 1 = j
        BY <1>2, <2>2
      <3> HIDE DEF i
      <3>2. new[i] = track[j]
        BY <1>4, <3>1
      <3> QED
        BY <1>5, <3>1, <3>2
    <2> QED
      BY <1>2, <2>1, <2>2
  <1>6. ASSUME NEW j \in 1 .. n + 1, PlaysAt(new[j], t, f)
        PROVE  \E i \in 1 .. n : PlaysAt(track[i], t, f)
    <2>1. CASE j < k
      <3>1. new[j] = track[j] /\ j \in 1 .. n
        BY <1>2, <1>4, <2>1
      <3> QED
        BY <1>6, <3>1
    <2>2. CASE j = k
      BY <1>2, <1>3, <1>4, <1>6, <2>2
    <2>3. CASE j > k
      <3>1. new[j] = track[j - 1] /\ j - 1 \in 1 .. n
        BY <1>2, <1>4, <2>3
      <3> QED
        BY <1>6, <3>1
    <2> QED
      BY <1>2, <2>1, <2>2, <2>3
  <1> QED
    BY <1>1, <1>4, <1>5, <1>6 DEF n

(* A local command leaves what is written elsewhere.                       *)
LEMMA LocalCommandIsLocal ==
  ASSUME NEW track \in Track, TrackOk(track), NEW now \in Nat, NEW fields, NEW c,
         CommandOk(track, c), LocalCommand(track, now, fields, c)
  PROVE  SameElsewhere(track, TrackAfter(c, track), now, fields)
  <1> DEFINE new == TrackAfter(c, track)
  <1>1. new \in Track
    BY CommandKeepsTrack
  <1> SUFFICES ASSUME NEW t \in Nat, NEW f \in Fields, ~(SamePlace(track, now, t) /\ f \in fields)
               PROVE  <<t, f>> \in Written(track) <=> <<t, f>> \in Written(new)
    BY DEF SameElsewhere
  <1>2. CASE c.class = "Null" \/ Rejected(c)
    <2>1. new = track
      BY <1>2 DEF TrackAfter, Rejected
    <2> QED
      BY <2>1
  <1>3. CASE ~(c.class = "Null" \/ Rejected(c))
    <2>1. PICK rel \in Nat : /\ Here(track, now, c, rel)
                             /\ SameBut(EventsBefore(track, c), c.value.events, rel, fields)
      BY <1>3 DEF LocalCommand
    <2>2. (\E k \in 1 .. Len(track) : PlaysAt(track[k], t, f))
            <=> \E k \in 1 .. Len(new) : PlaysAt(new[k], t, f)
      <3>1. CASE EditPatternOk(track, c)
        <4>1. EventsBefore(track, c) = track[c.block].events
          BY <3>1 DEF EditPatternOk, EventsBefore
        <4>2. /\ Len(new) = Len(track)
              /\ \A k \in 1 .. Len(track) : PlaysAt(track[k], t, f) <=> PlaysAt(new[k], t, f)
          BY <1>3, <2>1, <3>1, <4>1, EditPatternLocal
        <4> HIDE DEF new
        <4> QED
          BY <4>2
      <3>2. CASE AddBlockOk(track, c)
        <4>1. c.class = "AddBlock" /\ EventsBefore(track, c) = <<>>
          BY <3>2 DEF AddBlockOk, EventsBefore
        <4>2. c.value.loop_count = 1 /\ now = c.value.begin_tick + rel
          BY <2>1, <4>1 DEF Here
        <4>3. SameBut(<<>>, c.value.events, rel, fields)
          BY <2>1, <4>1
        <4> QED
          BY <3>2, <4>2, <4>3, AddBlockLocal
      <3> QED
        BY <1>3, <3>1, <3>2 DEF CommandOk
    <2> HIDE DEF new
    <2>3. <<t, f>> \in Written(track) <=> \E k \in 1 .. Len(track) : PlaysAt(track[k], t, f)
      <3> DEFINE x == <<t, f>>
      <3>1. x \in Nat \X Fields /\ x[1] = t /\ x[2] = f
        OBVIOUS
      <3> HIDE DEF x
      <3>2. x \in Written(track) <=> \E k \in 1 .. Len(track) : PlaysAt(track[k], x[1], x[2])
        BY <3>1, WrittenIs
      <3> QED
        BY <3>1, <3>2 DEF x
    <2>4. <<t, f>> \in Written(new) <=> \E k \in 1 .. Len(new) : PlaysAt(new[k], t, f)
      <3> DEFINE x == <<t, f>>
      <3>1. x \in Nat \X Fields /\ x[1] = t /\ x[2] = f
        OBVIOUS
      <3> HIDE DEF x
      <3>2. x \in Written(new) <=> \E k \in 1 .. Len(new) : PlaysAt(new[k], x[1], x[2])
        BY <1>1, <3>1, WrittenIs
      <3> QED
        BY <3>1, <3>2 DEF x
    <2> QED
      BY <2>2, <2>3, <2>4
  <1> QED
    BY <1>2, <1>3

(* Making room leaves the events, at now.                                  *)
MadeHere(track, now, made) ==
  /\ Here(track, now, made.command, made.rel_tick)
  /\ made.rel_tick \in Nat
  /\ made.command.value.events = EventsBefore(track, made.command)

LEMMA PatternHere ==
  ASSUME NEW track \in Track, NEW now \in Nat, ~SnappedLater(track, now)
  PROVE  LET p == PatternAt(track, now)
             rel == now - PatternBegin(track, p)
         IN  /\ p.block \in 1 .. Len(track) /\ p.loop \in 0 .. track[p.block].loop_count - 1
             /\ rel \in Nat /\ rel < track[p.block].length_ticks
             /\ now = LoopTime(track[p.block], p.loop) + rel
  <1> DEFINE p == PatternAt(track, now)
             begin == PatternBegin(track, p)
             length == track[p.block].length_ticks
  <1>1. /\ p.block \in 1 .. Len(track) /\ p.loop \in 0 .. track[p.block].loop_count - 1
        /\ begin \in Int /\ begin <= now /\ now < begin + length
    BY PatternAtIs
  <1>2. length \in Nat
    BY <1>1, BlockFields
  <1>3. begin = LoopTime(track[p.block], p.loop)
    BY DEF PatternBegin
  <1>4. now - begin \in Nat /\ now - begin < length /\ now = begin + (now - begin)
    <2> HIDE DEF begin, length
    <2> QED
      BY <1>1, <1>2
  <1> HIDE DEF p, begin, length
  <1> QED
    BY <1>1, <1>3, <1>4 DEF p, begin, length

LEMMA TryMakeHere ==
  ASSUME NEW opts, OptionsOk(opts), NEW track \in Track, NEW now \in Nat, NEW mode
  PROVE  LET made == TryMake(opts, track, now, mode)
         IN  made = None \/ MadeHere(track, now, made)
  <1>1. CASE ~SnappedLater(track, now)
    <2> DEFINE p == PatternAt(track, now)
               rel == now - PatternBegin(track, p)
               made == CreateOrEdit("EditPattern", p.block, PatternOf(track[p.block]), rel)
    <2>1. TryMake(opts, track, now, mode) = made
      BY <1>1 DEF TryMake
    <2>2. /\ made.command.class = "EditPattern" /\ made.command.block = p.block
          /\ made.command.value.length_ticks = track[p.block].length_ticks
          /\ made.command.value.events = track[p.block].events
          /\ made.rel_tick = rel
      BY DEF CreateOrEdit, Command, PatternOf
    <2>3. /\ p.block \in 1 .. Len(track) /\ p.loop \in 0 .. track[p.block].loop_count - 1
          /\ rel \in Nat /\ rel < track[p.block].length_ticks
          /\ now = LoopTime(track[p.block], p.loop) + rel
      BY <1>1, PatternHere
    <2> HIDE DEF made, p, rel
    <2>4. MadeHere(track, now, made)
      BY <2>2, <2>3 DEF MadeHere, Here, EventsBefore
    <2> QED
      BY <2>1, <2>4
  <1>2. ASSUME SnappedLater(track, now), BlockAt(track, now) > 1,
               track[BlockAt(track, now) - 1].loop_count = 1
        PROVE  MadeHere(track, now, ExtendAbove(opts, track, now))
    <2> DEFINE k == BlockAt(track, now) - 1
               made == ExtendAbove(opts, track, now)
               rel == now - track[k].begin_tick
    <2>1. k \in 1 .. Len(track) /\ EndTime(track[k]) <= now
      BY <1>2, GapIs
    <2>2. track[k].begin_tick \in Nat /\ track[k].length_ticks \in Nat
          /\ EndTime(track[k]) \in Nat
          /\ EndTime(track[k]) >= track[k].begin_tick + track[k].length_ticks
      BY <2>1, BlockFields
    <2>3. rel \in Nat /\ now = track[k].begin_tick + rel
      <3> HIDE DEF k
      <3> QED
        BY <2>1, <2>2
    <2>4. /\ made.command.class = "EditPattern" /\ made.command.block = k
          /\ made.command.value.events = track[k].events
          /\ made.rel_tick = rel
      BY DEF ExtendAbove, CreateOrEdit, Command
    <2>5. track[k].loop_count = 1
      BY <1>2
    <2> HIDE DEF made, k, rel
    <2>6. MadeHere(track, now, made)
      BY <2>1, <2>3, <2>4, <2>5 DEF MadeHere, Here, EventsBefore
    <2> QED
      BY <2>6 DEF made
  <1>3. ASSUME NEW begin \in Nat, begin <= now
        PROVE  LET made == TryCreateBlock(opts, track, now, begin)
               IN  made = None \/ MadeHere(track, now, made)
    <2> DEFINE made == TryCreateBlock(opts, track, now, begin)
               rel == now - begin
    <2>1. CASE Len(track) >= MAX_BLOCKS_PER_TRACK
      BY <2>1 DEF TryCreateBlock
    <2>2. CASE ~(Len(track) >= MAX_BLOCKS_PER_TRACK)
      <3>1. /\ made.command.class = "AddBlock"
            /\ made.command.value.loop_count = 1 /\ made.command.value.begin_tick = begin
            /\ made.command.value.events = <<>> /\ made.rel_tick = rel
        BY <2>2 DEF TryCreateBlock, CreateOrEdit, Command
      <3>2. rel \in Nat /\ now = begin + rel
        BY <1>3
      <3> HIDE DEF made, rel
      <3>3. MadeHere(track, now, made)
        BY <3>1, <3>2 DEF MadeHere, Here, EventsBefore
      <3> QED
        BY <3>3 DEF made
    <2> QED
      BY <2>1, <2>2
  <1>4. CASE SnappedLater(track, now)
    <2> DEFINE k == BlockAt(track, now)
               above == k > 1
               above_unlooped == above /\ track[k - 1].loop_count = 1
               begin == IF above THEN EndTime(track[k - 1]) ELSE 0
               gap == GapBegin(opts, track, now)
               made == TryMake(opts, track, now, mode)
               new == TryCreateBlock(opts, track, now, begin)
               new_in_measure == TryCreateBlock(opts, track, now, gap)
               extended == ExtendAbove(opts, track, now)
    <2>1. (above_unlooped /\ made = extended) \/ made = new \/ made = new_in_measure
      BY <1>4 DEF TryMake, TryMakeInGap
    <2>2. gap \in Nat /\ gap <= now
          /\ (above => k - 1 \in 1 .. Len(track) /\ EndTime(track[k - 1]) <= now)
      BY <1>4, GapIs
    <2>3. begin \in Nat /\ begin <= now
      BY <2>2, BlockFields
    <2>4. above_unlooped => MadeHere(track, now, extended)
      BY <1>2, <1>4
    <2>5. new = None \/ MadeHere(track, now, new)
      <3> HIDE DEF begin
      <3> QED
        BY <1>3, <2>3
    <2>6. new_in_measure = None \/ MadeHere(track, now, new_in_measure)
      <3> HIDE DEF gap
      <3> QED
        BY <1>3, <2>2
    <2> HIDE DEF made, new, new_in_measure, extended, above_unlooped
    <2>7. made = None \/ MadeHere(track, now, made)
      BY <2>1, <2>4, <2>5, <2>6
    <2> QED
      BY <2>7 DEF made
  <1> QED
    BY <1>1, <1>4

LEMMA SameButJoins ==
  ASSUME NEW a, NEW b, NEW c, NEW t, NEW fields, SameBut(b, c, t, fields),
         \A s, f : WrittenIn(a, s, f) <=> WrittenIn(b, s, f)
  PROVE  SameBut(a, c, t, fields)
  BY DEF SameBut

LEMMA SettingFieldsLocal ==
  ASSUME NEW track \in Track, NEW now \in Nat, NEW made, MadeOf(track, made),
         MadeHere(track, now, made), NEW dropped, NEW set, NEW fields,
         dropped \cup set \subseteq fields
  PROVE  LocalCommand(track, now, fields, SettingFields(made, dropped, set))
  <1>1. PICK class, block, value, t :
          /\ made = CreateOrEdit(class, block, value, t)
          /\ t \in Nat /\ t < value.length_ticks
          /\ \/ EditPatternOk(track, Command(class, block, value))
             \/ AddBlockOk(track, Command(class, block, value)) /\ value.events = <<>>
    BY DEF MadeOf
  <1> DEFINE c == Command(class, block, value)
             new == GetOrInsert(value.events, t)
             k == TickEnd(new, t) - 1
             events == FieldsSet(new, k, dropped, set)
             edited == [value EXCEPT !.events = events]
             d == Command(class, block, edited)
  <1>2. /\ c.class = class /\ c.block = block /\ c.value = value
        /\ d.class = class /\ d.block = block /\ d.value = edited
    BY CommandFields
  <1>3. /\ value.events \in Seq(Event) /\ value.length_ticks \in Nat
        /\ EventsInOrder(value)
        /\ value \in PatternValues \/ value \in Block
    <2>1. CASE EditPatternOk(track, c)
      BY <1>2, <2>1 DEF EditPatternOk, PatternValues
    <2>2. CASE AddBlockOk(track, c)
      BY <1>2, <2>2 DEF AddBlockOk, Block
    <2> QED
      BY <1>1, <2>1, <2>2
  <1>4. made.command = c /\ made.rel_tick = t
    BY <1>1 DEF CreateOrEdit
  <1> HIDE DEF c
  <1>5. SettingFields(made, dropped, set) = d
    <2>1. SettingFields(made, dropped, set) = [c EXCEPT !.value.events = events]
      BY <1>2, <1>4 DEF SettingFields, FieldsSet
    <2> HIDE DEF events
    <2>2. c = [class |-> class, block |-> block, value |-> value]
      BY DEF c, Command
    <2>3. [c EXCEPT !.value.events = events]
            = [class |-> class, block |-> block, value |-> edited]
      BY <2>2
    <2> QED
      BY <2>1, <2>3 DEF Command
  <1> HIDE DEF d
  <1>6. EventsOk(value.events, value.length_ticks)
    BY <1>3, EventsInOrderIs
  <1>7. new \in Seq(Event) /\ WithEventAt(new, k, t, value.length_ticks)
    BY <1>1, <1>3, <1>6, GetOrInsertIs
  <1>8. \A s, f : WrittenIn(value.events, s, f) <=> WrittenIn(new, s, f)
    <2>1. ASSUME NEW s, NEW f
          PROVE  WrittenIn(value.events, s, f) <=> WrittenIn(GetOrInsert(value.events, t), s, f)
      BY <1>1, <1>3, GetOrInsertSame
    <2> QED
      BY <2>1
  <1> HIDE DEF new, k
  <1>9. SameBut(new, events, t, dropped \cup set)
    <2>1. k \in 1 .. Len(new) /\ new[k].anchor_tick = t
      BY <1>7 DEF WithEventAt
    <2> QED
      BY <1>7, <2>1, FieldsSetSame
  <1> HIDE DEF events
  <1>10. SameBut(value.events, events, t, fields)
    <2>1. SameBut(value.events, events, t, dropped \cup set)
      BY <1>8, <1>9, SameButJoins
    <2> QED
      BY <2>1 DEF SameBut
  <1>11. /\ edited.events = events /\ edited.length_ticks = value.length_ticks
         /\ class = "AddBlock" => edited.loop_count = value.loop_count
                                  /\ edited.begin_tick = value.begin_tick
    <2>1. CASE value \in PatternValues /\ class # "AddBlock"
      <3>1. value = [length_ticks |-> value.length_ticks, events |-> value.events]
        BY <2>1 DEF PatternValues
      <3>2. edited = [length_ticks |-> value.length_ticks, events |-> events]
        BY <3>1
      <3> QED
        BY <2>1, <3>2
    <2>2. CASE value \in Block
      <3>1. value = [begin_tick |-> value.begin_tick, loop_count |-> value.loop_count,
                     length_ticks |-> value.length_ticks, events |-> value.events]
        BY <2>2 DEF Block
      <3>2. edited = [begin_tick |-> value.begin_tick, loop_count |-> value.loop_count,
                      length_ticks |-> value.length_ticks, events |-> events]
        BY <3>1
      <3> QED
        BY <3>2
    <2>3. class = "AddBlock" => value \in Block
      BY <1>1, <1>2 DEF AddBlockOk, EditPatternOk, c
    <2> QED
      BY <1>3, <2>1, <2>2, <2>3
  <1> HIDE DEF edited
  <1>12. Here(track, now, c, t) /\ value.events = EventsBefore(track, c)
    BY <1>2, <1>4 DEF MadeHere
  <1>13. Here(track, now, d, t)
    BY <1>2, <1>11, <1>12 DEF Here
  <1>14. EventsBefore(track, d) = EventsBefore(track, c)
    BY <1>2 DEF EventsBefore
  <1>15. SameBut(EventsBefore(track, d), d.value.events, t, fields)
    BY <1>2, <1>10, <1>11, <1>12, <1>14
  <1>16. LocalCommand(track, now, fields, d)
    BY <1>1, <1>13, <1>15 DEF LocalCommand
  <1> QED
    BY <1>5, <1>16

LEMMA MadeCommandLocal ==
  ASSUME NEW track, NEW now, NEW made, MadeHere(track, now, made), NEW fields
  PROVE  LocalCommand(track, now, fields, made.command)
  <1>1. SameBut(EventsBefore(track, made.command), made.command.value.events,
                made.rel_tick, fields)
    BY DEF MadeHere, SameBut
  <1> QED
    BY <1>1 DEF MadeHere, LocalCommand

LEMMA DeleteCellLocal ==
  ASSUME NEW track \in Track, NEW now \in Nat, NEW field
  PROVE  LocalCommand(track, now, ErasedFields(field), DeleteCell(track, field, now))
  <1>1. CASE SnappedLater(track, now)
    BY <1>1 DEF DeleteCell, LocalCommand, NullEditCommand, Command
  <1>2. CASE ~SnappedLater(track, now)
    <2> DEFINE p == PatternAt(track, now)
               k == p.block
               value == PatternOf(track[k])
               rel_tick == now - PatternBegin(track, p)
               fields == ErasedFields(field)
               erased(e) == IF e.anchor_tick = rel_tick
                              THEN [e EXCEPT !.v = @ \ fields] ELSE e
               events == value.events
               left == [j \in DOMAIN events |-> erased(events[j])]
               edited == [value EXCEPT !.events = EraseEmpty(left)]
               c == Command("EditPattern", k, edited)
    <2>1. DeleteCell(track, field, now) = c
      BY <1>2 DEF DeleteCell
    <2>2. /\ k \in 1 .. Len(track) /\ p.loop \in 0 .. track[k].loop_count - 1
          /\ rel_tick \in Nat /\ rel_tick < track[k].length_ticks
          /\ now = LoopTime(track[k], p.loop) + rel_tick
      BY <1>2, PatternHere
    <2>3. value = [length_ticks |-> track[k].length_ticks, events |-> track[k].events]
          /\ events = track[k].events
      BY DEF PatternOf
    <2>4. events \in Seq(Event)
      BY <2>2, <2>3, BlockFields
    <2> HIDE DEF p, k, value, rel_tick, fields, events
    <2>5. ASSUME NEW e \in Event
          PROVE  erased(e) \in Event /\ erased(e).anchor_tick = e.anchor_tick
                 /\ erased(e).v = IF e.anchor_tick = rel_tick THEN e.v \ fields ELSE e.v
      <3>1. CASE e.anchor_tick = rel_tick
        <4> DEFINE new == [anchor_tick |-> e.anchor_tick, v |-> e.v \ fields]
        <4>1. e = [anchor_tick |-> e.anchor_tick, v |-> e.v] /\ e.anchor_tick \in Nat
              /\ e.v \in SUBSET Fields
          BY DEF Event
        <4>2. [e EXCEPT !.v = @ \ fields] = new
          BY <4>1
        <4>3. erased(e) = new
          BY <3>1, <4>2
        <4>4. new \in Event /\ new.anchor_tick = e.anchor_tick /\ new.v = e.v \ fields
          BY <4>1 DEF Event
        <4> HIDE DEF new, erased
        <4> QED
          BY <3>1, <4>3, <4>4
      <3>2. CASE e.anchor_tick # rel_tick
        BY <3>2
      <3> QED
        BY <3>1, <3>2
    <2> HIDE DEF erased
    <2>6. DOMAIN events = 1 .. Len(events) /\ Len(events) \in Nat
          /\ \A j \in 1 .. Len(events) : events[j] \in Event
      BY <2>4
    <2>7. left \in Seq(Event) /\ Len(left) = Len(events)
          /\ \A j \in 1 .. Len(events) : left[j] = erased(events[j])
      <3>1. left = [j \in 1 .. Len(events) |-> erased(events[j])]
        BY <2>6
      <3>2. \A j \in 1 .. Len(events) : erased(events[j]) \in Event
        BY <2>5, <2>6
      <3> HIDE DEF left
      <3> QED
        BY <2>6, <3>1, <3>2
    <2> HIDE DEF left
    <2>8. SameBut(events, left, rel_tick, fields)
      <3>1. ASSUME NEW j \in 1 .. Len(events)
            PROVE  /\ left[j].anchor_tick = events[j].anchor_tick
                   /\ \A f \in Fields : ~(events[j].anchor_tick = rel_tick /\ f \in fields) =>
                        (f \in events[j].v <=> f \in left[j].v)
        BY <2>5, <2>6, <2>7
      <3> QED
        BY <2>7, <3>1, FieldwiseSame
    <2> DEFINE kept == EraseEmpty(left)
    <2>9. SameBut(events, kept, rel_tick, fields)
      <3>1. \A s, f : WrittenIn(kept, s, f) <=> WrittenIn(left, s, f)
        BY <2>7, EraseEmptySame
      <3> HIDE DEF kept
      <3> QED
        BY <2>8, <3>1 DEF SameBut
    <2> HIDE DEF kept
    <2>10. /\ c.class = "EditPattern" /\ c.block = k
           /\ c.value.length_ticks = track[k].length_ticks /\ c.value.events = kept
      <3>1. edited = [length_ticks |-> track[k].length_ticks, events |-> kept]
        BY <2>3 DEF kept
      <3>2. c.class = "EditPattern" /\ c.block = k /\ c.value = edited
        BY CommandFields
      <3> HIDE DEF c, edited
      <3> QED
        BY <3>1, <3>2
    <2> HIDE DEF c
    <2>11. Here(track, now, c, rel_tick)
      BY <2>2, <2>10 DEF Here
    <2>12. SameBut(EventsBefore(track, c), c.value.events, rel_tick, fields)
      BY <2>3, <2>9, <2>10 DEF EventsBefore
    <2>13. LocalCommand(track, now, fields, c)
      BY <2>2, <2>11, <2>12 DEF LocalCommand
    <2> QED
      BY <2>1, <2>13 DEF fields
  <1> QED
    BY <1>1, <1>2

LEMMA TypingLocal ==
  ASSUME NEW opts, OptionsOk(opts), NEW track \in Track, TrackOk(track), NEW now \in Nat,
         NEW mode
  PROVE  /\ \A note \in {"note", "cut"}, instrument \in BOOLEAN :
              LocalCommand(track, now, ErasedFields("note"),
                           InsertNote(opts, track, now, mode, note, instrument))
         /\ \A field \in SubColumnFields \ {"note"} :
              /\ LocalCommand(track, now, ErasedFields(field),
                              AddDigit(opts, track, now, mode, field))
              /\ LocalCommand(track, now, ErasedFields(field),
                              AddEffectChar(opts, track, now, mode, field))
  <1> DEFINE made == TryMake(opts, track, now, mode)
  <1>1. \A fields : LocalCommand(track, now, fields, NullEditCommand)
    BY DEF LocalCommand, NullEditCommand, Command
  <1>2. made # None => MadeOf(track, made) /\ MadeHere(track, now, made)
    BY TryMakeOk, TryMakeHere
  <1>3. ASSUME NEW note \in {"note", "cut"}, NEW instrument \in BOOLEAN
        PROVE  LocalCommand(track, now, ErasedFields("note"),
                            InsertNote(opts, track, now, mode, note, instrument))
    <2> DEFINE dropped == {"note", "cut"} \cup (IF note = "cut" THEN {"instr"} ELSE {})
               set == {note} \cup (IF instrument /\ note # "cut" THEN {"instr"} ELSE {})
               fields == ErasedFields("note")
    <2>1. dropped \cup set \subseteq fields
      BY DEF ErasedFields
    <2>2. InsertNote(opts, track, now, mode, note, instrument)
            = IF made = None THEN NullEditCommand ELSE SettingFields(made, dropped, set)
      BY DEF InsertNote
    <2> HIDE DEF made, dropped, set, fields
    <2>3. made # None => LocalCommand(track, now, fields, SettingFields(made, dropped, set))
      BY <1>2, <2>1, SettingFieldsLocal
    <2> QED
      BY <1>1, <2>2, <2>3 DEF fields
  <1>4. ASSUME NEW field \in SubColumnFields \ {"note"}
        PROVE  /\ LocalCommand(track, now, ErasedFields(field),
                               AddDigit(opts, track, now, mode, field))
               /\ LocalCommand(track, now, ErasedFields(field),
                               AddEffectChar(opts, track, now, mode, field))
    <2> DEFINE fields == ErasedFields(field)
               set == {field}
               dropped == {}
    <2>1. dropped \cup set \subseteq fields
      BY DEF ErasedFields
    <2>2. /\ AddDigit(opts, track, now, mode, field)
               = IF made = None THEN NullEditCommand
                 ELSE IF field \in {"instr", "volume"} THEN SettingFields(made, dropped, set)
                 ELSE made.command
          /\ AddEffectChar(opts, track, now, mode, field)
               = IF made = None THEN NullEditCommand ELSE SettingFields(made, dropped, set)
      BY DEF AddDigit, AddEffectChar
    <2> HIDE DEF made, set, fields, dropped
    <2>3. made # None => /\ LocalCommand(track, now, fields, SettingFields(made, dropped, set))
                         /\ LocalCommand(track, now, fields, made.command)
      BY <1>2, <2>1, SettingFieldsLocal, MadeCommandLocal
    <2> QED
      BY <1>1, <2>2, <2>3 DEF fields
  <1> QED
    BY <1>3, <1>4

(* The change of the documents' tracks is where the cursor is.             *)
ChangeIsLocal ==
  \A c \in Columns :
    \A x \in (Written(document.tracks[c]) \ Written(document'.tracks[c]))
               \cup (Written(document'.tracks[c]) \ Written(document.tracks[c])) :
      /\ c = cursor.x.column
      /\ SamePlace(CursorTrack, cursor.y, x[1])
      /\ x[2] \in ErasedFields(SubColumnAt(cursor.x))

LEMMA PushEditLocal ==
  ASSUME EditorInv, NEW command, CommandOk(CursorTrack, command), NEW after,
         LocalCommand(CursorTrack, cursor.y, ErasedFields(SubColumnAt(cursor.x)), command),
         PushEdit(command, after)
  PROVE  ChangeIsLocal
  <1> DEFINE here == cursor.x.column
             old == CursorTrack
             new == TrackAfter(command, CursorTrack)
             now == cursor.y
             fields == ErasedFields(SubColumnAt(cursor.x))
  <1>1. /\ here \in Columns /\ old \in Track /\ TrackOk(old) /\ now \in Nat
        /\ DocumentInOrder(document)
    BY InvFields DEF EditorInv, EditorOk
  <1>2. new \in Track /\ TrackOk(new)
    BY <1>1, CommandKeepsTrack
  <1>3. document'.tracks = [document.tracks EXCEPT ![here] = new]
    <2>1. document' = WithTrack(document, here, new)
      BY DEF PushEdit, WithTrack, CursorTrack
    <2>2. here \in DOMAIN document.tracks
      BY <1>1 DEF Columns
    <2> HIDE DEF here, new
    <2> QED
      BY <1>1, <1>2, <2>1, <2>2, WithTrackIs
  <1>4. SameElsewhere(old, new, now, fields)
    <2> HIDE DEF old, now, fields
    <2> QED
      BY <1>1, LocalCommandIsLocal DEF old, now, fields
  <1>5. ASSUME NEW c \in Columns, c # here
        PROVE  document'.tracks[c] = document.tracks[c]
    BY <1>3, <1>5 DEF Columns
  <1>6. document'.tracks[here] = new /\ document.tracks[here] = old
    BY <1>1, <1>3 DEF Columns, CursorTrack
  <1>7. ASSUME NEW x \in (Written(old) \ Written(new)) \cup (Written(new) \ Written(old))
        PROVE  SamePlace(old, now, x[1]) /\ x[2] \in fields
    <2>1. x \in Written(old) \/ x \in Written(new)
      OBVIOUS
    <2>2. x[1] \in Nat /\ x[2] \in Fields
      <3> HIDE DEF old, new
      <3> QED
        BY <1>1, <1>2, <2>1, WrittenIs
    <2>3. x = <<x[1], x[2]>>
      <3> HIDE DEF old, new
      <3>1. \A track : \A y \in Written(track) : y = <<y[1], y[2]>>
        BY DEF Written
      <3> QED
        BY <2>1, <3>1
    <2> DEFINE t == x[1]
               f == x[2]
    <2> HIDE DEF old, new, now, fields
    <2>4. ~(<<t, f>> \in Written(old) <=> <<t, f>> \in Written(new))
      BY <2>3
    <2> QED
      BY <1>4, <2>2, <2>4 DEF SameElsewhere
  <1> HIDE DEF here, old, new, now, fields
  <1>8. ASSUME NEW c \in Columns,
               NEW x \in (Written(document.tracks[c]) \ Written(document'.tracks[c]))
                           \cup (Written(document'.tracks[c]) \ Written(document.tracks[c]))
        PROVE  c = here /\ SamePlace(old, now, x[1]) /\ x[2] \in fields
    <2>1. c = here
      BY <1>5, <1>8
    <2>2. x \in (Written(old) \ Written(new)) \cup (Written(new) \ Written(old))
      BY <1>6, <1>8, <2>1
    <2> QED
      BY <1>7, <2>1, <2>2
  <1> QED
    BY <1>8 DEF ChangeIsLocal, here, old, now, fields

LEMMA EditKeyLocal ==
  ASSUME EditorInv, NEW s \in Settings, EditKey(s)
  PROVE  ChangeIsLocal
  <1> DEFINE track == CursorTrack
             now == cursor.y
             field == SubColumnAt(cursor.x)
             fields == ErasedFields(field)
  <1>1. /\ OptionsOk(opt) /\ track \in Track /\ TrackOk(track) /\ now \in Nat
    BY InvFields
  <1>2. field \in SubColumnFields
    BY FieldHere
  <1>3. ASSUME NEW note \in {"note", "cut"}, NEW instrument \in BOOLEAN,
               NotePressed(s, note, instrument)
        PROVE  ChangeIsLocal
    <2> DEFINE command == InsertNote(opt, track, now, s.extend_block, note, instrument)
    <2>1. field = "note" /\ PushEdit(command, StepCursor(s))
      BY <1>3 DEF NotePressed
    <2>2. CommandOk(track, command) /\ LocalCommand(track, now, ErasedFields("note"), command)
      <3> HIDE DEF track, now
      <3> QED
        BY <1>1, TypingOk, TypingLocal
    <2> HIDE DEF command
    <2> QED
      BY <2>1, <2>2, PushEditLocal
  <1>4. ASSUME DigitPressed(s) PROVE ChangeIsLocal
    <2> DEFINE command == AddDigit(opt, track, now, s.extend_block, field)
    <2>1. field # "note" /\ PushEdit(command, StepCursor(s))
      BY <1>4 DEF DigitPressed, IsEffect
    <2>2. CommandOk(track, command) /\ LocalCommand(track, now, fields, command)
      <3> HIDE DEF track, now, field
      <3> QED
        BY <1>1, <1>2, <2>1, TypingOk, TypingLocal
    <2> HIDE DEF command
    <2> QED
      BY <2>1, <2>2, PushEditLocal
  <1>5. ASSUME EffectCharPressed(s) PROVE ChangeIsLocal
    <2> DEFINE command == AddEffectChar(opt, track, now, s.extend_block, field)
    <2>1. field # "note" /\ PushEdit(command, StepCursor(s))
      BY <1>5 DEF EffectCharPressed, IsEffect
    <2>2. CommandOk(track, command) /\ LocalCommand(track, now, fields, command)
      <3> HIDE DEF track, now, field
      <3> QED
        BY <1>1, <1>2, <2>1, TypingOk, TypingLocal
    <2> HIDE DEF command
    <2> QED
      BY <2>1, <2>2, PushEditLocal
  <1>6. ASSUME DeleteKeyPressed(s) PROVE ChangeIsLocal
    <2> DEFINE command == DeleteCell(track, field, now)
    <2>1. PushEdit(command, StepDownOnly(cursor, s))
      BY <1>6 DEF DeleteKeyPressed
    <2>2. CommandOk(track, command) /\ LocalCommand(track, now, fields, command)
      <3> HIDE DEF track, now, field
      <3> QED
        BY <1>1, DeleteCellOk, DeleteCellLocal
    <2> HIDE DEF command
    <2> QED
      BY <2>1, <2>2, PushEditLocal
  <1> QED
    BY <1>3, <1>4, <1>5, <1>6 DEF EditKey

(* Only keys that edit count as edits.                                     *)
LEMMA OthersDoNotEdit ==
  ASSUME EditorInv, Next, ~(\E s \in Settings : EditKey(s))
  PROVE  edits' # edits + 1
  <1>1. edits \in Nat
    BY DEF EditorInv
  <1>2. CASE \E shift \in BOOLEAN : CursorKey(shift)
    <2>1. PICK shift \in BOOLEAN : CursorKey(shift)
      BY <1>2
    <2>2. (\A y : MoveY(shift, y) => edits' = edits) /\ (\A x : MoveX(shift, x) => edits' = edits)
      BY DEF MoveY, MoveX, OnCursorMove
    <2>3. (\E y : MoveY(shift, y)) \/ \E x : MoveX(shift, x)
      BY <2>1, Zenon DEF CursorKey, UpPressed, DownPressed,
         UpRowPressed, DownRowPressed, PrevBeatPressed, NextBeatPressed, PrevEventPressed,
         NextEventPressed, ScrollPrevPressed, ScrollNextPressed, TopPressed, BottomPressed,
         PrevPatternPressed, NextPatternPressed, LeftPressed, RightPressed, ScrollLeftPressed,
         ScrollRightPressed
    <2> QED
      BY <1>1, <2>2, <2>3
  <1>3. CASE EscapePressed \/ SelectAllPressed \/ SelectionPaddingPressed
    BY <1>1, <1>3 DEF EscapePressed, SelectAllPressed, SelectionPaddingPressed, SetSelect
  <1>4. CASE ToggleEditPressed
    BY <1>1, <1>4 DEF ToggleEditPressed
  <1>5. CASE ZoomOutHalf \/ ZoomInHalf \/ ZoomOutTriplet \/ ZoomInTriplet
    <2>1. \A h : SetRowHeight(h) => edits' = edits
      BY DEF SetRowHeight
    <2> QED
      BY <1>1, <1>5, <2>1 DEF ZoomOutHalf, ZoomInHalf, ZoomOutTriplet, ZoomInTriplet, ZoomOut, ZoomIn
  <1>6. CASE \E ticks \in 0 .. MAX_TICK : FollowPlayback(ticks)
    BY <1>1, <1>6 DEF FollowPlayback
  <1>7. CASE \E doc \in Documents, h \in RowHeights : OpenDocument(doc, h)
    BY <1>1, <1>7 DEF OpenDocument
  <1> QED
    BY <1>2, <1>3, <1>4, <1>5, <1>6, <1>7 DEF Next

(* Typing and deleting change the cursor's subcolumn at the cursor and in  *)
(* the other loops of its pattern, and leave all other music where it was, *)
(* in any track that edits leave: when the block above is made longer,     *)
(* when one is made, and when an event becomes empty and is erased.        *)
THEOREM EditsAreLocalHolds == Spec => EditsAreLocal
  <1>1. EditorInv /\ [Next]_vars => [edits' = edits + 1 => ChangeIsLocal]_vars
    <2> SUFFICES ASSUME EditorInv, Next, edits' = edits + 1 PROVE ChangeIsLocal
      BY DEF EditorInv
    <2>1. PICK s \in Settings : EditKey(s)
      BY OthersDoNotEdit
    <2> QED
      BY <2>1, EditKeyLocal
  <1> QED
    BY <1>1, EditorInvHolds, PTL DEF Spec, EditsAreLocal, ChangeIsLocal

=============================================================================
