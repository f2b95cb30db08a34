---------------------------- MODULE LinkerProofs ----------------------------
(* The linker of the SPC export relocates every pointer once, whatever the *)
(* objects, the symbols and the size of the RAM, and in whichever order    *)
(* they are added.                                                         *)
EXTENDS Linker, TLAPS

LinkerTypeOK ==
  /\ aram \in [Addresses -> Int]
  /\ current_address \in Nat
  /\ symbol_addresses \in [Symbols -> Addresses \cup {None}]
  /\ pending_relocs \in [Symbols -> SUBSET Addresses]
  /\ placed \subseteq [begin : Nat, obj : Object]

(* The next object goes behind all others.                                 *)
Behind ==
  /\ START_ADDRESS <= current_address
  /\ \A p \in placed : End(p) <= current_address

(* a is where a pointer to symbol s was placed.                            *)
PointsTo(a, s) ==
  \E p \in placed : \E i \in 1 .. Len(p.obj.cells) :
    a = p.begin + i - 1 /\ p.obj.cells[i].symbol = s

(* What waits for a symbol is all pointers to it, until it is defined.     *)
PendingExact ==
  \A s \in Symbols : \A a \in Addresses :
    a \in pending_relocs[s] <=> PointsTo(a, s) /\ symbol_addresses[s] = None

IInv ==
  /\ LinkerTypeOK
  /\ Behind
  /\ PendingExact
  /\ HoldsObjects
  /\ Disjoint
  /\ SymbolsDefined

-----------------------------------------------------------------------------
LEMMA ModAram == ASSUME NEW n \in Int PROVE n % ARAM_SIZE \in Addresses
  BY AramAssumption DEF Addresses

LEMMA PlaceTypes ==
  ASSUME NEW p \in [begin : Nat, obj : Object]
  PROVE  /\ p.begin \in Nat
         /\ Len(p.obj.cells) \in Nat
         /\ End(p) = p.begin + Len(p.obj.cells)
         /\ p.obj.symbol \in Symbols \cup {None}
         /\ \A i \in 1 .. Len(p.obj.cells) :
              /\ p.obj.cells[i].value \in Int
              /\ p.obj.cells[i].symbol \in Symbols \cup {None}
  <1>1. p.obj \in Object /\ p.begin \in Nat
    OBVIOUS
  <1>2. p.obj.cells \in Seq(Cell) /\ p.obj.symbol \in Symbols \cup {None}
    BY <1>1 DEF Object
  <1>3. \A i \in 1 .. Len(p.obj.cells) : p.obj.cells[i] \in Cell
    BY <1>2
  <1> QED
    BY <1>1, <1>2, <1>3 DEF Cell, End

(* Two pointers at one address are the same one.                           *)
LEMMA OneCell ==
  ASSUME placed \subseteq [begin : Nat, obj : Object], Disjoint,
         NEW p \in placed, NEW q \in placed,
         NEW i \in 1 .. Len(p.obj.cells), NEW j \in 1 .. Len(q.obj.cells),
         p.begin + i - 1 = q.begin + j - 1
  PROVE  p = q /\ i = j
  <1>1. /\ p.begin \in Nat /\ Len(p.obj.cells) \in Nat
        /\ q.begin \in Nat /\ Len(q.obj.cells) \in Nat
        /\ End(p) = p.begin + Len(p.obj.cells) /\ End(q) = q.begin + Len(q.obj.cells)
    BY PlaceTypes
  <1>2. p = q \/ End(p) <= q.begin \/ End(q) <= p.begin
    BY DEF Disjoint
  <1> QED
    BY <1>1, <1>2

LEMMA InitIInv == LinkerInit => IInv
  BY AramAssumption DEF LinkerInit, IInv, LinkerTypeOK, Behind, PendingExact, PointsTo,
                        HoldsObjects, Disjoint, SymbolsDefined, Addresses

LEMMA NewIInv == NewLinker => IInv'
  BY AramAssumption DEF NewLinker, IInv, LinkerTypeOK, Behind, PendingExact, PointsTo,
                        HoldsObjects, Disjoint, SymbolsDefined, Addresses

LEMMA AlignUp ==
  ASSUME NEW n \in Nat
  PROVE  /\ ((n + PAGE_SIZE - 1) \div PAGE_SIZE) * PAGE_SIZE \in Nat
         /\ n <= ((n + PAGE_SIZE - 1) \div PAGE_SIZE) * PAGE_SIZE
  <1> DEFINE m == n + PAGE_SIZE - 1
  <1>1. m \in Nat /\ PAGE_SIZE \in Nat /\ PAGE_SIZE > 0
    BY AramAssumption
  <1>2. m \div PAGE_SIZE \in Nat /\ (m % PAGE_SIZE) \in 0 .. PAGE_SIZE - 1
    BY <1>1
  <1>3. m = PAGE_SIZE * (m \div PAGE_SIZE) + (m % PAGE_SIZE)
    BY <1>1
  <1>4. PAGE_SIZE * (m \div PAGE_SIZE) = (m \div PAGE_SIZE) * PAGE_SIZE
    BY <1>1, <1>2
  <1>5. (m \div PAGE_SIZE) * PAGE_SIZE \in Nat
    BY <1>1, <1>2
  <1> DEFINE d == (m \div PAGE_SIZE) * PAGE_SIZE
             r == m % PAGE_SIZE
  <1>6. d \in Nat /\ r \in 0 .. PAGE_SIZE - 1 /\ n + PAGE_SIZE - 1 = d + r
    BY <1>2, <1>3, <1>4, <1>5
  <1> HIDE DEF d, r, m
  <1>7. n <= d
    BY <1>1, <1>6
  <1> QED
    BY <1>6, <1>7 DEF d, m

LEMMA AlignIInv == IInv /\ AlignAddress => IInv'
  <1> SUFFICES ASSUME IInv, AlignAddress PROVE IInv'
    OBVIOUS
  <1>1. current_address \in Nat
    BY DEF IInv, LinkerTypeOK
  <1>2. current_address' \in Nat /\ current_address <= current_address'
    BY <1>1, AlignUp DEF AlignAddress
  <1>3. UNCHANGED <<aram, symbol_addresses, pending_relocs, placed>>
    BY DEF AlignAddress
  <1>4. LinkerTypeOK'
    BY <1>2, <1>3 DEF IInv, LinkerTypeOK
  <1>5. Behind'
    <2>1. START_ADDRESS <= current_address'
      BY <1>1, <1>2, AramAssumption DEF IInv, Behind
    <2>2. ASSUME NEW p \in placed PROVE End(p) <= current_address'
      <3>1. p \in [begin : Nat, obj : Object]
        BY DEF IInv, LinkerTypeOK
      <3>2. End(p) \in Nat /\ End(p) <= current_address
        BY <3>1, PlaceTypes DEF IInv, Behind
      <3> QED
        BY <3>2, <1>1, <1>2
    <2> QED
      BY <2>1, <2>2, <1>3 DEF Behind, End
  <1>6. PendingExact' /\ HoldsObjects' /\ Disjoint' /\ SymbolsDefined'
    BY <1>3 DEF IInv, PendingExact, PointsTo, HoldsObjects, Disjoint, SymbolsDefined, End
  <1> QED
    BY <1>4, <1>5, <1>6 DEF IInv

-----------------------------------------------------------------------------
(* What add_object() does, seen from the new place and from the old ones.  *)
LEMMA AddSteps ==
  ASSUME IInv, NEW obj \in Object, AddObject(obj)
  PROVE  LET new == Place(current_address, obj) IN
         /\ new \in [begin : Nat, obj : Object]
         /\ new.begin = current_address /\ new.obj = obj
         /\ End(new) = current_address + Len(obj.cells)
         /\ End(new) \in Nat
         /\ End(new) <= ARAM_SIZE
         /\ Len(obj.cells) \in Nat
         /\ current_address' = End(new)
         /\ placed' = placed \cup {new}
         /\ AddressOf(current_address) \in Addresses
         /\ obj.symbol # None => symbol_addresses[obj.symbol] = None
         /\ symbol_addresses' =
              [s \in Symbols |-> IF s = obj.symbol THEN AddressOf(current_address)
                                 ELSE symbol_addresses[s]]
  <1> DEFINE new == Place(current_address, obj)
  <1>1. current_address \in Nat
    BY DEF IInv, LinkerTypeOK
  <1>2. new \in [begin : Nat, obj : Object] /\ new.begin = current_address /\ new.obj = obj
    BY <1>1 DEF Place
  <1>3. End(new) = current_address + Len(obj.cells) /\ Len(obj.cells) \in Nat
    BY <1>2, PlaceTypes
  <1>4. AddressOf(current_address) \in Addresses
    BY <1>1, ModAram DEF AddressOf
  <1>5. CanAdd(obj)
    BY DEF AddObject
  <1>6. current_address' = current_address + Len(obj.cells)
    BY DEF AddObject
  <1>7. placed' = placed \cup {new}
    BY DEF AddObject
  <1>8. symbol_addresses' =
          [s \in Symbols |-> IF s = obj.symbol THEN AddressOf(current_address)
                             ELSE symbol_addresses[s]]
    BY DEF AddObject
  <1>9. current_address + Len(obj.cells) <= ARAM_SIZE
        /\ (obj.symbol # None => symbol_addresses[obj.symbol] = None)
    BY <1>5 DEF CanAdd
  <1> HIDE DEF new
  <1> QED
    BY <1>1, <1>2, <1>3, <1>4, <1>6, <1>7, <1>8, <1>9 DEF new

(* The cells of the new place, and the others.                             *)
LEMMA AddCells ==
  ASSUME IInv, NEW obj \in Object, AddObject(obj)
  PROVE  /\ \A i \in 1 .. Len(obj.cells) :
              aram'[current_address + i - 1] = Relocated(obj.cells[i], symbol_addresses')
         /\ \A a \in Addresses : a < current_address =>
              aram'[a] = IF obj.symbol # None /\ a \in pending_relocs[obj.symbol]
                         THEN (aram[a] + AddressOf(current_address)) % ARAM_SIZE
                         ELSE aram[a]
         /\ aram' \in [Addresses -> Int]
  <1> DEFINE begin == current_address
             end == current_address + Len(obj.cells)
  <1>1. begin \in Nat /\ Len(obj.cells) \in Nat /\ end \in Nat /\ end <= ARAM_SIZE
    BY AddSteps DEF IInv, LinkerTypeOK
  <1>2. aram' =
          [a \in Addresses |->
             IF begin <= a /\ a < end
               THEN Relocated(obj.cells[a - begin + 1], symbol_addresses')
             ELSE IF obj.symbol # None /\ a \in pending_relocs[obj.symbol]
               THEN (aram[a] + AddressOf(begin)) % ARAM_SIZE
             ELSE aram[a]]
    BY DEF AddObject
  <1> HIDE DEF end
  <1>3. ASSUME NEW i \in 1 .. Len(obj.cells)
        PROVE  aram'[begin + i - 1] = Relocated(obj.cells[i], symbol_addresses')
    <2>1. begin + i - 1 \in Addresses /\ begin <= begin + i - 1 /\ begin + i - 1 < end
          /\ (begin + i - 1) - begin + 1 = i
      BY <1>1, AramAssumption DEF Addresses, end
    <2> QED
      BY <1>2, <2>1
  <1>4. ASSUME NEW a \in Addresses, a < begin
        PROVE  aram'[a] = IF obj.symbol # None /\ a \in pending_relocs[obj.symbol]
                          THEN (aram[a] + AddressOf(begin)) % ARAM_SIZE
                          ELSE aram[a]
    <2>1. ~(begin <= a)
      BY <1>1, <1>4, AramAssumption DEF Addresses
    <2> QED
      BY <1>2, <2>1
  <1>5. aram' \in [Addresses -> Int]
    <2> SUFFICES ASSUME NEW a \in Addresses
                 PROVE  (IF begin <= a /\ a < end
                           THEN Relocated(obj.cells[a - begin + 1], symbol_addresses')
                         ELSE IF obj.symbol # None /\ a \in pending_relocs[obj.symbol]
                           THEN (aram[a] + AddressOf(begin)) % ARAM_SIZE
                         ELSE aram[a]) \in Int
      BY <1>2
    <2>1. a \in Int /\ aram[a] \in Int
      BY AramAssumption DEF Addresses, IInv, LinkerTypeOK
    <2>2. AddressOf(begin) \in Int
      BY <1>1, ModAram, AramAssumption DEF AddressOf, Addresses
    <2>3. (aram[a] + AddressOf(begin)) % ARAM_SIZE \in Int
      BY <2>1, <2>2, ModAram, AramAssumption DEF Addresses
    <2>4. CASE begin <= a /\ a < end
      <3>1. a - begin + 1 \in 1 .. Len(obj.cells)
        BY <1>1, <2>1, <2>4 DEF end
      <3>2. obj.cells[a - begin + 1] \in Cell
        BY <3>1 DEF Object
      <3> DEFINE cell == obj.cells[a - begin + 1]
      <3>3. cell.value \in Int /\ cell.symbol \in Symbols \cup {None}
        BY <3>2 DEF Cell
      <3>4. symbol_addresses' \in [Symbols -> Addresses \cup {None}]
        BY AddSteps DEF IInv, LinkerTypeOK
      <3> HIDE DEF cell
      <3>5. Relocated(cell, symbol_addresses') \in Int
        <4>1. CASE cell.symbol = None
          BY <4>1, <3>3 DEF Relocated
        <4>2. CASE cell.symbol # None
          <5>1. symbol_addresses'[cell.symbol] \in Addresses \cup {None}
            BY <3>3, <3>4, <4>2
          <5>2. CASE symbol_addresses'[cell.symbol] = None
            BY <3>3, <5>2 DEF Relocated
          <5>3. CASE symbol_addresses'[cell.symbol] # None
            <6>1. cell.value + symbol_addresses'[cell.symbol] \in Int
              BY <3>3, <5>1, <5>3, AramAssumption DEF Addresses
            <6>2. (cell.value + symbol_addresses'[cell.symbol]) % ARAM_SIZE \in Int
              BY <6>1, ModAram, AramAssumption DEF Addresses
            <6> QED
              BY <6>2, <4>2, <5>3 DEF Relocated
          <5> QED
            BY <5>2, <5>3
        <4> QED
          BY <4>1, <4>2
      <3> QED
        BY <3>5, <2>4 DEF cell
    <2> QED
      BY <2>1, <2>3, <2>4
  <1> QED
    BY <1>3, <1>4, <1>5

-----------------------------------------------------------------------------
(* The old pointers are where they were, and the new ones behind them.     *)
LEMMA AddPoints ==
  ASSUME IInv, NEW obj \in Object, AddObject(obj), NEW a \in Addresses, NEW s \in Symbols
  PROVE  PointsTo(a, s)' <=>
           \/ PointsTo(a, s)
           \/ \E i \in 1 .. Len(obj.cells) :
                a = current_address + i - 1 /\ obj.cells[i].symbol = s
  <1> DEFINE new == Place(current_address, obj)
  <1>1. placed' = placed \cup {new} /\ new.begin = current_address /\ new.obj = obj
    BY AddSteps
  <1> HIDE DEF new
  <1>2. PointsTo(a, s)' <=>
          \E p \in placed' : \E i \in 1 .. Len(p.obj.cells) :
            a = p.begin + i - 1 /\ p.obj.cells[i].symbol = s
    BY DEF PointsTo
  <1>3. PointsTo(a, s) <=>
          \E p \in placed : \E i \in 1 .. Len(p.obj.cells) :
            a = p.begin + i - 1 /\ p.obj.cells[i].symbol = s
    BY DEF PointsTo
  <1> QED
    BY <1>1, <1>2, <1>3

(* A pointer of an old place is below the new one.                         *)
LEMMA OldBelow ==
  ASSUME IInv, NEW p \in placed, NEW i \in 1 .. Len(p.obj.cells)
  PROVE  /\ p.begin + i - 1 \in Addresses
         /\ p.begin + i - 1 < current_address
  <1>1. p.begin \in Nat /\ Len(p.obj.cells) \in Nat
        /\ End(p) = p.begin + Len(p.obj.cells)
    BY PlaceTypes DEF IInv, LinkerTypeOK
  <1>2. End(p) <= current_address /\ End(p) <= ARAM_SIZE /\ current_address \in Nat
    BY DEF IInv, LinkerTypeOK, Behind, Disjoint
  <1> QED
    BY <1>1, <1>2, AramAssumption, SMTT(30) DEF Addresses

LEMMA AddPending ==
  ASSUME IInv, NEW obj \in Object, AddObject(obj)
  PROVE  PendingExact' /\ pending_relocs' \in [Symbols -> SUBSET Addresses]
  <1> DEFINE begin == current_address
             end == current_address + Len(obj.cells)
  <1>1. begin \in Nat /\ Len(obj.cells) \in Nat /\ end \in Nat /\ end <= ARAM_SIZE
    BY AddSteps DEF IInv, LinkerTypeOK
  <1>2. pending_relocs' =
          [s \in Symbols |->
             (IF s = obj.symbol THEN {} ELSE pending_relocs[s])
               \cup {a \in Addresses : /\ begin <= a /\ a < end
                                       /\ obj.cells[a - begin + 1].symbol = s
                                       /\ symbol_addresses'[s] = None}]
    BY DEF AddObject
  <1>3. symbol_addresses' =
          [s \in Symbols |-> IF s = obj.symbol THEN AddressOf(begin)
                             ELSE symbol_addresses[s]]
        /\ AddressOf(begin) \in Addresses
    BY AddSteps
  <1>4. AddressOf(begin) # None
    BY <1>3, NoneAssumption, AramAssumption DEF Addresses
  <1> HIDE DEF end
  <1>5. ASSUME NEW s \in Symbols, NEW a \in Addresses
        PROVE  a \in pending_relocs'[s] <=> PointsTo(a, s)' /\ symbol_addresses'[s] = None
    <2>1. a \in pending_relocs[s] <=> PointsTo(a, s) /\ symbol_addresses[s] = None
      BY DEF IInv, PendingExact
    <2>2. (\E i \in 1 .. Len(obj.cells) : a = begin + i - 1 /\ obj.cells[i].symbol = s)
            <=> begin <= a /\ a < end /\ obj.cells[a - begin + 1].symbol = s
      <3>1. a \in Int
        BY AramAssumption DEF Addresses
      <3>2. \A i \in 1 .. Len(obj.cells) : a = begin + i - 1 =>
              begin <= a /\ a < end /\ a - begin + 1 = i
        BY <1>1, <3>1 DEF end
      <3>3. begin <= a /\ a < end =>
              a - begin + 1 \in 1 .. Len(obj.cells) /\ a = begin + (a - begin + 1) - 1
        BY <1>1, <3>1 DEF end
      <3> QED
        BY <3>2, <3>3
    <2>3. PointsTo(a, s)' <=>
            PointsTo(a, s)
              \/ (begin <= a /\ a < end /\ obj.cells[a - begin + 1].symbol = s)
      BY <2>2, AddPoints
    <2>4. CASE s = obj.symbol
      <3>1. symbol_addresses'[s] # None
        BY <1>3, <1>4, <2>4
      <3> QED
        BY <1>2, <2>4, <3>1
    <2>5. CASE s # obj.symbol
      <3>1. symbol_addresses'[s] = symbol_addresses[s]
        BY <1>3, <2>5
      <3>2. a \in pending_relocs'[s] <=>
              \/ a \in pending_relocs[s]
              \/ /\ begin <= a /\ a < end
                 /\ obj.cells[a - begin + 1].symbol = s
                 /\ symbol_addresses'[s] = None
        BY <1>2, <2>5
      <3> QED
        BY <2>1, <2>3, <3>1, <3>2
    <2> QED
      BY <2>4, <2>5
  <1>6. PendingExact'
    BY <1>5 DEF PendingExact, Addresses
  <1>7. pending_relocs' \in [Symbols -> SUBSET Addresses]
    BY <1>2 DEF IInv, LinkerTypeOK
  <1> QED
    BY <1>6, <1>7

(* Old pointers move when their symbol comes, and only then; new ones are  *)
(* moved at once if their symbol is known.                                 *)
LEMMA AddHolds ==
  ASSUME IInv, NEW obj \in Object, AddObject(obj)
  PROVE  HoldsObjects'
  <1> DEFINE new == Place(current_address, obj)
             Held(cell, addresses) ==
               IF cell.symbol = None THEN cell.value
               ELSE IF addresses[cell.symbol] = None THEN cell.value
               ELSE (cell.value + addresses[cell.symbol]) % ARAM_SIZE
  <1>1. placed' = placed \cup {new} /\ new.begin = current_address /\ new.obj = obj
    BY AddSteps
  <1>2. symbol_addresses' =
          [s \in Symbols |-> IF s = obj.symbol THEN AddressOf(current_address)
                             ELSE symbol_addresses[s]]
        /\ AddressOf(current_address) # None
    BY AddSteps, NoneAssumption, AramAssumption DEF Addresses
  <1> HIDE DEF new
  <1>3. ASSUME NEW i \in 1 .. Len(obj.cells)
        PROVE  aram'[current_address + i - 1] = Held(obj.cells[i], symbol_addresses')
    BY AddCells DEF Relocated
  <1>4. ASSUME NEW p \in placed, NEW i \in 1 .. Len(p.obj.cells)
        PROVE  aram'[p.begin + i - 1] = Held(p.obj.cells[i], symbol_addresses')
    <2> DEFINE a == p.begin + i - 1
               cell == p.obj.cells[i]
    <2>1. a \in Addresses /\ a < current_address
      BY OldBelow
    <2>2. aram'[a] = IF obj.symbol # None /\ a \in pending_relocs[obj.symbol]
                     THEN (aram[a] + AddressOf(current_address)) % ARAM_SIZE
                     ELSE aram[a]
      BY <2>1, AddCells
    <2>3. aram[a] = Held(cell, symbol_addresses)
      BY DEF IInv, HoldsObjects
    <2>4. cell.symbol \in Symbols \cup {None} /\ obj.symbol \in Symbols \cup {None}
      BY PlaceTypes DEF IInv, LinkerTypeOK, Object
    <2>5. ASSUME NEW s \in Symbols PROVE PointsTo(a, s) <=> cell.symbol = s
      <3>1. cell.symbol = s => PointsTo(a, s)
        BY DEF PointsTo
      <3>2. ASSUME PointsTo(a, s) PROVE cell.symbol = s
        <4>1. PICK q \in placed : \E j \in 1 .. Len(q.obj.cells) :
                a = q.begin + j - 1 /\ q.obj.cells[j].symbol = s
          BY <3>2 DEF PointsTo
        <4>2. PICK j \in 1 .. Len(q.obj.cells) :
                a = q.begin + j - 1 /\ q.obj.cells[j].symbol = s
          BY <4>1
        <4>3. p = q /\ i = j
          BY <4>2, OneCell DEF IInv, LinkerTypeOK
        <4> QED
          BY <4>2, <4>3
      <3> QED
        BY <3>1, <3>2
    <2>6. ASSUME NEW s \in Symbols
          PROVE  a \in pending_relocs[s] <=> cell.symbol = s /\ symbol_addresses[s] = None
      <3>1. a \in pending_relocs[s] <=> PointsTo(a, s) /\ symbol_addresses[s] = None
        BY <2>1 DEF IInv, PendingExact
      <3> QED
        BY <2>5, <3>1
    <2> HIDE DEF a, cell
    <2>7. obj.symbol # None => symbol_addresses[obj.symbol] = None
      BY AddSteps
    <2>8. CASE cell.symbol = None
      <3>1. ~(obj.symbol # None /\ a \in pending_relocs[obj.symbol])
        BY <2>4, <2>6, <2>8
      <3> QED
        BY <2>2, <2>3, <2>8, <3>1 DEF a, cell
    <2>9. CASE cell.symbol # None /\ cell.symbol = obj.symbol
      <3>1. obj.symbol # None /\ a \in pending_relocs[obj.symbol]
        BY <2>4, <2>6, <2>7, <2>9
      <3>2. aram[a] = cell.value
        BY <2>3, <2>7, <2>9
      <3>3. symbol_addresses'[cell.symbol] = AddressOf(current_address)
        BY <1>2, <2>4, <2>9
      <3>4. aram'[a] = (cell.value + symbol_addresses'[cell.symbol]) % ARAM_SIZE
        BY <2>2, <3>1, <3>2, <3>3
      <3> QED
        BY <2>9, <3>3, <3>4, <1>2 DEF a, cell
    <2>10. CASE cell.symbol # None /\ cell.symbol # obj.symbol
      <3>1. ~(obj.symbol # None /\ a \in pending_relocs[obj.symbol])
        BY <2>4, <2>6, <2>10
      <3>2. symbol_addresses'[cell.symbol] = symbol_addresses[cell.symbol]
        BY <1>2, <2>4, <2>10
      <3> QED
        BY <2>2, <2>3, <2>10, <3>1, <3>2 DEF a, cell
    <2> QED
      BY <2>8, <2>9, <2>10
  <1>5. ASSUME NEW p \in placed', NEW i \in 1 .. Len(p.obj.cells)
        PROVE  aram'[p.begin + i - 1] = Held(p.obj.cells[i], symbol_addresses')
    <2>1. CASE p = new
      BY <2>1, <1>1, <1>3
    <2>2. CASE p \in placed
      BY <2>2, <1>4
    <2> QED
      BY <1>1, <2>1, <2>2
  <1> QED
    BY <1>5 DEF HoldsObjects

LEMMA AddDisjoint ==
  ASSUME IInv, NEW obj \in Object, AddObject(obj)
  PROVE  Disjoint' /\ Behind'
  <1> DEFINE new == Place(current_address, obj)
  <1>1. /\ placed' = placed \cup {new}
        /\ new \in [begin : Nat, obj : Object]
        /\ new.begin = current_address
        /\ Len(obj.cells) \in Nat
        /\ End(new) = current_address + Len(obj.cells)
        /\ End(new) <= ARAM_SIZE
        /\ current_address' = End(new)
    BY AddSteps
  <1> HIDE DEF new
  <1>2. current_address \in Nat /\ START_ADDRESS \in Nat /\ START_ADDRESS <= current_address
    BY AramAssumption DEF IInv, LinkerTypeOK, Behind
  <1>3. \A p \in placed : /\ p.begin \in Nat /\ End(p) \in Nat
                          /\ End(p) <= new.begin
                          /\ START_ADDRESS <= p.begin /\ End(p) <= ARAM_SIZE
    <2>1. \A p \in placed : p.begin \in Nat /\ Len(p.obj.cells) \in Nat
                            /\ End(p) = p.begin + Len(p.obj.cells)
      BY PlaceTypes DEF IInv, LinkerTypeOK
    <2> QED
      BY <1>1, <2>1 DEF IInv, Behind, Disjoint
  <1>4. \A p \in placed' : START_ADDRESS <= p.begin /\ End(p) <= ARAM_SIZE
    BY <1>1, <1>2, <1>3
  <1>5. \A p, q \in placed' : p = q \/ End(p) <= q.begin \/ End(q) <= p.begin
    BY <1>1, <1>3 DEF IInv, Disjoint
  <1>6. START_ADDRESS <= current_address'
    BY <1>1, <1>2
  <1>7. \A p \in placed' : End(p) <= current_address'
    <2>1. End(new) \in Nat /\ new.begin <= End(new)
      BY <1>1, <1>2
    <2> QED
      BY <1>1, <1>2, <1>3, <2>1
  <1> QED
    BY <1>4, <1>5, <1>6, <1>7 DEF Disjoint, Behind, End

LEMMA AddIInv ==
  ASSUME IInv, NEW obj \in Object, AddObject(obj)
  PROVE  IInv'
  <1> DEFINE new == Place(current_address, obj)
  <1>1. /\ placed' = placed \cup {new}
        /\ new \in [begin : Nat, obj : Object]
        /\ new.begin = current_address /\ new.obj = obj
        /\ current_address' = End(new) /\ End(new) \in Nat
        /\ AddressOf(current_address) \in Addresses
        /\ obj.symbol # None => symbol_addresses[obj.symbol] = None
        /\ symbol_addresses' =
              [s \in Symbols |-> IF s = obj.symbol THEN AddressOf(current_address)
                                 ELSE symbol_addresses[s]]
    BY AddSteps
  <1> HIDE DEF new
  <1>2. LinkerTypeOK'
    <2>1. aram' \in [Addresses -> Int] /\ pending_relocs' \in [Symbols -> SUBSET Addresses]
      BY AddCells, AddPending
    <2>2. symbol_addresses' \in [Symbols -> Addresses \cup {None}]
      BY <1>1 DEF IInv, LinkerTypeOK
    <2>3. placed' \subseteq [begin : Nat, obj : Object]
      BY <1>1 DEF IInv, LinkerTypeOK
    <2> QED
      BY <1>1, <2>1, <2>2, <2>3 DEF LinkerTypeOK, Addresses
  <1>3. SymbolsDefined'
    <2>1. ASSUME NEW p \in placed', p.obj.symbol # None
          PROVE  symbol_addresses'[p.obj.symbol] = AddressOf(p.begin)
      <3>1. CASE p = new
        <4>1. obj.symbol \in Symbols
          BY <2>1, <3>1, <1>1 DEF Object
        <4> QED
          BY <3>1, <4>1, <1>1
      <3>2. CASE p \in placed
        <4>1. p.begin \in Nat /\ p.obj.symbol \in Symbols
          BY <2>1, <3>2, PlaceTypes DEF IInv, LinkerTypeOK
        <4>2. symbol_addresses[p.obj.symbol] = AddressOf(p.begin)
          BY <2>1, <3>2 DEF IInv, SymbolsDefined
        <4>3. AddressOf(p.begin) # None
          BY <4>1, ModAram, NoneAssumption, AramAssumption DEF AddressOf, Addresses
        <4>4. p.obj.symbol # obj.symbol
          BY <1>1, <2>1, <4>2, <4>3
        <4> QED
          BY <1>1, <4>1, <4>2, <4>4
      <3> QED
        BY <1>1, <2>1, <3>1, <3>2
    <2> QED
      BY <2>1 DEF SymbolsDefined, AddressOf
  <1> QED
    BY <1>2, <1>3, AddPending, AddHolds, AddDisjoint DEF IInv

-----------------------------------------------------------------------------
LEMMA StepIInv == IInv /\ [LinkerNext]_linkerVars => IInv'
  <1> SUFFICES ASSUME IInv, [LinkerNext]_linkerVars PROVE IInv'
    OBVIOUS
  <1>1. CASE NewLinker
    BY <1>1, NewIInv
  <1>2. CASE AlignAddress
    BY <1>2, AlignIInv
  <1>3. ASSUME NEW obj \in Object, AddObject(obj) PROVE IInv'
    BY <1>3, AddIInv
  <1>4. CASE UNCHANGED linkerVars
    BY <1>4 DEF linkerVars, IInv, LinkerTypeOK, Behind, PendingExact, PointsTo, HoldsObjects,
                Disjoint, SymbolsDefined, End
  <1> QED
    BY <1>1, <1>2, <1>3, <1>4 DEF LinkerNext

(* The objects in the RAM never overlap or reach past its end, a symbol is *)
(* the address of its object, and every pointer in the RAM has been moved  *)
(* by the address of its symbol once, if the symbol is defined, and not at *)
(* all if it is not (Linker::add_object, in whatever order it is called).  *)
THEOREM LinkerCorrect == LinkerSpec => []Linked
  <1>1. IInv => Linked
    BY DEF IInv, Linked
  <1> QED
    BY InitIInv, StepIInv, <1>1, PTL DEF LinkerSpec

(* When finalize() reports no error, every pointer of every object leads   *)
(* to the object that defines its symbol.                                  *)
AllRelocated ==
  Resolved =>
    \A p \in placed : \A i \in 1 .. Len(p.obj.cells) :
      LET cell == p.obj.cells[i] IN
      cell.symbol # None =>
        /\ symbol_addresses[cell.symbol] # None
        /\ aram[p.begin + i - 1] = (cell.value + symbol_addresses[cell.symbol]) % ARAM_SIZE

THEOREM FinalizeCorrect == LinkerSpec => []AllRelocated
  <1>1. IInv => AllRelocated
    <2> SUFFICES ASSUME IInv, Resolved, NEW p \in placed, NEW i \in 1 .. Len(p.obj.cells),
                        p.obj.cells[i].symbol # None
                 PROVE  /\ symbol_addresses[p.obj.cells[i].symbol] # None
                        /\ aram[p.begin + i - 1] =
                             (p.obj.cells[i].value + symbol_addresses[p.obj.cells[i].symbol])
                               % ARAM_SIZE
      BY DEF AllRelocated
    <2>1. p.obj.cells[i].symbol \in Symbols
      BY PlaceTypes DEF IInv, LinkerTypeOK
    <2>2. p.begin + i - 1 \in Addresses
      BY OldBelow
    <2>3. PointsTo(p.begin + i - 1, p.obj.cells[i].symbol)
      BY DEF PointsTo
    <2>4. symbol_addresses[p.obj.cells[i].symbol] # None
      BY <2>1, <2>2, <2>3 DEF IInv, PendingExact, Resolved
    <2> QED
      BY <2>4 DEF IInv, HoldsObjects
  <1> QED
    BY InitIInv, StepIInv, <1>1, PTL DEF LinkerSpec
=============================================================================
