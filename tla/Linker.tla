-------------------------------- MODULE Linker --------------------------------
(***************************************************************************)
(* The linker of the SPC export (spc_export/link.cpp): it copies objects   *)
(* one after the other into the audio RAM and adds the addresses of        *)
(* symbols to the pointers in them, at once if the symbol's object is      *)
(* already there, or else when it comes.                                   *)
(*                                                                         *)
(* A cell of an object is a byte, or the first byte of a pointer, which    *)
(* has the symbol it is relative to and stands for both its bytes (the     *)
(* cell after it is left blank).                                           *)
(***************************************************************************)
EXTENDS Integers, Sequences, Optional

CONSTANTS
  Symbols,
  ARAM_SIZE,       \* 0x10000
  START_ADDRESS,   \* where the first object goes
  PAGE_SIZE        \* 0x100

ASSUME AramAssumption ==
  /\ ARAM_SIZE \in Nat \ {0}
  /\ START_ADDRESS \in Nat
  /\ PAGE_SIZE \in Nat \ {0}

ASSUME NoneAssumption == None \notin Symbols /\ None \notin Int

VARIABLES
  aram,
  current_address,
  symbol_addresses,
  pending_relocs,
  placed             \* history: the objects added, and where each begins

linkerVars == <<aram, current_address, symbol_addresses, pending_relocs, placed>>

-----------------------------------------------------------------------------
(* Objects.                                                                *)

Cell == [value : Int, symbol : Symbols \cup {None}]
Object == [symbol : Symbols \cup {None}, cells : Seq(Cell)]

Byte(value) == [value |-> value, symbol |-> None]

(* push_reloc() and push_u16().                                            *)
Pointer(symbol, offset) == <<[value |-> offset, symbol |-> symbol], Byte(0)>>

Place(begin, obj) == [begin |-> begin, obj |-> obj]
End(place) == place.begin + Len(place.obj.cells)

-----------------------------------------------------------------------------
Addresses == 0 .. ARAM_SIZE - 1

LinkerInit ==
  /\ aram = [a \in Addresses |-> 0]
  /\ current_address = START_ADDRESS
  /\ symbol_addresses = [s \in Symbols |-> None]
  /\ pending_relocs = [s \in Symbols |-> {}]
  /\ placed = {}

NewLinker ==
  /\ aram' = [a \in Addresses |-> 0]
  /\ current_address' = START_ADDRESS
  /\ symbol_addresses' = [s \in Symbols |-> None]
  /\ pending_relocs' = [s \in Symbols |-> {}]
  /\ placed' = {}

(* The errors of add_object(): the object reaches past the end of the RAM, *)
(* its symbol is already defined, or its last byte begins a pointer.       *)
CanAdd(obj) ==
  /\ current_address + Len(obj.cells) <= ARAM_SIZE
  /\ obj.symbol # None => symbol_addresses[obj.symbol] = None
  /\ obj.cells # <<>> => obj.cells[Len(obj.cells)].symbol = None

(* The address of the object at begin, as 16 bits.                         *)
AddressOf(begin) == begin % ARAM_SIZE

(* Bug: the pointer is not made absolute when its symbol is known. *)
RelocatedLater(cell, addresses) == cell.value

(* The value of a cell of an object that is added.                         *)
Relocated(cell, addresses) ==
  IF cell.symbol = None THEN cell.value
  ELSE IF addresses[cell.symbol] = None THEN cell.value
  ELSE (cell.value + addresses[cell.symbol]) % ARAM_SIZE

AddObject(obj) ==
  LET begin == current_address
      end == current_address + Len(obj.cells)
      cell(a) == obj.cells[a - begin + 1]
  IN  /\ CanAdd(obj)
      /\ current_address' = end
      /\ symbol_addresses' =
           [s \in Symbols |-> IF s = obj.symbol THEN AddressOf(begin) ELSE symbol_addresses[s]]
      /\ aram' =
           [a \in Addresses |->
              IF begin <= a /\ a < end THEN Relocated(cell(a), symbol_addresses')
              ELSE IF obj.symbol # None /\ a \in pending_relocs[obj.symbol]
                THEN (aram[a] + AddressOf(begin)) % ARAM_SIZE
              ELSE aram[a]]
      /\ pending_relocs' =
           [s \in Symbols |->
              (IF s = obj.symbol THEN {} ELSE pending_relocs[s])
                \cup {a \in Addresses : /\ begin <= a /\ a < end
                                        /\ cell(a).symbol = s
                                        /\ symbol_addresses'[s] = None}]
      /\ placed' = placed \cup {Place(begin, obj)}

AlignAddress ==
  /\ current_address' = ((current_address + PAGE_SIZE - 1) \div PAGE_SIZE) * PAGE_SIZE
  /\ UNCHANGED <<aram, symbol_addresses, pending_relocs, placed>>

(* finalize(): no pointer waits for its symbol.                            *)
Resolved == \A s \in Symbols : pending_relocs[s] = {}

LinkerNext == NewLinker \/ AlignAddress \/ \E obj \in Object : AddObject(obj)

LinkerSpec == LinkerInit /\ [][LinkerNext]_linkerVars

-----------------------------------------------------------------------------
(* The RAM holds the objects as they were compiled, each pointer moved     *)
(* once by the address of its symbol, whichever of the two came first.     *)
HoldsObjects ==
  \A p \in placed : \A i \in 1 .. Len(p.obj.cells) :
    LET cell == p.obj.cells[i] IN
    aram[p.begin + i - 1] =
      IF cell.symbol = None THEN cell.value
      ELSE IF symbol_addresses[cell.symbol] = None THEN cell.value
      ELSE (cell.value + symbol_addresses[cell.symbol]) % ARAM_SIZE

(* They do not overlap, and are inside the RAM, after the fixed part.      *)
Disjoint ==
  /\ \A p \in placed : START_ADDRESS <= p.begin /\ End(p) <= ARAM_SIZE
  /\ \A p, q \in placed : p = q \/ End(p) <= q.begin \/ End(q) <= p.begin

(* A symbol is the address of the object that defines it.                  *)
SymbolsDefined ==
  \A p \in placed :
    p.obj.symbol # None => symbol_addresses[p.obj.symbol] = AddressOf(p.begin)

Linked == HoldsObjects /\ Disjoint /\ SymbolsDefined
=============================================================================
