------------------------------ MODULE HashTable ------------------------------
(***************************************************************************)
(* The table in which typecheck.c keeps functions (and, with the same       *)
(* macros, classes) by name: open addressing with linear probing.  A slot    *)
(* holds the name and the number of a declaration; an empty slot is zeroed.   *)
(***************************************************************************)
EXTENDS Integers

EmptySlot == [name |-> 0, decl |-> 0]
EmptyTable(size) == [slot \in 0 .. size - 1 |-> EmptySlot]

(* The slot at which the k-th round of a search for the name looks.          *)
Probe(size, name, k) == (name + k) % size
-----------------------------------------------------------------------------
(* find_open_loc: the first empty slot.  Only in a full table is there none,  *)
(* and the loop of the macro does not end.                                   *)
FirstOpen(table, size, name) ==
  {k \in 0 .. size - 1 :
    /\ table[Probe(size, name, k)].name = 0
    /\ \A j \in 0 .. k - 1 : table[Probe(size, name, j)].name # 0}
AddTo(table, size, name, entry) ==
  {[table EXCEPT ![Probe(size, name, k)] = entry] : k \in FirstOpen(table, size, name)}

(* Mutant: a round too few.                                                  *)
HitsShort(table, size, name) ==
  {k \in 0 .. size - 2 :
    /\ table[Probe(size, name, k)].name = name
    /\ \A j \in 0 .. k - 1 : table[Probe(size, name, j)].name # name}

(* table_lookup: the first slot with the name, in at most size rounds.        *)
Hits(table, size, name) ==
  {k \in 0 .. size - 1 :
    /\ table[Probe(size, name, k)].name = name
    /\ \A j \in 0 .. k - 1 : table[Probe(size, name, j)].name # name}
IsKnown(table, size, name) == Hits(table, size, name) # {}
table_lookup(table, size, name) ==
  table[Probe(size, name, CHOOSE k \in Hits(table, size, name) : TRUE)]
=============================================================================
