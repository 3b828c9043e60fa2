------------------------------ MODULE LinkedNodes ------------------------------
(***************************************************************************)
(* The doubly linked lists of linkedlist.c.  Nodes lie in a memory that only *)
(* grows: the arena frees nothing before everything.  A node's address is   *)
(* its place in it, counted from 1, and 0 is NULL.  The operators take the   *)
(* memory and the list, so that several lists can share a memory.           *)
(***************************************************************************)
EXTENDS Integers, Sequences

NULL == 0
-----------------------------------------------------------------------------
(* A list of nodes, and the operations: the memory and the list afterwards.  *)

linkedlist_new == [length |-> 0, head |-> NULL, tail |-> NULL]
linkedlist_is_empty(ll) == ll.length = 0

Node(value) == [value |-> value, prev |-> NULL, next |-> NULL]
NewAddress(mem) == Len(mem) + 1

(* Mutant: the old tail is not linked to the new one.                         *)
AppendUnlinked(mem, ll, v) ==
  [mem |-> Append(mem, [Node(v) EXCEPT !.prev = ll.tail]),
   ll |-> [length |-> ll.length + 1, tail |-> NewAddress(mem),
           head |-> IF ll.head = NULL THEN NewAddress(mem) ELSE ll.head]]
linkedlist_append(mem, ll, v) ==
  LET new == NewAddress(mem)
  IN  IF ll.head = NULL
      THEN [mem |-> Append(mem, Node(v)), ll |-> [length |-> ll.length + 1, head |-> new, tail |-> new]]
      ELSE [mem |-> [Append(mem, [Node(v) EXCEPT !.prev = ll.tail]) EXCEPT ![ll.tail].next = new],
            ll |-> [ll EXCEPT !.length = @ + 1, !.tail = new]]

linkedlist_prepend(mem, ll, v) ==
  LET new == NewAddress(mem)
  IN  IF ll.head = NULL
      THEN [mem |-> Append(mem, Node(v)), ll |-> [length |-> ll.length + 1, head |-> new, tail |-> new]]
      ELSE [mem |-> [Append(mem, [Node(v) EXCEPT !.next = ll.head]) EXCEPT ![ll.head].prev = new],
            ll |-> [ll EXCEPT !.length = @ + 1, !.head = new]]

(* Mutant: the other end goes.                                               *)
PopHead(mem, ll) ==
  IF ll.head = ll.tail
  THEN [mem |-> mem, ll |-> [length |-> ll.length - 1, head |-> NULL, tail |-> NULL]]
  ELSE [mem |-> [mem EXCEPT ![mem[ll.head].next].prev = NULL],
        ll |-> [ll EXCEPT !.length = @ - 1, !.head = mem[ll.head].next]]
(* Of a list that is not empty.                                              *)
linkedlist_pop(mem, ll) ==
  IF ll.head = ll.tail
  THEN [mem |-> mem, ll |-> [length |-> ll.length - 1, head |-> NULL, tail |-> NULL]]
  ELSE [mem |-> [mem EXCEPT ![mem[ll.tail].prev].next = NULL],
        ll |-> [ll EXCEPT !.length = @ - 1, !.tail = mem[ll.tail].prev]]

(* The loop of linkedlist_reverse swaps the links of every node that it       *)
(* reaches from the tail.                                                    *)
Reached(mem, ll) ==
  {a \in 1 .. Len(mem) :
    \A S \in SUBSET (1 .. Len(mem)) :
      (/\ ll.tail \in S
       /\ \A b \in S : mem[b].prev # NULL => mem[b].prev \in S) => a \in S}
linkedlist_reverse(mem, ll) ==
  IF ll.head = NULL THEN [mem |-> mem, ll |-> ll]
  ELSE [mem |-> [a \in 1 .. Len(mem) |->
                   IF a \in Reached(mem, ll) THEN [mem[a] EXCEPT !.next = mem[a].prev, !.prev = mem[a].next]
                   ELSE mem[a]],
        ll |-> [ll EXCEPT !.head = ll.tail, !.tail = ll.head]]
-----------------------------------------------------------------------------
(* The addresses of a list's nodes in order: the links in both directions,    *)
(* the ends and the length agree.                                            *)
IsChain(mem, ll, chain) ==
  LET n == ll.length
  IN  /\ n = 0 => ll.head = NULL /\ ll.tail = NULL
      /\ n > 0 => ll.head = chain[1] /\ ll.tail = chain[n]
      /\ \A k \in 1 .. n : mem[chain[k]].prev = IF k = 1 THEN NULL ELSE chain[k - 1]
      /\ \A k \in 1 .. n : mem[chain[k]].next = IF k = n THEN NULL ELSE chain[k + 1]

Chains(mem, ll) == {chain \in [1 .. ll.length -> 1 .. Len(mem)] : IsChain(mem, ll, chain)}

(* The values of a list, first to last.                                      *)
ContentsOf(mem, ll) ==
  LET chain == CHOOSE chain \in Chains(mem, ll) : TRUE IN [k \in 1 .. ll.length |-> mem[chain[k]].value]
=============================================================================
