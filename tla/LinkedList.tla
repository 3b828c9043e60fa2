------------------------------ MODULE LinkedList ------------------------------
(***************************************************************************)
(* One linked list under every order of its operations: it stays linked in   *)
(* both directions and implements a sequence of values.                     *)
(***************************************************************************)
EXTENDS LinkedNodes

CONSTANTS
  Values,
  MaxNodes    \* bound of the memory
ASSUME LinkedListAssumption == MaxNodes \in Nat /\ NULL \notin Values

VARIABLES
  memory,     \* sequence of nodes
  list,
  returned    \* result of the last operation

listvars == <<memory, list, returned>>
-----------------------------------------------------------------------------
ListInit == memory = << >> /\ list = linkedlist_new /\ returned = NULL

Becomes(r) == memory' = r.mem /\ list' = r.ll

AppendToList(v) ==
  Len(memory) < MaxNodes /\ Becomes(linkedlist_append(memory, list, v)) /\ returned' = NULL
PrependToList(v) ==
  Len(memory) < MaxNodes /\ Becomes(linkedlist_prepend(memory, list, v)) /\ returned' = NULL

Pop ==
  IF linkedlist_is_empty(list) THEN returned' = NULL /\ UNCHANGED <<memory, list>>
  ELSE returned' = memory[list.tail].value /\ Becomes(linkedlist_pop(memory, list))

ReverseList == Becomes(linkedlist_reverse(memory, list)) /\ returned' = NULL

ListNext == (\E v \in Values : AppendToList(v) \/ PrependToList(v)) \/ Pop \/ ReverseList
ListSpec == ListInit /\ [][ListNext]_listvars
-----------------------------------------------------------------------------
(* What linkedlist_foreach and linkedlist_foreach_reverse see is the same      *)
(* list, once forwards and once backwards: it never breaks or runs in a ring.  *)
DoublyLinked == Chains(memory, list) # {}

(* The list implements a sequence of values.                                 *)
Contents == ContentsOf(memory, list)
AsSequence == INSTANCE Sequence WITH contents <- Contents
ImplementsSequence == AsSequence!SequenceSpec
=============================================================================
