--------------------------- MODULE LinkedListProofs ---------------------------
(***************************************************************************)
(* The linked list is well linked after every sequence of operations, and   *)
(* implements a sequence of values.                                         *)
(***************************************************************************)
EXTENDS LinkedList, LinkedNodesProofs

(* The inductive invariant.                                                  *)
ListInv == \E chain \in [1 .. list.length -> Address(memory)] : Linked(Values, memory, list, chain)
-----------------------------------------------------------------------------
(* A step of the list is a step of the sequence, and keeps the list linked.     *)
LEMMA InvLinked ==
  ASSUME ListInv PROVE \E chain : Linked(Values, memory, list, chain)
BY DEF ListInv

LEMMA LinkedInv ==
  ASSUME \E chain : Linked(Values, memory, list, chain) PROVE ListInv
BY DEF ListInv, Linked

LEMMA InitLinked == ListInit => ListInv /\ Contents = << >>
<1> SUFFICES ASSUME ListInit PROVE ListInv /\ Contents = << >>
  OBVIOUS
<1>1. PICK chain : chain = << >>
  OBVIOUS
<1>2. /\ list \in ListType /\ list.length = 0 /\ list.head = 0 /\ list.tail = 0
      /\ memory \in Seq(NodeType(Values)) /\ Len(memory) = 0
  BY DEF ListInit, linkedlist_new, ListType, NULL
<1>3. chain \in [1 .. 0 -> 1 .. 0]
  BY <1>1
<1>4. Spelled(Values, memory, list, chain, 0, 0)
  BY <1>2, <1>3 DEF Spelled
<1>5. Linked(Values, memory, list, chain)
  BY <1>4, Unspell
<1>6. Contents \in [1 .. 0 -> Values]
  BY <1>2, <1>5, ContentsSeq DEF Contents
<1>7. QED
  BY <1>5, <1>6, LinkedInv

LEMMA Step ==
  ASSUME ListInv, [ListNext]_listvars
  PROVE  ListInv' /\ [AsSequence!SequenceNext]_(AsSequence!sequence)
<1>1. PICK chain : Linked(Values, memory, list, chain)
  BY InvLinked
<1>2. ASSUME NEW v \in Values, AppendToList(v)
      PROVE  ListInv' /\ AsSequence!AppendValue(v)
  <2>1. PICK r : r = linkedlist_append(memory, list, v)
    OBVIOUS
  <2>2. memory' = r.mem /\ list' = r.ll /\ returned' = NULL
    BY <1>2, <2>1 DEF AppendToList, Becomes
  <2>3. (\E c : Linked(Values, r.mem, r.ll, c)) /\ ContentsOf(r.mem, r.ll) = Append(ContentsOf(memory, list), v)
    BY <1>1, <2>1, AppendContents
  <2>4. ListInv'
    BY <2>2, <2>3 DEF ListInv, Linked
  <2>5. Contents' = Append(Contents, v)
    BY <2>2, <2>3 DEF Contents
  <2>6. QED
    BY <2>2, <2>4, <2>5 DEF AsSequence!AppendValue
<1>3. ASSUME NEW v \in Values, PrependToList(v)
      PROVE  ListInv' /\ AsSequence!PrependValue(v)
  <2>1. PICK r : r = linkedlist_prepend(memory, list, v)
    OBVIOUS
  <2>2. memory' = r.mem /\ list' = r.ll /\ returned' = NULL
    BY <1>3, <2>1 DEF PrependToList, Becomes
  <2>3. (\E c : Linked(Values, r.mem, r.ll, c)) /\ ContentsOf(r.mem, r.ll) = <<v>> \o ContentsOf(memory, list)
    BY <1>1, <2>1, PrependContents
  <2>4. ListInv'
    BY <2>2, <2>3 DEF ListInv, Linked
  <2>5. Contents' = <<v>> \o Contents
    BY <2>2, <2>3 DEF Contents
  <2>6. QED
    BY <2>2, <2>4, <2>5 DEF AsSequence!PrependValue
<1>4. ASSUME Pop
      PROVE  ListInv' /\ AsSequence!PopLast
  <2>0. Contents \in Seq(Values) /\ Len(Contents) = list.length /\ list.length \in Nat
    BY <1>1, ContentsSeq DEF Contents
  <2>1. CASE list.length = 0
    <3>1. memory' = memory /\ list' = list /\ returned' = NULL
      BY <1>4, <2>1 DEF Pop, linkedlist_is_empty
    <3>2. Contents = << >>
      BY <2>0, <2>1, EmptySeq
    <3>3. Contents' = Contents
      BY <3>1 DEF Contents
    <3>4. ListInv'
      BY <1>1, <3>1 DEF ListInv, Linked
    <3>5. QED
      BY <3>1, <3>2, <3>3, <3>4 DEF AsSequence!PopLast
  <2>2. CASE list.length # 0
    <3>1. PICK r : r = linkedlist_pop(memory, list)
      OBVIOUS
    <3>2. memory' = r.mem /\ list' = r.ll /\ returned' = memory[list.tail].value
      BY <1>4, <2>2, <3>1 DEF Pop, linkedlist_is_empty, Becomes
    <3>3. /\ \E c : Linked(Values, r.mem, r.ll, c)
          /\ memory[list.tail].value = Contents[Len(Contents)]
          /\ ContentsOf(r.mem, r.ll) = [i \in 1 .. Len(Contents) - 1 |-> Contents[i]]
      BY <1>1, <2>2, <3>1, PopContents DEF Contents
    <3>4. ListInv'
      BY <3>2, <3>3 DEF ListInv, Linked
    <3>5. Contents' = [i \in 1 .. Len(Contents) - 1 |-> Contents[i]]
      BY <3>2, <3>3 DEF Contents
    <3>6. Contents # << >>
      BY <2>0, <2>2
    <3>7. QED
      BY <3>2, <3>3, <3>4, <3>5, <3>6 DEF AsSequence!PopLast
  <2>3. QED
    BY <2>1, <2>2
<1>5. ASSUME ReverseList
      PROVE  ListInv' /\ AsSequence!TurnAround
  <2>1. PICK r : r = linkedlist_reverse(memory, list)
    OBVIOUS
  <2>2. memory' = r.mem /\ list' = r.ll /\ returned' = NULL
    BY <1>5, <2>1 DEF ReverseList, Becomes
  <2>3. /\ \E c : Linked(Values, r.mem, r.ll, c)
        /\ ContentsOf(r.mem, r.ll) = [i \in 1 .. Len(Contents) |-> Contents[Len(Contents) + 1 - i]]
    BY <1>1, <2>1, ReverseContents DEF Contents
  <2>4. ListInv'
    BY <2>2, <2>3 DEF ListInv, Linked
  <2>5. Contents' = [i \in 1 .. Len(Contents) |-> Contents[Len(Contents) + 1 - i]]
    BY <2>2, <2>3 DEF Contents
  <2>6. QED
    BY <2>2, <2>4, <2>5 DEF AsSequence!TurnAround
<1>6. ASSUME UNCHANGED listvars
      PROVE  ListInv' /\ UNCHANGED AsSequence!sequence
  <2>1. memory' = memory /\ list' = list /\ returned' = returned
    BY <1>6 DEF listvars
  <2>2. Contents' = Contents
    BY <2>1 DEF Contents
  <2>3. ListInv'
    BY <1>1, <2>1 DEF ListInv, Linked
  <2>4. QED
    BY <2>1, <2>2, <2>3 DEF AsSequence!sequence
<1>7. QED
  BY <1>2, <1>3, <1>4, <1>5, <1>6 DEF ListNext, AsSequence!SequenceNext

(* After every sequence of operations the links in both directions describe    *)
(* the same list, with the length and the ends that linkedlist.c records.      *)
THEOREM StaysLinked == ListSpec => []DoublyLinked
<1>1. ListInit => ListInv
  BY InitLinked
<1>2. ListInv /\ [ListNext]_listvars => ListInv'
  BY Step
<1>3. ListInv => DoublyLinked
  BY InvLinked, ContentsByChain DEF DoublyLinked
<1>4. QED
  BY <1>1, <1>2, <1>3, PTL DEF ListSpec

(* The doubly linked list implements a sequence: every append, prepend, pop     *)
(* and reverse does to its values what it does to a sequence.                 *)
THEOREM ListImplementsSequence == ListSpec => ImplementsSequence
<1>1. ListInit => ListInv /\ AsSequence!SequenceInit
  <2>1. ListInit => returned = NULL
    BY DEF ListInit
  <2>2. QED
    BY <2>1, InitLinked DEF AsSequence!SequenceInit
<1>2. ListInv /\ [ListNext]_listvars => ListInv' /\ [AsSequence!SequenceNext]_(AsSequence!sequence)
  BY Step
<1>3. QED
  BY <1>1, <1>2, PTL DEF ListSpec, ImplementsSequence, AsSequence!SequenceSpec
=============================================================================
