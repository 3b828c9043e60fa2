--------------------------- MODULE LinkedNodesProofs ---------------------------
(***************************************************************************)
(* What the operations of linkedlist.c do to a list's nodes and contents, for *)
(* every memory and every list in it whose links agree; and that lists which  *)
(* share a memory do not disturb each other.                                 *)
(***************************************************************************)
EXTENDS LinkedNodes, SequenceTheorems, WellFoundedInduction, TLAPS

Address(mem) == 1 .. Len(mem)
NodeType(V) == [value : V, prev : Nat, next : Nat]
ListType == [length : Nat, head : Nat, tail : Nat]
(* No node occurs twice in the chain.                                        *)
OneToOne(chain, n) == \A j, k \in 1 .. n : chain[j] = chain[k] => j = k

(* A chain of the list in the memory, all of them of the right type.         *)
Linked(V, mem, ll, chain) ==
  /\ mem \in Seq(NodeType(V)) /\ ll \in ListType
  /\ chain \in [1 .. ll.length -> Address(mem)]
  /\ IsChain(mem, ll, chain)
  /\ OneToOne(chain, ll.length)

-----------------------------------------------------------------------------
(* A set of natural numbers has a least element.                             *)
LEMMA LeastElement ==
  ASSUME NEW T \in SUBSET Nat, T # {}
  PROVE  \E x \in T : \A y \in T : x <= y
<1>1. PICK x \in T : \A y \in T : ~ (<<y, x>> \in OpToRel(<, Nat))
  BY NatLessThanWellFounded, WFMin, Zenon
<1>2. \A y \in Nat : ~ (<<y, x>> \in OpToRel(<, Nat)) => ~ (x \in Nat /\ y < x)
  BY Zenon DEF OpToRel
<1>3. \A y \in T : ~ (y < x)
  BY <1>1, <1>2, Zenon
<1>4. QED
  BY <1>3

(* A list has one chain: each node determines the next.                      *)
LEMMA OneChain ==
  ASSUME NEW V, NEW mem \in Seq(NodeType(V)), NEW ll \in ListType,
         NEW c \in [1 .. ll.length -> Address(mem)], NEW d \in [1 .. ll.length -> Address(mem)],
         IsChain(mem, ll, c), IsChain(mem, ll, d)
  PROVE  c = d
<1> DEFINE n == ll.length
           T == {k \in 1 .. n : c[k] # d[k]}
<1>1. n \in Nat
  BY DEF ListType
<1>2. SUFFICES ASSUME T # {} PROVE FALSE
  BY <1>1
<1>3. PICK k \in T : \A j \in T : k <= j
  BY <1>1, <1>2, LeastElement, T \in SUBSET Nat
<1>4. k # 1
  BY <1>1, <1>3 DEF IsChain
<1>5. k - 1 \in 1 .. n /\ k - 1 \notin T
  BY <1>1, <1>3, <1>4
<1>6. c[k - 1] = d[k - 1]
  BY <1>5
<1>7. mem[c[k - 1]].next = c[k] /\ mem[d[k - 1]].next = d[k]
  BY <1>1, <1>3, <1>5 DEF IsChain
<1>8. QED
  BY <1>3, <1>6, <1>7

(* What the list contains, given its chain.                                  *)
LEMMA ContentsByChain ==
  ASSUME NEW V, NEW mem, NEW ll, NEW chain, Linked(V, mem, ll, chain)
  PROVE  /\ Chains(mem, ll) = {chain}
         /\ ContentsOf(mem, ll) = [k \in 1 .. ll.length |-> mem[chain[k]].value]
<1>1. chain \in Chains(mem, ll)
  BY DEF Chains, Linked, Address
<1>2. \A c \in Chains(mem, ll) : c = chain
  BY OneChain DEF Chains, Linked, Address
<1>3. Chains(mem, ll) = {chain}
  BY <1>1, <1>2
<1>4. (CHOOSE c \in Chains(mem, ll) : TRUE) = chain
  BY <1>3
<1>5. QED
  BY <1>3, <1>4 DEF ContentsOf
-----------------------------------------------------------------------------
(* Linked, spelled out over the addresses and positions.                     *)
Spelled(V, mem, ll, chain, n, N) ==
  /\ ll.length = n /\ Len(mem) = N
  /\ mem \in Seq(NodeType(V)) /\ ll \in ListType
  /\ \A a \in 1 .. N : mem[a] \in NodeType(V)
  /\ chain \in [1 .. n -> 1 .. N]
  /\ n = 0 => ll.head = 0 /\ ll.tail = 0
  /\ n > 0 => ll.head = chain[1] /\ ll.tail = chain[n]
  /\ \A k \in 1 .. n : mem[chain[k]].prev = IF k = 1 THEN 0 ELSE chain[k - 1]
  /\ \A k \in 1 .. n : mem[chain[k]].next = IF k = n THEN 0 ELSE chain[k + 1]
  /\ \A j, k \in 1 .. n : chain[j] = chain[k] => j = k

LEMMA Spell ==
  ASSUME NEW V, NEW mem, NEW ll, NEW chain, Linked(V, mem, ll, chain)
  PROVE  \E n \in Nat, N \in Nat : Spelled(V, mem, ll, chain, n, N)
<1>1. ll.length \in Nat /\ Len(mem) \in Nat
  BY DEF Linked, ListType
<1>2. Spelled(V, mem, ll, chain, ll.length, Len(mem))
  BY <1>1, SMTT(30) DEF Linked, Spelled, IsChain, OneToOne, Address, NULL
<1>3. QED
  BY <1>1, <1>2

LEMMA Unspell ==
  ASSUME NEW V, NEW mem, NEW ll, NEW chain, NEW n \in Nat, NEW N \in Nat, Spelled(V, mem, ll, chain, n, N)
  PROVE  Linked(V, mem, ll, chain)
BY DEF Linked, Spelled, IsChain, OneToOne, Address, NULL
-----------------------------------------------------------------------------
(* The operations.  Each is given the chain afterwards.                      *)

ChainAppended(mem, ll, chain) ==
  [k \in 1 .. ll.length + 1 |-> IF k = ll.length + 1 THEN Len(mem) + 1 ELSE chain[k]]
LEMMA AppendLinks ==
  ASSUME NEW V, NEW mem, NEW ll, NEW chain, Linked(V, mem, ll, chain), NEW v \in V,
         NEW r, r = linkedlist_append(mem, ll, v),
         NEW c, c = ChainAppended(mem, ll, chain)
  PROVE  /\ Linked(V, r.mem, r.ll, c)
         /\ r.ll.length = ll.length + 1
         /\ \A k \in 1 .. ll.length : r.mem[c[k]].value = mem[chain[k]].value
         /\ r.mem[c[ll.length + 1]].value = v
<1>1. PICK n \in Nat, N \in Nat : Spelled(V, mem, ll, chain, n, N)
  BY Spell
<1>2. /\ c \in [1 .. n + 1 -> 1 .. N + 1] /\ c[n + 1] = N + 1 /\ \A k \in 1 .. n : c[k] = chain[k]
      /\ \A k \in 1 .. n : c[k] \in 1 .. N
  BY <1>1 DEF Spelled, ChainAppended
<1>3. /\ N + 1 \in Nat /\ n + 1 \in Nat
  OBVIOUS
<1>4. CASE n = 0
  <2>1. r.mem = Append(mem, Node(v)) /\ r.ll = [length |-> 1, head |-> N + 1, tail |-> N + 1]
    BY <1>1, <1>4 DEF linkedlist_append, NewAddress, Spelled, NULL
  <2>2. Node(v) \in NodeType(V) /\ Node(v).prev = 0 /\ Node(v).next = 0 /\ Node(v).value = v
    BY DEF Node, NodeType, NULL
  <2>3. /\ r.mem \in Seq(NodeType(V)) /\ Len(r.mem) = N + 1 /\ r.mem[N + 1] = Node(v)
        /\ \A a \in 1 .. N + 1 : r.mem[a] \in NodeType(V)
    BY <1>1, <2>1, <2>2 DEF Spelled
  <2>4. r.ll \in ListType /\ r.ll.length = 1 /\ r.ll.head = N + 1 /\ r.ll.tail = N + 1
    BY <2>1 DEF ListType
  <2>5. Spelled(V, r.mem, r.ll, c, 1, N + 1)
    BY <1>2, <1>4, <2>2, <2>3, <2>4 DEF Spelled
  <2>6. Linked(V, r.mem, r.ll, c)
    BY <2>5, Unspell
  <2>7. QED
    BY <1>1, <1>2, <1>4, <2>2, <2>3, <2>4, <2>6 DEF Spelled
<1>5. CASE n > 0
  <2>1. PICK t \in 1 .. N : t = ll.tail /\ t = chain[n]
    BY <1>1, <1>5 DEF Spelled
  <2>2. \A k \in 1 .. n : chain[k] = t => k = n
    BY <1>1, <1>5, <2>1 DEF Spelled
  <2>3. PICK added : added = [Node(v) EXCEPT !.prev = t]
    OBVIOUS
  <2>4. added \in NodeType(V) /\ added.prev = t /\ added.next = 0 /\ added.value = v
    BY <2>3 DEF Node, NodeType, NULL
  <2>5. PICK longer : longer = Append(mem, added)
    OBVIOUS
  <2>6. /\ longer \in Seq(NodeType(V)) /\ Len(longer) = N + 1 /\ longer[N + 1] = added
        /\ \A a \in 1 .. N : longer[a] = mem[a] /\ longer[a] \in NodeType(V)
    <3>1. mem \in Seq(NodeType(V)) /\ Len(mem) = N /\ \A a \in 1 .. N : mem[a] \in NodeType(V)
      BY <1>1 DEF Spelled
    <3>2. QED
      BY <2>4, <2>5, <3>1, AppendProperties
  <2>7. /\ r.mem = [longer EXCEPT ![t].next = N + 1]
        /\ r.ll = [ll EXCEPT !.length = n + 1, !.tail = N + 1]
    <3>1. ll.head # 0 /\ ll.length = n /\ Len(mem) = N
      BY <1>1, <1>5 DEF Spelled
    <3>2. QED
      BY <2>1, <2>3, <2>5, <3>1 DEF linkedlist_append, NewAddress, NULL
  <2>8. PICK linked : linked = [longer[t] EXCEPT !.next = N + 1]
    OBVIOUS
  <2>9. /\ linked \in NodeType(V) /\ linked.next = N + 1
        /\ linked.prev = mem[t].prev /\ linked.value = mem[t].value
    BY <2>6, <2>8, SMTT(30) DEF NodeType
  <2>10. r.mem = [longer EXCEPT ![t] = linked]
    BY <2>7, <2>8
  <2>11. /\ r.mem \in Seq(NodeType(V)) /\ Len(r.mem) = N + 1 /\ r.mem[t] = linked /\ r.mem[N + 1] = added
         /\ \A a \in 1 .. N : a # t => r.mem[a] = mem[a]
         /\ \A a \in 1 .. N + 1 : r.mem[a] \in NodeType(V)
    BY <2>4, <2>6, <2>9, <2>10
  <2>12. r.ll \in ListType /\ r.ll.length = n + 1 /\ r.ll.head = chain[1] /\ r.ll.tail = N + 1
    <3>1. ll \in ListType /\ ll.head = chain[1]
      BY <1>1, <1>5 DEF Spelled
    <3>2. QED
      BY <1>3, <2>7, <3>1 DEF ListType
  <2>13. \A k \in 1 .. n : k = n => r.mem[c[k]] = linked /\ mem[chain[k]] = mem[t]
    BY <1>2, <2>1, <2>11
  <2>14. \A k \in 1 .. n : k # n => r.mem[c[k]] = mem[chain[k]]
    <3> TAKE k \in 1 .. n
    <3>1. c[k] = chain[k] /\ chain[k] \in 1 .. N
      BY <1>2
    <3>2. QED
      BY <2>2, <2>11, <3>1
  <2>15. \A k \in 1 .. n + 1 : r.mem[c[k]].prev = IF k = 1 THEN 0 ELSE c[k - 1]
    <3> TAKE k \in 1 .. n + 1
    <3>1. CASE k = n + 1
      <4>1. k # 1 /\ k - 1 = n /\ c[n] = t /\ c[k] = N + 1
        BY <1>2, <1>5, <2>1, <3>1
      <4>2. QED
        BY <2>4, <2>11, <4>1
    <3>2. CASE k # n + 1
      <4>0. k \in 1 .. n
        BY <3>2
      <4>1. r.mem[c[k]].prev = mem[chain[k]].prev
        BY <2>9, <2>13, <2>14, <4>0
      <4>2. mem[chain[k]].prev = IF k = 1 THEN 0 ELSE chain[k - 1]
        BY <1>1, <4>0 DEF Spelled
      <4>3. k # 1 => c[k - 1] = chain[k - 1]
        BY <1>2, <4>0
      <4>4. QED
        BY <4>1, <4>2, <4>3
    <3>3. QED
      BY <3>1, <3>2
  <2>16. \A k \in 1 .. n + 1 : r.mem[c[k]].next = IF k = n + 1 THEN 0 ELSE c[k + 1]
    <3> TAKE k \in 1 .. n + 1
    <3>1. CASE k = n + 1
      BY <1>2, <2>4, <2>11, <3>1
    <3>2. CASE k # n + 1
      <4>0. k \in 1 .. n
        BY <3>2
      <4>1. /\ k = n => r.mem[c[k]].next = N + 1
            /\ k # n => r.mem[c[k]].next = mem[chain[k]].next
        BY <2>9, <2>13, <2>14, <4>0
      <4>2. mem[chain[k]].next = IF k = n THEN 0 ELSE chain[k + 1]
        BY <1>1, <4>0 DEF Spelled
      <4>3. k # n => c[k + 1] = chain[k + 1]
        BY <1>2, <4>0
      <4>4. k = n => c[k + 1] = N + 1
        BY <1>2
      <4>5. QED
        BY <3>2, <4>1, <4>2, <4>3, <4>4
    <3>3. QED
      BY <3>1, <3>2
  <2>17. \A j, k \in 1 .. n + 1 : c[j] = c[k] => j = k
    <3>1. \A j, k \in 1 .. n : chain[j] = chain[k] => j = k
      BY <1>1 DEF Spelled
    <3>2. \A k \in 1 .. n : c[k] # c[n + 1] /\ c[k] = chain[k]
      <4> TAKE k \in 1 .. n
      <4>1. c[k] = chain[k] /\ c[k] \in 1 .. N /\ c[n + 1] = N + 1
        BY <1>2
      <4>2. QED
        BY <4>1
    <3>3. \A k \in 1 .. n + 1 : k \in 1 .. n \/ k = n + 1
      OBVIOUS
    <3>4. QED
      BY <3>1, <3>2, <3>3
  <2>18. c[1] = chain[1]
    BY <1>2, <1>5
  <2>19. Spelled(V, r.mem, r.ll, c, n + 1, N + 1)
    <3>1. n + 1 # 0
      OBVIOUS
    <3>2. QED
      BY <1>2, <2>11, <2>12, <2>15, <2>16, <2>17, <2>18, <3>1 DEF Spelled
  <2>20. Linked(V, r.mem, r.ll, c)
    BY <1>3, <2>19, Unspell
  <2>21. ll.length = n
    BY <1>1 DEF Spelled
  <2>22. r.mem[c[n + 1]].value = v
    BY <1>2, <2>4, <2>11
  <2>23. r.ll.length = n + 1 /\ \A k \in 1 .. n : r.mem[c[k]].value = mem[chain[k]].value
    BY <2>9, <2>12, <2>13, <2>14
  <2>24. QED
    BY <2>20, <2>21, <2>22, <2>23
<1>6. QED
  BY <1>1, <1>4, <1>5

ChainPrepended(mem, ll, chain) ==
  [k \in 1 .. ll.length + 1 |-> IF k = 1 THEN Len(mem) + 1 ELSE chain[k - 1]]
LEMMA PrependLinks ==
  ASSUME NEW V, NEW mem, NEW ll, NEW chain, Linked(V, mem, ll, chain), NEW v \in V,
         NEW r, r = linkedlist_prepend(mem, ll, v),
         NEW c, c = ChainPrepended(mem, ll, chain)
  PROVE  /\ Linked(V, r.mem, r.ll, c)
         /\ r.ll.length = ll.length + 1
         /\ \A k \in 1 .. ll.length : r.mem[c[k + 1]].value = mem[chain[k]].value
         /\ r.mem[c[1]].value = v
<1>1. PICK n \in Nat, N \in Nat : Spelled(V, mem, ll, chain, n, N)
  BY Spell
<1>2. /\ c \in [1 .. n + 1 -> 1 .. N + 1] /\ c[1] = N + 1
      /\ \A k \in 1 .. n : c[k + 1] = chain[k] /\ c[k + 1] \in 1 .. N
      /\ \A k \in 2 .. n + 1 : k - 1 \in 1 .. n /\ c[k] = chain[k - 1] /\ c[k] \in 1 .. N
  <2>1. /\ c = [k \in 1 .. n + 1 |-> IF k = 1 THEN N + 1 ELSE chain[k - 1]]
        /\ chain \in [1 .. n -> 1 .. N]
    BY <1>1 DEF Spelled, ChainPrepended
  <2>2. \A k \in 2 .. n + 1 : k - 1 \in 1 .. n /\ k # 1 /\ k \in 1 .. n + 1
    OBVIOUS
  <2>3. \A k \in 2 .. n + 1 : c[k] = chain[k - 1] /\ c[k] \in 1 .. N
    BY <2>1, <2>2
  <2>4. \A k \in 1 .. n : c[k + 1] = chain[k] /\ c[k + 1] \in 1 .. N
    BY <2>1
  <2>5. c \in [1 .. n + 1 -> 1 .. N + 1] /\ c[1] = N + 1
    BY <2>1
  <2>6. QED
    BY <2>2, <2>3, <2>4, <2>5
<1>3. N + 1 \in Nat /\ n + 1 \in Nat
  OBVIOUS
<1>4. CASE n = 0
  <2>1. r.mem = Append(mem, Node(v)) /\ r.ll = [length |-> 1, head |-> N + 1, tail |-> N + 1]
    BY <1>1, <1>4 DEF linkedlist_prepend, NewAddress, Spelled, NULL
  <2>2. Node(v) \in NodeType(V) /\ Node(v).prev = 0 /\ Node(v).next = 0 /\ Node(v).value = v
    BY DEF Node, NodeType, NULL
  <2>3. /\ r.mem \in Seq(NodeType(V)) /\ Len(r.mem) = N + 1 /\ r.mem[N + 1] = Node(v)
        /\ \A a \in 1 .. N + 1 : r.mem[a] \in NodeType(V)
    BY <1>1, <2>1, <2>2 DEF Spelled
  <2>4. r.ll \in ListType /\ r.ll.length = 1 /\ r.ll.head = N + 1 /\ r.ll.tail = N + 1
    BY <2>1 DEF ListType
  <2>5. Spelled(V, r.mem, r.ll, c, 1, N + 1)
    BY <1>2, <1>4, <2>2, <2>3, <2>4 DEF Spelled
  <2>6. Linked(V, r.mem, r.ll, c)
    BY <2>5, Unspell
  <2>7. QED
    BY <1>1, <1>2, <1>4, <2>2, <2>3, <2>4, <2>6 DEF Spelled
<1>5. CASE n > 0
  <2>1. PICK h \in 1 .. N : h = ll.head /\ h = chain[1]
    BY <1>1, <1>5 DEF Spelled
  <2>2. \A k \in 1 .. n : chain[k] = h => k = 1
    BY <1>1, <1>5, <2>1 DEF Spelled
  <2>3. PICK added : added = [Node(v) EXCEPT !.next = h]
    OBVIOUS
  <2>4. added \in NodeType(V) /\ added.prev = 0 /\ added.next = h /\ added.value = v
    BY <2>3 DEF Node, NodeType, NULL
  <2>5. PICK longer : longer = Append(mem, added)
    OBVIOUS
  <2>6. /\ longer \in Seq(NodeType(V)) /\ Len(longer) = N + 1 /\ longer[N + 1] = added
        /\ \A a \in 1 .. N : longer[a] = mem[a] /\ longer[a] \in NodeType(V)
    <3>1. mem \in Seq(NodeType(V)) /\ Len(mem) = N /\ \A a \in 1 .. N : mem[a] \in NodeType(V)
      BY <1>1 DEF Spelled
    <3>2. QED
      BY <2>4, <2>5, <3>1, AppendProperties
  <2>7. /\ r.mem = [longer EXCEPT ![h].prev = N + 1]
        /\ r.ll = [ll EXCEPT !.length = n + 1, !.head = N + 1]
    <3>1. ll.head # 0 /\ ll.length = n /\ Len(mem) = N
      BY <1>1, <1>5 DEF Spelled
    <3>2. QED
      BY <2>1, <2>3, <2>5, <3>1 DEF linkedlist_prepend, NewAddress, NULL
  <2>8. PICK linked : linked = [longer[h] EXCEPT !.prev = N + 1]
    OBVIOUS
  <2>9. /\ linked \in NodeType(V) /\ linked.prev = N + 1
        /\ linked.next = mem[h].next /\ linked.value = mem[h].value
    BY <2>6, <2>8, SMTT(30) DEF NodeType
  <2>10. r.mem = [longer EXCEPT ![h] = linked]
    BY <2>7, <2>8
  <2>11. /\ r.mem \in Seq(NodeType(V)) /\ Len(r.mem) = N + 1 /\ r.mem[h] = linked /\ r.mem[N + 1] = added
         /\ \A a \in 1 .. N : a # h => r.mem[a] = mem[a]
         /\ \A a \in 1 .. N + 1 : r.mem[a] \in NodeType(V)
    BY <2>4, <2>6, <2>9, <2>10
  <2>12. r.ll \in ListType /\ r.ll.length = n + 1 /\ r.ll.head = N + 1 /\ r.ll.tail = chain[n]
    <3>1. ll \in ListType /\ ll.tail = chain[n]
      BY <1>1, <1>5 DEF Spelled
    <3>2. QED
      BY <1>3, <2>7, <3>1 DEF ListType
  <2>13. \A k \in 1 .. n : k = 1 => r.mem[c[k + 1]] = linked /\ mem[chain[k]] = mem[h]
    BY <1>2, <2>1, <2>11
  <2>14. \A k \in 1 .. n : k # 1 => r.mem[c[k + 1]] = mem[chain[k]]
    <3> TAKE k \in 1 .. n
    <3>1. c[k + 1] = chain[k] /\ chain[k] \in 1 .. N
      BY <1>2
    <3>2. QED
      BY <2>2, <2>11, <3>1
  <2>15. \A k \in 1 .. n + 1 : r.mem[c[k]].prev = IF k = 1 THEN 0 ELSE c[k - 1]
    <3> TAKE k \in 1 .. n + 1
    <3>1. CASE k = 1
      BY <1>2, <2>4, <2>11, <3>1
    <3>2. CASE k # 1
      <4>0. PICK i \in 1 .. n : k = i + 1
        <5>1. k - 1 \in 1 .. n /\ k = (k - 1) + 1
          BY <3>2
        <5>2. QED
          BY <5>1
      <4>1. /\ i = 1 => r.mem[c[i + 1]].prev = N + 1
            /\ i # 1 => r.mem[c[i + 1]].prev = mem[chain[i]].prev
        BY <2>9, <2>13, <2>14, <4>0
      <4>2. mem[chain[i]].prev = IF i = 1 THEN 0 ELSE chain[i - 1]
        BY <1>1, <4>0 DEF Spelled
      <4>3. i # 1 => c[i] = chain[i - 1]
        BY <1>2, <4>0
      <4>4. i = 1 => c[i] = N + 1
        BY <1>2
      <4>5. QED
        BY <3>2, <4>0, <4>1, <4>2, <4>3, <4>4
    <3>3. QED
      BY <3>1, <3>2
  <2>16. \A k \in 1 .. n + 1 : r.mem[c[k]].next = IF k = n + 1 THEN 0 ELSE c[k + 1]
    <3> TAKE k \in 1 .. n + 1
    <3>1. CASE k = 1
      <4>1. c[2] = h /\ c[k] = N + 1 /\ k # n + 1 /\ k + 1 = 2
        BY <1>2, <1>5, <2>1, <3>1
      <4>2. QED
        BY <2>4, <2>11, <4>1
    <3>2. CASE k # 1
      <4>0. PICK i \in 1 .. n : k = i + 1
        <5>1. k - 1 \in 1 .. n /\ k = (k - 1) + 1
          BY <3>2
        <5>2. QED
          BY <5>1
      <4>1. r.mem[c[i + 1]].next = mem[chain[i]].next
        BY <2>9, <2>13, <2>14, <4>0
      <4>2. mem[chain[i]].next = IF i = n THEN 0 ELSE chain[i + 1]
        BY <1>1, <4>0 DEF Spelled
      <4>3. i # n => c[(i + 1) + 1] = chain[i + 1]
        BY <1>2, <4>0
      <4>4. QED
        BY <4>0, <4>1, <4>2, <4>3
    <3>3. QED
      BY <3>1, <3>2
  <2>17. \A j, k \in 1 .. n + 1 : c[j] = c[k] => j = k
    <3>1. \A j, k \in 1 .. n : chain[j] = chain[k] => j = k
      BY <1>1 DEF Spelled
    <3>2. \A k \in 2 .. n + 1 : c[k] # c[1]
      <4> TAKE k \in 2 .. n + 1
      <4>1. c[k] \in 1 .. N /\ c[1] = N + 1
        BY <1>2
      <4>2. QED
        BY <4>1
    <3>3. \A k \in 1 .. n + 1 : k \in 2 .. n + 1 \/ k = 1
      OBVIOUS
    <3>4. \A j, k \in 2 .. n + 1 : c[j] = c[k] => j = k
      <4> TAKE j, k \in 2 .. n + 1
      <4>1. j - 1 \in 1 .. n /\ k - 1 \in 1 .. n /\ c[j] = chain[j - 1] /\ c[k] = chain[k - 1]
        BY <1>2
      <4>2. chain[j - 1] = chain[k - 1] => j - 1 = k - 1
        BY <3>1, <4>1
      <4>3. QED
        BY <4>1, <4>2
    <3>5. QED
      BY <3>2, <3>3, <3>4
  <2>18. c[n + 1] = chain[n]
    BY <1>2, <1>5
  <2>19. Spelled(V, r.mem, r.ll, c, n + 1, N + 1)
    <3>1. n + 1 # 0
      OBVIOUS
    <3>2. QED
      BY <1>2, <2>11, <2>12, <2>15, <2>16, <2>17, <2>18, <3>1 DEF Spelled
  <2>20. Linked(V, r.mem, r.ll, c)
    BY <1>3, <2>19, Unspell
  <2>21. ll.length = n
    BY <1>1 DEF Spelled
  <2>22. r.mem[c[1]].value = v
    BY <1>2, <2>4, <2>11
  <2>23. r.ll.length = n + 1 /\ \A k \in 1 .. n : r.mem[c[k + 1]].value = mem[chain[k]].value
    BY <2>9, <2>12, <2>13, <2>14
  <2>24. QED
    BY <2>20, <2>21, <2>22, <2>23
<1>6. QED
  BY <1>1, <1>4, <1>5

ChainPopped(ll, chain) == [k \in 1 .. ll.length - 1 |-> chain[k]]
LEMMA PopLinks ==
  ASSUME NEW V, NEW mem, NEW ll, NEW chain, Linked(V, mem, ll, chain), ll.length # 0,
         NEW r, r = linkedlist_pop(mem, ll),
         NEW c, c = ChainPopped(ll, chain)
  PROVE  /\ Linked(V, r.mem, r.ll, c)
         /\ r.ll.length = ll.length - 1
         /\ \A k \in 1 .. ll.length - 1 : r.mem[c[k]].value = mem[chain[k]].value
         /\ ll.tail = chain[ll.length] /\ ll.tail \in Address(mem)
<1>1. PICK n \in Nat, N \in Nat : Spelled(V, mem, ll, chain, n, N)
  BY Spell
<1>2. n > 0 /\ n - 1 \in Nat
  BY <1>1 DEF Spelled
<1>3. c \in [1 .. n - 1 -> 1 .. N] /\ \A k \in 1 .. n - 1 : c[k] = chain[k] /\ k \in 1 .. n
  BY <1>1 DEF Spelled, ChainPopped
<1>4. ll.tail = chain[ll.length] /\ ll.tail \in Address(mem)
  BY <1>1, <1>2 DEF Spelled, Address
<1>5. CASE n = 1
  <2>1. ll.head = ll.tail
    BY <1>1, <1>5 DEF Spelled
  <2>2. r.mem = mem /\ r.ll = [length |-> 0, head |-> 0, tail |-> 0]
    BY <1>1, <1>5, <2>1 DEF linkedlist_pop, Spelled, NULL
  <2>3. r.ll \in ListType /\ r.ll.length = 0 /\ r.ll.head = 0 /\ r.ll.tail = 0
    BY <2>2 DEF ListType
  <2>4. Spelled(V, r.mem, r.ll, c, 0, N)
    BY <1>1, <1>3, <1>5, <2>2, <2>3 DEF Spelled
  <2>5. Linked(V, r.mem, r.ll, c)
    BY <2>4, Unspell
  <2>6. QED
    BY <1>1, <1>4, <1>5, <2>3, <2>5 DEF Spelled
<1>6. CASE n # 1
  <2>1. n \in 1 .. n /\ 1 \in 1 .. n /\ n - 1 \in 1 .. n - 1 /\ n - 1 \in 1 .. n
    BY <1>2, <1>6
  <2>2. ll.head # ll.tail
    BY <1>1, <1>2, <1>6, <2>1 DEF Spelled
  <2>3. PICK p \in 1 .. N : p = chain[n - 1] /\ p = mem[ll.tail].prev
    BY <1>1, <1>2, <1>6, <2>1 DEF Spelled
  <2>4. /\ r.mem = [mem EXCEPT ![p].next = 0]
        /\ r.ll = [ll EXCEPT !.length = n - 1, !.tail = p]
    <3>1. ll.length = n
      BY <1>1 DEF Spelled
    <3>2. QED
      BY <2>2, <2>3, <3>1 DEF linkedlist_pop, NULL
  <2>5. PICK last : last = [mem[p] EXCEPT !.next = 0]
    OBVIOUS
  <2>6. mem \in Seq(NodeType(V)) /\ Len(mem) = N /\ \A a \in 1 .. N : mem[a] \in NodeType(V)
    BY <1>1 DEF Spelled
  <2>7. last \in NodeType(V) /\ last.next = 0 /\ last.prev = mem[p].prev /\ last.value = mem[p].value
    BY <2>5, <2>6 DEF NodeType
  <2>8. r.mem = [mem EXCEPT ![p] = last]
    BY <2>4, <2>5
  <2>9. /\ r.mem \in Seq(NodeType(V)) /\ Len(r.mem) = N /\ r.mem[p] = last
        /\ \A a \in 1 .. N : a # p => r.mem[a] = mem[a]
        /\ \A a \in 1 .. N : r.mem[a] \in NodeType(V)
    BY <2>6, <2>7, <2>8
  <2>10. r.ll \in ListType /\ r.ll.length = n - 1 /\ r.ll.head = chain[1] /\ r.ll.tail = p
    <3>1. ll \in ListType /\ ll.head = chain[1]
      BY <1>1, <1>2 DEF Spelled
    <3>2. p \in Nat /\ n - 1 \in Nat
      BY <1>2
    <3>3. QED
      BY <2>4, <3>1, <3>2 DEF ListType
  <2>11. \A k \in 1 .. n - 1 : k = n - 1 => r.mem[c[k]] = last /\ mem[chain[k]] = mem[p]
    BY <1>3, <2>3, <2>9
  <2>12. \A k \in 1 .. n - 1 : k # n - 1 => r.mem[c[k]] = mem[chain[k]]
    <3> TAKE k \in 1 .. n - 1
    <3>1. c[k] = chain[k] /\ chain[k] \in 1 .. N /\ k \in 1 .. n
      BY <1>1, <1>3 DEF Spelled
    <3>2. chain[k] = p => k = n - 1
      BY <1>1, <2>1, <2>3, <3>1 DEF Spelled
    <3>3. QED
      BY <2>9, <3>1, <3>2
  <2>13. \A k \in 1 .. n - 1 : r.mem[c[k]].prev = IF k = 1 THEN 0 ELSE c[k - 1]
    <3> TAKE k \in 1 .. n - 1
    <3>1. r.mem[c[k]].prev = mem[chain[k]].prev
      BY <2>7, <2>11, <2>12
    <3>2. mem[chain[k]].prev = IF k = 1 THEN 0 ELSE chain[k - 1]
      BY <1>1, <1>3 DEF Spelled
    <3>3. k # 1 => c[k - 1] = chain[k - 1]
      BY <1>3
    <3>4. QED
      BY <3>1, <3>2, <3>3
  <2>14. \A k \in 1 .. n - 1 : r.mem[c[k]].next = IF k = n - 1 THEN 0 ELSE c[k + 1]
    <3> TAKE k \in 1 .. n - 1
    <3>1. k = n - 1 => r.mem[c[k]].next = 0
      BY <2>7, <2>11
    <3>2. k # n - 1 => r.mem[c[k]].next = mem[chain[k]].next
      BY <2>12
    <3>3. mem[chain[k]].next = IF k = n THEN 0 ELSE chain[k + 1]
      BY <1>1, <1>3 DEF Spelled
    <3>4. k # n - 1 => c[k + 1] = chain[k + 1]
      BY <1>3
    <3>5. QED
      BY <3>1, <3>2, <3>3, <3>4
  <2>15. \A j, k \in 1 .. n - 1 : c[j] = c[k] => j = k
    BY <1>1, <1>3 DEF Spelled
  <2>16. c[1] = chain[1] /\ c[n - 1] = p
    <3>1. 1 \in 1 .. n - 1
      BY <1>2, <1>6
    <3>2. QED
      BY <1>3, <2>1, <2>3, <3>1
  <2>17. Spelled(V, r.mem, r.ll, c, n - 1, N)
    <3>1. n - 1 # 0
      BY <1>6
    <3>2. QED
      BY <1>3, <2>9, <2>10, <2>13, <2>14, <2>15, <2>16, <3>1 DEF Spelled
  <2>18. Linked(V, r.mem, r.ll, c)
    BY <1>2, <2>17, Unspell
  <2>19. ll.length = n
    BY <1>1 DEF Spelled
  <2>20. r.ll.length = n - 1 /\ \A k \in 1 .. n - 1 : r.mem[c[k]].value = mem[chain[k]].value
    BY <2>7, <2>10, <2>11, <2>12
  <2>21. QED
    BY <1>4, <2>18, <2>19, <2>20
<1>7. QED
  BY <1>5, <1>6
-----------------------------------------------------------------------------
(* Following prev from the tail reaches the list's nodes and no others.        *)
LEMMA ReachedIsChain ==
  ASSUME NEW V, NEW mem, NEW ll, NEW chain, NEW n \in Nat, NEW N \in Nat,
         Spelled(V, mem, ll, chain, n, N), n > 0
  PROVE  \A a \in 1 .. N : a \in Reached(mem, ll) <=> \E k \in 1 .. n : a = chain[k]
<1>1. /\ Len(mem) = N /\ chain \in [1 .. n -> 1 .. N] /\ ll.tail = chain[n]
      /\ \A k \in 1 .. n : mem[chain[k]].prev = IF k = 1 THEN 0 ELSE chain[k - 1]
  BY DEF Spelled
<1> DEFINE Closed(S) == ll.tail \in S /\ \A b \in S : mem[b].prev # 0 => mem[b].prev \in S
<1>2. Reached(mem, ll) = {a \in 1 .. N : \A S \in SUBSET (1 .. N) : Closed(S) => a \in S}
  BY <1>1 DEF Reached, NULL
<1>3. ASSUME NEW a \in 1 .. N, a \in Reached(mem, ll) PROVE \E k \in 1 .. n : a = chain[k]
  <2> DEFINE Cut == {b \in 1 .. N : \E k \in 1 .. n : b = chain[k]}
  <2>1. ll.tail \in Cut
    BY <1>1
  <2>2. ASSUME NEW b \in Cut, mem[b].prev # 0 PROVE mem[b].prev \in Cut
    <3>1. PICK k \in 1 .. n : b = chain[k]
      OBVIOUS
    <3>2. k # 1 /\ mem[b].prev = chain[k - 1] /\ k - 1 \in 1 .. n
      BY <1>1, <2>2, <3>1
    <3>3. QED
      BY <1>1, <3>2
  <2>3. Closed(Cut) /\ Cut \in SUBSET (1 .. N)
    BY <2>1, <2>2
  <2> HIDE DEF Closed
  <2>4. a \in Cut
    BY <1>2, <1>3, <2>3
  <2>5. QED
    BY <2>4
<1>4. ASSUME NEW k \in 1 .. n PROVE chain[k] \in Reached(mem, ll)
  <2>1. SUFFICES ASSUME NEW S \in SUBSET (1 .. N), Closed(S) PROVE chain[k] \in S
    <3>1. chain[k] \in 1 .. N
      BY <1>1
    <3> HIDE DEF Closed
    <3>2. QED
      BY <1>2, <3>1
  <2> DEFINE T == {j \in 0 .. n - 1 : chain[n - j] \notin S}
  <2>2. SUFFICES ASSUME T # {} PROVE FALSE
    <3>1. n - k \in 0 .. n - 1 /\ n - (n - k) = k
      OBVIOUS
    <3>2. QED
      BY <3>1
  <2>3. PICK j \in T : \A i \in T : j <= i
    BY <2>2, LeastElement, T \in SUBSET Nat
  <2>4. j # 0
    BY <1>1, <2>1, <2>3
  <2>5. j - 1 \in 0 .. n - 1 /\ j - 1 \notin T
    BY <2>3, <2>4
  <2>6. PICK i \in 1 .. n : i = n - (j - 1) /\ i # 1 /\ i - 1 = n - j /\ i - 1 \in 1 .. n
    BY <2>3, <2>4
  <2>7. chain[i] \in S
    BY <2>5, <2>6
  <2>8. mem[chain[i]].prev = chain[i - 1] /\ chain[i - 1] \in 1 .. N
    BY <1>1, <2>6
  <2>9. chain[n - j] \in S
    <3>1. \A b \in S : mem[b].prev # 0 => mem[b].prev \in S
      BY <2>1
    <3>2. chain[i - 1] # 0 /\ chain[i - 1] = chain[n - j]
      BY <2>6, <2>8
    <3>3. QED
      BY <2>7, <2>8, <3>1, <3>2
  <2>10. QED
    BY <2>3, <2>9
<1>5. QED
  BY <1>3, <1>4

ChainReversed(ll, chain) == [k \in 1 .. ll.length |-> chain[ll.length + 1 - k]]
LEMMA ReverseLinks ==
  ASSUME NEW V, NEW mem, NEW ll, NEW chain, Linked(V, mem, ll, chain),
         NEW r, r = linkedlist_reverse(mem, ll),
         NEW c, c = ChainReversed(ll, chain)
  PROVE  /\ Linked(V, r.mem, r.ll, c)
         /\ r.ll.length = ll.length
         /\ \A k \in 1 .. ll.length : r.mem[c[k]].value = mem[chain[ll.length + 1 - k]].value
<1>1. PICK n \in Nat, N \in Nat : Spelled(V, mem, ll, chain, n, N)
  BY Spell
<1>2. \A k \in 1 .. n : n + 1 - k \in 1 .. n
  OBVIOUS
<1>3. c \in [1 .. n -> 1 .. N] /\ \A k \in 1 .. n : c[k] = chain[n + 1 - k]
  BY <1>1, <1>2 DEF Spelled, ChainReversed
<1>4. ll.length = n
  BY <1>1 DEF Spelled
<1>5. CASE n = 0
  <2>1. r.mem = mem /\ r.ll = ll
    BY <1>1, <1>5 DEF linkedlist_reverse, Spelled, NULL
  <2>2. Spelled(V, r.mem, r.ll, c, n, N)
    BY <1>1, <1>3, <1>5, <2>1 DEF Spelled
  <2>3. QED
    BY <1>4, <1>5, <2>1, <2>2, Unspell
<1>6. CASE n # 0
  <2>0. n > 0 /\ 1 \in 1 .. n /\ n \in 1 .. n
    BY <1>6
  <2>1. /\ ll \in ListType /\ ll.head = chain[1] /\ ll.tail = chain[n] /\ Len(mem) = N
        /\ mem \in Seq(NodeType(V)) /\ \A a \in 1 .. N : mem[a] \in NodeType(V)
        /\ chain \in [1 .. n -> 1 .. N]
    BY <1>1, <2>0 DEF Spelled
  <2>2. ll.head # 0
    BY <2>0, <2>1
  <2>3. PICK reached : reached = Reached(mem, ll)
    OBVIOUS
  <2>4. /\ r.mem = [a \in 1 .. N |-> IF a \in reached THEN [mem[a] EXCEPT !.next = mem[a].prev, !.prev = mem[a].next]
                                     ELSE mem[a]]
        /\ r.ll = [ll EXCEPT !.head = chain[n], !.tail = chain[1]]
    BY <2>1, <2>2, <2>3 DEF linkedlist_reverse, NULL
  <2>5. \A a \in 1 .. N : a \in reached <=> \E k \in 1 .. n : a = chain[k]
    BY <1>1, <2>0, <2>3, ReachedIsChain
  <2>6. \A a \in 1 .. N : r.mem[a] \in NodeType(V)
    <3> TAKE a \in 1 .. N
    <3>1. mem[a] \in NodeType(V)
      BY <2>1
    <3>2. [mem[a] EXCEPT !.next = mem[a].prev, !.prev = mem[a].next] \in NodeType(V)
      BY <3>1 DEF NodeType
    <3>3. QED
      BY <2>4, <3>1, <3>2
  <2>7. r.mem \in Seq(NodeType(V)) /\ Len(r.mem) = N
    <3>1. r.mem \in [1 .. N -> NodeType(V)]
      BY <2>4, <2>6
    <3>2. QED
      BY <3>1, SeqDef
  <2>8. r.ll \in ListType /\ r.ll.length = n /\ r.ll.head = chain[n] /\ r.ll.tail = chain[1]
    BY <1>4, <2>0, <2>1, <2>4 DEF ListType
  <2>9. \A k \in 1 .. n : /\ r.mem[chain[k]].prev = mem[chain[k]].next
                           /\ r.mem[chain[k]].next = mem[chain[k]].prev
                           /\ r.mem[chain[k]].value = mem[chain[k]].value
    <3> TAKE k \in 1 .. n
    <3>1. chain[k] \in 1 .. N /\ chain[k] \in reached /\ mem[chain[k]] \in NodeType(V)
      BY <2>1, <2>5
    <3>2. r.mem[chain[k]] = [mem[chain[k]] EXCEPT !.next = mem[chain[k]].prev, !.prev = mem[chain[k]].next]
      BY <2>4, <3>1
    <3>3. QED
      BY <3>1, <3>2 DEF NodeType
  <2>10. \A k \in 1 .. n : r.mem[c[k]].prev = IF k = 1 THEN 0 ELSE c[k - 1]
    <3> TAKE k \in 1 .. n
    <3>1. PICK i \in 1 .. n : i = n + 1 - k
      BY <1>2
    <3>2. r.mem[c[k]].prev = IF i = n THEN 0 ELSE chain[i + 1]
      <4>1. mem[chain[i]].next = IF i = n THEN 0 ELSE chain[i + 1]
        BY <1>1 DEF Spelled
      <4>2. QED
        BY <1>3, <2>9, <3>1, <4>1
    <3>3. k # 1 => c[k - 1] = chain[i + 1]
      <4>1. k # 1 => k - 1 \in 1 .. n /\ n + 1 - (k - 1) = i + 1
        BY <3>1
      <4>2. QED
        BY <1>3, <4>1
    <3>4. i = n <=> k = 1
      BY <3>1
    <3>5. QED
      BY <3>2, <3>3, <3>4
  <2>11. \A k \in 1 .. n : r.mem[c[k]].next = IF k = n THEN 0 ELSE c[k + 1]
    <3> TAKE k \in 1 .. n
    <3>1. PICK i \in 1 .. n : i = n + 1 - k
      BY <1>2
    <3>2. r.mem[c[k]].next = IF i = 1 THEN 0 ELSE chain[i - 1]
      BY <1>1, <1>3, <2>9, <3>1, SMTT(30) DEF Spelled
    <3>3. k # n => c[k + 1] = chain[i - 1]
      <4>1. k # n => k + 1 \in 1 .. n /\ n + 1 - (k + 1) = i - 1
        BY <3>1
      <4>2. QED
        BY <1>3, <4>1
    <3>4. i = 1 <=> k = n
      BY <3>1
    <3>5. QED
      BY <3>2, <3>3, <3>4
  <2>12. \A j, k \in 1 .. n : c[j] = c[k] => j = k
    <3> TAKE j, k \in 1 .. n
    <3>1. chain[n + 1 - j] = chain[n + 1 - k] => n + 1 - j = n + 1 - k
      BY <1>1, <1>2 DEF Spelled
    <3>2. QED
      BY <1>3, <3>1
  <2>13. c[1] = chain[n] /\ c[n] = chain[1]
    <3>1. n + 1 - 1 = n /\ n + 1 - n = 1
      OBVIOUS
    <3>2. QED
      BY <1>3, <2>0, <3>1
  <2>14. Spelled(V, r.mem, r.ll, c, n, N)
    BY <1>3, <1>6, <2>6, <2>7, <2>8, <2>10, <2>11, <2>12, <2>13 DEF Spelled
  <2>15. Linked(V, r.mem, r.ll, c)
    BY <2>14, Unspell
  <2>16. \A k \in 1 .. n : r.mem[c[k]].value = mem[chain[n + 1 - k]].value
    BY <1>2, <1>3, <2>9
  <2>17. QED
    BY <1>4, <2>8, <2>15, <2>16
<1>7. QED
  BY <1>5, <1>6
-----------------------------------------------------------------------------
(* What the operations do to the contents.                                   *)
LEMMA ContentsSeq ==
  ASSUME NEW V, NEW mem, NEW ll, NEW chain, Linked(V, mem, ll, chain)
  PROVE  /\ ContentsOf(mem, ll) \in [1 .. ll.length -> V] /\ ContentsOf(mem, ll) \in Seq(V)
         /\ ll.length \in Nat /\ Len(ContentsOf(mem, ll)) = ll.length
         /\ \A k \in 1 .. ll.length : ContentsOf(mem, ll)[k] = mem[chain[k]].value
<1>1. PICK n \in Nat, N \in Nat : Spelled(V, mem, ll, chain, n, N)
  BY Spell
<1>2. PICK s : s = ContentsOf(mem, ll)
  OBVIOUS
<1>3. s = [k \in 1 .. n |-> mem[chain[k]].value] /\ ll.length = n
  <2>1. ll.length = n
    BY <1>1 DEF Spelled
  <2>2. ContentsOf(mem, ll) = [k \in 1 .. ll.length |-> mem[chain[k]].value]
    BY ContentsByChain
  <2>3. QED
    BY <1>2, <2>1, <2>2
<1>4. \A k \in 1 .. n : mem[chain[k]].value \in V
  BY <1>1 DEF Spelled, NodeType
<1>5. s \in [1 .. n -> V] /\ \A k \in 1 .. n : s[k] = mem[chain[k]].value
  BY <1>3, <1>4
<1>6. s \in Seq(V) /\ Len(s) = n
  BY <1>5, SeqDef
<1>7. QED
  BY <1>2, <1>3, <1>5, <1>6

LEMMA AppendContents ==
  ASSUME NEW V, NEW mem, NEW ll, NEW chain, Linked(V, mem, ll, chain), NEW v \in V,
         NEW r, r = linkedlist_append(mem, ll, v)
  PROVE  /\ \E c : Linked(V, r.mem, r.ll, c)
         /\ ContentsOf(r.mem, r.ll) = Append(ContentsOf(mem, ll), v)
<1>1. PICK c : c = ChainAppended(mem, ll, chain)
  OBVIOUS
<1>2. /\ Linked(V, r.mem, r.ll, c) /\ r.ll.length = ll.length + 1
      /\ \A k \in 1 .. ll.length : r.mem[c[k]].value = mem[chain[k]].value
      /\ r.mem[c[ll.length + 1]].value = v
  BY <1>1, AppendLinks
<1>3. PICK s, t, n : s = ContentsOf(mem, ll) /\ t = ContentsOf(r.mem, r.ll) /\ n = ll.length
  OBVIOUS
<1>4. s \in Seq(V) /\ Len(s) = n /\ n \in Nat /\ \A k \in 1 .. n : s[k] = mem[chain[k]].value
  BY <1>3, ContentsSeq
<1>5. t \in Seq(V) /\ Len(t) = n + 1 /\ \A k \in 1 .. n + 1 : t[k] = r.mem[c[k]].value
  BY <1>2, <1>3, ContentsSeq
<1>6. \A k \in 1 .. n : t[k] = s[k]
  BY <1>2, <1>3, <1>4, <1>5
<1>7. t[n + 1] = v
  BY <1>2, <1>3, <1>4, <1>5
<1>8. t = Append(s, v)
  BY <1>4, <1>5, <1>6, <1>7
<1>9. QED
  BY <1>2, <1>3, <1>8

LEMMA PrependContents ==
  ASSUME NEW V, NEW mem, NEW ll, NEW chain, Linked(V, mem, ll, chain), NEW v \in V,
         NEW r, r = linkedlist_prepend(mem, ll, v)
  PROVE  /\ \E c : Linked(V, r.mem, r.ll, c)
         /\ ContentsOf(r.mem, r.ll) = <<v>> \o ContentsOf(mem, ll)
<1>1. PICK c : c = ChainPrepended(mem, ll, chain)
  OBVIOUS
<1>2. /\ Linked(V, r.mem, r.ll, c) /\ r.ll.length = ll.length + 1
      /\ \A k \in 1 .. ll.length : r.mem[c[k + 1]].value = mem[chain[k]].value
      /\ r.mem[c[1]].value = v
  BY <1>1, PrependLinks
<1>3. PICK s, t, n : s = ContentsOf(mem, ll) /\ t = ContentsOf(r.mem, r.ll) /\ n = ll.length
  OBVIOUS
<1>4. s \in Seq(V) /\ Len(s) = n /\ n \in Nat /\ \A k \in 1 .. n : s[k] = mem[chain[k]].value
  BY <1>3, ContentsSeq
<1>5. t \in Seq(V) /\ Len(t) = n + 1 /\ \A k \in 1 .. n + 1 : t[k] = r.mem[c[k]].value
  BY <1>2, <1>3, ContentsSeq
<1>6. \A k \in 1 .. n : t[k + 1] = s[k]
  <2> TAKE k \in 1 .. n
  <2>1. t[k + 1] = r.mem[c[k + 1]].value /\ s[k] = mem[chain[k]].value
    BY <1>4, <1>5
  <2>2. QED
    BY <1>2, <1>3, <2>1
<1>7. t[1] = v
  BY <1>2, <1>4, <1>5
<1>8. t = <<v>> \o s
  <2>1. \A k \in 2 .. n + 1 : t[k] = s[k - 1]
    <3> TAKE k \in 2 .. n + 1
    <3>1. k - 1 \in 1 .. n /\ (k - 1) + 1 = k
      BY <1>4
    <3>2. QED
      BY <1>6, <3>1
  <2>2. PICK u : u = <<v>> \o s
    OBVIOUS
  <2>3. u \in Seq(V) /\ Len(u) = n + 1 /\ \A k \in 1 .. n + 1 : u[k] = IF k = 1 THEN v ELSE s[k - 1]
    BY <1>4, <2>2
  <2>4. \A k \in 1 .. n + 1 : t[k] = u[k]
    BY <1>7, <2>1, <2>3
  <2>5. t = u
    BY <1>4, <1>5, <2>3, <2>4, SeqEqual
  <2>6. QED
    BY <2>2, <2>5
<1>9. QED
  BY <1>2, <1>3, <1>8

LEMMA PopContents ==
  ASSUME NEW V, NEW mem, NEW ll, NEW chain, Linked(V, mem, ll, chain), ll.length # 0,
         NEW r, r = linkedlist_pop(mem, ll)
  PROVE  /\ \E c : Linked(V, r.mem, r.ll, c)
         /\ mem[ll.tail].value = ContentsOf(mem, ll)[Len(ContentsOf(mem, ll))]
         /\ ContentsOf(r.mem, r.ll) = [i \in 1 .. Len(ContentsOf(mem, ll)) - 1 |-> ContentsOf(mem, ll)[i]]
<1>1. PICK c : c = ChainPopped(ll, chain)
  OBVIOUS
<1>2. /\ Linked(V, r.mem, r.ll, c) /\ r.ll.length = ll.length - 1
      /\ \A k \in 1 .. ll.length - 1 : r.mem[c[k]].value = mem[chain[k]].value
      /\ ll.tail = chain[ll.length]
  BY <1>1, PopLinks
<1>3. PICK s, t, n : s = ContentsOf(mem, ll) /\ t = ContentsOf(r.mem, r.ll) /\ n = ll.length
  OBVIOUS
<1>4. Len(s) = n /\ n \in Nat /\ n # 0 /\ \A k \in 1 .. n : s[k] = mem[chain[k]].value
  BY <1>3, ContentsSeq
<1>5. t \in [1 .. n - 1 -> V] /\ \A k \in 1 .. n - 1 : t[k] = r.mem[c[k]].value
  BY <1>2, <1>3, ContentsSeq
<1>6. \A k \in 1 .. n - 1 : t[k] = s[k]
  BY <1>2, <1>3, <1>4, <1>5
<1>7. t = [i \in 1 .. n - 1 |-> s[i]]
  BY <1>5, <1>6
<1>8. mem[ll.tail].value = s[n]
  <2>1. n \in 1 .. n
    BY <1>4
  <2>2. QED
    BY <1>2, <1>3, <1>4, <2>1
<1>9. QED
  BY <1>2, <1>3, <1>4, <1>7, <1>8

LEMMA ReverseContents ==
  ASSUME NEW V, NEW mem, NEW ll, NEW chain, Linked(V, mem, ll, chain),
         NEW r, r = linkedlist_reverse(mem, ll)
  PROVE  /\ \E c : Linked(V, r.mem, r.ll, c)
         /\ ContentsOf(r.mem, r.ll)
              = [i \in 1 .. Len(ContentsOf(mem, ll)) |-> ContentsOf(mem, ll)[Len(ContentsOf(mem, ll)) + 1 - i]]
<1>1. PICK c : c = ChainReversed(ll, chain)
  OBVIOUS
<1>2. /\ Linked(V, r.mem, r.ll, c) /\ r.ll.length = ll.length
      /\ \A k \in 1 .. ll.length : r.mem[c[k]].value = mem[chain[ll.length + 1 - k]].value
  BY <1>1, ReverseLinks
<1>3. PICK s, t, n : s = ContentsOf(mem, ll) /\ t = ContentsOf(r.mem, r.ll) /\ n = ll.length
  OBVIOUS
<1>4. Len(s) = n /\ n \in Nat /\ \A k \in 1 .. n : s[k] = mem[chain[k]].value
  BY <1>3, ContentsSeq
<1>5. t \in [1 .. n -> V] /\ \A k \in 1 .. n : t[k] = r.mem[c[k]].value
  BY <1>2, <1>3, ContentsSeq
<1>6. \A k \in 1 .. n : t[k] = s[n + 1 - k]
  <2> TAKE k \in 1 .. n
  <2>1. n + 1 - k \in 1 .. n
    BY <1>4
  <2>2. s[n + 1 - k] = mem[chain[n + 1 - k]].value
    BY <1>4, <2>1
  <2>3. QED
    BY <1>2, <1>3, <1>5, <2>2
<1>7. t = [i \in 1 .. n |-> s[n + 1 - i]]
  BY <1>5, <1>6
<1>8. QED
  BY <1>2, <1>3, <1>4, <1>7
-----------------------------------------------------------------------------
(* Lists that share a memory, but no node.                                    *)
Shared(V, mem, lists, n, chains) ==
  /\ mem \in Seq(NodeType(V))
  /\ \A a \in 1 .. n : Linked(V, mem, lists[a], chains[a])
  /\ \A a, b \in 1 .. n :
       a # b => \A i \in 1 .. lists[a].length, j \in 1 .. lists[b].length : chains[a][i] # chains[b][j]

(* An append changes no node but the old tail, and adds one.                  *)
LEMMA AppendFrame ==
  ASSUME NEW V, NEW mem, NEW ll, NEW chain, Linked(V, mem, ll, chain), NEW v \in V,
         NEW r, r = linkedlist_append(mem, ll, v)
  PROVE  /\ r.mem \in Seq(NodeType(V)) /\ Len(r.mem) = Len(mem) + 1
         /\ \A a \in 1 .. Len(mem) : (\A k \in 1 .. ll.length : a # chain[k]) => r.mem[a] = mem[a]
<1>1. PICK n \in Nat, N \in Nat : Spelled(V, mem, ll, chain, n, N)
  BY Spell
<1>2. PICK c : c = ChainAppended(mem, ll, chain)
  OBVIOUS
<1>3. r.mem \in Seq(NodeType(V))
  BY <1>2, AppendLinks DEF Linked
<1>4. /\ ll.length = n /\ Len(mem) = N /\ mem \in Seq(NodeType(V))
      /\ n = 0 => ll.head = 0
      /\ n > 0 => ll.head = chain[1] /\ ll.tail = chain[n] /\ chain[1] \in 1 .. N /\ chain[n] \in 1 .. N
  BY <1>1 DEF Spelled
<1>5. CASE n = 0
  <2>1. r.mem = Append(mem, Node(v))
    BY <1>4, <1>5 DEF linkedlist_append, NULL
  <2>2. Node(v) \in NodeType(V)
    BY DEF Node, NodeType, NULL
  <2>3. QED
    BY <1>3, <1>4, <2>1, <2>2
<1>6. CASE n > 0
  <2>1. PICK t \in 1 .. N : t = ll.tail /\ t = chain[n]
    BY <1>4, <1>6
  <2>2. PICK added : added = [Node(v) EXCEPT !.prev = t]
    OBVIOUS
  <2>3. added \in NodeType(V)
    BY <2>2 DEF Node, NodeType, NULL
  <2>4. PICK longer : longer = Append(mem, added)
    OBVIOUS
  <2>5. /\ longer \in Seq(NodeType(V)) /\ Len(longer) = N + 1
        /\ \A a \in 1 .. N : longer[a] = mem[a]
    BY <1>4, <2>3, <2>4, AppendProperties
  <2>6. r.mem = [longer EXCEPT ![t].next = N + 1]
    <3>1. ll.head # 0 /\ Len(mem) = N
      BY <1>4, <1>6
    <3>2. QED
      BY <2>1, <2>2, <2>4, <3>1 DEF linkedlist_append, NewAddress, NULL
  <2>7. Len(r.mem) = N + 1 /\ \A a \in 1 .. N : a # t => r.mem[a] = mem[a]
    BY <2>5, <2>6
  <2>8. QED
    BY <1>3, <1>4, <1>6, <2>1, <2>7
<1>7. QED
  BY <1>5, <1>6

LEMMA LinkedFrame ==
  ASSUME NEW V, NEW mem, NEW ll, NEW chain, Linked(V, mem, ll, chain),
         NEW new \in Seq(NodeType(V)), Len(new) >= Len(mem),
         \A k \in 1 .. ll.length : new[chain[k]] = mem[chain[k]]
  PROVE  Linked(V, new, ll, chain)
<1>1. PICK n \in Nat, N \in Nat : Spelled(V, mem, ll, chain, n, N)
  BY Spell
<1>2. PICK M \in Nat : M = Len(new) /\ N <= M
  BY <1>1 DEF Spelled
<1>3. \A k \in 1 .. n : new[chain[k]] = mem[chain[k]]
  BY <1>1 DEF Spelled
<1>4. chain \in [1 .. n -> 1 .. M] /\ \A a \in 1 .. M : new[a] \in NodeType(V)
  BY <1>1, <1>2 DEF Spelled
<1>5. Spelled(V, new, ll, chain, n, M)
  BY <1>1, <1>2, <1>3, <1>4 DEF Spelled
<1>6. QED
  BY <1>5, Unspell

(* An append to one of the lists leaves the others as they are.                *)
Replaced(after, lists, n, a, ll) == after[a] = ll /\ \A b \in 1 .. n : b # a => after[b] = lists[b]
AppendedTo(V, mem, lists, n, a, v, longer, after) ==
  /\ \E chained : Shared(V, longer, after, n, chained)
  /\ ContentsOf(longer, after[a]) = Append(ContentsOf(mem, lists[a]), v)
  /\ \A b \in 1 .. n : b # a => ContentsOf(longer, after[b]) = ContentsOf(mem, lists[b])
LEMMA AppendShared ==
  ASSUME NEW V, NEW mem, NEW lists, NEW n \in Nat, NEW chains, Shared(V, mem, lists, n, chains),
         NEW a \in 1 .. n, NEW v \in V, NEW r, r = linkedlist_append(mem, lists[a], v),
         NEW after, Replaced(after, lists, n, a, r.ll)
  PROVE  AppendedTo(V, mem, lists, n, a, v, r.mem, after)
<1> DEFINE c == ChainAppended(mem, lists[a], chains[a])
           chained == [b \in 1 .. n |-> IF b = a THEN c ELSE chains[b]]
<1>0. after[a] = r.ll /\ \A b \in 1 .. n : b # a => after[b] = lists[b]
  BY DEF Replaced
<1>1. Linked(V, mem, lists[a], chains[a])
  BY DEF Shared
<1>2. /\ Linked(V, r.mem, r.ll, c) /\ r.ll.length = lists[a].length + 1
      /\ ContentsOf(r.mem, r.ll) = Append(ContentsOf(mem, lists[a]), v)
  BY <1>1, AppendLinks, AppendContents
<1>3. /\ r.mem \in Seq(NodeType(V)) /\ Len(r.mem) = Len(mem) + 1 /\ Len(mem) \in Nat
      /\ \A x \in 1 .. Len(mem) : (\A k \in 1 .. lists[a].length : x # chains[a][k]) => r.mem[x] = mem[x]
  BY <1>1, AppendFrame, SMTT(30) DEF Linked
<1>4. ASSUME NEW b \in 1 .. n, b # a
      PROVE  /\ Linked(V, r.mem, lists[b], chains[b])
             /\ ContentsOf(r.mem, lists[b]) = ContentsOf(mem, lists[b])
  <2>1. Linked(V, mem, lists[b], chains[b])
    BY DEF Shared
  <2>2. \A k \in 1 .. lists[b].length : chains[b][k] \in 1 .. Len(mem)
    BY <2>1 DEF Linked, Address
  <2>3. \A k \in 1 .. lists[b].length : r.mem[chains[b][k]] = mem[chains[b][k]]
    <3> TAKE k \in 1 .. lists[b].length
    <3>1. \A i \in 1 .. lists[a].length : chains[b][k] # chains[a][i]
      BY <1>4 DEF Shared
    <3>2. QED
      BY <1>3, <2>2, <3>1
  <2>4. Linked(V, r.mem, lists[b], chains[b])
    BY <1>3, <2>1, <2>3, LinkedFrame, SMTT(30)
  <2>5. PICK ll, chain, new : ll = lists[b] /\ chain = chains[b] /\ new = r.mem
    OBVIOUS
  <2>6. /\ Linked(V, mem, ll, chain) /\ Linked(V, new, ll, chain)
        /\ \A k \in 1 .. ll.length : new[chain[k]] = mem[chain[k]]
    BY <2>1, <2>3, <2>4, <2>5
  <2>7. ContentsOf(new, ll) = [k \in 1 .. ll.length |-> new[chain[k]].value]
    BY <2>6, ContentsByChain
  <2>8. ContentsOf(mem, ll) = [k \in 1 .. ll.length |-> mem[chain[k]].value]
    BY <2>6, ContentsByChain
  <2>9. ContentsOf(new, ll) = ContentsOf(mem, ll)
    BY <2>6, <2>7, <2>8
  <2>10. QED
    BY <2>4, <2>5, <2>9, Zenon
<1>5. \A b \in 1 .. n : b # a => \A i \in 1 .. r.ll.length, j \in 1 .. lists[b].length : c[i] # chains[b][j]
  <2> SUFFICES ASSUME NEW b \in 1 .. n, b # a, NEW i \in 1 .. r.ll.length, NEW j \in 1 .. lists[b].length
               PROVE  c[i] # chains[b][j]
    OBVIOUS
  <2>1. lists[a].length \in Nat
    BY <1>1 DEF Linked, ListType
  <2>2. c[i] = IF i = lists[a].length + 1 THEN Len(mem) + 1 ELSE chains[a][i]
    BY <1>2, <2>1 DEF ChainAppended
  <2>3. chains[b][j] \in 1 .. Len(mem)
    BY DEF Shared, Linked, Address
  <2>4. CASE i = lists[a].length + 1
    BY <1>3, <2>2, <2>3, <2>4
  <2>5. CASE i # lists[a].length + 1
    <3>1. i \in 1 .. lists[a].length
      BY <1>2, <2>1, <2>5
    <3>2. QED
      BY <2>2, <2>5, <3>1 DEF Shared
  <2>6. QED
    BY <2>4, <2>5
<1> HIDE DEF c
<1>6. \A b \in 1 .. n : Linked(V, r.mem, after[b], chained[b])
  BY <1>0, <1>2, <1>4
<1>7. \A b, d \in 1 .. n :
        b # d => \A i \in 1 .. after[b].length, j \in 1 .. after[d].length : chained[b][i] # chained[d][j]
  <2> SUFFICES ASSUME NEW b \in 1 .. n, NEW d \in 1 .. n, b # d,
                      NEW i \in 1 .. after[b].length, NEW j \in 1 .. after[d].length
               PROVE  chained[b][i] # chained[d][j]
    OBVIOUS
  <2>1. CASE b = a
    BY <1>0, <1>5, <2>1
  <2>2. CASE d = a
    BY <1>0, <1>5, <2>2
  <2>3. CASE b # a /\ d # a
    BY <1>0, <2>3 DEF Shared
  <2>4. QED
    BY <2>1, <2>2, <2>3
<1>8. Shared(V, r.mem, after, n, chained)
  BY <1>3, <1>6, <1>7 DEF Shared
<1>9. QED
  BY <1>0, <1>2, <1>4, <1>8 DEF AppendedTo

(* A new list is empty.                                                       *)
LEMMA NewShared ==
  ASSUME NEW V, NEW mem, NEW lists, NEW n \in Nat, NEW chains, Shared(V, mem, lists, n, chains),
         NEW after, after[n + 1] = linkedlist_new, \A b \in 1 .. n : after[b] = lists[b]
  PROVE  \E chained : Shared(V, mem, after, n + 1, chained) /\ ContentsOf(mem, after[n + 1]) = << >>
<1> DEFINE chained == [b \in 1 .. n + 1 |-> IF b = n + 1 THEN << >> ELSE chains[b]]
<1>1. PICK none : none = << >>
  OBVIOUS
<1>2. PICK N \in Nat : N = Len(mem) /\ mem \in Seq(NodeType(V)) /\ \A x \in 1 .. N : mem[x] \in NodeType(V)
  BY DEF Shared
<1>3. /\ after[n + 1] \in ListType /\ after[n + 1].length = 0
      /\ after[n + 1].head = 0 /\ after[n + 1].tail = 0
  BY DEF linkedlist_new, ListType, NULL
<1>4. none \in [1 .. 0 -> 1 .. N]
  BY <1>1
<1>5. Spelled(V, mem, after[n + 1], none, 0, N)
  BY <1>2, <1>3, <1>4 DEF Spelled
<1>6. Linked(V, mem, after[n + 1], none)
  BY <1>2, <1>5, Unspell
<1>7. \A b \in 1 .. n + 1 : Linked(V, mem, after[b], chained[b])
  BY <1>1, <1>6 DEF Shared
<1>8. \A b, d \in 1 .. n + 1 :
        b # d => \A i \in 1 .. after[b].length, j \in 1 .. after[d].length : chained[b][i] # chained[d][j]
  <2> SUFFICES ASSUME NEW b \in 1 .. n + 1, NEW d \in 1 .. n + 1, b # d,
                      NEW i \in 1 .. after[b].length, NEW j \in 1 .. after[d].length
               PROVE  chained[b][i] # chained[d][j]
    OBVIOUS
  <2>1. b # n + 1 /\ d # n + 1
    BY <1>3
  <2>2. b \in 1 .. n /\ d \in 1 .. n
    BY <2>1
  <2>3. QED
    BY <2>1, <2>2 DEF Shared
<1>9. Shared(V, mem, after, n + 1, chained)
  BY <1>2, <1>7, <1>8 DEF Shared
<1>10. ContentsOf(mem, after[n + 1]) = << >>
  <2>1. ContentsOf(mem, after[n + 1]) \in [1 .. 0 -> V]
    BY <1>3, <1>6, ContentsSeq
  <2>2. QED
    BY <2>1
<1>11. QED
  BY <1>9, <1>10
=============================================================================
