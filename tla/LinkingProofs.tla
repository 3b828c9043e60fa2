----------------------------- MODULE LinkingProofs -----------------------------
(***************************************************************************)
(* First, the call table: it stays a search tree in which every name is      *)
(* found again, whatever is added and in whatever order.                     *)
(*                                                                         *)
(* Then the generated code and the call table agree at every declaration:    *)
(* each call is listed under the name that it calls, each name is located    *)
(* where its last definition so far begins, and the pool holds strings of    *)
(* the program.  Patching every node of the table then resolves every call.  *)
(***************************************************************************)
EXTENDS Linking, LinkedNodesProofs, FiniteSetTheorems

TableNode == [function : Nat, location : Nat, callsites : ListType, left : Nat, right : Nat]

(* Children are newer than their parent, so that every walk ends.              *)
Below(tbl, a, child) == child = NULL \/ child \in a + 1 .. Len(tbl)
Grown(tbl) ==
  /\ tbl \in Seq(TableNode) /\ Len(tbl) > 0
  /\ \A a \in 1 .. Len(tbl) : Below(tbl, a, tbl[a].left) /\ Below(tbl, a, tbl[a].right)
(* Every node is found under its name.                                        *)
Found(tbl) == \A a \in 1 .. Len(tbl) : Descend(tbl, tbl[a].function) = a
SearchTree(tbl) == Grown(tbl) /\ Found(tbl)
-----------------------------------------------------------------------------
(* A set of numbers up to n has a greatest element.                           *)
LEMMA GreatestElement ==
  ASSUME NEW n \in Nat, NEW T \in SUBSET (1 .. n), T # {}
  PROVE  \E x \in T : \A y \in T : y <= x
<1> DEFINE U == {k \in 0 .. n : n - k \in T}
<1>1. PICK t \in T : TRUE
  OBVIOUS
<1>2. n - t \in U
  BY <1>1
<1>3. U \in SUBSET Nat /\ U # {}
  <2>1. \A k \in U : k \in Nat
    OBVIOUS
  <2>2. QED
    BY <1>2, <2>1
<1>4. PICK k \in U : \A j \in U : k <= j
  BY <1>3, LeastElement
<1>5. \A y \in T : n - y \in U
  OBVIOUS
<1>6. \A y \in T : y <= n - k
  <2> TAKE y \in T
  <2>1. k <= n - y
    BY <1>4, <1>5
  <2>2. QED
    BY <1>4, <2>1
<1>7. QED
  BY <1>4, <1>6

(* Where a walk ends, and where it goes on.                                   *)
Ends(tbl, function, a) == tbl[a].function = function \/ Child(tbl[a], function) = NULL

LEMMA ChildBelow ==
  ASSUME NEW tbl, Grown(tbl), NEW function, NEW a \in 1 .. Len(tbl)
  PROVE  /\ Below(tbl, a, Child(tbl[a], function)) /\ Len(tbl) \in Nat
         /\ ~Ends(tbl, function, a) => Child(tbl[a], function) \in a + 1 .. Len(tbl)
<1>1. Len(tbl) \in Nat /\ Below(tbl, a, tbl[a].left) /\ Below(tbl, a, tbl[a].right)
  BY DEF Grown
<1>2. Child(tbl[a], function) \in {tbl[a].left, tbl[a].right}
  BY DEF Child
<1>3. QED
  BY <1>1, <1>2 DEF Below, Ends

(* The recursion of Walk has a solution: it is found from the last node back.  *)
Walks(tbl, function, m, g) ==
  g = [a \in m .. Len(tbl) |-> IF Ends(tbl, function, a) THEN a ELSE g[Child(tbl[a], function)]]
LEMMA WalkExists ==
  ASSUME NEW tbl, Grown(tbl), NEW function
  PROVE  \E g : Walks(tbl, function, 1, g)
<1> DEFINE n == Len(tbl)
           T == {m \in 1 .. n + 1 : ~ \E g : Walks(tbl, function, m, g)}
<1>1. n \in Nat /\ n + 1 \in Nat
  BY DEF Grown
<1>2. SUFFICES T = {}
  <2>1. 1 \in 1 .. n + 1
    BY <1>1
  <2>2. 1 \notin T
    OBVIOUS
  <2> QED BY <2>1, <2>2
<1>3. SUFFICES ASSUME T # {} PROVE FALSE
  OBVIOUS
<1>4. PICK m \in T : \A y \in T : y <= m
  BY <1>1, <1>3, GreatestElement
<1>5. \E g : Walks(tbl, function, n + 1, g)
  <2>1. PICK none : none = [a \in n + 1 .. n |-> a]
    OBVIOUS
  <2>2. \A a \in n + 1 .. n : FALSE
    BY <1>1
  <2>3. none = [a \in n + 1 .. n |-> IF Ends(tbl, function, a) THEN a ELSE none[Child(tbl[a], function)]]
    BY <2>1, <2>2
  <2>4. QED
    BY <2>3 DEF Walks
<1>6. m \in 1 .. n /\ m + 1 \in 1 .. n + 1 /\ m + 1 \notin T
  BY <1>1, <1>4, <1>5
<1>7. PICK g : Walks(tbl, function, m + 1, g)
  BY <1>6
<1>8. PICK child : child = Child(tbl[m], function)
  OBVIOUS
<1> DEFINE h == [a \in m .. n |-> IF a = m THEN IF Ends(tbl, function, m) THEN m ELSE g[child] ELSE g[a]]
<1>9. \A a \in m + 1 .. n : /\ h[a] = g[a]
                            /\ g[a] = IF Ends(tbl, function, a) THEN a ELSE g[Child(tbl[a], function)]
  <2> TAKE a \in m + 1 .. n
  <2>1. a \in m .. n /\ a # m
    BY <1>6
  <2>2. h[a] = g[a]
    BY <2>1
  <2>3. g[a] = IF Ends(tbl, function, a) THEN a ELSE g[Child(tbl[a], function)]
    BY <1>7 DEF Walks
  <2>4. QED
    BY <2>2, <2>3
<1>10. \A a \in m .. n : h[a] = IF Ends(tbl, function, a) THEN a ELSE h[Child(tbl[a], function)]
  <2> TAKE a \in m .. n
  <2>1. CASE Ends(tbl, function, a)
    <3>1. CASE a = m
      <4>1. h[m] = m
        BY <1>6, <2>1, <3>1
      <4>2. QED
        BY <2>1, <3>1, <4>1
    <3>2. CASE a # m
      <4>1. a \in m + 1 .. n
        BY <1>1, <1>6, <3>2
      <4>2. QED
        BY <1>9, <2>1, <4>1
    <3>3. QED
      BY <3>1, <3>2
  <2>2. CASE ~Ends(tbl, function, a)
    <3>1. a \in 1 .. n
      BY <1>1, <1>6
    <3>2. Child(tbl[a], function) \in m + 1 .. n
      <4>1. Child(tbl[a], function) \in a + 1 .. n
        BY <2>2, <3>1, ChildBelow
      <4>2. QED
        BY <1>1, <1>6, <4>1
    <3>3. h[Child(tbl[a], function)] = g[Child(tbl[a], function)]
      BY <1>9, <3>2
    <3>4. CASE a = m
      <4>1. h[m] = g[child]
        BY <1>6, <2>2, <3>4
      <4>2. QED
        BY <1>8, <2>2, <3>3, <3>4, <4>1
    <3>5. CASE a # m
      <4>1. a \in m + 1 .. n
        BY <1>1, <1>6, <3>5
      <4>2. QED
        BY <1>9, <2>2, <3>3, <4>1
    <3>6. QED
      BY <3>4, <3>5
  <2>3. QED
    BY <2>1, <2>2
<1>11. h = [a \in m .. n |-> h[a]]
  OBVIOUS
<1> HIDE DEF h
<1>12. Walks(tbl, function, m, h)
  BY <1>10, <1>11 DEF Walks
<1>13. QED
  BY <1>4, <1>12

LEMMA WalkUnfold ==
  ASSUME NEW tbl, Grown(tbl), NEW function
  PROVE  Walks(tbl, function, 1, Walk(tbl, function))
<1>1. \E g : g = [a \in 1 .. Len(tbl) |->
                    IF tbl[a].function = function \/ Child(tbl[a], function) = NULL THEN a
                    ELSE g[Child(tbl[a], function)]]
  <2>1. PICK g : Walks(tbl, function, 1, g)
    BY WalkExists
  <2>2. g = [a \in 1 .. Len(tbl) |->
               IF tbl[a].function = function \/ Child(tbl[a], function) = NULL THEN a
               ELSE g[Child(tbl[a], function)]]
    BY <2>1, Zenon DEF Walks, Ends
  <2>3. QED
    BY <2>2, Zenon
<1>2. QED
  BY <1>1, Zenon DEF Walk, Walks, Ends

(* A walk ends at a node where it must, and stays in any set of nodes that      *)
(* holds the children of its members.                                        *)
LEMMA WalkStep ==
  ASSUME NEW tbl, Grown(tbl), NEW function, NEW a \in 1 .. Len(tbl)
  PROVE  Walk(tbl, function)[a] = IF Ends(tbl, function, a) THEN a ELSE Walk(tbl, function)[Child(tbl[a], function)]
<1>1. PICK w : w = Walk(tbl, function)
  OBVIOUS
<1>2. w = [b \in 1 .. Len(tbl) |-> IF Ends(tbl, function, b) THEN b ELSE w[Child(tbl[b], function)]]
  BY <1>1, WalkUnfold DEF Walks
<1>3. w[a] = IF Ends(tbl, function, a) THEN a ELSE w[Child(tbl[a], function)]
  BY <1>2
<1>4. QED
  BY <1>1, <1>3

LEMMA WalkEnds ==
  ASSUME NEW tbl, Grown(tbl), NEW function,
         NEW S \in SUBSET (1 .. Len(tbl)),
         \A a \in S : /\ tbl[a].left # NULL => tbl[a].left \in S
                      /\ tbl[a].right # NULL => tbl[a].right \in S
  PROVE  \A a \in S : Walk(tbl, function)[a] \in S /\ Ends(tbl, function, Walk(tbl, function)[a])
<1> DEFINE w(a) == Walk(tbl, function)[a]
           T == {a \in S : ~ (w(a) \in S /\ Ends(tbl, function, w(a)))}
<1>1. Len(tbl) \in Nat /\ T \in SUBSET (1 .. Len(tbl))
  <2>1. Len(tbl) \in Nat
    BY DEF Grown
  <2>2. \A a \in T : a \in 1 .. Len(tbl)
    OBVIOUS
  <2>3. QED
    BY <2>1, <2>2
<1>2. SUFFICES ASSUME T # {} PROVE FALSE
  OBVIOUS
<1>3. PICK a \in T : \A y \in T : y <= a
  BY <1>1, <1>2, GreatestElement
<1>4. w(a) = IF Ends(tbl, function, a) THEN a ELSE w(Child(tbl[a], function))
  BY <1>1, WalkStep
<1>5. CASE Ends(tbl, function, a)
  BY <1>3, <1>4, <1>5
<1>6. CASE ~Ends(tbl, function, a)
  <2>1. Child(tbl[a], function) \in a + 1 .. Len(tbl)
    BY <1>1, <1>6, ChildBelow
  <2>2. Child(tbl[a], function) \in S
    <3>1. Child(tbl[a], function) \in {tbl[a].left, tbl[a].right}
      BY DEF Child
    <3>2. Child(tbl[a], function) # NULL
      BY <1>6 DEF Ends
    <3>3. QED
      BY <3>1, <3>2
  <2>3. Child(tbl[a], function) \notin T
    BY <1>1, <1>3, <2>1
  <2>4. QED
    BY <1>3, <1>4, <1>6, <2>2, <2>3
<1>7. QED
  BY <1>5, <1>6

LEMMA DescendEnds ==
  ASSUME NEW tbl, Grown(tbl), NEW function
  PROVE  Descend(tbl, function) \in 1 .. Len(tbl) /\ Ends(tbl, function, Descend(tbl, function))
<1> DEFINE S == 1 .. Len(tbl)
<1>1. Len(tbl) \in Nat /\ 1 \in S
  BY DEF Grown
<1>2. \A a \in S : /\ tbl[a].left # NULL => tbl[a].left \in S
                   /\ tbl[a].right # NULL => tbl[a].right \in S
  BY <1>1 DEF Grown, Below
<1>3. QED
  BY <1>1, <1>2, WalkEnds DEF Descend

(* Every node of a search tree is reached from the root.                       *)
LEMMA AllReached ==
  ASSUME NEW tbl, SearchTree(tbl), NEW S \in SUBSET (1 .. Len(tbl)), 1 \in S,
         \A a \in S : /\ tbl[a].left # NULL => tbl[a].left \in S
                      /\ tbl[a].right # NULL => tbl[a].right \in S
  PROVE  S = 1 .. Len(tbl)
<1> SUFFICES ASSUME NEW a \in 1 .. Len(tbl) PROVE a \in S
  OBVIOUS
<1>1. Walk(tbl, tbl[a].function)[1] \in S
  BY WalkEnds DEF SearchTree
<1>2. QED
  BY <1>1 DEF SearchTree, Found, Descend

LEMMA OneNode ==
  ASSUME NEW tbl, SearchTree(tbl), NEW a \in 1 .. Len(tbl), NEW b \in 1 .. Len(tbl),
         tbl[a].function = tbl[b].function
  PROVE  a = b
BY DEF SearchTree, Found

LEMMA InByNode ==
  ASSUME NEW tbl, SearchTree(tbl), NEW function
  PROVE  IsIn(tbl, function) <=> \E a \in 1 .. Len(tbl) : tbl[a].function = function
BY DescendEnds DEF SearchTree, Found, IsIn
-----------------------------------------------------------------------------
(* What happens to the links when a node is hung below another.               *)
NewNode(new, n, function) ==
  /\ new[n].function = function /\ new[n].location = 0 /\ new[n].callsites = linkedlist_new
  /\ new[n].left = NULL /\ new[n].right = NULL
SameNode(new, old) ==
  new.function = old.function /\ new.location = old.location /\ new.callsites = old.callsites
HungBelow(new, tbl, function, d) ==
  /\ new \in Seq(TableNode) /\ Len(new) = Len(tbl) + 1
  /\ NewNode(new, Len(tbl) + 1, function)
  /\ \A a \in 1 .. Len(tbl) : SameNode(new[a], tbl[a]) /\ (a # d => new[a] = tbl[a])
  /\ IF function < tbl[d].function
     THEN new[d].left = Len(tbl) + 1 /\ new[d].right = tbl[d].right
     ELSE new[d].right = Len(tbl) + 1 /\ new[d].left = tbl[d].left

LEMMA AddHangs ==
  ASSUME NEW tbl, Grown(tbl), NEW function \in Nat, ~IsIn(tbl, function)
  PROVE  HungBelow(AddNode(tbl, function), tbl, function, Descend(tbl, function))
<1> DEFINE n == Len(tbl)
<1>1. PICK d \in 1 .. n : d = Descend(tbl, function)
  BY DescendEnds
<1>2. n \in Nat /\ tbl \in Seq(TableNode) /\ tbl[d] \in TableNode
  BY DEF Grown
<1>3. PICK leaf : leaf = new_node(function)
  OBVIOUS
<1>4. /\ leaf \in TableNode /\ leaf.function = function /\ leaf.location = 0
      /\ leaf.callsites = linkedlist_new /\ leaf.left = NULL /\ leaf.right = NULL
  BY <1>3 DEF new_node, TableNode, linkedlist_new, ListType, NULL
<1>5. PICK longer : longer = Append(tbl, leaf)
  OBVIOUS
<1>6. /\ longer \in Seq(TableNode) /\ Len(longer) = n + 1 /\ longer[n + 1] = leaf
      /\ \A a \in 1 .. n : longer[a] = tbl[a]
  BY <1>2, <1>4, <1>5, AppendProperties
<1>7. PICK hung : hung = Hang(tbl[d], function, n + 1)
  OBVIOUS
<1>8. /\ hung \in TableNode /\ SameNode(hung, tbl[d])
      /\ IF function < tbl[d].function
         THEN hung.left = n + 1 /\ hung.right = tbl[d].right
         ELSE hung.right = n + 1 /\ hung.left = tbl[d].left
  <2>1. CASE function < tbl[d].function
    <3>1. hung = [tbl[d] EXCEPT !.left = n + 1]
      BY <1>7, <2>1 DEF Hang
    <3>2. PICK node \in TableNode, N \in Nat : node = tbl[d] /\ N = n + 1
      BY <1>2
    <3>3. hung = [node EXCEPT !.left = N]
      BY <3>1, <3>2
    <3>4. hung \in TableNode /\ hung.left = N /\ hung.right = node.right /\ SameNode(hung, node)
      BY <3>3 DEF TableNode, SameNode
    <3>5. QED
      BY <2>1, <3>2, <3>4
  <2>2. CASE ~ (function < tbl[d].function)
    <3>1. hung = [tbl[d] EXCEPT !.right = n + 1]
      BY <1>7, <2>2 DEF Hang
    <3>2. PICK node \in TableNode, N \in Nat : node = tbl[d] /\ N = n + 1
      BY <1>2
    <3>3. hung = [node EXCEPT !.right = N]
      BY <3>1, <3>2
    <3>4. hung \in TableNode /\ hung.right = N /\ hung.left = node.left /\ SameNode(hung, node)
      BY <3>3 DEF TableNode, SameNode
    <3>5. QED
      BY <2>2, <3>2, <3>4
  <2>3. QED
    BY <2>1, <2>2
<1>9. PICK new : new = AddNode(tbl, function)
  OBVIOUS
<1>10. new = [longer EXCEPT ![d] = hung]
  <2>1. new = [Append(tbl, new_node(function)) EXCEPT ![d] = Hang(Append(tbl, new_node(function))[d], function, n + 1)]
    BY <1>1, <1>9 DEF AddNode
  <2>2. Append(tbl, new_node(function)) = longer
    BY <1>3, <1>5
  <2>3. longer[d] = tbl[d]
    BY <1>6
  <2>4. QED
    BY <1>7, <2>1, <2>2, <2>3
<1>11. /\ new \in Seq(TableNode) /\ Len(new) = n + 1 /\ new[n + 1] = leaf /\ new[d] = hung
       /\ \A a \in 1 .. n : a # d => new[a] = tbl[a]
  BY <1>2, <1>6, <1>8, <1>10
<1>12. HungBelow(new, tbl, function, d)
  <2>1. NewNode(new, n + 1, function)
    BY <1>4, <1>11 DEF NewNode
  <2>2. \A a \in 1 .. n : SameNode(new[a], tbl[a]) /\ (a # d => new[a] = tbl[a])
    BY <1>8, <1>11 DEF SameNode
  <2>3. QED
    BY <1>8, <1>11, <2>1, <2>2 DEF HungBelow
<1>13. QED
  BY <1>1, <1>9, <1>12

(* The walk to the new node takes its link; a walk to another node that went    *)
(* elsewhere still does.                                                     *)
LEMMA HangKeepsTree ==
  ASSUME NEW tbl, SearchTree(tbl), NEW function \in Nat, NEW d \in 1 .. Len(tbl), d = Descend(tbl, function),
         tbl[d].function # function, NEW new, HungBelow(new, tbl, function, d)
  PROVE  SearchTree(new) /\ Descend(new, function) = Len(new)
<1> DEFINE n == Len(tbl)
           w(g, a) == Walk(tbl, g)[a]
           v(g, a) == Walk(new, g)[a]
<1>1. /\ n \in Nat /\ Len(new) = n + 1 /\ Grown(tbl) /\ new \in Seq(TableNode)
      /\ \A a \in 1 .. n : new[a].function = tbl[a].function /\ (a # d => new[a] = tbl[a])
      /\ new[n + 1].function = function /\ new[n + 1].left = NULL /\ new[n + 1].right = NULL
  BY DEF SearchTree, Grown, HungBelow, NewNode, SameNode
<1>2. IF function < tbl[d].function
      THEN new[d].left = n + 1 /\ new[d].right = tbl[d].right
      ELSE new[d].right = n + 1 /\ new[d].left = tbl[d].left
  BY DEF HungBelow
<1>3. Child(tbl[d], function) = NULL /\ Child(new[d], function) = n + 1
  <2>1. Child(tbl[d], function) = NULL
    BY <1>1, DescendEnds DEF Ends
  <2>2. new[d].function = tbl[d].function
    BY <1>1
  <2>3. QED
    BY <1>2, <2>1, <2>2 DEF Child
<1>4. Grown(new)
  <2>1. \A a \in 1 .. n : Below(tbl, a, tbl[a].left) /\ Below(tbl, a, tbl[a].right)
    BY <1>1 DEF Grown
  <2>2. \A a \in 1 .. n : Below(new, a, tbl[a].left) /\ Below(new, a, tbl[a].right)
    BY <1>1, <2>1 DEF Below
  <2>3. \A a \in 1 .. n : Below(new, a, new[a].left) /\ Below(new, a, new[a].right)
    <3> TAKE a \in 1 .. n
    <3>1. CASE a # d
      BY <1>1, <2>2, <3>1
    <3>2. CASE a = d
      <4>1. Below(new, d, n + 1)
        BY <1>1 DEF Below
      <4>2. QED
        BY <1>2, <2>2, <3>2, <4>1
    <3>3. QED
      BY <3>1, <3>2
  <2>4. \A a \in 1 .. n + 1 : a = n + 1 \/ a \in 1 .. n
    BY <1>1
  <2>5. Below(new, n + 1, new[n + 1].left) /\ Below(new, n + 1, new[n + 1].right)
    BY <1>1 DEF Below
  <2>6. QED
    BY <1>1, <2>3, <2>4, <2>5 DEF Grown
<1>5. ASSUME NEW b \in 1 .. n, NEW g, g = tbl[b].function
      PROVE  \A a \in 1 .. n : w(g, a) = b => v(g, a) = b
  <2> DEFINE T == {a \in 1 .. n : w(g, a) = b /\ v(g, a) # b}
  <2>1. SUFFICES ASSUME T # {} PROVE FALSE
    OBVIOUS
  <2>2. PICK a \in T : \A y \in T : y <= a
    BY <1>1, <2>1, GreatestElement
  <2>3. w(g, a) = IF Ends(tbl, g, a) THEN a ELSE w(g, Child(tbl[a], g))
    BY <1>1, WalkStep
  <2>4. v(g, a) = IF Ends(new, g, a) THEN a ELSE v(g, Child(new[a], g))
    BY <1>1, <1>4, WalkStep
  <2>5. CASE Ends(tbl, g, a)
    <3>1. a = b
      BY <2>2, <2>3, <2>5
    <3>2. Ends(new, g, a)
      BY <1>1, <1>5, <3>1 DEF Ends
    <3>3. QED
      BY <2>2, <2>4, <3>1, <3>2
  <2>6. CASE ~Ends(tbl, g, a)
    <3>1. Child(tbl[a], g) \in a + 1 .. n /\ Child(tbl[a], g) # NULL /\ tbl[a].function # g
      BY <1>1, <2>6, ChildBelow DEF Ends
    <3>2. Child(new[a], g) = Child(tbl[a], g)
      <4>1. CASE a # d
        BY <1>1, <4>1
      <4>2. CASE a = d
        BY <1>1, <1>2, <1>3, <3>1, <4>2 DEF Child
      <4>3. QED
        BY <4>1, <4>2
    <3>3. ~Ends(new, g, a)
      BY <1>1, <3>1, <3>2 DEF Ends
    <3>4. Child(tbl[a], g) \in 1 .. n /\ Child(tbl[a], g) \notin T
      BY <1>1, <2>2, <3>1
    <3>5. w(g, Child(tbl[a], g)) = b
      BY <2>2, <2>3, <2>6
    <3>6. v(g, Child(tbl[a], g)) = b
      BY <3>4, <3>5
    <3>7. QED
      BY <2>2, <2>4, <3>2, <3>3, <3>6
  <2>7. QED
    BY <2>5, <2>6
<1>6. v(function, n + 1) = n + 1
  <2>1. Ends(new, function, n + 1)
    BY <1>1 DEF Ends
  <2>2. n + 1 \in 1 .. Len(new)
    BY <1>1
  <2>3. QED
    BY <1>4, <2>1, <2>2, WalkStep
<1>7. \A a \in 1 .. n : w(function, a) = d => v(function, a) = n + 1
  <2> DEFINE T == {a \in 1 .. n : w(function, a) = d /\ v(function, a) # n + 1}
  <2>1. SUFFICES ASSUME T # {} PROVE FALSE
    OBVIOUS
  <2>2. PICK a \in T : \A y \in T : y <= a
    BY <1>1, <2>1, GreatestElement
  <2>3. w(function, a) = IF Ends(tbl, function, a) THEN a ELSE w(function, Child(tbl[a], function))
    BY <1>1, WalkStep
  <2>4. v(function, a) = IF Ends(new, function, a) THEN a ELSE v(function, Child(new[a], function))
    BY <1>1, <1>4, WalkStep
  <2>5. CASE Ends(tbl, function, a)
    <3>1. a = d
      BY <2>2, <2>3, <2>5
    <3>2. ~Ends(new, function, a)
      BY <1>1, <1>3, <3>1 DEF Ends, NULL
    <3>3. QED
      BY <1>3, <1>6, <2>2, <2>4, <3>1, <3>2
  <2>6. CASE ~Ends(tbl, function, a)
    <3>1. Child(tbl[a], function) \in a + 1 .. n /\ a # d
      BY <1>1, <1>3, <2>6, ChildBelow DEF Ends
    <3>2. new[a] = tbl[a]
      BY <1>1, <3>1
    <3>3. ~Ends(new, function, a)
      BY <2>6, <3>2 DEF Ends
    <3>4. Child(tbl[a], function) \in 1 .. n /\ Child(tbl[a], function) \notin T
      BY <1>1, <2>2, <3>1
    <3>5. v(function, Child(tbl[a], function)) = n + 1
      BY <2>2, <2>3, <2>6, <3>4
    <3>6. QED
      BY <2>2, <2>4, <3>2, <3>3, <3>5
  <2>7. QED
    BY <2>5, <2>6
<1>8. 1 \in 1 .. n /\ w(function, 1) = d
  BY <1>1 DEF Descend, Grown
<1>9. Descend(new, function) = n + 1
  BY <1>7, <1>8 DEF Descend
<1>10. ASSUME NEW b \in 1 .. n + 1 PROVE Descend(new, new[b].function) = b
  <2>1. CASE b = n + 1
    BY <1>1, <1>9, <2>1
  <2>2. CASE b \in 1 .. n
    <3>1. w(tbl[b].function, 1) = b
      BY <2>2 DEF SearchTree, Found, Descend
    <3>2. v(tbl[b].function, 1) = b
      BY <1>5, <1>8, <2>2, <3>1
    <3>3. QED
      BY <1>1, <2>2, <3>2 DEF Descend
  <2>3. QED
    BY <1>1, <2>1, <2>2, SMTT(30)
<1>11. QED
  BY <1>1, <1>4, <1>9, <1>10 DEF SearchTree, Found
-----------------------------------------------------------------------------
(* A node's location or callsites are replaced: the tree is as before.         *)
SameLinks(new, old) ==
  /\ new \in Seq(TableNode) /\ Len(new) = Len(old)
  /\ \A a \in 1 .. Len(old) :
       new[a].function = old[a].function /\ new[a].left = old[a].left /\ new[a].right = old[a].right

LEMMA SameWalk ==
  ASSUME NEW tbl, SearchTree(tbl), NEW new, SameLinks(new, tbl)
  PROVE  /\ SearchTree(new)
         /\ \A g : Descend(new, g) = Descend(tbl, g) /\ (IsIn(new, g) <=> IsIn(tbl, g))
<1> DEFINE n == Len(tbl)
           w(g, a) == Walk(tbl, g)[a]
           v(g, a) == Walk(new, g)[a]
<1>1. /\ n \in Nat /\ n > 0 /\ Len(new) = n /\ Grown(tbl) /\ new \in Seq(TableNode)
      /\ \A a \in 1 .. n :
           new[a].function = tbl[a].function /\ new[a].left = tbl[a].left /\ new[a].right = tbl[a].right
  BY DEF SearchTree, Grown, SameLinks
<1>2. Grown(new)
  BY <1>1 DEF Grown, Below
<1>3. ASSUME NEW g PROVE \A a \in 1 .. n : v(g, a) = w(g, a)
  <2> DEFINE T == {a \in 1 .. n : v(g, a) # w(g, a)}
  <2>1. SUFFICES ASSUME T # {} PROVE FALSE
    OBVIOUS
  <2>2. PICK a \in T : \A y \in T : y <= a
    BY <1>1, <2>1, GreatestElement
  <2>3. w(g, a) = IF Ends(tbl, g, a) THEN a ELSE w(g, Child(tbl[a], g))
    BY <1>1, WalkStep
  <2>4. v(g, a) = IF Ends(new, g, a) THEN a ELSE v(g, Child(new[a], g))
    BY <1>1, <1>2, WalkStep
  <2>5. Child(new[a], g) = Child(tbl[a], g) /\ (Ends(new, g, a) <=> Ends(tbl, g, a))
    BY <1>1 DEF Child, Ends
  <2>6. ~Ends(tbl, g, a)
    BY <2>2, <2>3, <2>4, <2>5
  <2>7. Child(tbl[a], g) \in a + 1 .. n
    BY <1>1, <2>6, ChildBelow
  <2>8. Child(tbl[a], g) \in 1 .. n /\ Child(tbl[a], g) \notin T
    BY <1>1, <2>2, <2>7
  <2>9. QED
    BY <2>2, <2>3, <2>4, <2>5, <2>6, <2>8
<1>4. \A g : Descend(new, g) = Descend(tbl, g)
  <2> TAKE g
  <2>1. v(g, 1) = w(g, 1)
    BY <1>1, <1>3
  <2>2. QED
    BY <2>1 DEF Descend
<1>5. \A g : Descend(tbl, g) \in 1 .. n
  BY <1>1, DescendEnds
<1>6. QED
  BY <1>1, <1>2, <1>4, <1>5 DEF SearchTree, Found, IsIn
-----------------------------------------------------------------------------
(* The table as a map: the names in it, and for a name its location and the     *)
(* places that call it.                                                      *)
Known(tbl) == {tbl[a].function : a \in 1 .. Len(tbl)}
LocationOf(tbl, g) == IF IsIn(tbl, g) THEN tbl[Descend(tbl, g)].location ELSE 0
SitesOf(tbl, mem, g) == IF IsIn(tbl, g) THEN ToSet(ContentsOf(mem, tbl[Descend(tbl, g)].callsites)) ELSE {}

Lists(tbl) == [a \in 1 .. Len(tbl) |-> tbl[a].callsites]
CallTableOK(tbl, mem) == SearchTree(tbl) /\ \E chains : Shared(Nat, mem, Lists(tbl), Len(tbl), chains)

LEMMA ByNode ==
  ASSUME NEW tbl, SearchTree(tbl), NEW mem, NEW a \in 1 .. Len(tbl), NEW g, g = tbl[a].function
  PROVE  /\ IsIn(tbl, g) /\ LocationOf(tbl, g) = tbl[a].location
         /\ SitesOf(tbl, mem, g) = ToSet(ContentsOf(mem, tbl[a].callsites))
<1>1. Descend(tbl, g) = a
  BY DEF SearchTree, Found
<1>2. QED
  BY <1>1 DEF IsIn, LocationOf, SitesOf

LEMMA KnownIsIn ==
  ASSUME NEW tbl, SearchTree(tbl), NEW g
  PROVE  g \in Known(tbl) <=> IsIn(tbl, g)
BY InByNode DEF Known

LEMMA OneEntry ==
  ASSUME NEW mem, NEW f \in Nat, mem \in Seq(NodeType(Nat))
  PROVE  /\ CallTableOK(new_ft(f), mem) /\ Known(new_ft(f)) = {f}
         /\ \A g : LocationOf(new_ft(f), g) = 0 /\ SitesOf(new_ft(f), mem, g) = {}
<1>1. PICK leaf : leaf = new_node(f)
  OBVIOUS
<1>2. /\ leaf \in TableNode /\ leaf.function = f /\ leaf.location = 0
      /\ leaf.callsites = linkedlist_new /\ leaf.left = NULL /\ leaf.right = NULL
  BY <1>1 DEF new_node, TableNode, linkedlist_new, ListType, NULL
<1>3. PICK tbl : tbl = new_ft(f)
  OBVIOUS
<1>4. tbl = <<leaf>>
  BY <1>1, <1>3 DEF new_ft
<1>5. tbl \in Seq(TableNode) /\ Len(tbl) = 1 /\ tbl[1] = leaf
  BY <1>2, <1>4
<1>6. Grown(tbl)
  BY <1>2, <1>5 DEF Grown, Below
<1>7. \A g : Descend(tbl, g) = 1
  <2> TAKE g
  <2>1. Descend(tbl, g) \in 1 .. Len(tbl)
    BY <1>6, DescendEnds
  <2>2. QED
    BY <1>5, <2>1
<1>8. SearchTree(tbl)
  BY <1>5, <1>6, <1>7 DEF SearchTree, Found
<1>9. PICK none : none = << >>
  OBVIOUS
<1>10. Shared(Nat, mem, << >>, 0, none)
  BY DEF Shared
<1>11. Lists(tbl)[1] = linkedlist_new
  BY <1>2, <1>5 DEF Lists
<1>12. \E chained : Shared(Nat, mem, Lists(tbl), 1, chained) /\ ContentsOf(mem, Lists(tbl)[1]) = << >>
  <2>1. PICK lists, n : lists = << >> /\ n = 0
    OBVIOUS
  <2>2. Shared(Nat, mem, lists, n, none) /\ n \in Nat
    BY <1>10, <2>1
  <2>3. Lists(tbl)[n + 1] = linkedlist_new /\ \A b \in 1 .. n : Lists(tbl)[b] = lists[b]
    BY <1>11, <2>1
  <2>4. \E chained : Shared(Nat, mem, Lists(tbl), n + 1, chained) /\ ContentsOf(mem, Lists(tbl)[n + 1]) = << >>
    BY <2>2, <2>3, NewShared
  <2>5. n + 1 = 1
    BY <2>1
  <2>6. QED
    BY <2>4, <2>5
<1>13. ContentsOf(mem, tbl[1].callsites) = << >>
  BY <1>5, <1>12 DEF Lists
<1>14. ToSet(ContentsOf(mem, tbl[1].callsites)) = {}
  BY <1>13 DEF ToSet
<1>15. \A g : LocationOf(tbl, g) = 0 /\ SitesOf(tbl, mem, g) = {}
  BY <1>2, <1>5, <1>7, <1>14 DEF LocationOf, SitesOf
<1>16. Known(tbl) = {f}
  BY <1>2, <1>5 DEF Known
<1>17. QED
  BY <1>3, <1>5, <1>8, <1>12, <1>15, <1>16 DEF CallTableOK

(* A name that is added has no location and no callsite; the others keep theirs. *)
LEMMA AddName ==
  ASSUME NEW tbl, NEW mem, CallTableOK(tbl, mem), NEW f \in Nat, NEW added, added = AddNode(tbl, f)
  PROVE  /\ CallTableOK(added, mem) /\ Known(added) = Known(tbl) \cup {f} /\ IsIn(added, f)
         /\ \A g : LocationOf(added, g) = LocationOf(tbl, g) /\ SitesOf(added, mem, g) = SitesOf(tbl, mem, g)
<1>1. SearchTree(tbl) /\ Grown(tbl)
  BY DEF CallTableOK, SearchTree
<1>2. CASE IsIn(tbl, f)
  <2>1. added = tbl /\ f \in Known(tbl)
    BY <1>1, <1>2, KnownIsIn DEF AddNode
  <2>2. QED
    BY <1>2, <2>1
<1>3. CASE ~IsIn(tbl, f)
  <2> DEFINE n == Len(tbl)
  <2>1. PICK d \in 1 .. n : d = Descend(tbl, f)
    BY <1>1, DescendEnds
  <2>2. HungBelow(added, tbl, f, d) /\ tbl[d].function # f
    BY <1>1, <1>3, <2>1, AddHangs DEF IsIn
  <2>3. SearchTree(added) /\ Descend(added, f) = Len(added)
    BY <1>1, <2>1, <2>2, HangKeepsTree
  <2>4. /\ n \in Nat /\ Len(added) = n + 1
        /\ \A a \in 1 .. n : SameNode(added[a], tbl[a])
        /\ added[n + 1].function = f /\ added[n + 1].location = 0 /\ added[n + 1].callsites = linkedlist_new
    BY <1>1, <2>2 DEF Grown, HungBelow, NewNode
  <2>5. PICK chains : Shared(Nat, mem, Lists(tbl), n, chains)
    BY DEF CallTableOK
  <2>6. /\ n + 1 \in 1 .. n + 1 /\ \A a \in 1 .. n : a \in 1 .. n + 1
    BY <2>4
  <2>7. Lists(added)[n + 1] = linkedlist_new /\ \A b \in 1 .. n : Lists(added)[b] = Lists(tbl)[b]
    BY <2>4, <2>6 DEF Lists, SameNode
  <2>8. \E chained : Shared(Nat, mem, Lists(added), n + 1, chained) /\ ContentsOf(mem, Lists(added)[n + 1]) = << >>
    <3>1. PICK old, new : old = Lists(tbl) /\ new = Lists(added)
      OBVIOUS
    <3>2. Shared(Nat, mem, old, n, chains) /\ new[n + 1] = linkedlist_new /\ \A b \in 1 .. n : new[b] = old[b]
      BY <2>5, <2>7, <3>1
    <3>3. QED
      BY <2>4, <3>1, <3>2, NewShared
  <2>9. CallTableOK(added, mem)
    BY <2>3, <2>4, <2>8 DEF CallTableOK
  <2>10. ToSet(ContentsOf(mem, added[n + 1].callsites)) = {}
    <3>1. ContentsOf(mem, added[n + 1].callsites) = << >>
      BY <2>4, <2>6, <2>8 DEF Lists
    <3>2. QED
      BY <3>1 DEF ToSet
  <2>11. \A a \in 1 .. n + 1 : a \in 1 .. n \/ a = n + 1
    BY <2>4
  <2>12. Known(added) = Known(tbl) \cup {f}
    BY <2>4, <2>6, <2>11 DEF Known, SameNode
  <2>13. IsIn(added, f)
    BY <2>3, <2>4 DEF IsIn
  <2>14. ASSUME NEW g
         PROVE  LocationOf(added, g) = LocationOf(tbl, g) /\ SitesOf(added, mem, g) = SitesOf(tbl, mem, g)
    <3>1. CASE IsIn(tbl, g)
      <4>1. PICK a \in 1 .. n : tbl[a].function = g
        BY <1>1, <3>1, InByNode
      <4>2. a \in 1 .. Len(added) /\ SameNode(added[a], tbl[a])
        BY <2>4, <2>6, <4>1
      <4>3. LocationOf(tbl, g) = tbl[a].location /\ SitesOf(tbl, mem, g) = ToSet(ContentsOf(mem, tbl[a].callsites))
        BY <1>1, <4>1, ByNode
      <4>4. /\ LocationOf(added, g) = added[a].location
            /\ SitesOf(added, mem, g) = ToSet(ContentsOf(mem, added[a].callsites))
        BY <2>3, <4>1, <4>2, ByNode DEF SameNode
      <4>5. QED
        BY <4>2, <4>3, <4>4 DEF SameNode
    <3>2. CASE ~IsIn(tbl, g) /\ g # f
      <4>1. ~IsIn(added, g)
        BY <1>1, <2>3, <2>12, <3>2, KnownIsIn
      <4>2. QED
        BY <3>2, <4>1 DEF LocationOf, SitesOf
    <3>3. CASE g = f
      <4>1. n + 1 \in 1 .. Len(added)
        BY <2>4, <2>6
      <4>2. /\ LocationOf(added, g) = added[n + 1].location
            /\ SitesOf(added, mem, g) = ToSet(ContentsOf(mem, added[n + 1].callsites))
        BY <2>3, <2>4, <3>3, <4>1, ByNode
      <4>3. QED
        BY <1>3, <2>4, <2>10, <3>3, <4>2 DEF LocationOf, SitesOf
    <3>4. QED
      BY <3>1, <3>2, <3>3
  <2>15. QED
    BY <2>9, <2>12, <2>13, <2>14
<1>4. QED
  BY <1>2, <1>3

LEMMA ToSetAppend ==
  ASSUME NEW S, NEW s \in Seq(S), NEW e \in S
  PROVE  ToSet(Append(s, e)) = ToSet(s) \cup {e}
<1>1. /\ Len(s) \in Nat /\ Len(Append(s, e)) = Len(s) + 1 /\ Append(s, e)[Len(s) + 1] = e
      /\ \A i \in 1 .. Len(s) : Append(s, e)[i] = s[i]
  BY AppendProperties
<1>2. DOMAIN s = 1 .. Len(s) /\ DOMAIN Append(s, e) = 1 .. Len(s) + 1
  BY <1>1
<1>3. ToSet(s) = {s[i] : i \in 1 .. Len(s)} /\ ToSet(Append(s, e)) = {Append(s, e)[i] : i \in 1 .. Len(s) + 1}
  BY <1>2 DEF ToSet
<1>4. /\ \A i \in 1 .. Len(s) + 1 : i \in 1 .. Len(s) \/ i = Len(s) + 1
      /\ \A i \in 1 .. Len(s) : i \in 1 .. Len(s) + 1
      /\ Len(s) + 1 \in 1 .. Len(s) + 1
  BY <1>1
<1>5. QED
  BY <1>1, <1>3, <1>4

(* A definition gives the name its location, and a call adds its place to those  *)
(* of the name; neither disturbs another name.                               *)
Located(tbl, mem, f, loc, tree) ==
  /\ CallTableOK(tree, mem)
  /\ Known(tree) = Known(tbl) \cup {f}
  /\ \A g : /\ LocationOf(tree, g) = IF g = f THEN loc ELSE LocationOf(tbl, g)
            /\ SitesOf(tree, mem, g) = SitesOf(tbl, mem, g)
LEMMA DefineName ==
  ASSUME NEW tbl, NEW mem, CallTableOK(tbl, mem), NEW f \in Nat, NEW loc \in Nat
  PROVE  Located(tbl, mem, f, loc, add_ft_node(tbl, f, loc))
<1>1. PICK added : added = AddNode(tbl, f)
  OBVIOUS
<1>2. /\ CallTableOK(added, mem) /\ Known(added) = Known(tbl) \cup {f} /\ IsIn(added, f)
      /\ \A g : LocationOf(added, g) = LocationOf(tbl, g) /\ SitesOf(added, mem, g) = SitesOf(tbl, mem, g)
  BY <1>1, AddName
<1>3. SearchTree(added) /\ Grown(added) /\ added \in Seq(TableNode) /\ Len(added) \in Nat
  BY <1>2 DEF CallTableOK, SearchTree, Grown
<1>4. PICK d \in 1 .. Len(added) : d = Descend(added, f)
  BY <1>3, DescendEnds
<1>5. PICK node \in TableNode : node = added[d]
  BY <1>3
<1>6. PICK located : located = [node EXCEPT !.location = loc]
  OBVIOUS
<1>7. /\ located \in TableNode /\ located.function = node.function /\ located.location = loc
      /\ located.callsites = node.callsites /\ located.left = node.left /\ located.right = node.right
  BY <1>6 DEF TableNode
<1>8. PICK new : new = add_ft_node(tbl, f, loc)
  OBVIOUS
<1>9. new = [added EXCEPT ![d] = located]
  BY <1>1, <1>4, <1>5, <1>6, <1>8 DEF add_ft_node
<1>10. /\ new \in Seq(TableNode) /\ Len(new) = Len(added) /\ new[d] = located
       /\ \A a \in 1 .. Len(added) : a # d => new[a] = added[a]
  BY <1>3, <1>7, <1>9
<1>11. SameLinks(new, added)
  BY <1>5, <1>7, <1>10 DEF SameLinks
<1>12. SearchTree(new) /\ \A g : Descend(new, g) = Descend(added, g) /\ (IsIn(new, g) <=> IsIn(added, g))
  BY <1>3, <1>11, SameWalk
<1>13. \A a \in 1 .. Len(added) : new[a].function = added[a].function /\ new[a].callsites = added[a].callsites
  BY <1>5, <1>7, <1>10
<1>14. Lists(new) = Lists(added)
  BY <1>10, <1>13 DEF Lists
<1>15. CallTableOK(new, mem)
  BY <1>2, <1>10, <1>12, <1>14 DEF CallTableOK
<1>16. Known(new) = Known(added)
  BY <1>10, <1>13 DEF Known
<1>17. ASSUME NEW g
       PROVE  /\ LocationOf(new, g) = IF g = f THEN loc ELSE LocationOf(added, g)
              /\ SitesOf(new, mem, g) = SitesOf(added, mem, g)
  <2>1. Descend(added, g) \in 1 .. Len(added)
    BY <1>3, DescendEnds
  <2>2. SitesOf(new, mem, g) = SitesOf(added, mem, g)
    BY <1>12, <1>13, <2>1 DEF SitesOf
  <2>3. CASE g = f
    BY <1>2, <1>4, <1>7, <1>10, <1>12, <2>2, <2>3 DEF LocationOf
  <2>4. CASE g # f
    <3>1. IsIn(added, g) => Descend(added, g) # d
      BY <1>2, <1>4, <2>4 DEF IsIn
    <3>2. QED
      BY <1>10, <1>12, <2>1, <2>2, <2>4, <3>1 DEF LocationOf
  <2>5. QED
    BY <2>3, <2>4
<1>18. QED
  BY <1>2, <1>8, <1>15, <1>16, <1>17 DEF Located

CallAdded(tbl, mem, f, site, tree, longer) ==
  /\ CallTableOK(tree, longer)
  /\ Known(tree) = Known(tbl) \cup {f}
  /\ \A g : /\ LocationOf(tree, g) = LocationOf(tbl, g)
            /\ SitesOf(tree, longer, g) = SitesOf(tbl, mem, g) \cup (IF g = f THEN {site} ELSE {})
LEMMA CallName ==
  ASSUME NEW tbl, NEW mem, CallTableOK(tbl, mem), NEW f \in Nat, NEW site \in Nat,
         NEW r, r = add_callsite(tbl, mem, f, site)
  PROVE  CallAdded(tbl, mem, f, site, r.ft, r.mem)
<1>1. PICK added : added = AddNode(tbl, f)
  OBVIOUS
<1>2. /\ CallTableOK(added, mem) /\ Known(added) = Known(tbl) \cup {f} /\ IsIn(added, f)
      /\ \A g : LocationOf(added, g) = LocationOf(tbl, g) /\ SitesOf(added, mem, g) = SitesOf(tbl, mem, g)
  BY <1>1, AddName
<1>3. SearchTree(added) /\ Grown(added) /\ added \in Seq(TableNode) /\ Len(added) \in Nat
  BY <1>2 DEF CallTableOK, SearchTree, Grown
<1>4. PICK d \in 1 .. Len(added) : d = Descend(added, f)
  BY <1>3, DescendEnds
<1>5. PICK node \in TableNode : node = added[d]
  BY <1>3
<1>6. PICK s : s = linkedlist_append(mem, node.callsites, site)
  OBVIOUS
<1>7. PICK chains : Shared(Nat, mem, Lists(added), Len(added), chains)
  BY <1>2 DEF CallTableOK
<1>8. PICK lists : lists = Lists(added) /\ lists[d] = node.callsites
  <2>1. Lists(added)[d] = added[d].callsites
    BY DEF Lists
  <2>2. QED
    BY <1>5, <2>1
<1> DEFINE after == [a \in 1 .. Len(added) |-> IF a = d THEN s.ll ELSE lists[a]]
<1>9. AppendedTo(Nat, mem, lists, Len(added), d, site, s.mem, after)
  <2>1. Replaced(after, lists, Len(added), d, s.ll)
    BY DEF Replaced
  <2>2. Shared(Nat, mem, lists, Len(added), chains) /\ s = linkedlist_append(mem, lists[d], site)
    BY <1>6, <1>7, <1>8
  <2> HIDE DEF after
  <2>3. QED
    BY <1>3, <2>1, <2>2, AppendShared, Zenon
<1>10. s.ll \in ListType
  <2>1. after[d] = s.ll /\ d \in 1 .. Len(added)
    OBVIOUS
  <2> HIDE DEF after
  <2>2. QED
    BY <1>9, <2>1 DEF Shared, Linked, AppendedTo
<1>11. PICK called : called = [node EXCEPT !.callsites = s.ll]
  OBVIOUS
<1>12. /\ called \in TableNode /\ called.function = node.function /\ called.location = node.location
       /\ called.callsites = s.ll /\ called.left = node.left /\ called.right = node.right
  BY <1>10, <1>11 DEF TableNode
<1>13. r.mem = s.mem /\ r.ft = [added EXCEPT ![d] = called]
  BY <1>1, <1>4, <1>5, <1>6, <1>11 DEF add_callsite
<1>14. /\ r.ft \in Seq(TableNode) /\ Len(r.ft) = Len(added) /\ r.ft[d] = called
       /\ \A a \in 1 .. Len(added) : a # d => r.ft[a] = added[a]
  BY <1>3, <1>12, <1>13
<1>15. SameLinks(r.ft, added)
  BY <1>5, <1>12, <1>14 DEF SameLinks
<1>16. /\ SearchTree(r.ft)
       /\ \A g : Descend(r.ft, g) = Descend(added, g) /\ (IsIn(r.ft, g) <=> IsIn(added, g))
  BY <1>3, <1>15, SameWalk
<1>17. \A a \in 1 .. Len(added) : r.ft[a].function = added[a].function /\ r.ft[a].location = added[a].location
  BY <1>5, <1>12, <1>14
<1>18. Lists(r.ft) = after
  <2>1. \A a \in 1 .. Len(added) : r.ft[a].callsites = IF a = d THEN s.ll ELSE added[a].callsites
    BY <1>12, <1>14
  <2>2. QED
    BY <1>8, <1>14, <2>1 DEF Lists
<1> HIDE DEF after
<1>19. CallTableOK(r.ft, r.mem)
  BY <1>9, <1>13, <1>14, <1>16, <1>18 DEF CallTableOK, AppendedTo
<1>20. Known(r.ft) = Known(added)
  BY <1>14, <1>17, SMTT(30) DEF Known
<1>21. \A a \in 1 .. Len(added) : after[a] = r.ft[a].callsites /\ lists[a] = added[a].callsites
  BY <1>8, <1>14, <1>18 DEF Lists
<1>22. ToSet(ContentsOf(r.mem, r.ft[d].callsites)) = ToSet(ContentsOf(mem, added[d].callsites)) \cup {site}
  <2>1. ContentsOf(r.mem, r.ft[d].callsites) = Append(ContentsOf(mem, added[d].callsites), site)
    BY <1>9, <1>13, <1>21 DEF AppendedTo
  <2>2. PICK ll, chain : ll = lists[d] /\ chain = chains[d] /\ Linked(Nat, mem, ll, chain)
    BY <1>7, <1>8 DEF Shared
  <2>3. ContentsOf(mem, ll) \in Seq(Nat)
    BY <2>2, ContentsSeq
  <2>4. PICK contents \in Seq(Nat) : contents = ContentsOf(mem, added[d].callsites)
    BY <1>21, <2>2, <2>3
  <2>5. ToSet(Append(contents, site)) = ToSet(contents) \cup {site}
    BY <2>4, ToSetAppend
  <2>6. QED
    BY <2>1, <2>4, <2>5
<1>23. ASSUME NEW g
       PROVE  /\ LocationOf(r.ft, g) = LocationOf(added, g)
              /\ SitesOf(r.ft, r.mem, g) = SitesOf(added, mem, g) \cup (IF g = f THEN {site} ELSE {})
  <2>1. Descend(added, g) \in 1 .. Len(added)
    BY <1>3, DescendEnds
  <2>2. LocationOf(r.ft, g) = LocationOf(added, g)
    BY <1>16, <1>17, <2>1 DEF LocationOf
  <2>3. CASE g = f
    BY <1>2, <1>4, <1>16, <1>22, <2>2, <2>3 DEF SitesOf
  <2>4. CASE g # f
    <3>1. IsIn(added, g) => Descend(added, g) # d
      BY <1>2, <1>4, <2>4 DEF IsIn
    <3>2. \A b \in 1 .. Len(added) : b # d => ContentsOf(r.mem, r.ft[b].callsites) = ContentsOf(mem, added[b].callsites)
      BY <1>9, <1>13, <1>21 DEF AppendedTo
    <3>3. QED
      BY <1>16, <2>1, <2>2, <2>4, <3>1, <3>2 DEF SitesOf
  <2>5. QED
    BY <2>3, <2>4
<1>24. QED
  BY <1>2, <1>19, <1>20, <1>23 DEF CallAdded
-----------------------------------------------------------------------------

WordType == [op : {"PUSH", "CALL", "JMP", "RET", "EXIT"}, arg : Nat, target : Nat]

(* Of a name that is declared the lookup answers with the first declaration.   *)
LookupOK ==
  \A f \in Nat \ {NONE} :
    (known(f) \/ \E i \in 1 .. Len(ast) : ast[i].name = f) => lookup_fun(f) \in FirstOf(f, Len(ast))
-----------------------------------------------------------------------------
(* What a loop over strings or statements has done is a function of the round.  *)
StringRounds(c, args, m, g) ==
  g = [n \in 0 .. m |-> IF n = 0 THEN c ELSE compile_string(g[n - 1], args[n])]
LEMMA StringRoundsExist ==
  ASSUME NEW c, NEW args, Len(args) \in Nat
  PROVE  \E g : StringRounds(c, args, Len(args), g)
<1> DEFINE T == {m \in 0 .. Len(args) : ~ \E g : StringRounds(c, args, m, g)}
<1>1. SUFFICES ASSUME T # {} PROVE FALSE
  OBVIOUS
<1>2. PICK m \in T : \A y \in T : m <= y
  <2>1. T \in SUBSET Nat
    OBVIOUS
  <2>2. QED
    BY <1>1, <2>1, LeastElement
<1>3. m # 0
  <2>1. PICK g : g = [n \in 0 .. 0 |-> c]
    OBVIOUS
  <2>2. g = [n \in 0 .. 0 |-> IF n = 0 THEN c ELSE compile_string(g[n - 1], args[n])]
    BY <2>1
  <2>3. StringRounds(c, args, 0, g)
    BY <2>2 DEF StringRounds
  <2>4. QED
    BY <2>3
<1>4. m - 1 \in 0 .. Len(args) /\ m - 1 \notin T
  BY <1>2, <1>3
<1>5. PICK g : StringRounds(c, args, m - 1, g)
  BY <1>4
<1>6. \A n \in 0 .. m - 1 : g[n] = IF n = 0 THEN c ELSE compile_string(g[n - 1], args[n])
  BY <1>5 DEF StringRounds
<1>7. PICK last : last = compile_string(g[m - 1], args[m])
  OBVIOUS
<1> DEFINE h == [n \in 0 .. m |-> IF n = m THEN last ELSE g[n]]
<1>8. \A n \in 0 .. m : h[n] = IF n = 0 THEN c ELSE compile_string(h[n - 1], args[n])
  <2> TAKE n \in 0 .. m
  <2>1. CASE n = m
    <3>1. h[n] = last /\ h[n - 1] = g[m - 1]
      BY <1>2, <1>3, <2>1
    <3>2. QED
      BY <1>3, <1>7, <2>1, <3>1
  <2>2. CASE n # m /\ n # 0
    <3>1. h[n] = g[n] /\ h[n - 1] = g[n - 1] /\ n \in 0 .. m - 1
      BY <1>2, <2>2
    <3>2. QED
      BY <1>6, <2>2, <3>1
  <2>3. CASE n = 0
    <3>1. h[0] = g[0] /\ 0 \in 0 .. m - 1
      BY <1>2, <1>3, <2>3
    <3>2. QED
      BY <1>6, <2>3, <3>1
  <2>4. QED
    BY <2>1, <2>2, <2>3
<1>9. h = [n \in 0 .. m |-> h[n]]
  OBVIOUS
<1> HIDE DEF h
<1>10. StringRounds(c, args, m, h)
  BY <1>8, <1>9 DEF StringRounds
<1>11. QED
  BY <1>2, <1>10

LEMMA StringsByRounds ==
  ASSUME NEW c, NEW args, Len(args) \in Nat
  PROVE  \E g : /\ g[0] = c /\ compile_strings(c, args) = g[Len(args)]
                /\ \A n \in 1 .. Len(args) : g[n] = compile_string(g[n - 1], args[n])
<1>1. \E g : g = [n \in 0 .. Len(args) |-> IF n = 0 THEN c ELSE compile_string(g[n - 1], args[n])]
  <2>1. PICK g : StringRounds(c, args, Len(args), g)
    BY StringRoundsExist
  <2>2. g = [n \in 0 .. Len(args) |-> IF n = 0 THEN c ELSE compile_string(g[n - 1], args[n])]
    BY <2>1, Zenon DEF StringRounds
  <2>3. QED
    BY <2>2, Zenon
<1>2. PICK g : /\ g = [n \in 0 .. Len(args) |-> IF n = 0 THEN c ELSE compile_string(g[n - 1], args[n])]
               /\ compile_strings(c, args) = g[Len(args)]
  BY <1>1, Zenon DEF compile_strings
<1>3. \A n \in 0 .. Len(args) : g[n] = IF n = 0 THEN c ELSE compile_string(g[n - 1], args[n])
  BY <1>2
<1>4. \A n \in 1 .. Len(args) : n \in 0 .. Len(args) /\ n # 0
  OBVIOUS
<1>5. 0 \in 0 .. Len(args)
  OBVIOUS
<1>6. QED
  BY <1>2, <1>3, <1>4, <1>5

StatementRounds(c, stmts, m, g) ==
  g = [n \in 0 .. m |-> IF n = 0 THEN c ELSE compile_statement(g[n - 1], stmts[n])]
LEMMA StatementRoundsExist ==
  ASSUME NEW c, NEW stmts, Len(stmts) \in Nat
  PROVE  \E g : StatementRounds(c, stmts, Len(stmts), g)
<1> DEFINE T == {m \in 0 .. Len(stmts) : ~ \E g : StatementRounds(c, stmts, m, g)}
<1>1. SUFFICES ASSUME T # {} PROVE FALSE
  OBVIOUS
<1>2. PICK m \in T : \A y \in T : m <= y
  <2>1. T \in SUBSET Nat
    OBVIOUS
  <2>2. QED
    BY <1>1, <2>1, LeastElement
<1>3. m # 0
  <2>1. PICK g : g = [n \in 0 .. 0 |-> c]
    OBVIOUS
  <2>2. g = [n \in 0 .. 0 |-> IF n = 0 THEN c ELSE compile_statement(g[n - 1], stmts[n])]
    BY <2>1
  <2>3. StatementRounds(c, stmts, 0, g)
    BY <2>2 DEF StatementRounds
  <2>4. QED
    BY <2>3
<1>4. m - 1 \in 0 .. Len(stmts) /\ m - 1 \notin T
  BY <1>2, <1>3
<1>5. PICK g : StatementRounds(c, stmts, m - 1, g)
  BY <1>4
<1>6. \A n \in 0 .. m - 1 : g[n] = IF n = 0 THEN c ELSE compile_statement(g[n - 1], stmts[n])
  BY <1>5 DEF StatementRounds
<1>7. PICK last : last = compile_statement(g[m - 1], stmts[m])
  OBVIOUS
<1> DEFINE h == [n \in 0 .. m |-> IF n = m THEN last ELSE g[n]]
<1>8. \A n \in 0 .. m : h[n] = IF n = 0 THEN c ELSE compile_statement(h[n - 1], stmts[n])
  <2> TAKE n \in 0 .. m
  <2>1. CASE n = m
    <3>1. h[n] = last /\ h[n - 1] = g[m - 1]
      BY <1>2, <1>3, <2>1
    <3>2. QED
      BY <1>3, <1>7, <2>1, <3>1
  <2>2. CASE n # m /\ n # 0
    <3>1. h[n] = g[n] /\ h[n - 1] = g[n - 1] /\ n \in 0 .. m - 1
      BY <1>2, <2>2
    <3>2. QED
      BY <1>6, <2>2, <3>1
  <2>3. CASE n = 0
    <3>1. h[0] = g[0] /\ 0 \in 0 .. m - 1
      BY <1>2, <1>3, <2>3
    <3>2. QED
      BY <1>6, <2>3, <3>1
  <2>4. QED
    BY <2>1, <2>2, <2>3
<1>9. h = [n \in 0 .. m |-> h[n]]
  OBVIOUS
<1> HIDE DEF h
<1>10. StatementRounds(c, stmts, m, h)
  BY <1>8, <1>9 DEF StatementRounds
<1>11. QED
  BY <1>2, <1>10

LEMMA StatementsByRounds ==
  ASSUME NEW c, NEW stmts, Len(stmts) \in Nat
  PROVE  \E g : /\ g[0] = c /\ compile_statements(c, stmts) = g[Len(stmts)]
                /\ \A n \in 1 .. Len(stmts) : g[n] = compile_statement(g[n - 1], stmts[n])
<1>1. \E g : g = [n \in 0 .. Len(stmts) |-> IF n = 0 THEN c ELSE compile_statement(g[n - 1], stmts[n])]
  <2>1. PICK g : StatementRounds(c, stmts, Len(stmts), g)
    BY StatementRoundsExist
  <2>2. g = [n \in 0 .. Len(stmts) |-> IF n = 0 THEN c ELSE compile_statement(g[n - 1], stmts[n])]
    BY <2>1, Zenon DEF StatementRounds
  <2>3. QED
    BY <2>2, Zenon
<1>2. PICK g : /\ g = [n \in 0 .. Len(stmts) |-> IF n = 0 THEN c ELSE compile_statement(g[n - 1], stmts[n])]
               /\ compile_statements(c, stmts) = g[Len(stmts)]
  BY <1>1, Zenon DEF compile_statements
<1>3. \A n \in 0 .. Len(stmts) : g[n] = IF n = 0 THEN c ELSE compile_statement(g[n - 1], stmts[n])
  BY <1>2
<1>4. \A n \in 1 .. Len(stmts) : n \in 0 .. Len(stmts) /\ n # 0
  OBVIOUS
<1>5. 0 \in 0 .. Len(stmts)
  OBVIOUS
<1>6. QED
  BY <1>2, <1>3, <1>4, <1>5
-----------------------------------------------------------------------------
(* What holds of the code, the table and the pool whenever a word is complete.  *)
StringAt(p) == ast[p[1]].stmts[p[2]].args[p[3]]
Printed(s) == \E p \in StringsOf(ast) : StringAt(p) = s

WordGood(word, n) ==
  /\ word \in WordType
  /\ word.op = "PUSH" => word.arg \in 0 .. n - 1
  /\ word.op = "CALL" => word.target \in FirstOf(word.arg, Len(ast)) /\ ast[word.target].is_foreign
  /\ word.op = "JMP" => \E i \in FirstOf(word.arg, Len(ast)) : ~ast[i].is_foreign
PoolGood(strings) ==
  /\ strings \in Seq(Nat)
  /\ \A i, j \in 1 .. Len(strings) : strings[i] = strings[j] => i = j
  /\ \A i \in 1 .. Len(strings) : Printed(strings[i])

(* The places of the calls of a name are those that the table lists for it.     *)
Calls(program, g) == {i - 1 : i \in {j \in 1 .. Len(program) : program[j].op = "JMP" /\ program[j].arg = g}}
Listed(program, tree, mem) ==
  /\ CallTableOK(tree, mem)
  /\ \A g \in Nat : SitesOf(tree, mem, g) = Calls(program, g)
  /\ \A i \in 1 .. Len(program) : program[i].op = "JMP" => program[i].arg \in Known(tree)
Unpatched(program) == \A i \in 1 .. Len(program) : program[i].op = "JMP" => program[i].target = 0

IsGen(c) == c = [code |-> c.code, ft |-> c.ft, memory |-> c.memory, pool |-> c.pool]
Good(c) ==
  /\ IsGen(c)
  /\ c.code \in Seq(WordType) /\ \A i \in 1 .. Len(c.code) : WordGood(c.code[i], Len(c.pool))
  /\ Unpatched(c.code)
  /\ Listed(c.code, c.ft, c.memory)
  /\ PoolGood(c.pool)

(* Code is only added, and none of it returns; no name gets another location.   *)
GoesOn(c, d) ==
  /\ Len(c.code) <= Len(d.code) /\ Len(c.pool) <= Len(d.pool)
  /\ \A i \in 1 .. Len(c.code) : d.code[i] = c.code[i]
  /\ \A i \in Len(c.code) + 1 .. Len(d.code) : d.code[i].op # "RET"
  /\ \A g \in Nat : LocationOf(d.ft, g) = LocationOf(c.ft, g)

LEMMA GoesOnTransitive ==
  ASSUME NEW c, NEW d, NEW e, Good(c), Good(d), Good(e), GoesOn(c, d), GoesOn(d, e)
  PROVE  GoesOn(c, e)
<1>1. /\ Len(c.code) \in Nat /\ Len(d.code) \in Nat /\ Len(e.code) \in Nat
      /\ Len(c.pool) \in Nat /\ Len(d.pool) \in Nat /\ Len(e.pool) \in Nat
  BY DEF Good, PoolGood
<1>2. \A i \in 1 .. Len(c.code) : i \in 1 .. Len(d.code)
  BY <1>1 DEF GoesOn
<1>3. \A i \in Len(c.code) + 1 .. Len(e.code) : i \in 1 .. Len(d.code) \/ i \in Len(d.code) + 1 .. Len(e.code)
  BY <1>1 DEF GoesOn
<1>4. \A i \in Len(c.code) + 1 .. Len(e.code) : i \in 1 .. Len(d.code) => i \in Len(c.code) + 1 .. Len(d.code)
  BY <1>1 DEF GoesOn
<1>5. \A i \in Len(c.code) + 1 .. Len(e.code) : e.code[i].op # "RET"
  BY <1>3, <1>4 DEF GoesOn
<1>6. Len(c.code) <= Len(e.code) /\ Len(c.pool) <= Len(e.pool)
  BY <1>1 DEF GoesOn
<1>7. \A i \in 1 .. Len(c.code) : e.code[i] = c.code[i]
  BY <1>2 DEF GoesOn
<1>8. \A g \in Nat : LocationOf(e.ft, g) = LocationOf(c.ft, g)
  BY DEF GoesOn
<1>9. QED
  BY <1>5, <1>6, <1>7, <1>8 DEF GoesOn

(* One more word.                                                            *)
CallsGrow(program, word, longer) ==
  \A g : Calls(longer, g) = Calls(program, g)
           \cup (IF word.op = "JMP" /\ word.arg = g THEN {Len(program)} ELSE {})
LEMMA OneWord ==
  ASSUME NEW program \in Seq(WordType), NEW word \in WordType, NEW longer, longer = Append(program, word)
  PROVE  /\ longer \in Seq(WordType) /\ Len(program) \in Nat /\ Len(longer) = Len(program) + 1
         /\ longer[Len(program) + 1] = word /\ \A i \in 1 .. Len(program) : longer[i] = program[i]
         /\ \A i \in 1 .. Len(longer) : i \in 1 .. Len(program) \/ i = Len(program) + 1
         /\ CallsGrow(program, word, longer)
<1>1. /\ longer \in Seq(WordType) /\ Len(program) \in Nat /\ Len(longer) = Len(program) + 1
      /\ longer[Len(program) + 1] = word /\ \A i \in 1 .. Len(program) : longer[i] = program[i]
  BY AppendProperties
<1>2. /\ \A i \in 1 .. Len(longer) : i \in 1 .. Len(program) \/ i = Len(program) + 1
      /\ \A i \in 1 .. Len(program) : i \in 1 .. Len(longer)
      /\ Len(program) + 1 \in 1 .. Len(longer) /\ Len(program) + 1 - 1 = Len(program)
  BY <1>1
<1>3. ASSUME NEW g
      PROVE  Calls(longer, g) = Calls(program, g)
               \cup (IF word.op = "JMP" /\ word.arg = g THEN {Len(program)} ELSE {})
  <2>1. ASSUME NEW x \in Calls(longer, g)
        PROVE  x \in Calls(program, g) \/ (word.op = "JMP" /\ word.arg = g /\ x = Len(program))
    <3>1. PICK i \in 1 .. Len(longer) : x = i - 1 /\ longer[i].op = "JMP" /\ longer[i].arg = g
      BY <2>1 DEF Calls
    <3>2. CASE i \in 1 .. Len(program)
      BY <1>1, <3>1, <3>2 DEF Calls
    <3>3. CASE i = Len(program) + 1
      BY <1>1, <1>2, <3>1, <3>3
    <3>4. QED
      BY <1>2, <3>2, <3>3
  <2>2. ASSUME NEW x \in Calls(program, g) PROVE x \in Calls(longer, g)
    <3>1. PICK i \in 1 .. Len(program) : x = i - 1 /\ program[i].op = "JMP" /\ program[i].arg = g
      BY <2>2 DEF Calls
    <3>2. QED
      BY <1>1, <1>2, <3>1 DEF Calls
  <2>3. ASSUME word.op = "JMP", word.arg = g PROVE Len(program) \in Calls(longer, g)
    BY <1>1, <1>2, <2>3 DEF Calls
  <2>4. QED
    BY <2>1, <2>2, <2>3
<1>4. QED
  BY <1>1, <1>2, <1>3 DEF CallsGrow

EmitsTo(c, word, d) == d.code = Append(c.code, word) /\ d.ft = c.ft /\ d.memory = c.memory /\ d.pool = c.pool
LEMMA EmitFields ==
  ASSUME NEW c, IsGen(c), NEW word
  PROVE  IsGen(Emit(c, word)) /\ EmitsTo(c, word, Emit(c, word))
<1>1. PICK w, x, y, z : c = [code |-> w, ft |-> x, memory |-> y, pool |-> z]
  BY DEF IsGen
<1>2. PICK v : v = Append(c.code, word)
  OBVIOUS
<1>3. Emit(c, word) = [c EXCEPT !.code = v]
  BY <1>2 DEF Emit
<1>4. Emit(c, word) = [code |-> v, ft |-> x, memory |-> y, pool |-> z]
  BY <1>1, <1>3
<1>5. QED
  BY <1>1, <1>2, <1>4 DEF IsGen, EmitsTo

LEMMA EmitGood ==
  ASSUME NEW c, Good(c), NEW word, WordGood(word, Len(c.pool)), word.op # "JMP"
  PROVE  /\ Good(Emit(c, word)) /\ EmitsTo(c, word, Emit(c, word))
         /\ word.op # "RET" => GoesOn(c, Emit(c, word))
<1>1. PICK d : d = Emit(c, word)
  OBVIOUS
<1>2. IsGen(d) /\ EmitsTo(c, word, d)
  BY <1>1, EmitFields DEF Good
<1>3. c.code \in Seq(WordType) /\ word \in WordType
  BY DEF Good, WordGood
<1>4. /\ d.code \in Seq(WordType) /\ Len(c.code) \in Nat /\ Len(d.code) = Len(c.code) + 1
      /\ d.code[Len(c.code) + 1] = word /\ \A i \in 1 .. Len(c.code) : d.code[i] = c.code[i]
      /\ \A i \in 1 .. Len(d.code) : i \in 1 .. Len(c.code) \/ i = Len(c.code) + 1
      /\ \A g : Calls(d.code, g) = Calls(c.code, g)
  <2>1. PICK program, longer : program = c.code /\ longer = d.code /\ longer = Append(program, word)
    BY <1>2, <1>3 DEF EmitsTo
  <2>2. /\ longer \in Seq(WordType) /\ Len(program) \in Nat /\ Len(longer) = Len(program) + 1
        /\ longer[Len(program) + 1] = word /\ \A i \in 1 .. Len(program) : longer[i] = program[i]
        /\ \A i \in 1 .. Len(longer) : i \in 1 .. Len(program) \/ i = Len(program) + 1
        /\ \A g : Calls(longer, g) = Calls(program, g)
    <3>1. program \in Seq(WordType)
      BY <1>3, <2>1
    <3>2. /\ longer \in Seq(WordType) /\ Len(program) \in Nat /\ Len(longer) = Len(program) + 1
          /\ longer[Len(program) + 1] = word /\ \A i \in 1 .. Len(program) : longer[i] = program[i]
          /\ \A i \in 1 .. Len(longer) : i \in 1 .. Len(program) \/ i = Len(program) + 1
      BY <1>3, <2>1, <3>1, OneWord
    <3>3. CallsGrow(program, word, longer)
      BY <1>3, <2>1, <3>1, OneWord
    <3>4. \A g : Calls(longer, g) = Calls(program, g)
      BY <3>3 DEF CallsGrow
    <3>5. QED
      BY <3>2, <3>4
  <2>3. QED
    BY <2>1, <2>2
<1>5. \A i \in 1 .. Len(d.code) : WordGood(d.code[i], Len(d.pool))
  BY <1>2, <1>4 DEF EmitsTo, Good
<1>6. Unpatched(d.code)
  BY <1>4 DEF Unpatched, Good
<1>7. Listed(d.code, d.ft, d.memory)
  BY <1>2, <1>4 DEF EmitsTo, Listed, Good
<1>8. Good(d)
  BY <1>2, <1>4, <1>5, <1>6, <1>7 DEF Good, EmitsTo
<1>9. ASSUME word.op # "RET" PROVE GoesOn(c, d)
  <2>1. \A i \in Len(c.code) + 1 .. Len(d.code) : i = Len(c.code) + 1
    BY <1>4
  <2>2. Len(c.pool) \in Nat
    BY DEF Good, PoolGood
  <2>3. QED
    BY <1>2, <1>4, <1>9, <2>1, <2>2 DEF GoesOn, EmitsTo
<1>10. QED
  BY <1>1, <1>2, <1>8, <1>9
-----------------------------------------------------------------------------
(* A string is put into the pool once and its place is pushed.                 *)
LEMMA PooledGood ==
  ASSUME NEW c, Good(c), NEW s \in Nat, Printed(s), ~Contains(c.pool, s), NEW d, d = [c EXCEPT !.pool = Append(@, s)]
  PROVE  Good(d) /\ GoesOn(c, d) /\ d.code = c.code /\ Contains(d.pool, s)
<1>1. PICK w, x, y, z : c = [code |-> w, ft |-> x, memory |-> y, pool |-> z]
  BY DEF IsGen, Good
<1>2. PICK longer : longer = Append(z, s)
  OBVIOUS
<1>3. d = [code |-> w, ft |-> x, memory |-> y, pool |-> longer]
  <2>1. d = [c EXCEPT !.pool = longer]
    BY <1>1, <1>2
  <2>2. QED
    BY <1>1, <2>1
<1>4. /\ c.code = w /\ c.ft = x /\ c.memory = y /\ c.pool = z
      /\ d.code = w /\ d.ft = x /\ d.memory = y /\ d.pool = longer /\ IsGen(d)
  <2>1. c.code = w /\ c.ft = x /\ c.memory = y /\ c.pool = z
    BY <1>1
  <2>2. d.code = w /\ d.ft = x /\ d.memory = y /\ d.pool = longer
    BY <1>3
  <2>3. IsGen(d)
    BY <1>3, <2>2 DEF IsGen
  <2>4. QED
    BY <2>1, <2>2, <2>3
<1>5. z \in Seq(Nat) /\ \A i \in 1 .. Len(z) : z[i] # s
  BY <1>4 DEF Good, PoolGood, Contains
<1>6. /\ longer \in Seq(Nat) /\ Len(z) \in Nat /\ Len(longer) = Len(z) + 1 /\ longer[Len(z) + 1] = s
      /\ \A i \in 1 .. Len(z) : longer[i] = z[i]
  BY <1>2, <1>5, AppendProperties
<1>7. /\ \A i \in 1 .. Len(longer) : i \in 1 .. Len(z) \/ i = Len(z) + 1
      /\ Len(z) + 1 \in 1 .. Len(longer)
  BY <1>6
<1>8. PoolGood(longer)
  <2>1. \A i, j \in 1 .. Len(longer) : longer[i] = longer[j] => i = j
    <3>1. \A i, j \in 1 .. Len(z) : z[i] = z[j] => i = j
      BY <1>4 DEF Good, PoolGood
    <3>2. QED
      BY <1>5, <1>6, <1>7, <3>1
  <2>2. \A i \in 1 .. Len(longer) : Printed(longer[i])
    BY <1>4, <1>6, <1>7 DEF Good, PoolGood
  <2>3. QED
    BY <1>6, <2>1, <2>2 DEF PoolGood
<1>9. \A i \in 1 .. Len(w) : WordGood(w[i], Len(longer))
  <2> TAKE i \in 1 .. Len(w)
  <2>1. WordGood(w[i], Len(z))
    BY <1>4 DEF Good
  <2>2. \A a \in 0 .. Len(z) - 1 : a \in 0 .. Len(longer) - 1
    BY <1>6
  <2>3. QED
    BY <2>1, <2>2 DEF WordGood
<1>10. w \in Seq(WordType) /\ Unpatched(w) /\ Listed(w, x, y)
  BY <1>4 DEF Good
<1>11. Good(d)
  BY <1>4, <1>8, <1>9, <1>10 DEF Good
<1>12. GoesOn(c, d)
  <2>1. Len(w) \in Nat /\ \A i \in Len(w) + 1 .. Len(w) : FALSE
    BY <1>10
  <2>2. Len(z) <= Len(longer)
    BY <1>6
  <2>3. QED
    BY <1>4, <2>1, <2>2 DEF GoesOn
<1>13. Contains(d.pool, s)
  BY <1>4, <1>6, <1>7 DEF Contains
<1>14. QED
  BY <1>4, <1>11, <1>12, <1>13

LEMMA GoesOnSelf ==
  ASSUME NEW c, Good(c)
  PROVE  GoesOn(c, c)
<1>1. Len(c.code) \in Nat /\ Len(c.pool) \in Nat
  BY DEF Good, PoolGood
<1>2. \A i \in Len(c.code) + 1 .. Len(c.code) : FALSE
  BY <1>1
<1>3. QED
  BY <1>1, <1>2 DEF GoesOn

LEMMA StringGood ==
  ASSUME NEW c, Good(c), NEW s \in Nat, Printed(s)
  PROVE  Good(compile_string(c, s)) /\ GoesOn(c, compile_string(c, s))
<1> DEFINE pooled == IF Contains(c.pool, s) THEN c ELSE [c EXCEPT !.pool = Append(@, s)]
           places == {i \in 1 .. Len(pooled.pool) : pooled.pool[i] = s}
           first == CHOOSE i \in places : \A j \in places : i <= j
<1>1. Good(pooled) /\ GoesOn(c, pooled) /\ Contains(pooled.pool, s)
  <2>1. CASE Contains(c.pool, s)
    BY <2>1, GoesOnSelf
  <2>2. CASE ~Contains(c.pool, s)
    BY <2>2, PooledGood
  <2>3. QED
    BY <2>1, <2>2
<1>2. compile_string(c, s) = Emit(pooled, Word("PUSH", first - 1, NONE))
  BY DEF compile_string
<1> HIDE DEF pooled
<1>3. Len(pooled.pool) \in Nat
  BY <1>1 DEF Good, PoolGood
<1>4. places \in SUBSET Nat /\ places # {}
  BY <1>1, <1>3 DEF Contains
<1>5. \E i \in places : \A j \in places : i <= j
  BY <1>4, LeastElement
<1>6. first \in places
  BY <1>5
<1> HIDE DEF first
<1>7. first - 1 \in Nat /\ first - 1 \in 0 .. Len(pooled.pool) - 1
  BY <1>3, <1>6
<1>8. PICK word : word = Word("PUSH", first - 1, NONE)
  OBVIOUS
<1>9. word.op = "PUSH" /\ WordGood(word, Len(pooled.pool))
  BY <1>7, <1>8 DEF Word, WordGood, WordType, NONE
<1>10. Good(Emit(pooled, word)) /\ GoesOn(pooled, Emit(pooled, word))
  BY <1>1, <1>9, EmitGood
<1>11. PICK d : d = compile_string(c, s) /\ Good(d) /\ GoesOn(pooled, d)
  BY <1>2, <1>8, <1>10
<1>12. GoesOn(c, d)
  BY <1>1, <1>11, GoesOnTransitive DEF Good
<1>13. QED
  BY <1>11, <1>12

(* A call of a foreign function names its declaration, any other call is listed. *)
LEMMA FuncallGood ==
  ASSUME NEW c, Good(c), LookupOK, Len(ast) \in Nat, NEW f \in Nat \ {NONE},
         known(f) \/ \E i \in 1 .. Len(ast) : ast[i].name = f
  PROVE  Good(compile_funcall(c, f)) /\ GoesOn(c, compile_funcall(c, f))
         /\ compile_funcall(c, f).code \in {Append(c.code, Word("CALL", f, lookup_fun(f))), Append(c.code, Word("JMP", f, 0))}
<1>1. PICK i \in FirstOf(f, Len(ast)) : i = lookup_fun(f)
  BY DEF LookupOK
<1>2. i \in 1 .. Len(ast) /\ i \in Nat
  BY DEF FirstOf
<1>3. CASE ast[i].is_foreign
  <2>1. PICK word : word = Word("CALL", f, i)
    OBVIOUS
  <2>2. word.op = "CALL" /\ WordGood(word, Len(c.pool))
    BY <1>2, <1>3, <2>1 DEF Word, WordGood, WordType
  <2>3. compile_funcall(c, f) = Emit(c, word)
    BY <1>1, <1>3, <2>1 DEF compile_funcall
  <2>4. QED
    BY <1>1, <2>1, <2>2, <2>3, EmitGood DEF EmitsTo
<1>4. CASE ~ast[i].is_foreign
  <2>1. PICK w, x, y, z : c = [code |-> w, ft |-> x, memory |-> y, pool |-> z]
    BY DEF IsGen, Good
  <2>2. PICK word : word = Word("JMP", f, 0)
    OBVIOUS
  <2>3. word.op = "JMP" /\ word.arg = f /\ word.target = 0 /\ WordGood(word, Len(z))
    BY <1>4, <2>2 DEF Word, WordGood, WordType
  <2>4. w \in Seq(WordType) /\ Len(w) \in Nat /\ Listed(w, x, y)
    BY <2>1 DEF Good
  <2>5. PICK r : r = add_callsite(x, y, f, Len(w))
    OBVIOUS
  <2>6. CallAdded(x, y, f, Len(w), r.ft, r.mem)
    <3>1. CallTableOK(x, y) /\ f \in Nat
      BY <2>4 DEF Listed
    <3>2. QED
      BY <2>4, <2>5, <3>1, CallName
  <2>7. PICK longer : longer = Append(w, word)
    OBVIOUS
  <2>8. /\ longer \in Seq(WordType) /\ Len(longer) = Len(w) + 1
        /\ longer[Len(w) + 1] = word /\ \A k \in 1 .. Len(w) : longer[k] = w[k]
        /\ \A k \in 1 .. Len(longer) : k \in 1 .. Len(w) \/ k = Len(w) + 1
        /\ CallsGrow(w, word, longer)
    <3>1. word \in WordType
      BY <2>3 DEF WordGood
    <3>2. CallsGrow(w, word, longer)
      BY <2>4, <2>7, <3>1, OneWord, Zenon
    <3>3. /\ longer \in Seq(WordType) /\ Len(longer) = Len(w) + 1
          /\ longer[Len(w) + 1] = word /\ \A k \in 1 .. Len(w) : longer[k] = w[k]
          /\ \A k \in 1 .. Len(longer) : k \in 1 .. Len(w) \/ k = Len(w) + 1
      BY <2>4, <2>7, <3>1, OneWord
    <3>4. QED
      BY <3>2, <3>3
  <2>9. PICK d : d = compile_funcall(c, f)
    OBVIOUS
  <2>10. d = [code |-> longer, ft |-> r.ft, memory |-> r.mem, pool |-> z]
    <3>1. d = Emit([c EXCEPT !.ft = r.ft, !.memory = r.mem], word)
      BY <1>1, <1>4, <2>1, <2>2, <2>5, <2>9 DEF compile_funcall
    <3>2. [c EXCEPT !.ft = r.ft, !.memory = r.mem] = [code |-> w, ft |-> r.ft, memory |-> r.mem, pool |-> z]
      <4>1. PICK tree, nodes : tree = r.ft /\ nodes = r.mem
        OBVIOUS
      <4>2. PICK half : half = [c EXCEPT !.ft = tree]
        OBVIOUS
      <4>3. half = [code |-> w, ft |-> tree, memory |-> y, pool |-> z]
        BY <2>1, <4>2
      <4>4. [half EXCEPT !.memory = nodes] = [code |-> w, ft |-> tree, memory |-> nodes, pool |-> z]
        BY <4>3
      <4>5. [c EXCEPT !.ft = tree, !.memory = nodes] = [half EXCEPT !.memory = nodes]
        BY <4>2
      <4>6. QED
        BY <4>1, <4>4, <4>5, Zenon
    <3>3. QED
      BY <2>7, <3>1, <3>2 DEF Emit
  <2>11. IsGen(d) /\ d.code = longer /\ d.ft = r.ft /\ d.memory = r.mem /\ d.pool = z
    BY <2>10 DEF IsGen
  <2>12. \A k \in 1 .. Len(longer) : WordGood(longer[k], Len(z))
    BY <2>1, <2>3, <2>8 DEF Good
  <2>13. Unpatched(longer)
    BY <2>1, <2>3, <2>8 DEF Unpatched, Good
  <2>14. \A g \in Nat : SitesOf(r.ft, r.mem, g) = Calls(longer, g)
    <3> TAKE g \in Nat
    <3>1. SitesOf(x, y, g) = Calls(w, g)
      BY <2>4 DEF Listed
    <3>2. Calls(longer, g) = Calls(w, g) \cup (IF f = g THEN {Len(w)} ELSE {})
      BY <2>3, <2>8 DEF CallsGrow
    <3>3. SitesOf(r.ft, r.mem, g) = SitesOf(x, y, g) \cup (IF g = f THEN {Len(w)} ELSE {})
      BY <2>6 DEF CallAdded
    <3>4. QED
      BY <3>1, <3>2, <3>3
  <2>15. Listed(longer, r.ft, r.mem)
    BY <2>3, <2>4, <2>6, <2>8, <2>14 DEF Listed, CallAdded
  <2>16. Good(d)
    BY <2>1, <2>8, <2>11, <2>12, <2>13, <2>15 DEF Good
  <2>17. GoesOn(c, d)
    <3>1. \A k \in Len(w) + 1 .. Len(longer) : k = Len(w) + 1
      BY <2>4, <2>8
    <3>2. c.code = w /\ c.ft = x /\ c.pool = z /\ Len(z) \in Nat
      BY <2>1 DEF Good, PoolGood
    <3>3. QED
      BY <2>3, <2>4, <2>6, <2>8, <2>11, <3>1, <3>2 DEF GoesOn, CallAdded
  <2>18. d.code = Append(c.code, Word("JMP", f, 0))
    BY <2>1, <2>2, <2>7, <2>11
  <2>19. QED
    BY <2>9, <2>16, <2>17, <2>18
<1>5. QED
  BY <1>3, <1>4

LEMMA StringsGood ==
  ASSUME NEW c, Good(c), NEW args, Len(args) \in Nat, \A k \in 1 .. Len(args) : args[k] \in Nat /\ Printed(args[k])
  PROVE  Good(compile_strings(c, args)) /\ GoesOn(c, compile_strings(c, args))
<1>1. PICK g : /\ g[0] = c /\ compile_strings(c, args) = g[Len(args)]
               /\ \A n \in 1 .. Len(args) : g[n] = compile_string(g[n - 1], args[n])
  BY StringsByRounds
<1> DEFINE T == {n \in 0 .. Len(args) : ~ (Good(g[n]) /\ GoesOn(c, g[n]))}
<1>2. T = {}
  <2>1. SUFFICES ASSUME T # {} PROVE FALSE
    OBVIOUS
  <2>2. PICK n \in T : \A y \in T : n <= y
    <3>1. T \in SUBSET Nat
      OBVIOUS
    <3>2. QED
      BY <2>1, <3>1, LeastElement
  <2>3. n # 0
    BY <1>1, <2>2, GoesOnSelf
  <2>4. n \in 1 .. Len(args) /\ n - 1 \in 0 .. Len(args) /\ n - 1 \notin T
    BY <2>2, <2>3
  <2>5. PICK d, e : d = g[n - 1] /\ e = compile_string(d, args[n]) /\ e = g[n] /\ Good(d) /\ GoesOn(c, d)
    BY <1>1, <2>4
  <2>6. Good(e) /\ GoesOn(d, e)
    BY <2>4, <2>5, StringGood
  <2>7. GoesOn(c, e)
    BY <2>5, <2>6, GoesOnTransitive DEF Good
  <2>8. QED
    BY <2>2, <2>5, <2>6, <2>7
<1>3. Len(args) \in 0 .. Len(args)
  OBVIOUS
<1>4. QED
  BY <1>1, <1>2, <1>3

(* A statement that the type checker has accepted, of a declaration.           *)
Accepted(stmt) ==
  /\ stmt.callee \in Nat /\ (stmt.callee # NONE => known(stmt.callee))
  /\ Len(stmt.args) \in Nat /\ \A k \in 1 .. Len(stmt.args) : stmt.args[k] \in Nat /\ Printed(stmt.args[k])

LEMMA StatementGood ==
  ASSUME NEW c, Good(c), LookupOK, Len(ast) \in Nat, NEW stmt, Accepted(stmt)
  PROVE  Good(compile_statement(c, stmt)) /\ GoesOn(c, compile_statement(c, stmt))
<1>1. CASE stmt.callee = NONE
  <2>1. compile_statement(c, stmt) = compile_strings(c, stmt.args)
    BY <1>1 DEF compile_statement
  <2>2. QED
    BY <2>1, StringsGood DEF Accepted
<1>2. CASE stmt.callee # NONE
  <2>1. compile_statement(c, stmt) = compile_funcall(c, stmt.callee)
    BY <1>2 DEF compile_statement
  <2>2. stmt.callee \in Nat \ {NONE} /\ known(stmt.callee)
    BY <1>2 DEF Accepted
  <2>3. QED
    BY <2>1, <2>2, FuncallGood
<1>3. QED
  BY <1>1, <1>2

LEMMA StatementsGood ==
  ASSUME NEW c, Good(c), NEW stmts, Len(stmts) \in Nat, LookupOK, Len(ast) \in Nat,
         \A k \in 1 .. Len(stmts) : Accepted(stmts[k])
  PROVE  Good(compile_statements(c, stmts)) /\ GoesOn(c, compile_statements(c, stmts))
<1>1. PICK g : /\ g[0] = c /\ compile_statements(c, stmts) = g[Len(stmts)]
               /\ \A n \in 1 .. Len(stmts) : g[n] = compile_statement(g[n - 1], stmts[n])
  BY StatementsByRounds
<1> DEFINE T == {n \in 0 .. Len(stmts) : ~ (Good(g[n]) /\ GoesOn(c, g[n]))}
<1>2. T = {}
  <2>1. SUFFICES ASSUME T # {} PROVE FALSE
    OBVIOUS
  <2>2. PICK n \in T : \A y \in T : n <= y
    <3>1. T \in SUBSET Nat
      OBVIOUS
    <3>2. QED
      BY <2>1, <3>1, LeastElement
  <2>3. n # 0
    BY <1>1, <2>2, GoesOnSelf
  <2>4. n \in 1 .. Len(stmts) /\ n - 1 \in 0 .. Len(stmts) /\ n - 1 \notin T
    BY <2>2, <2>3
  <2>5. PICK d, e : d = g[n - 1] /\ e = compile_statement(d, stmts[n]) /\ e = g[n] /\ Good(d) /\ GoesOn(c, d)
    BY <1>1, <2>4
  <2>6. Good(e) /\ GoesOn(d, e)
    BY <2>4, <2>5, StatementGood
  <2>7. GoesOn(c, e)
    BY <2>5, <2>6, GoesOnTransitive DEF Good
  <2>8. QED
    BY <2>2, <2>5, <2>6, <2>7
<1>3. Len(stmts) \in 0 .. Len(stmts)
  OBVIOUS
<1>4. QED
  BY <1>1, <1>2, <1>3
-----------------------------------------------------------------------------
(* Where the last definitions of the names among the first n declarations begin. *)
Placed(c, n) ==
  /\ Len(c.code) >= 2 /\ (Len(c.code) = 2 \/ c.code[Len(c.code)].op = "RET")
  /\ Cardinality(Returns(c.code, Len(c.code))) = Cardinality(DefinedBefore(n + 1))
  /\ \A g \in Nat :
       /\ LocationOf(c.ft, g) \in 0 .. Len(c.code) - 1
       /\ \A i \in Definitions(g) :
            i <= n /\ (\A j \in Definitions(g) : j <= n => j <= i) => BeginsAt(c.code, i, LocationOf(c.ft, g))

LEMMA ReturnsFinite ==
  ASSUME NEW program, NEW loc \in Nat
  PROVE  IsFiniteSet(Returns(program, loc)) /\ loc + 1 \notin Returns(program, loc)
<1>1. IsFiniteSet(1 .. loc)
  BY FS_Interval
<1>2. Returns(program, loc) \in SUBSET (1 .. loc)
  BY DEF Returns
<1>3. QED
  BY <1>1, <1>2, FS_Subset

LEMMA BeginKept ==
  ASSUME NEW old, NEW new, Len(old) \in Nat, Len(new) \in Nat, Len(old) <= Len(new),
         \A k \in 1 .. Len(old) : new[k] = old[k],
         NEW i, NEW loc, BeginsAt(old, i, loc)
  PROVE  BeginsAt(new, i, loc)
<1>1. loc \in 2 .. Len(old) /\ \A k \in 1 .. loc : k \in 1 .. Len(old)
  BY DEF BeginsAt
<1>2. Returns(new, loc) = Returns(old, loc)
  BY <1>1 DEF Returns
<1>3. loc \in 1 .. loc
  BY <1>1
<1>4. QED
  BY <1>1, <1>2, <1>3 DEF BeginsAt

LEMMA FundefGood ==
  ASSUME NEW c, Good(c), LookupOK, ast \in Seq(Decl), NEW n \in Nat, n + 1 \in 1 .. Len(ast), Placed(c, n),
         \A j \in 1 .. Len(ast[n + 1].stmts) : Accepted(ast[n + 1].stmts[j])
  PROVE  /\ Good(compile_fundef(c, ast[n + 1])) /\ Placed(compile_fundef(c, ast[n + 1]), n + 1)
         /\ Len(c.pool) <= Len(compile_fundef(c, ast[n + 1]).pool)
<1>1. PICK decl \in Decl : decl = ast[n + 1]
  OBVIOUS
<1>2. decl.name \in Nat \ {NONE} /\ decl.stmts \in Seq(Stmt) /\ Len(decl.stmts) \in Nat
  BY DEF Decl
<1>3. Len(ast) \in Nat
  OBVIOUS
<1>4. CASE decl.is_foreign
  <2>1. compile_fundef(c, decl) = c
    BY <1>4 DEF compile_fundef
  <2>2. \A g : n + 1 \notin Definitions(g)
    BY <1>1, <1>4 DEF Definitions
  <2>3. \A g : \A i \in Definitions(g) : i \in Nat /\ (i <= n + 1 => i <= n)
    <3> TAKE g
    <3> TAKE i \in Definitions(g)
    <3>1. i \in 1 .. Len(ast) /\ i # n + 1
      BY <2>2 DEF Definitions
    <3>2. QED
      BY <1>3, <3>1
  <2>4. DefinedBefore(n + 1 + 1) = DefinedBefore(n + 1)
    BY <1>1, <1>4 DEF DefinedBefore
  <2>5. Placed(c, n + 1)
    <3>1. ASSUME NEW g \in Nat, NEW i \in Definitions(g), i <= n + 1,
                 \A j \in Definitions(g) : j <= n + 1 => j <= i
          PROVE  BeginsAt(c.code, i, LocationOf(c.ft, g))
      <4>1. i <= n /\ \A j \in Definitions(g) : j <= n => j <= i
        BY <2>3, <3>1
      <4>2. QED
        BY <4>1 DEF Placed
    <3>2. QED
      BY <2>4, <3>1 DEF Placed
  <2>6. Len(c.pool) \in Nat
    BY DEF Good, PoolGood
  <2>7. QED
    BY <1>1, <2>1, <2>5, <2>6
<1>5. CASE ~decl.is_foreign
  <2> DEFINE f == decl.name
             begun == [c EXCEPT !.ft = add_ft_node(@, f, Len(c.code))]
  <2>1. PICK w, x, y, z : c = [code |-> w, ft |-> x, memory |-> y, pool |-> z]
    BY DEF IsGen, Good
  <2>2. PICK L \in Nat : L = Len(w) /\ w \in Seq(WordType) /\ L >= 2
    BY <2>1 DEF Good, Placed
  <2>3. Listed(w, x, y) /\ CallTableOK(x, y)
    BY <2>1 DEF Good, Listed
  <2>4. PICK tree : tree = add_ft_node(x, f, L)
    OBVIOUS
  <2>5. Located(x, y, f, L, tree)
    BY <1>2, <2>3, <2>4, DefineName
  <2>6. begun = [code |-> w, ft |-> tree, memory |-> y, pool |-> z]
    <3>1. begun = [c EXCEPT !.ft = tree]
      BY <2>1, <2>2, <2>4
    <3>2. QED
      BY <2>1, <3>1
  <2>7. PICK b : b = begun
    OBVIOUS
  <2>8. b.code = w /\ b.ft = tree /\ b.memory = y /\ b.pool = z
    BY <2>6, <2>7
  <2>9. IsGen(b)
    BY <2>6, <2>7, <2>8 DEF IsGen
  <2>10. Good(b)
    <3>1. Listed(w, tree, y)
      BY <2>3, <2>5 DEF Listed, Located
    <3>2. \A k \in 1 .. Len(w) : WordGood(w[k], Len(z))
      BY <2>1 DEF Good
    <3>3. Unpatched(w) /\ PoolGood(z)
      BY <2>1 DEF Good
    <3>4. QED
      BY <2>2, <2>8, <2>9, <3>1, <3>2, <3>3 DEF Good
  <2>11. PICK d : d = compile_statements(b, decl.stmts)
    OBVIOUS
  <2>12. Good(d) /\ GoesOn(b, d)
    BY <1>1, <1>2, <1>3, <2>10, <2>11, StatementsGood
  <2>13. PICK word : word = Word("RET", f, 0)
    OBVIOUS
  <2>14. word.op = "RET" /\ WordGood(word, Len(d.pool))
    BY <1>2, <2>13 DEF Word, WordGood, WordType
  <2>15. PICK e : e = compile_fundef(c, decl)
    OBVIOUS
  <2>16. e = Emit(d, word)
    BY <1>5, <2>7, <2>11, <2>13, <2>15 DEF compile_fundef
  <2>17. Good(e) /\ EmitsTo(d, word, e)
    BY <2>12, <2>14, <2>16, EmitGood
  <2> HIDE DEF f
  <2>18. PICK M \in Nat : M = Len(d.code) /\ d.code \in Seq(WordType) /\ L <= M
    BY <2>2, <2>8, <2>12 DEF Good, GoesOn
  <2>19. /\ \A k \in 1 .. L : d.code[k] = w[k]
         /\ \A k \in L + 1 .. M : d.code[k].op # "RET"
    BY <2>2, <2>8, <2>12, <2>18 DEF GoesOn
  <2>20. /\ e.code \in Seq(WordType) /\ Len(e.code) = M + 1 /\ e.code[M + 1] = word
         /\ \A k \in 1 .. M : e.code[k] = d.code[k]
    <3>1. PICK program, longer : program = d.code /\ longer = e.code
      OBVIOUS
    <3>2. program \in Seq(WordType) /\ word \in WordType /\ longer = Append(program, word) /\ Len(program) = M
      BY <2>14, <2>17, <2>18, <3>1 DEF EmitsTo, WordGood
    <3>3. /\ longer \in Seq(WordType) /\ Len(longer) = M + 1 /\ longer[M + 1] = word
          /\ \A k \in 1 .. M : longer[k] = program[k]
      BY <3>2, AppendProperties
    <3>4. QED
      BY <3>1, <3>3
  <2>21. \A k \in 1 .. L : k \in 1 .. M /\ e.code[k] = w[k]
    BY <2>18, <2>19, <2>20
  <2>22. Returns(e.code, L) = Returns(w, L)
    BY <2>21 DEF Returns
  <2>23. Returns(e.code, M + 1) = Returns(w, L) \cup {M + 1}
    <3>1. \A k \in 1 .. M + 1 : k \in 1 .. L \/ k \in L + 1 .. M \/ k = M + 1
      BY <2>18
    <3>2. \A k \in 1 .. L : k \in 1 .. M + 1
      BY <2>18
    <3>3. \A k \in L + 1 .. M : k \in 1 .. M
      BY <2>2
    <3>4. \A k \in 1 .. M + 1 : e.code[k].op = "RET" <=> k \in Returns(w, L) \/ k = M + 1
      <4> TAKE k \in 1 .. M + 1
      <4>1. CASE k \in 1 .. L
        <5>1. e.code[k] = w[k] /\ k # M + 1
          BY <2>18, <2>21, <4>1
        <5>2. QED
          BY <4>1, <5>1 DEF Returns
      <4>2. CASE k \in L + 1 .. M
        <5>1. e.code[k] = d.code[k] /\ d.code[k].op # "RET"
          BY <2>19, <2>20, <3>3, <4>2
        <5>2. k \notin 1 .. L /\ k # M + 1
          BY <2>18, <4>2
        <5>3. QED
          BY <5>1, <5>2 DEF Returns
      <4>3. CASE k = M + 1
        BY <2>14, <2>20, <4>3
      <4>4. QED
        BY <3>1, <4>1, <4>2, <4>3
    <3>5. Returns(w, L) \in SUBSET (1 .. M + 1) /\ M + 1 \in 1 .. M + 1
      BY <2>18, <3>2 DEF Returns
    <3>6. Returns(e.code, M + 1) = {k \in 1 .. M + 1 : e.code[k].op = "RET"}
      BY DEF Returns
    <3>7. QED
      BY <3>4, <3>5, <3>6
  <2>24. Cardinality(Returns(w, L)) = Cardinality(DefinedBefore(n + 1))
    BY <2>1, <2>2 DEF Placed
  <2>25. Cardinality(Returns(e.code, M + 1)) = Cardinality(DefinedBefore(n + 1 + 1))
    <3>1. IsFiniteSet(Returns(w, L)) /\ M + 1 \notin Returns(w, L)
      <4>1. M + 1 \notin 1 .. L
        BY <2>18
      <4>2. QED
        BY <4>1, ReturnsFinite DEF Returns
    <3>2. Cardinality(Returns(e.code, M + 1)) = Cardinality(Returns(w, L)) + 1
      BY <2>23, <3>1, FS_AddElement
    <3>3. DefinedBefore(n + 1 + 1) = DefinedBefore(n + 1) \cup {n + 1} /\ n + 1 \notin DefinedBefore(n + 1)
      BY <1>1, <1>5 DEF DefinedBefore
    <3>4. IsFiniteSet(DefinedBefore(n + 1))
      <4>1. DefinedBefore(n + 1) \in SUBSET (1 .. n) /\ IsFiniteSet(1 .. n)
        BY FS_Interval DEF DefinedBefore
      <4>2. QED
        BY <4>1, FS_Subset
    <3>5. Cardinality(DefinedBefore(n + 1 + 1)) = Cardinality(DefinedBefore(n + 1)) + 1
      BY <3>3, <3>4, FS_AddElement
    <3>6. QED
      BY <2>24, <3>2, <3>5
  <2>26. ASSUME NEW g \in Nat
         PROVE  LocationOf(e.ft, g) = IF g = f THEN L ELSE LocationOf(x, g)
    <3>1. LocationOf(e.ft, g) = LocationOf(d.ft, g)
      BY <2>17 DEF EmitsTo
    <3>2. LocationOf(d.ft, g) = LocationOf(tree, g)
      BY <2>8, <2>12 DEF GoesOn
    <3>3. QED
      BY <2>5, <3>1, <3>2 DEF Located
  <2>27. ASSUME NEW g \in Nat PROVE LocationOf(e.ft, g) \in 0 .. Len(e.code) - 1
    <3>1. LocationOf(x, g) \in 0 .. L - 1
      BY <2>1, <2>2 DEF Placed
    <3>2. QED
      BY <2>18, <2>20, <2>26, <3>1
  <2>28. BeginsAt(e.code, n + 1, L)
    <3>1. L \in 1 .. L /\ L \in 2 .. M + 1
      BY <2>2, <2>18
    <3>2. L = 2 \/ e.code[L].op = "RET"
      <4>1. L = 2 \/ w[L].op = "RET"
        BY <2>1, <2>2 DEF Placed
      <4>2. QED
        BY <2>21, <3>1, <4>1
    <3>3. QED
      BY <2>20, <2>22, <2>24, <3>1, <3>2 DEF BeginsAt
  <2>29. ASSUME NEW g \in Nat, NEW i \in Definitions(g), i <= n + 1,
                \A j \in Definitions(g) : j <= n + 1 => j <= i
         PROVE  BeginsAt(e.code, i, LocationOf(e.ft, g))
    <3>1. i \in Nat
      BY DEF Definitions
    <3>2. CASE g = f
      <4>1. n + 1 \in Definitions(g)
        BY <1>1, <1>5, <3>2 DEF Definitions, f
      <4>2. i = n + 1
        BY <2>29, <3>1, <4>1
      <4>3. QED
        BY <2>26, <2>28, <3>2, <4>2
    <3>3. CASE g # f
      <4>1. n + 1 \notin Definitions(g)
        BY <1>1, <3>3 DEF Definitions, f
      <4>2. i <= n /\ \A j \in Definitions(g) : j \in Nat /\ (j <= n => j <= i)
        BY <2>29, <3>1, <4>1 DEF Definitions
      <4>3. BeginsAt(w, i, LocationOf(x, g))
        BY <2>1, <4>2 DEF Placed
      <4>4. \A k \in 1 .. Len(w) : e.code[k] = w[k]
        BY <2>2, <2>21
      <4>5. Len(w) \in Nat /\ Len(e.code) \in Nat /\ Len(w) <= Len(e.code)
        BY <2>2, <2>18, <2>20
      <4>6. BeginsAt(e.code, i, LocationOf(x, g))
        BY <4>3, <4>4, <4>5, BeginKept
      <4>7. QED
        BY <2>26, <3>3, <4>6
    <3>4. QED
      BY <3>2, <3>3
  <2>30. Placed(e, n + 1)
    <3>1. Len(e.code) >= 2 /\ e.code[Len(e.code)].op = "RET"
      BY <2>2, <2>14, <2>18, <2>20
    <3>2. Cardinality(Returns(e.code, Len(e.code))) = Cardinality(DefinedBefore(n + 1 + 1))
      BY <2>20, <2>25
    <3>3. QED
      BY <2>27, <2>29, <3>1, <3>2 DEF Placed
  <2>31. Len(c.pool) <= Len(e.pool)
    BY <2>1, <2>8, <2>12, <2>17 DEF GoesOn, EmitsTo
  <2>32. QED
    BY <1>1, <2>15, <2>17, <2>30, <2>31
<1>6. QED
  BY <1>4, <1>5
-----------------------------------------------------------------------------
(* The invariant of a compilation.  CheckedTo: the statements of the first n     *)
(* declarations call only what is known.  CodeInv: of code in any phase.        *)
CheckedTo(n) == \A i \in 1 .. n : \A j \in 1 .. Len(ast[i].stmts) : ChecksOK(ast[i].stmts[j])
CodeInv ==
  /\ code \in Seq(WordType) /\ \A k \in 1 .. Len(code) : WordGood(code[k], Len(pool))
  /\ Listed(code, ft, memory) /\ PoolGood(pool)
  /\ \A k \in 1 .. Len(code) : code[k].op = "JMP" => code[k].target \in 0 .. Len(code) - 1

(* The nodes in R are patched; every other node is below one that waits.        *)
PatchedTo(R) ==
  \A a \in R : \A k \in 1 .. Len(code) :
    code[k].op = "JMP" /\ code[k].arg = ft[a].function => code[k].target = ft[a].location
Reaching(R) ==
  /\ todo \in Seq(1 .. Len(ft)) /\ R \in SUBSET (1 .. Len(ft))
  /\ 1 \in R \cup ToSet(todo)
  /\ \A a \in R : \A b \in {ft[a].left, ft[a].right} : b # NULL => b \in R \cup ToSet(todo)

LinkInv ==
  /\ phase = "check" => \E n \in Nat : next = n + 1 /\ CheckedTo(n)
  /\ phase \in {"emit", "resolve", "linked"} => CodeInv
  /\ phase = "emit" =>
       CheckedTo(Len(ast)) /\ Unpatched(code) /\ \E n \in Nat : next = n + 1 /\ Placed(Generated, n)
  /\ phase \in {"resolve", "linked"} => Placed(Generated, Len(ast))
  /\ phase = "resolve" => \E R : Reaching(R) /\ PatchedTo(R)
  /\ phase = "linked" => PatchedTo(1 .. Len(ft))

LEMMA CheckedAccepted ==
  ASSUME ast \in Seq(Decl), CheckedTo(Len(ast)), NEW i \in 1 .. Len(ast), NEW j \in 1 .. Len(ast[i].stmts)
  PROVE  Accepted(ast[i].stmts[j])
<1>1. ast[i].stmts \in Seq(Stmt)
  <2>1. ast[i] \in Decl
    OBVIOUS
  <2>2. QED
    BY <2>1 DEF Decl
<1>2. PICK stmt \in Stmt : stmt = ast[i].stmts[j]
  BY <1>1
<1>3. stmt.callee \in Nat /\ stmt.args \in Seq(Nat)
  BY DEF Stmt
<1>4. stmt.callee # NONE => known(stmt.callee)
  BY <1>2 DEF CheckedTo, ChecksOK
<1>5. ASSUME NEW k \in 1 .. Len(stmt.args) PROVE stmt.args[k] \in Nat /\ Printed(stmt.args[k])
  <2>1. PICK p : p = <<i, j, k>>
    OBVIOUS
  <2>2. p \in StringsOf(ast)
    BY <1>2, <2>1 DEF StringsOf
  <2>3. StringAt(p) = stmt.args[k]
    BY <1>2, <2>1 DEF StringAt
  <2>4. QED
    BY <1>3, <2>2, <2>3, SMTT(30) DEF Printed
<1>6. QED
  BY <1>2, <1>3, <1>4, <1>5 DEF Accepted

LEMMA GoodByInv ==
  ASSUME CodeInv, Unpatched(code)
  PROVE  Good(Generated)
<1>1. Generated.code = code /\ Generated.ft = ft /\ Generated.memory = memory /\ Generated.pool = pool
  BY DEF Generated
<1>2. IsGen(Generated)
  BY <1>1 DEF IsGen, Generated
<1>3. QED
  BY <1>1, <1>2 DEF CodeInv, Good

(* What is good of generated code is good of the state that it becomes.         *)
LEMMA BecomesGood ==
  ASSUME ast' = ast, NEW c, Good(c), Len(c.code) > 0, Becomes(c)
  PROVE  CodeInv' /\ Unpatched(code)'
<1>1. code' = c.code /\ ft' = c.ft /\ memory' = c.memory /\ pool' = c.pool
  BY DEF Becomes
<1>2. code' \in Seq(WordType) /\ Unpatched(code') /\ Listed(code', ft', memory')
  BY <1>1 DEF Good
<1>3. \A k \in 1 .. Len(code') : WordGood(code'[k], Len(pool'))
  BY <1>1 DEF Good
<1>4. (\A k \in 1 .. Len(code) : WordGood(code[k], Len(pool)))'
  BY <1>3 DEF WordGood, FirstOf
<1>5. PoolGood(pool')
  BY <1>1 DEF Good
<1>6. PoolGood(pool)'
  BY <1>5 DEF PoolGood, Printed, StringAt, StringsOf
<1>7. \A k \in 1 .. Len(code') : code'[k].op = "JMP" => code'[k].target \in 0 .. Len(code') - 1
  BY <1>1, <1>2 DEF Unpatched
<1>8. QED
  BY <1>2, <1>4, <1>6, <1>7 DEF CodeInv

LEMMA BecomesPlaced ==
  ASSUME ast' = ast, NEW c, NEW n, Placed(c, n), c.code = code', c.ft = ft'
  PROVE  Placed(Generated, n)'
<1>1. Generated'.code = code' /\ Generated'.ft = ft'
  BY DEF Generated
<1>2. \A i : DefinedBefore(i)' = DefinedBefore(i)
  BY DEF DefinedBefore
<1>3. ASSUME NEW g \in Nat, NEW i \in Definitions(g)', (i <= n /\ \A j \in Definitions(g) : j <= n => j <= i)'
      PROVE  BeginsAt(Generated.code, i, LocationOf(Generated.ft, g))'
  <2>1. Definitions(g)' = Definitions(g)
    BY DEF Definitions
  <2>2. BeginsAt(c.code, i, LocationOf(c.ft, g))
    BY <1>3, <2>1 DEF Placed
  <2>3. PICK program, loc : program = c.code /\ loc = LocationOf(c.ft, g) /\ BeginsAt(program, i, loc)
    BY <2>2
  <2>4. BeginsAt(Generated.code, i, LocationOf(Generated.ft, g))'
    BY <1>1, <1>2, <2>3 DEF BeginsAt
  <2>5. QED
    BY <2>4
<1>4. /\ Len(c.code) >= 2 /\ (Len(c.code) = 2 \/ c.code[Len(c.code)].op = "RET")
      /\ Cardinality(Returns(c.code, Len(c.code))) = Cardinality(DefinedBefore(n + 1)')
      /\ \A g \in Nat : LocationOf(c.ft, g) \in 0 .. Len(c.code) - 1
  BY <1>2 DEF Placed
<1>5. QED
  BY <1>1, <1>3, <1>4 DEF Placed

LEMMA CheckedKept ==
  ASSUME UNCHANGED <<ast, table, function_count>>, NEW n, CheckedTo(n)
  PROVE  CheckedTo(n)'
BY DEF CheckedTo, ChecksOK, known

(* The check of a function that is accepted keeps what its statements call.     *)
LEMMA LinkInvCheck ==
  ASSUME LinkInv, ast \in Seq(Decl), CheckFunction
  PROVE  LinkInv'
<1> DEFINE stmts == ast[next].stmts
           bad == {i \in 1 .. Len(stmts) : ~ChecksOK(stmts[i])}
           reached == {i \in 1 .. Len(stmts) : \A b \in bad : i < b}
           new == [i \in 1 .. Len(stmts) |-> IF i \in reached THEN Checked(stmts[i]) ELSE stmts[i]]
<1>1. /\ phase = "check" /\ next <= Len(ast) /\ UNCHANGED <<table, function_count>>
      /\ ast' = [ast EXCEPT ![next].stmts = new]
  BY DEF CheckFunction, cc
<1>2. \/ phase' = "idle"
      \/ bad = {} /\ phase' = "check" /\ next' = next + 1
  BY <1>1 DEF CheckFunction, Enter
<1>3. PICK n \in Nat : next = n + 1 /\ CheckedTo(n)
  BY <1>1 DEF LinkInv
<1>4. next \in 1 .. Len(ast) /\ Len(ast) \in Nat
  BY <1>1, <1>3
<1>5. PICK decl \in Decl : decl = ast[next]
  BY <1>4
<1>6. decl.stmts \in Seq(Stmt) /\ Len(decl.stmts) \in Nat /\ stmts = decl.stmts
  BY <1>5 DEF Decl
<1>7. \A stmt \in Stmt : Checked(stmt).callee = stmt.callee
  BY DEF Checked, Stmt
<1>8. \A i \in 1 .. Len(stmts) : new[i].callee = stmts[i].callee
  BY <1>6, <1>7
<1>9. Len(new) = Len(stmts)
  <2>1. PICK N \in Nat : N = Len(stmts)
    BY <1>6
  <2>2. DOMAIN new = 1 .. N
    BY <2>1
  <2>3. PICK S : new \in [1 .. N -> S]
    <3>1. new \in [1 .. N -> {new[i] : i \in 1 .. N}]
      BY <2>1
    <3>2. QED
      BY <3>1
  <2> HIDE DEF new
  <2>4. new \in Seq(S) /\ Len(new) = N
    BY <2>3, SeqDef
  <2>5. QED
    BY <2>1, <2>4
<1>10. ASSUME bad = {} PROVE \A i \in 1 .. Len(stmts) : ChecksOK(stmts[i])
  BY <1>10
<1> HIDE DEF new
<1>11. /\ \A i \in 1 .. Len(ast) : i # next => ast'[i] = ast[i]
       /\ ast'[next].stmts = new
  <2>1. PICK checked : checked = [decl EXCEPT !.stmts = new]
    OBVIOUS
  <2>2. checked.stmts = new
    BY <2>1 DEF Decl
  <2>3. ast' = [ast EXCEPT ![next] = checked]
    BY <1>1, <1>5, <2>1
  <2>4. QED
    BY <1>4, <2>2, <2>3
<1>12. CASE phase' = "idle"
  BY <1>12 DEF LinkInv
<1>13. CASE bad = {} /\ phase' = "check" /\ next' = next + 1
  <2>1. CheckedTo(n + 1)'
    <3>1. ASSUME NEW i \in 1 .. n + 1, NEW j \in 1 .. Len(ast'[i].stmts) PROVE ChecksOK(ast[i].stmts[j])'
      <4>1. CASE i # next
        <5>1. i \in 1 .. n /\ ast'[i] = ast[i]
          BY <1>3, <1>4, <1>11, <4>1
        <5>2. ChecksOK(ast[i].stmts[j])
          BY <1>3, <3>1, <5>1 DEF CheckedTo
        <5>3. QED
          BY <1>1, <5>1, <5>2 DEF ChecksOK, known
      <4>2. CASE i = next
        <5>1. ast'[i].stmts = new /\ j \in 1 .. Len(stmts)
          BY <1>9, <1>11, <3>1, <4>2
        <5>2. ChecksOK(stmts[j]) /\ new[j].callee = stmts[j].callee
          BY <1>8, <1>10, <1>13, <5>1
        <5>3. QED
          BY <1>1, <5>1, <5>2 DEF ChecksOK, known
      <4>3. QED
        BY <4>1, <4>2
    <3>2. QED
      BY <3>1 DEF CheckedTo
  <2>2. next' = (n + 1) + 1 /\ n + 1 \in Nat
    BY <1>3, <1>13
  <2>3. QED
    BY <1>13, <2>1, <2>2 DEF LinkInv
<1>14. QED
  BY <1>2, <1>12, <1>13

LEMMA LinkInvStart ==
  ASSUME LinkInv, ast \in Seq(Decl), next \in 1 .. Len(ast) + 1, LookupOK, StartCompile
  PROVE  LinkInv'
<1>1. phase = "check" /\ next > Len(ast) /\ UNCHANGED <<ast, function_count>> /\ Len(ast) \in Nat
  BY DEF StartCompile, globals
<1>2. CASE ~HasEntrypoint
  BY <1>2 DEF StartCompile, Enter, LinkInv
<1>3. CASE HasEntrypoint
  <2> DEFINE empty == [code |-> << >>, ft |-> new_ft(0), memory |-> << >>, pool |-> << >>]
             called == compile_funcall(empty, ENTRYPOINT)
  <2>1. /\ Becomes(Emit(called, Word("EXIT", NONE, 0))) /\ phase' = "emit" /\ next' = 1 /\ UNCHANGED table
    BY <1>3 DEF StartCompile, Enter
  <2>2. PICK i \in 1 .. Len(ast) : ast[i].name = ENTRYPOINT
    BY <1>3 DEF HasEntrypoint
  <2>3. ENTRYPOINT \in Nat \ {NONE}
    <3>1. ast[i] \in Decl
      OBVIOUS
    <3>2. QED
      BY <2>2, <3>1 DEF Decl
  <2>4. PICK c : c = empty
    OBVIOUS
  <2>5. c.code = << >> /\ c.ft = new_ft(0) /\ c.memory = << >> /\ c.pool = << >> /\ IsGen(c)
    BY <2>4 DEF IsGen
  <2>6. Good(c)
    <3>1. PICK mem, tree : mem = << >> /\ tree = new_ft(0)
      OBVIOUS
    <3>2. mem \in Seq(NodeType(Nat))
      BY <3>1
    <3>3. /\ CallTableOK(tree, mem)
          /\ \A g : LocationOf(tree, g) = 0 /\ SitesOf(tree, mem, g) = {}
      BY <3>1, <3>2, OneEntry
    <3>4. PICK none : none = << >>
      OBVIOUS
    <3>5. none \in Seq(WordType) /\ none \in Seq(Nat) /\ Len(none) = 0 /\ \A k \in 1 .. Len(none) : FALSE
      BY <3>4
    <3>6. \A g : Calls(none, g) = {}
      BY <3>5 DEF Calls
    <3>7. Listed(none, tree, mem)
      BY <3>3, <3>5, <3>6 DEF Listed
    <3>8. PoolGood(none) /\ Unpatched(none)
      BY <3>5 DEF PoolGood, Unpatched
    <3>9. QED
      BY <2>5, <3>1, <3>4, <3>5, <3>7, <3>8 DEF Good
  <2>7. PICK d : d = compile_funcall(c, ENTRYPOINT)
    OBVIOUS
  <2>8. Good(d) /\ GoesOn(c, d)
        /\ d.code \in {Append(c.code, Word("CALL", ENTRYPOINT, lookup_fun(ENTRYPOINT))),
                       Append(c.code, Word("JMP", ENTRYPOINT, 0))}
    BY <1>1, <2>2, <2>3, <2>6, <2>7, FuncallGood
  <2>9. PICK word : word = Word("EXIT", NONE, 0)
    OBVIOUS
  <2>10. word.op = "EXIT" /\ WordGood(word, Len(d.pool))
    BY <2>9 DEF Word, WordGood, WordType, NONE
  <2>11. PICK e : e = Emit(d, word)
    OBVIOUS
  <2>12. Good(e) /\ EmitsTo(d, word, e) /\ GoesOn(d, e)
    BY <2>8, <2>10, <2>11, EmitGood
  <2>13. Becomes(e)
    BY <2>1, <2>4, <2>7, <2>9, <2>11
  <2>14. GoesOn(c, e)
    BY <2>6, <2>8, <2>12, GoesOnTransitive DEF Good
  <2>15. Len(d.code) = 1 /\ Len(e.code) = 2
    <3>1. PICK one : d.code = Append(<< >>, one)
      BY <2>5, <2>8
    <3>2. Append(<< >>, one) = <<one>>
      OBVIOUS
    <3>3. Len(d.code) = 1
      BY <3>1, <3>2
    <3>4. PICK program : program = d.code /\ program \in Seq(WordType) /\ word \in WordType
      BY <2>8, <2>10 DEF Good, WordGood
    <3>5. Len(Append(program, word)) = Len(program) + 1
      BY <3>4
    <3>6. QED
      BY <2>12, <3>3, <3>4, <3>5 DEF EmitsTo
  <2>16. Placed(e, 0)
    <3>1. \A g : LocationOf(c.ft, g) = 0
      <4>1. << >> \in Seq(NodeType(Nat))
        OBVIOUS
      <4>2. QED
        BY <2>5, <4>1, OneEntry
    <3>2. \A g \in Nat : LocationOf(e.ft, g) = 0
      BY <2>14, <3>1 DEF GoesOn
    <3>3. Len(c.code) = 0
      BY <2>5
    <3>4. Returns(e.code, Len(e.code)) = {}
      BY <2>14, <3>3 DEF GoesOn, Returns
    <3>5. DefinedBefore(0 + 1) = {}
      BY DEF DefinedBefore
    <3>6. \A g : \A k \in Definitions(g) : ~ (k <= 0)
      BY DEF Definitions
    <3>7. Cardinality(Returns(e.code, Len(e.code))) = Cardinality(DefinedBefore(0 + 1))
      BY <3>4, <3>5
    <3>8. Len(e.code) >= 2 /\ Len(e.code) = 2 /\ \A g \in Nat : LocationOf(e.ft, g) \in 0 .. Len(e.code) - 1
      BY <2>15, <3>2
    <3>9. QED
      BY <3>6, <3>7, <3>8 DEF Placed
  <2>17. CodeInv' /\ Unpatched(code)'
    <3>1. ast' = ast /\ Len(e.code) > 0
      BY <1>1, <2>15
    <3>2. QED
      BY <2>12, <2>13, <3>1, BecomesGood
  <2>18. Placed(Generated, 0)'
    BY <1>1, <2>13, <2>16, BecomesPlaced DEF Becomes
  <2>19. CheckedTo(Len(ast))'
    <3>1. CheckedTo(Len(ast))
      BY <1>1 DEF LinkInv
    <3>2. PICK n : n = Len(ast) /\ CheckedTo(n)
      BY <3>1
    <3>3. CheckedTo(n)'
      BY <1>1, <2>1, <3>2, CheckedKept
    <3>4. QED
      BY <1>1, <3>2, <3>3 DEF CheckedTo
  <2>20. QED
    BY <2>1, <2>17, <2>18, <2>19 DEF LinkInv
<1>4. QED
  BY <1>2, <1>3

LEMMA LinkInvTld ==
  ASSUME LinkInv, ast \in Seq(Decl), LookupOK, CompileTld
  PROVE  LinkInv' /\ Len(pool) <= Len(pool')
<1>1. /\ phase = "emit" /\ next <= Len(ast) /\ next' = next + 1 /\ phase' = phase
      /\ ast' = ast /\ UNCHANGED <<ast, table, function_count>>
      /\ Becomes(compile_fundef(Generated, ast[next]))
  BY DEF CompileTld, globals
<1>2. CodeInv /\ CheckedTo(Len(ast)) /\ Unpatched(code) /\ Len(ast) \in Nat
  BY <1>1 DEF LinkInv
<1>3. PICK n \in Nat : next = n + 1 /\ Placed(Generated, n)
  BY <1>1 DEF LinkInv
<1>4. n + 1 \in 1 .. Len(ast)
  BY <1>1, <1>2, <1>3
<1>5. PICK c : c = Generated /\ Good(c) /\ Placed(c, n)
  BY <1>2, <1>3, GoodByInv
<1>6. \A j \in 1 .. Len(ast[n + 1].stmts) : Accepted(ast[n + 1].stmts[j])
  BY <1>2, <1>4, CheckedAccepted
<1>7. PICK d : d = compile_fundef(c, ast[n + 1])
  OBVIOUS
<1>8. Good(d) /\ Placed(d, n + 1) /\ Len(c.pool) <= Len(d.pool)
  BY <1>4, <1>5, <1>6, <1>7, FundefGood
<1>9. Becomes(d) /\ Len(d.code) > 0
  <2>1. d = compile_fundef(Generated, ast[next])
    BY <1>3, <1>5, <1>7
  <2>2. Becomes(d)
    BY <1>1, <2>1 DEF Becomes
  <2>3. QED
    BY <1>8, <2>2, SMTT(30) DEF Placed, Good
<1>10. CodeInv' /\ Unpatched(code)'
  BY <1>1, <1>8, <1>9, BecomesGood
<1>11. PICK m \in Nat : m = n + 1 /\ next' = m + 1 /\ Placed(d, m)
  BY <1>1, <1>3, <1>8
<1>12. Placed(Generated, m)'
  BY <1>1, <1>9, <1>11, BecomesPlaced DEF Becomes
<1>13. CheckedTo(Len(ast))'
  <2>1. PICK k : k = Len(ast) /\ CheckedTo(k)
    BY <1>2
  <2>2. CheckedTo(k)'
    BY <1>1, <2>1, CheckedKept
  <2>3. QED
    BY <1>1, <2>1, <2>2 DEF CheckedTo
<1>14. Len(pool) <= Len(pool')
  <2>1. c.pool = pool /\ d.pool = pool'
    BY <1>5, <1>9 DEF Generated, Becomes
  <2>2. QED
    BY <1>8, <2>1
<1>15. QED
  BY <1>1, <1>10, <1>11, <1>12, <1>13, <1>14 DEF LinkInv

(* The code, the table and the pool stay as they are.                         *)
LEMMA CodeKept ==
  ASSUME UNCHANGED <<ast, code, ft, memory, pool>>, CodeInv, NEW n, Placed(Generated, n)
  PROVE  CodeInv' /\ Placed(Generated, n)'
<1>1. ast' = ast /\ code' = code /\ ft' = ft /\ memory' = memory /\ pool' = pool
  OBVIOUS
<1>2. (\A k \in 1 .. Len(code) : WordGood(code[k], Len(pool)))'
  BY <1>1 DEF CodeInv, WordGood, FirstOf
<1>3. PoolGood(pool)'
  BY <1>1 DEF CodeInv, PoolGood, Printed, StringAt, StringsOf
<1>4. code' \in Seq(WordType) /\ Listed(code, ft, memory)'
  BY <1>1 DEF CodeInv
<1>5. (\A k \in 1 .. Len(code) : code[k].op = "JMP" => code[k].target \in 0 .. Len(code) - 1)'
  BY <1>1 DEF CodeInv
<1>6. CodeInv'
  BY <1>2, <1>3, <1>4, <1>5 DEF CodeInv
<1>7. PICK c : c = Generated /\ Placed(c, n)
  OBVIOUS
<1>8. c.code = code' /\ c.ft = ft'
  BY <1>1, <1>7 DEF Generated
<1>9. Placed(Generated, n)'
  BY <1>1, <1>7, <1>8, BecomesPlaced
<1>10. QED
  BY <1>6, <1>9

LEMMA LinkInvEnd ==
  ASSUME LinkInv, Len(ast) \in Nat, next \in 1 .. Len(ast) + 1, EndCompile
  PROVE  LinkInv'
<1>1. /\ phase = "emit" /\ next > Len(ast) /\ phase' = "resolve" /\ todo' = <<1>>
      /\ UNCHANGED <<ast, code, ft, memory, pool>>
  BY DEF EndCompile, Enter, globals
<1>2. CodeInv
  BY <1>1 DEF LinkInv
<1>3. PICK n \in Nat : next = n + 1 /\ Placed(Generated, n)
  BY <1>1 DEF LinkInv
<1>4. n = Len(ast)
  BY <1>1, <1>3
<1>5. CodeInv' /\ Placed(Generated, n)'
  BY <1>1, <1>2, <1>3, CodeKept
<1>6. Placed(Generated, Len(ast))'
  BY <1>1, <1>4, <1>5
<1>7. Len(ft) \in Nat /\ Len(ft) > 0
  BY <1>2 DEF CodeInv, Listed, CallTableOK, SearchTree, Grown
<1>8. Reaching({})' /\ PatchedTo({})'
  <2>1. PICK work : work = <<1>>
    OBVIOUS
  <2>2. work \in Seq(1 .. Len(ft)) /\ 1 \in ToSet(work)
    BY <1>7, <2>1 DEF ToSet
  <2>3. QED
    BY <1>1, <2>1, <2>2 DEF Reaching, PatchedTo
<1>9. QED
  BY <1>1, <1>5, <1>6, <1>8 DEF LinkInv

LEMMA LinkInvEndResolve ==
  ASSUME LinkInv, EndResolve
  PROVE  LinkInv'
<1>1. /\ phase = "resolve" /\ todo = << >> /\ phase' = "linked"
      /\ UNCHANGED <<ast, code, ft, memory, pool>>
  BY DEF EndResolve, Enter, globals, cc
<1>2. CodeInv /\ Placed(Generated, Len(ast))
  BY <1>1 DEF LinkInv
<1>3. PICK n : n = Len(ast) /\ Placed(Generated, n)
  BY <1>2
<1>4. CodeInv' /\ Placed(Generated, n)'
  BY <1>1, <1>2, <1>3, CodeKept
<1>5. PICK R : Reaching(R) /\ PatchedTo(R)
  BY <1>1 DEF LinkInv
<1>6. R = 1 .. Len(ft)
  <2>1. ToSet(todo) = {}
    BY <1>1 DEF ToSet
  <2>2. /\ R \in SUBSET (1 .. Len(ft)) /\ 1 \in R
        /\ \A a \in R : /\ ft[a].left # NULL => ft[a].left \in R
                        /\ ft[a].right # NULL => ft[a].right \in R
    BY <1>5, <2>1 DEF Reaching
  <2>3. SearchTree(ft)
    BY <1>2 DEF CodeInv, Listed, CallTableOK
  <2>4. QED
    BY <2>2, <2>3, AllReached
<1>7. PatchedTo(1 .. Len(ft))'
  BY <1>1, <1>5, <1>6 DEF PatchedTo
<1>8. Placed(Generated, Len(ast))'
  BY <1>1, <1>3, <1>4
<1>9. QED
  BY <1>1, <1>4, <1>7, <1>8 DEF LinkInv
-----------------------------------------------------------------------------
(* Patching changes the targets of jumps and nothing else.                     *)
SameWords(new, old) ==
  /\ new \in Seq(WordType) /\ Len(new) = Len(old)
  /\ \A k \in 1 .. Len(old) : /\ new[k].op = old[k].op /\ new[k].arg = old[k].arg
                              /\ old[k].op # "JMP" => new[k] = old[k]

LEMMA SameWordsKept ==
  ASSUME UNCHANGED <<ast, ft, memory, pool>>, CodeInv, SameWords(code', code), NEW n, Placed(Generated, n),
         \A k \in 1 .. Len(code) : code'[k].op = "JMP" => code'[k].target \in 0 .. Len(code) - 1
  PROVE  CodeInv' /\ Placed(Generated, n)'
<1>1. /\ ast' = ast /\ ft' = ft /\ memory' = memory /\ pool' = pool
      /\ code' \in Seq(WordType) /\ Len(code') = Len(code) /\ Len(code) \in Nat
      /\ \A k \in 1 .. Len(code) : /\ code'[k] \in WordType /\ code[k] \in WordType
                                   /\ code'[k].op = code[k].op /\ code'[k].arg = code[k].arg
                                   /\ code[k].op # "JMP" => code'[k] = code[k]
  BY DEF SameWords, CodeInv
<1>2. (\A k \in 1 .. Len(code) : WordGood(code[k], Len(pool)))'
  <2>1. ASSUME NEW k \in 1 .. Len(code) PROVE WordGood(code'[k], Len(pool))
    <3>1. WordGood(code[k], Len(pool))
      BY DEF CodeInv
    <3>2. CASE code[k].op # "JMP"
      BY <1>1, <3>1, <3>2
    <3>3. CASE code[k].op = "JMP"
      BY <1>1, <3>1, <3>3 DEF WordGood
    <3>4. QED
      BY <3>2, <3>3
  <2>2. QED
    BY <1>1, <2>1 DEF WordGood, FirstOf
<1>3. PoolGood(pool)'
  <2>1. pool' = pool /\ ast' = ast /\ PoolGood(pool)
    BY <1>1 DEF CodeInv
  <2>2. \A x : Printed(x)' <=> Printed(x)
    <3>1. StringsOf(ast)' = StringsOf(ast) /\ \A p : StringAt(p)' = StringAt(p)
      BY <2>1 DEF StringsOf, StringAt
    <3>2. QED
      BY <3>1 DEF Printed
  <2>3. QED
    BY <2>1, <2>2 DEF PoolGood
<1>4. Listed(code', ft, memory)
  <2>1. \A g : Calls(code', g) = Calls(code, g)
    BY <1>1 DEF Calls
  <2>2. QED
    BY <1>1, <2>1 DEF CodeInv, Listed
<1>5. CodeInv'
  BY <1>1, <1>2, <1>3, <1>4 DEF CodeInv
<1>6. PICK c : c = Generated
  OBVIOUS
<1>7. c.code = code /\ c.ft = ft
  BY <1>6 DEF Generated
<1>8. ASSUME NEW loc \in Nat, loc <= Len(code)
      PROVE  Returns(code', loc) = Returns(code, loc)
  <2>1. \A k \in 1 .. loc : k \in 1 .. Len(code)
    BY <1>1, <1>8
  <2>2. \A k \in 1 .. loc : code'[k].op = code[k].op
    BY <1>1, <2>1
  <2>3. QED
    BY <2>2 DEF Returns
<1>9. /\ Len(code) >= 2 /\ (Len(code) = 2 \/ code[Len(code)].op = "RET")
      /\ Cardinality(Returns(code, Len(code))) = Cardinality(DefinedBefore(n + 1))
      /\ \A g \in Nat : LocationOf(ft, g) \in 0 .. Len(code) - 1
  BY <1>6, <1>7 DEF Placed
<1>10. \A i : DefinedBefore(i)' = DefinedBefore(i)
  BY <1>1 DEF DefinedBefore
<1>11. /\ Len(code') >= 2 /\ (Len(code') = 2 \/ code'[Len(code')].op = "RET")
       /\ Cardinality(Returns(code', Len(code'))) = Cardinality(DefinedBefore(n + 1)')
       /\ \A g \in Nat : LocationOf(ft', g) \in 0 .. Len(code') - 1
  <2>1. Len(code) \in 1 .. Len(code)
    BY <1>1, <1>9
  <2>2. Returns(code', Len(code')) = Returns(code, Len(code))
    BY <1>1, <1>8
  <2>3. QED
    BY <1>1, <1>9, <1>10, <2>1, <2>2
<1>12. ASSUME NEW i, NEW loc, BeginsAt(code, i, loc)
       PROVE  BeginsAt(code, i, loc)'
  <2>1. /\ loc \in 2 .. Len(code) /\ loc \in 1 .. Len(code) /\ loc \in Nat
        /\ (loc = 2 \/ code[loc].op = "RET")
        /\ Cardinality(Returns(code, loc)) = Cardinality(DefinedBefore(i))
    BY <1>1, <1>12 DEF BeginsAt
  <2>2. Returns(code', loc) = Returns(code, loc)
    BY <1>1, <1>8, <2>1
  <2>3. /\ loc \in 2 .. Len(code') /\ (loc = 2 \/ code'[loc].op = "RET")
        /\ Cardinality(Returns(code', loc)) = Cardinality(DefinedBefore(i)')
    BY <1>1, <1>10, <2>1, <2>2
  <2>4. QED
    BY <2>3 DEF BeginsAt
<1>13. ASSUME NEW g \in Nat, NEW i \in Definitions(g)', (i <= n /\ \A j \in Definitions(g) : j <= n => j <= i)'
       PROVE  BeginsAt(code, i, LocationOf(ft, g))'
  <2>1. Definitions(g)' = Definitions(g)
    BY <1>1 DEF Definitions
  <2>2. BeginsAt(code, i, LocationOf(ft, g))
    BY <1>6, <1>7, <1>13, <2>1 DEF Placed
  <2>3. PICK loc : loc = LocationOf(ft, g) /\ BeginsAt(code, i, loc)
    BY <2>2
  <2>4. BeginsAt(code, i, loc)'
    BY <1>12, <2>3
  <2>5. QED
    BY <1>1, <2>3, <2>4
<1>14. Generated'.code = code' /\ Generated'.ft = ft'
  BY DEF Generated
<1>15. Placed(Generated, n)'
  BY <1>11, <1>13, <1>14 DEF Placed
<1>16. QED
  BY <1>5, <1>15
-----------------------------------------------------------------------------
LEMMA ToSetConcat ==
  ASSUME NEW S, NEW s \in Seq(S), NEW t \in Seq(S)
  PROVE  s \o t \in Seq(S) /\ ToSet(s \o t) = ToSet(s) \cup ToSet(t)
<1>1. PICK m \in Nat, n \in Nat : m = Len(s) /\ n = Len(t)
  OBVIOUS
<1>2. PICK u : u = s \o t
  OBVIOUS
<1>3. /\ u \in Seq(S) /\ Len(u) = m + n
      /\ \A i \in 1 .. m : u[i] = s[i]
      /\ \A i \in 1 .. n : u[m + i] = t[i]
  BY <1>1, <1>2
<1>4. ToSet(u) = {u[i] : i \in 1 .. m + n} /\ ToSet(s) = {s[i] : i \in 1 .. m} /\ ToSet(t) = {t[i] : i \in 1 .. n}
  <2>1. DOMAIN u = 1 .. m + n /\ DOMAIN s = 1 .. m /\ DOMAIN t = 1 .. n
    BY <1>1, <1>3
  <2>2. QED
    BY <2>1 DEF ToSet
<1>5. /\ \A i \in 1 .. m : i \in 1 .. m + n
      /\ \A i \in 1 .. n : m + i \in 1 .. m + n
      /\ \A i \in 1 .. m + n : i \in 1 .. m \/ (i - m \in 1 .. n /\ i = m + (i - m))
  BY <1>1
<1>6. ASSUME NEW x \in ToSet(u) PROVE x \in ToSet(s) \cup ToSet(t)
  <2>1. PICK i \in 1 .. m + n : x = u[i]
    BY <1>4
  <2>2. CASE i \in 1 .. m
    BY <1>3, <1>4, <2>1, <2>2
  <2>3. CASE i - m \in 1 .. n /\ i = m + (i - m)
    BY <1>3, <1>4, <2>1, <2>3
  <2>4. QED
    BY <1>5, <2>2, <2>3
<1>7. ToSet(s) \cup ToSet(t) \subseteq ToSet(u)
  BY <1>3, <1>4, <1>5
<1>8. QED
  BY <1>2, <1>3, <1>6, <1>7

LEMMA HeadAndTail ==
  ASSUME NEW S, NEW s \in Seq(S), s # << >>
  PROVE  Head(s) \in S /\ Tail(s) \in Seq(S) /\ ToSet(s) = {Head(s)} \cup ToSet(Tail(s))
<1>1. PICK h, u : h = Head(s) /\ u = Tail(s)
  OBVIOUS
<1>2. /\ h \in S /\ u \in Seq(S)
      /\ Len(s) \in Nat /\ Len(s) > 0 /\ Len(u) = Len(s) - 1 /\ h = s[1]
      /\ \A i \in 1 .. Len(u) : u[i] = s[i + 1]
  BY <1>1, HeadTailProperties
<1>3. ToSet(s) = {s[i] : i \in 1 .. Len(s)} /\ ToSet(u) = {u[i] : i \in 1 .. Len(u)}
  BY <1>2, SMTT(30) DEF ToSet
<1>4. /\ 1 \in 1 .. Len(s) /\ \A i \in 1 .. Len(u) : i + 1 \in 1 .. Len(s)
      /\ \A i \in 1 .. Len(s) : i = 1 \/ (i - 1 \in 1 .. Len(u) /\ i = (i - 1) + 1)
  BY <1>2
<1>5. ASSUME NEW x \in ToSet(s) PROVE x = h \/ x \in ToSet(u)
  <2>1. PICK i \in 1 .. Len(s) : x = s[i]
    BY <1>3
  <2>2. CASE i = 1
    BY <1>2, <2>1, <2>2
  <2>3. CASE i # 1
    <3>1. i - 1 \in 1 .. Len(u) /\ s[(i - 1) + 1] = s[i]
      BY <1>4, <2>3
    <3>2. u[i - 1] = x
      BY <1>2, <2>1, <3>1
    <3>3. QED
      BY <1>3, <3>1, <3>2
  <2>4. QED
    BY <2>2, <2>3
<1>6. {h} \cup ToSet(u) \subseteq ToSet(s)
  BY <1>2, <1>3, <1>4
<1>7. QED
  BY <1>1, <1>2, <1>5, <1>6

(* Resolving a node writes its location into the jumps to its function, and only *)
(* into those.                                                               *)
Patches(a) ==
  \A k \in 1 .. Len(code) :
    IF code[k].op = "JMP" /\ code[k].arg = ft[a].function
    THEN code'[k].target = ft[a].location ELSE code'[k] = code[k]
LEMMA NodePatched ==
  ASSUME CodeInv, NEW n, Placed(Generated, n), NEW a \in 1 .. Len(ft),
         NEW sites, sites = ToSet(ContentsOf(memory, ft[a].callsites)),
         code' = [i \in 1 .. Len(code) |->
                    IF i - 1 \in sites THEN [code[i] EXCEPT !.target = ft[a].location] ELSE code[i]]
  PROVE  /\ SameWords(code', code) /\ Patches(a)
         /\ \A k \in 1 .. Len(code) : code'[k].op = "JMP" => code'[k].target \in 0 .. Len(code) - 1
<1>1. SearchTree(ft) /\ ft \in Seq(TableNode)
  BY DEF CodeInv, Listed, CallTableOK, SearchTree, Grown
<1>2. PICK node \in TableNode : node = ft[a]
  BY <1>1
<1>3. PICK f \in Nat, loc \in Nat : f = ft[a].function /\ loc = ft[a].location
  BY <1>2 DEF TableNode
<1>4. LocationOf(ft, f) = loc /\ SitesOf(ft, memory, f) = sites
  BY <1>1, <1>3, ByNode
<1>5. sites = Calls(code, f)
  BY <1>3, <1>4 DEF CodeInv, Listed
<1>6. PICK N \in Nat, old \in Seq(WordType) : N = Len(code) /\ old = code
  BY DEF CodeInv
<1>7. loc \in 0 .. N - 1
  <2>1. PICK c : c = Generated /\ Placed(c, n)
    OBVIOUS
  <2>2. c.code = code /\ c.ft = ft
    BY <2>1 DEF Generated
  <2>3. QED
    BY <1>3, <1>4, <1>6, <2>1, <2>2 DEF Placed
<1>8. ASSUME NEW k \in 1 .. N
      PROVE  k - 1 \in sites <=> old[k].op = "JMP" /\ old[k].arg = f
  <2>1. \A j \in 1 .. N : j - 1 = k - 1 => j = k
    OBVIOUS
  <2>2. QED
    BY <1>5, <1>6, <2>1 DEF Calls
<1>9. PICK new : /\ new = code'
                 /\ new = [k \in 1 .. N |-> IF k - 1 \in sites THEN [old[k] EXCEPT !.target = loc] ELSE old[k]]
  BY <1>3, <1>6
<1>10. ASSUME NEW k \in 1 .. N
       PROVE  /\ new[k] \in WordType
              /\ new[k].op = old[k].op /\ new[k].arg = old[k].arg
              /\ (old[k].op # "JMP" => new[k] = old[k])
              /\ (new[k].op = "JMP" /\ new[k].arg = f => new[k].target = loc)
              /\ (~ (old[k].op = "JMP" /\ old[k].arg = f) => new[k] = old[k])
  <2>1. PICK word \in WordType : word = old[k]
    BY <1>6
  <2>2. CASE k - 1 \in sites
    <3>1. new[k] = [word EXCEPT !.target = loc]
      BY <1>9, <2>1, <2>2
    <3>2. new[k] \in WordType /\ new[k].op = word.op /\ new[k].arg = word.arg /\ new[k].target = loc
      BY <3>1 DEF WordType
    <3>3. QED
      BY <1>8, <2>1, <2>2, <3>2
  <2>3. CASE k - 1 \notin sites
    <3>1. new[k] = word
      BY <1>9, <2>1, <2>3
    <3>2. ~ (word.op = "JMP" /\ word.arg = f)
      BY <1>8, <2>1, <2>3
    <3>3. QED
      BY <2>1, <3>1, <3>2
  <2>4. QED
    BY <2>2, <2>3
<1>11. new \in Seq(WordType) /\ Len(new) = N
  <2>1. new \in [1 .. N -> WordType]
    BY <1>9, <1>10
  <2>2. QED
    BY <2>1, SeqDef, SMTT(30)
<1>12. SameWords(code', code)
  BY <1>6, <1>9, <1>10, <1>11 DEF SameWords
<1>13. Patches(a)
  <2>1. ASSUME NEW k \in 1 .. N
        PROVE  IF old[k].op = "JMP" /\ old[k].arg = f THEN new[k].target = loc ELSE new[k] = old[k]
    BY <1>10
  <2>2. QED
    BY <1>3, <1>6, <1>9, <2>1 DEF Patches
<1>14. ASSUME NEW k \in 1 .. N, new[k].op = "JMP" PROVE new[k].target \in 0 .. N - 1
  <2>1. CASE old[k].arg = f
    BY <1>7, <1>10, <1>14, <2>1
  <2>2. CASE old[k].arg # f
    <3>1. new[k] = old[k] /\ old[k].op = "JMP"
      BY <1>10, <1>14, <2>2
    <3>2. QED
      BY <1>6, <3>1 DEF CodeInv
  <2>3. QED
    BY <2>1, <2>2
<1>15. QED
  BY <1>6, <1>9, <1>12, <1>13, <1>14

LEMMA SubtreeNodes ==
  ASSUME NEW S, NEW b, b # NULL => b \in S
  PROVE  Subtree(b) \in Seq(S) /\ (b # NULL => ToSet(Subtree(b)) = {b})
<1>1. CASE b = NULL
  BY <1>1 DEF Subtree
<1>2. CASE b # NULL
  <2>1. PICK s : s = Subtree(b)
    OBVIOUS
  <2>2. s = <<b>> /\ b \in S
    BY <1>2, <2>1 DEF Subtree
  <2>3. s \in Seq(S) /\ DOMAIN s = {1} /\ s[1] = b
    BY <2>2
  <2>4. ToSet(s) = {b}
    BY <2>3 DEF ToSet
  <2>5. QED
    BY <2>1, <2>3, <2>4
<1>3. QED
  BY <1>1, <1>2

LEMMA LinkInvResolve ==
  ASSUME LinkInv, Resolve
  PROVE  LinkInv'
<1>1. PICK a : a = Head(todo)
  OBVIOUS
<1>2. /\ phase = "resolve" /\ phase' = phase /\ todo # << >> /\ UNCHANGED <<ast, ft, memory, pool>>
      /\ todo' = Subtree(ft[a].left) \o Subtree(ft[a].right) \o Tail(todo)
      /\ code' = [i \in 1 .. Len(code) |->
                    IF i - 1 \in ToSet(ContentsOf(memory, ft[a].callsites))
                    THEN [code[i] EXCEPT !.target = ft[a].location] ELSE code[i]]
  BY <1>1 DEF Resolve, globals
<1>3. CodeInv /\ Placed(Generated, Len(ast))
  BY <1>2 DEF LinkInv
<1>4. PICK R : Reaching(R) /\ PatchedTo(R)
  BY <1>2 DEF LinkInv
<1>5. PICK M : M = 1 .. Len(ft)
  OBVIOUS
<1>6. todo \in Seq(M) /\ R \in SUBSET M /\ 1 \in R \cup ToSet(todo)
  BY <1>4, <1>5 DEF Reaching
<1>7. a \in M /\ Tail(todo) \in Seq(M) /\ ToSet(todo) = {a} \cup ToSet(Tail(todo))
  BY <1>1, <1>2, <1>6, HeadAndTail
<1>8. SearchTree(ft) /\ Grown(ft) /\ Len(ft) \in Nat
  BY <1>3 DEF CodeInv, Listed, CallTableOK, SearchTree, Grown
<1>9. (ft[a].left # NULL => ft[a].left \in M) /\ (ft[a].right # NULL => ft[a].right \in M)
  BY <1>5, <1>7, <1>8 DEF Grown, Below
<1>10. PICK l, r, rest : l = Subtree(ft[a].left) /\ r = Subtree(ft[a].right) /\ rest = Tail(todo)
  OBVIOUS
<1>11. /\ l \in Seq(M) /\ (ft[a].left # NULL => ToSet(l) = {ft[a].left})
       /\ r \in Seq(M) /\ (ft[a].right # NULL => ToSet(r) = {ft[a].right})
       /\ rest \in Seq(M) /\ ToSet(todo) = {a} \cup ToSet(rest)
  BY <1>7, <1>9, <1>10, SubtreeNodes
<1>12. todo' = (l \o r) \o rest
  BY <1>2, <1>10
<1>13. todo' \in Seq(M) /\ ToSet(todo') = ToSet(l) \cup ToSet(r) \cup ToSet(rest)
  <2>1. l \o r \in Seq(M) /\ ToSet(l \o r) = ToSet(l) \cup ToSet(r)
    BY <1>11, ToSetConcat
  <2>2. PICK lr \in Seq(M) : lr = l \o r /\ ToSet(lr) = ToSet(l) \cup ToSet(r)
    BY <2>1
  <2>3. lr \o rest \in Seq(M) /\ ToSet(lr \o rest) = ToSet(lr) \cup ToSet(rest)
    BY <1>11, ToSetConcat
  <2>4. QED
    BY <1>12, <2>2, <2>3
<1>14. PICK n : n = Len(ast) /\ Placed(Generated, n)
  BY <1>3
<1>15. /\ SameWords(code', code) /\ Patches(a)
       /\ \A k \in 1 .. Len(code) : code'[k].op = "JMP" => code'[k].target \in 0 .. Len(code) - 1
  <2>1. PICK sites : sites = ToSet(ContentsOf(memory, ft[a].callsites))
    OBVIOUS
  <2>2. code' = [i \in 1 .. Len(code) |->
                   IF i - 1 \in sites THEN [code[i] EXCEPT !.target = ft[a].location] ELSE code[i]]
    BY <1>2, <2>1
  <2>3. a \in 1 .. Len(ft)
    BY <1>5, <1>7
  <2>4. QED
    BY <1>3, <1>14, <2>1, <2>2, <2>3, NodePatched
<1>16. CodeInv' /\ Placed(Generated, n)'
  BY <1>2, <1>3, <1>14, <1>15, SameWordsKept
<1>17. Placed(Generated, Len(ast))'
  BY <1>2, <1>14, <1>16
<1>18. PatchedTo(R \cup {a})'
  <2>1. ASSUME NEW b \in R \cup {a}, NEW k \in 1 .. Len(code),
               code'[k].op = "JMP", code'[k].arg = ft[b].function
        PROVE  code'[k].target = ft[b].location
    <3>1. code[k].op = "JMP" /\ code[k].arg = ft[b].function
      BY <1>15, <2>1 DEF SameWords
    <3>2. CASE code[k].arg = ft[a].function
      <4>1. a \in 1 .. Len(ft) /\ b \in 1 .. Len(ft)
        BY <1>5, <1>6, <1>7
      <4>2. a = b
        BY <1>8, <3>1, <3>2, <4>1, OneNode
      <4>3. QED
        BY <1>15, <3>1, <4>2 DEF Patches
    <3>3. CASE code[k].arg # ft[a].function
      <4>1. b \in R
        BY <2>1, <3>1, <3>3
      <4>2. code'[k] = code[k]
        BY <1>15, <3>3 DEF Patches
      <4>3. QED
        BY <1>4, <3>1, <4>1, <4>2 DEF PatchedTo
    <3>4. QED
      BY <3>2, <3>3
  <2>2. Len(code') = Len(code) /\ ft' = ft
    BY <1>2, <1>15 DEF SameWords
  <2>3. QED
    BY <2>1, <2>2 DEF PatchedTo
<1>19. Reaching(R \cup {a})'
  <2>1. 1 \in (R \cup {a}) \cup ToSet(todo')
    BY <1>6, <1>11, <1>13
  <2>2. ASSUME NEW b \in R \cup {a}, NEW c \in {ft[b].left, ft[b].right}, c # NULL
        PROVE  c \in (R \cup {a}) \cup ToSet(todo')
    <3>1. CASE b = a
      BY <1>11, <1>13, <2>2, <3>1
    <3>2. CASE b \in R
      <4>1. c \in R \cup ToSet(todo)
        BY <1>4, <2>2, <3>2 DEF Reaching
      <4>2. QED
        BY <1>11, <1>13, <4>1
    <3>3. QED
      BY <3>1, <3>2
  <2>3. R \cup {a} \in SUBSET M
    BY <1>6, <1>7
  <2>4. QED
    BY <1>2, <1>5, <1>13, <2>1, <2>2, <2>3 DEF Reaching
<1>20. QED
  BY <1>2, <1>16, <1>17, <1>18, <1>19 DEF LinkInv

(* Every step of a compilation keeps the invariant, and the pool only grows.     *)
LEMMA LinkInvStep ==
  ASSUME LinkInv, ast \in Seq(Decl), next \in 1 .. Len(ast) + 1, phase \in {"check", "emit"} => LookupOK, Link
  PROVE  LinkInv' /\ (phase \in {"emit", "resolve", "linked"} => Len(pool) <= Len(pool'))
<1>1. CASE AddFunction
  <2>1. phase' = "collect" /\ phase = "collect"
    BY <1>1 DEF AddFunction
  <2>2. QED
    BY <2>1 DEF LinkInv
<1>2. CASE EndCollect
  <2>1. phase = "collect" /\ phase' = "check" /\ next' = 0 + 1
    BY <1>2 DEF EndCollect, Enter
  <2>2. CheckedTo(0)'
    BY DEF CheckedTo
  <2>3. QED
    BY <2>1, <2>2 DEF LinkInv
<1>3. CASE CheckFunction
  BY <1>3, LinkInvCheck DEF CheckFunction
<1>4. CASE StartCompile
  BY <1>4, LinkInvStart DEF StartCompile
<1>5. CASE CompileTld
  BY <1>5, LinkInvTld DEF CompileTld
<1>6. ASSUME pool' = pool, phase \in {"emit", "resolve", "linked"} PROVE Len(pool) <= Len(pool')
  <2>1. Len(pool) \in Nat
    BY <1>6 DEF LinkInv, CodeInv, PoolGood
  <2>2. QED
    BY <1>6, <2>1
<1>7. CASE EndCompile
  BY <1>6, <1>7, LinkInvEnd DEF EndCompile
<1>8. CASE Resolve
  BY <1>6, <1>8, LinkInvResolve DEF Resolve
<1>9. CASE EndResolve
  BY <1>6, <1>9, LinkInvEndResolve DEF EndResolve, cc
<1>10. QED
  BY <1>1, <1>2, <1>3, <1>4, <1>5, <1>7, <1>8, <1>9 DEF Link
-----------------------------------------------------------------------------
(* What the invariant says of the properties.                                 *)
LEMMA IndexedByInv ==
  ASSUME LinkInv
  PROVE  CallsIndexed
<1> SUFFICES ASSUME phase \in {"emit", "resolve", "linked"}
             PROVE  /\ \A a \in 1 .. Len(ft) :
                         /\ Descend(ft, ft[a].function) = a
                         /\ Chains(memory, ft[a].callsites) # {}
                         /\ ToSet(ContentsOf(memory, ft[a].callsites)) = Calls(code, ft[a].function)
                    /\ \A i \in 1 .. Len(code) : code[i].op = "JMP" => IsIn(ft, code[i].arg)
  BY DEF CallsIndexed, Calls
<1>1. CodeInv
  BY DEF LinkInv
<1>2. SearchTree(ft) /\ ft \in Seq(TableNode) /\ Found(ft)
  BY <1>1 DEF CodeInv, Listed, CallTableOK, SearchTree, Grown
<1>3. PICK chains : Shared(Nat, memory, Lists(ft), Len(ft), chains)
  BY <1>1 DEF CodeInv, Listed, CallTableOK
<1>4. ASSUME NEW a \in 1 .. Len(ft)
      PROVE  /\ Descend(ft, ft[a].function) = a
             /\ Chains(memory, ft[a].callsites) # {}
             /\ ToSet(ContentsOf(memory, ft[a].callsites)) = Calls(code, ft[a].function)
  <2>1. PICK node \in TableNode : node = ft[a]
    BY <1>2
  <2>2. PICK f \in Nat : f = ft[a].function
    BY <2>1 DEF TableNode
  <2>3. SitesOf(ft, memory, f) = ToSet(ContentsOf(memory, ft[a].callsites))
    BY <1>2, <2>2, ByNode
  <2>4. SitesOf(ft, memory, f) = Calls(code, f)
    BY <1>1 DEF CodeInv, Listed
  <2>5. Lists(ft)[a] = ft[a].callsites
    BY DEF Lists
  <2>6. PICK ll, chain : ll = ft[a].callsites /\ chain = chains[a] /\ Linked(Nat, memory, ll, chain)
    BY <1>3, <2>5 DEF Shared
  <2>7. Chains(memory, ll) = {chain}
    BY <2>6, ContentsByChain
  <2>8. QED
    BY <1>2, <2>2, <2>3, <2>4, <2>6, <2>7 DEF Found
<1>5. ASSUME NEW i \in 1 .. Len(code), code[i].op = "JMP" PROVE IsIn(ft, code[i].arg)
  <2>1. code[i].arg \in Known(ft)
    BY <1>1, <1>5 DEF CodeInv, Listed
  <2>2. QED
    BY <1>2, <2>1, KnownIsIn
<1>6. QED
  BY <1>4, <1>5

LEMMA ResolvedByInv ==
  ASSUME LinkInv, Len(ast) \in Nat
  PROVE  CallsResolved
<1> SUFFICES ASSUME phase = "linked", NEW k \in 1 .. Len(code), NEW f, f = code[k].arg
             PROVE  /\ code[k].op = "CALL" =>
                         ast[code[k].target].is_foreign /\ code[k].target \in FirstOf(f, Len(ast))
                    /\ code[k].op = "JMP" =>
                         /\ \A i \in FirstOf(f, Len(ast)) : ~ast[i].is_foreign
                         /\ \E i \in Definitions(f) :
                              /\ \A j \in Definitions(f) : j <= i
                              /\ code[k].target < Len(code) /\ BeginsAt(code, i, code[k].target)
  BY DEF CallsResolved
<1>1. CodeInv /\ Placed(Generated, Len(ast)) /\ PatchedTo(1 .. Len(ft))
  BY DEF LinkInv
<1>2. WordGood(code[k], Len(pool))
  BY <1>1 DEF CodeInv
<1>3. CASE code[k].op = "CALL"
  BY <1>2, <1>3 DEF WordGood
<1>4. CASE code[k].op = "JMP"
  <2>1. PICK i \in FirstOf(f, Len(ast)) : ~ast[i].is_foreign
    BY <1>2, <1>4 DEF WordGood
  <2>2. i \in 1 .. Len(ast) /\ ast[i].name = f /\ \A j \in 1 .. i - 1 : ast[j].name # f
    BY <2>1 DEF FirstOf
  <2>3. ASSUME NEW j \in FirstOf(f, Len(ast)) PROVE ~ast[j].is_foreign
    <3>1. j \in 1 .. Len(ast) /\ ast[j].name = f /\ \A h \in 1 .. j - 1 : ast[h].name # f
      BY DEF FirstOf
    <3>2. ~ (j < i)
      <4>1. j < i => j \in 1 .. i - 1
        BY <2>2, <3>1
      <4>2. QED
        BY <2>2, <3>1, <4>1
    <3>3. ~ (i < j)
      <4>1. i < j => i \in 1 .. j - 1
        BY <2>2, <3>1
      <4>2. QED
        BY <2>2, <3>1, <4>1
    <3>4. i = j
      BY <2>2, <3>1, <3>2, <3>3
    <3>5. QED
      BY <2>1, <3>4
  <2>4. i \in Definitions(f) /\ Definitions(f) \in SUBSET (1 .. Len(ast))
    BY <2>1, <2>2 DEF Definitions
  <2>5. PICK last \in Definitions(f) : \A j \in Definitions(f) : j <= last
    BY <2>4, GreatestElement
  <2>6. last \in 1 .. Len(ast) /\ last <= Len(ast)
    BY <2>4
  <2>7. f \in Known(ft) /\ f \in Nat
    BY <1>1, <1>2, <1>4 DEF CodeInv, Listed, WordGood, WordType
  <2>8. PICK a \in 1 .. Len(ft) : ft[a].function = f
    BY <2>7 DEF Known
  <2>9. LocationOf(ft, f) = ft[a].location
    BY <1>1, <2>8, ByNode DEF CodeInv, Listed, CallTableOK
  <2>10. code[k].target = LocationOf(ft, f)
    BY <1>1, <1>4, <2>8, <2>9 DEF PatchedTo
  <2>11. BeginsAt(code, last, LocationOf(ft, f)) /\ LocationOf(ft, f) \in 0 .. Len(code) - 1
    <3>1. PICK c : c = Generated /\ Placed(c, Len(ast))
      BY <1>1
    <3>2. c.code = code /\ c.ft = ft
      BY <3>1 DEF Generated
    <3>3. QED
      BY <2>5, <2>6, <2>7, <3>1, <3>2 DEF Placed
  <2>12. code[k].target < Len(code)
    <3>1. PICK N \in Nat, t \in Nat : N = Len(code) /\ t = LocationOf(ft, f) /\ t \in 0 .. N - 1
      BY <1>1, <2>11 DEF CodeInv
    <3>2. t < N
      BY <3>1
    <3>3. QED
      BY <2>10, <3>1, <3>2
  <2>13. QED
    BY <1>4, <2>3, <2>5, <2>10, <2>11, <2>12
<1>5. QED
  BY <1>3, <1>4

(* The pool's strings are at different places of the declarations.              *)
LEMMA StringsFinite ==
  ASSUME NEW decls \in Seq(Decl)
  PROVE  IsFiniteSet(StringsOf(decls)) /\ Cardinality(StringsOf(decls)) \in Nat
<1>1. ASSUME NEW i \in 1 .. Len(decls)
      PROVE  IsFiniteSet(UNION {{<<i, j, k>> : k \in 1 .. Len(decls[i].stmts[j].args)} : j \in 1 .. Len(decls[i].stmts)})
  <2>0. PICK decl \in Decl : decl = decls[i]
    OBVIOUS
  <2>1. PICK stmts \in Seq(Stmt) : stmts = decls[i].stmts
    BY <2>0 DEF Decl
  <2>2. ASSUME NEW j \in 1 .. Len(stmts)
        PROVE  IsFiniteSet({<<i, j, k>> : k \in 1 .. Len(stmts[j].args)})
    <3>0. PICK stmt \in Stmt : stmt = stmts[j]
      OBVIOUS
    <3>1. PICK args \in Seq(Nat) : args = stmts[j].args
      BY <3>0 DEF Stmt
    <3>2. IsFiniteSet(1 .. Len(args))
      BY FS_Interval
    <3> DEFINE f == [k \in 1 .. Len(args) |-> <<i, j, k>>]
               places == {<<i, j, k>> : k \in 1 .. Len(args)}
    <3>3. f \in Surjection(1 .. Len(args), places)
      BY DEF Surjection
    <3>4. IsFiniteSet(places)
      BY <3>2, <3>3, FS_Surjection
    <3>5. QED
      BY <3>1, <3>4
  <2>3. IsFiniteSet(1 .. Len(stmts))
    BY FS_Interval
  <2> DEFINE of(j) == {<<i, j, k>> : k \in 1 .. Len(stmts[j].args)}
  <2>4. IsFiniteSet({of(j) : j \in 1 .. Len(stmts)})
    <3> DEFINE f == [j \in 1 .. Len(stmts) |-> of(j)]
    <3>1. f \in Surjection(1 .. Len(stmts), {of(j) : j \in 1 .. Len(stmts)})
      BY DEF Surjection
    <3>2. QED
      BY <2>3, <3>1, FS_Surjection
  <2>5. \A T \in {of(j) : j \in 1 .. Len(stmts)} : IsFiniteSet(T)
    BY <2>2
  <2>6. IsFiniteSet(UNION {of(j) : j \in 1 .. Len(stmts)})
    BY <2>4, <2>5, FS_UNION
  <2>7. QED
    BY <2>1, <2>6
<1> DEFINE of(i) ==
      UNION {{<<i, j, k>> : k \in 1 .. Len(decls[i].stmts[j].args)} : j \in 1 .. Len(decls[i].stmts)}
<1>2. IsFiniteSet(1 .. Len(decls))
  BY FS_Interval
<1>3. \A i \in 1 .. Len(decls) : IsFiniteSet(of(i))
  BY <1>1
<1>4. StringsOf(decls) = UNION {of(i) : i \in 1 .. Len(decls)}
  BY DEF StringsOf
<1> HIDE DEF of
<1>5. IsFiniteSet({of(i) : i \in 1 .. Len(decls)})
  <2> DEFINE f == [i \in 1 .. Len(decls) |-> of(i)]
  <2>1. f \in Surjection(1 .. Len(decls), {of(i) : i \in 1 .. Len(decls)})
    BY DEF Surjection
  <2>2. QED
    BY <1>2, <2>1, FS_Surjection
<1>6. IsFiniteSet(StringsOf(decls))
  BY <1>3, <1>4, <1>5, FS_UNION
<1>7. QED
  BY <1>6, FS_CardinalityType

LEMMA PoolBound ==
  ASSUME PoolGood(pool), ast \in Seq(Decl)
  PROVE  Len(pool) <= Cardinality(StringsOf(ast))
<1> DEFINE place == [i \in 1 .. Len(pool) |-> CHOOSE p \in StringsOf(ast) : StringAt(p) = pool[i]]
<1>1. Len(pool) \in Nat
  BY DEF PoolGood
<1>2. ASSUME NEW i \in 1 .. Len(pool)
      PROVE  place[i] \in StringsOf(ast) /\ StringAt(place[i]) = pool[i]
  <2>1. \E p \in StringsOf(ast) : StringAt(p) = pool[i]
    BY DEF PoolGood, Printed
  <2>2. place[i] = CHOOSE p \in StringsOf(ast) : StringAt(p) = pool[i]
    OBVIOUS
  <2> HIDE DEF place
  <2>3. QED
    BY <2>1, <2>2
<1>3. place \in [1 .. Len(pool) -> StringsOf(ast)]
  <2>1. \A i \in 1 .. Len(pool) : (CHOOSE p \in StringsOf(ast) : StringAt(p) = pool[i]) \in StringsOf(ast)
    BY <1>2
  <2>2. QED
    BY <2>1
<1> HIDE DEF place
<1>4. ASSUME NEW i \in 1 .. Len(pool), NEW j \in 1 .. Len(pool), place[i] = place[j]
      PROVE  i = j
  <2>1. pool[i] = pool[j]
    BY <1>2, <1>4
  <2>2. QED
    BY <2>1 DEF PoolGood
<1>5. place \in Injection(1 .. Len(pool), StringsOf(ast))
  BY <1>3, <1>4 DEF Injection, IsInjective
<1>6. IsFiniteSet(StringsOf(ast)) /\ Cardinality(StringsOf(ast)) \in Nat
  BY StringsFinite
<1>7. Cardinality(1 .. Len(pool)) <= Cardinality(StringsOf(ast))
  BY <1>5, <1>6, FS_Injection
<1>8. Cardinality(1 .. Len(pool)) = Len(pool)
  <2>1. PICK n \in Nat : n = Len(pool)
    BY <1>1
  <2>2. Cardinality(1 .. n) = IF 1 > n THEN 0 ELSE n - 1 + 1
    BY FS_Interval
  <2>3. QED
    BY <2>1, <2>2
<1>9. QED
  BY <1>7, <1>8
-----------------------------------------------------------------------------
(* The strings are counted as declarations are added and checked.              *)
IsPlace(decls, p) ==
  \E i \in 1 .. Len(decls) : \E j \in 1 .. Len(decls[i].stmts) :
    \E k \in 1 .. Len(decls[i].stmts[j].args) : p = <<i, j, k>>
LEMMA StringPlace ==
  ASSUME NEW decls, NEW p
  PROVE  p \in StringsOf(decls) <=> IsPlace(decls, p)
<1> DEFINE In(i, j) == {<<i, j, k>> : k \in 1 .. Len(decls[i].stmts[j].args)}
           Of(i) == UNION {In(i, j) : j \in 1 .. Len(decls[i].stmts)}
<1>1. StringsOf(decls) = UNION {Of(i) : i \in 1 .. Len(decls)}
  BY DEF StringsOf
<1>2. \A i, j : p \in In(i, j) <=> \E k \in 1 .. Len(decls[i].stmts[j].args) : p = <<i, j, k>>
  OBVIOUS
<1> HIDE DEF In
<1>3. \A i : p \in Of(i) <=> \E j \in 1 .. Len(decls[i].stmts) : p \in In(i, j)
  OBVIOUS
<1> HIDE DEF Of
<1>4. p \in StringsOf(decls) <=> \E i \in 1 .. Len(decls) : p \in Of(i)
  BY <1>1
<1>5. QED
  BY <1>2, <1>3, <1>4 DEF IsPlace

LEMMA UnionBound ==
  ASSUME NEW S, NEW T, IsFiniteSet(S), IsFiniteSet(T), NEW both, both = S \cup T
  PROVE  Cardinality(both) <= Cardinality(S) + Cardinality(T) /\ IsFiniteSet(both)
<1>1. IsFiniteSet(both) /\ Cardinality(both) = Cardinality(S) + Cardinality(T) - Cardinality(S \cap T)
  BY FS_Union
<1>2. IsFiniteSet(S \cap T)
  BY FS_Intersection
<1>3. Cardinality(S) \in Nat /\ Cardinality(T) \in Nat /\ Cardinality(S \cap T) \in Nat
  BY <1>2, FS_CardinalityType
<1>4. QED
  BY <1>1, <1>3

LEMMA StringsConcat ==
  ASSUME NEW s \in Seq(Decl), NEW t \in Seq(Decl)
  PROVE  Cardinality(StringsOf(s \o t)) <= Cardinality(StringsOf(s)) + Cardinality(StringsOf(t))
<1>1. PICK m \in Nat, n \in Nat : m = Len(s) /\ n = Len(t)
  OBVIOUS
<1>2. PICK u : u = s \o t
  OBVIOUS
<1>3. /\ u \in Seq(Decl) /\ Len(u) = m + n
      /\ \A i \in 1 .. m : u[i] = s[i]
      /\ \A i \in 1 .. n : u[m + i] = t[i]
  BY <1>1, <1>2
<1> DEFINE shift == [p \in StringsOf(t) |-> <<m + p[1], p[2], p[3]>>]
           shifted == {shift[p] : p \in StringsOf(t)}
<1>4. StringsOf(u) \subseteq StringsOf(s) \cup shifted
  <2>1. SUFFICES ASSUME NEW p \in StringsOf(u) PROVE p \in StringsOf(s) \cup shifted
    OBVIOUS
  <2>2. PICK i \in 1 .. Len(u) : \E j \in 1 .. Len(u[i].stmts) : \E k \in 1 .. Len(u[i].stmts[j].args) : p = <<i, j, k>>
    <3>1. IsPlace(u, p)
      BY StringPlace
    <3>2. QED
      BY <3>1 DEF IsPlace
  <2>3. PICK j \in 1 .. Len(u[i].stmts) : \E k \in 1 .. Len(u[i].stmts[j].args) : p = <<i, j, k>>
    BY <2>2
  <2>4. PICK k \in 1 .. Len(u[i].stmts[j].args) : p = <<i, j, k>>
    BY <2>3
  <2>5. CASE i \in 1 .. m
    <3>1. u[i] = s[i] /\ i \in 1 .. Len(s)
      BY <1>1, <1>3, <2>5
    <3>2. QED
      BY <2>4, <3>1, StringPlace DEF IsPlace
  <2>6. CASE i \notin 1 .. m
    <3>1. PICK h \in 1 .. n : i = m + h
      <4>1. i - m \in 1 .. n /\ i = m + (i - m)
        BY <1>3, <2>6
      <4>2. QED
        BY <4>1
    <3>2. u[i] = t[h] /\ h \in 1 .. Len(t)
      BY <1>1, <1>3, <3>1
    <3>3. PICK q : q = <<h, j, k>>
      OBVIOUS
    <3>4. q \in StringsOf(t)
      BY <2>4, <3>2, <3>3, StringPlace DEF IsPlace
    <3>5. shift[q] = p
      BY <2>4, <3>1, <3>3, <3>4
    <3>6. QED
      BY <3>4, <3>5
  <2>7. QED
    BY <2>5, <2>6
<1>5. shift \in Surjection(StringsOf(t), shifted)
  <2>1. shift \in [StringsOf(t) -> shifted]
    OBVIOUS
  <2>2. QED
    BY <2>1 DEF Surjection
<1>6. /\ IsFiniteSet(StringsOf(s)) /\ Cardinality(StringsOf(s)) \in Nat
      /\ IsFiniteSet(StringsOf(t)) /\ Cardinality(StringsOf(t)) \in Nat
      /\ Cardinality(StringsOf(u)) \in Nat
  BY <1>3, StringsFinite
<1> HIDE DEF shift
<1>7. IsFiniteSet(shifted) /\ Cardinality(shifted) <= Cardinality(StringsOf(t)) /\ Cardinality(shifted) \in Nat
  <2>1. IsFiniteSet(shifted) /\ Cardinality(shifted) <= Cardinality(StringsOf(t))
    BY <1>5, <1>6, FS_Surjection
  <2>2. QED
    BY <2>1, FS_CardinalityType
<1> HIDE DEF shifted
<1>8. PICK both : both = StringsOf(s) \cup shifted
  OBVIOUS
<1>9. Cardinality(both) <= Cardinality(StringsOf(s)) + Cardinality(shifted) /\ IsFiniteSet(both)
  BY <1>6, <1>7, <1>8, UnionBound
<1>10. Cardinality(StringsOf(u)) <= Cardinality(both) /\ Cardinality(both) \in Nat
  BY <1>4, <1>8, <1>9, FS_Subset, FS_CardinalityType
<1>11. QED
  BY <1>2, <1>6, <1>7, <1>9, <1>10

LEMMA CheckedArgs ==
  ASSUME NEW stmt \in Stmt
  PROVE  /\ Len(stmt.args) \in Nat
         /\ Len(Checked(stmt).args) = IF AddsNewline(stmt) THEN Len(stmt.args) + 1 ELSE Len(stmt.args)
<1>1. stmt.args \in Seq(Nat)
  BY DEF Stmt
<1>2. CASE AddsNewline(stmt)
  <2>1. PICK longer : longer = Append(stmt.args, Newline) /\ Len(longer) = Len(stmt.args) + 1
    <3>1. PICK args \in Seq(Nat), new \in Nat : args = stmt.args /\ new = Newline
      BY <1>1 DEF Newline
    <3>2. Len(Append(args, new)) = Len(args) + 1
      BY AppendProperties
    <3>3. QED
      BY <3>1, <3>2
  <2>2. Checked(stmt) = [stmt EXCEPT !.args = longer]
    BY <1>2, <2>1 DEF Checked
  <2>3. Checked(stmt).args = longer
    BY <2>2 DEF Stmt
  <2>4. QED
    BY <1>1, <1>2, <2>1, <2>3
<1>3. CASE ~AddsNewline(stmt)
  BY <1>1, <1>3 DEF Checked
<1>4. QED
  BY <1>2, <1>3

(* The type checker reaches the statements before the first that it refuses.     *)
LEMMA ReachedPrefix ==
  ASSUME NEW n \in Nat, NEW bad \in SUBSET (1 .. n)
  PROVE  \E m \in 0 .. n : {i \in 1 .. n : \A b \in bad : i < b} = 1 .. m
<1>1. CASE bad = {}
  <2>1. {i \in 1 .. n : \A b \in bad : i < b} = 1 .. n
    BY <1>1
  <2>2. QED
    BY <2>1
<1>2. CASE bad # {}
  <2>1. PICK first \in bad : \A b \in bad : first <= b
    <3>1. bad \in SUBSET Nat
      OBVIOUS
    <3>2. QED
      BY <1>2, <3>1, LeastElement
  <2>2. {i \in 1 .. n : \A b \in bad : i < b} = 1 .. first - 1
    <3>1. ASSUME NEW i \in 1 .. first - 1, NEW b \in bad PROVE i < b
      BY <2>1
    <3>2. ASSUME NEW i \in 1 .. n, \A b \in bad : i < b PROVE i \in 1 .. first - 1
      BY <2>1, <3>2
    <3>3. \A i \in 1 .. first - 1 : i \in 1 .. n
      OBVIOUS
    <3>4. QED
      BY <3>1, <3>2, <3>3
  <2>3. first - 1 \in 0 .. n
    BY <2>1
  <2>4. QED
    BY <2>2, <2>3
<1>3. QED
  BY <1>1, <1>2

LEMMA CheckCounts ==
  ASSUME ast \in Seq(Decl), ast' \in Seq(Decl), next \in 1 .. Len(ast) + 1, CheckFunction,
         string_count \in Nat, Cardinality(StringsOf(ast)) <= string_count
  PROVE  string_count' \in Nat /\ Cardinality(StringsOf(ast')) <= string_count'
<1> DEFINE stmts == ast[next].stmts
           bad == {i \in 1 .. Len(stmts) : ~ChecksOK(stmts[i])}
           reached == {i \in 1 .. Len(stmts) : \A b \in bad : i < b}
           visited == SubSeq(stmts, 1, Cardinality(reached))
           new == [i \in 1 .. Len(stmts) |-> IF i \in reached THEN Checked(stmts[i]) ELSE stmts[i]]
<1>1. /\ next <= Len(ast) /\ ast' = [ast EXCEPT ![next].stmts = new]
      /\ string_count' = string_count + NewStrings(visited)
  BY DEF CheckFunction
<1>2. next \in 1 .. Len(ast) /\ Len(ast) \in Nat
  BY <1>1
<1>3. PICK decl \in Decl : decl = ast[next]
  BY <1>2
<1>4. PICK old \in Seq(Stmt) : old = decl.stmts /\ old = stmts
  BY <1>3 DEF Decl
<1>5. PICK n \in Nat : n = Len(old)
  OBVIOUS
<1>6. PICK m \in 0 .. n : reached = 1 .. m
  <2>1. bad \in SUBSET (1 .. n)
    BY <1>4, <1>5
  <2>2. reached = {i \in 1 .. n : \A b \in bad : i < b}
    BY <1>4, <1>5
  <2> HIDE DEF bad, reached
  <2>3. QED
    BY <2>1, <2>2, ReachedPrefix
<1>7. new = [i \in 1 .. n |-> IF i \in 1 .. m THEN Checked(old[i]) ELSE old[i]]
  BY <1>4, <1>5, <1>6
<1>8. visited = SubSeq(old, 1, m)
  <2>1. Cardinality(1 .. m) = m
    <3>1. Cardinality(1 .. m) = IF 1 > m THEN 0 ELSE m - 1 + 1
      BY FS_Interval
    <3>2. QED
      BY <3>1
  <2>2. QED
    BY <1>4, <1>6, <2>1
<1> HIDE DEF reached, bad
<1>9. PICK after : after = new
  OBVIOUS
<1>10. /\ \A i \in 1 .. Len(ast) : i # next => ast'[i] = ast[i]
       /\ ast'[next].stmts = after /\ Len(ast') = Len(ast)
  <2>1. PICK checked : checked = [decl EXCEPT !.stmts = after]
    OBVIOUS
  <2>2. checked.stmts = after
    BY <2>1 DEF Decl
  <2>3. ast' = [ast EXCEPT ![next] = checked]
    BY <1>1, <1>3, <1>9, <2>1
  <2>4. QED
    BY <1>2, <2>2, <2>3
<1> HIDE DEF new
<1>11. after \in Seq(Stmt) /\ Len(after) = n
  <2>1. DOMAIN after = 1 .. n
    BY <1>7, <1>9
  <2>2. after = decl.stmts \/ ast'[next] \in Decl
    BY <1>2, <1>10
  <2>3. after \in Seq(Stmt)
    BY <1>3, <1>10, <2>2 DEF Decl
  <2>4. QED
    BY <2>1, <2>3
<1> DEFINE N == {i \in 1 .. m : AddsNewline(old[i])}
           place == [i \in N |-> <<next, i, Len(old[i].args) + 1>>]
           fresh == {place[i] : i \in N}
<1>12. StringsOf(ast') \subseteq StringsOf(ast) \cup fresh
  <2>1. SUFFICES ASSUME NEW p \in StringsOf(ast') PROVE p \in StringsOf(ast) \cup fresh
    OBVIOUS
  <2>2. PICK i \in 1 .. Len(ast') :
          \E j \in 1 .. Len(ast'[i].stmts) : \E k \in 1 .. Len(ast'[i].stmts[j].args) : p = <<i, j, k>>
    <3>1. PICK decls : decls = ast'
      OBVIOUS
    <3>2. IsPlace(decls, p)
      BY <2>1, <3>1, StringPlace
    <3>3. QED
      BY <3>1, <3>2 DEF IsPlace
  <2>3. PICK j \in 1 .. Len(ast'[i].stmts) : \E k \in 1 .. Len(ast'[i].stmts[j].args) : p = <<i, j, k>>
    BY <2>2
  <2>4. PICK k \in 1 .. Len(ast'[i].stmts[j].args) : p = <<i, j, k>>
    BY <2>3
  <2>5. CASE i # next
    <3>1. i \in 1 .. Len(ast) /\ ast'[i] = ast[i]
      BY <1>10, <2>5
    <3>2. QED
      BY <2>4, <3>1, StringPlace DEF IsPlace
  <2>6. CASE i = next
    <3>1. j \in 1 .. n /\ k \in 1 .. Len(after[j].args)
      BY <1>10, <1>11, <2>4, <2>6
    <3>2. PICK stmt \in Stmt : stmt = old[j]
      BY <1>5, <3>1
    <3>3. after[j] = IF j \in 1 .. m THEN Checked(stmt) ELSE stmt
      BY <1>7, <1>9, <3>1, <3>2
    <3>4. PICK len \in Nat : len = Len(stmt.args)
      BY CheckedArgs
    <3>5. k \in 1 .. len \/ (j \in N /\ k = len + 1)
      <4>1. CASE j \in 1 .. m /\ AddsNewline(stmt)
        <5>1. k \in 1 .. len + 1
          BY <3>1, <3>3, <3>4, <4>1, CheckedArgs
        <5>2. QED
          BY <3>2, <4>1, <5>1
      <4>2. CASE ~ (j \in 1 .. m /\ AddsNewline(stmt))
        <5>1. Len(after[j].args) = len
          BY <3>3, <3>4, <4>2, CheckedArgs
        <5>2. QED
          BY <3>1, <5>1
      <4>3. QED
        BY <4>1, <4>2
    <3>6. CASE k \in 1 .. len
      <4>1. j \in 1 .. Len(ast[next].stmts) /\ k \in 1 .. Len(ast[next].stmts[j].args)
        BY <1>4, <1>5, <3>1, <3>2, <3>4, <3>6
      <4>2. p \in StringsOf(ast)
        BY <1>2, <2>4, <2>6, <4>1, StringPlace DEF IsPlace
      <4>3. QED
        BY <4>2
    <3>7. CASE j \in N /\ k = len + 1
      <4>1. place[j] = p
        BY <2>4, <2>6, <3>2, <3>4, <3>7
      <4>2. QED
        BY <3>7, <4>1
    <3>8. QED
      BY <3>5, <3>6, <3>7
  <2>7. QED
    BY <2>5, <2>6
<1>13. IsFiniteSet(N) /\ Cardinality(N) \in Nat
  <2>1. IsFiniteSet(1 .. m)
    BY FS_Interval
  <2>2. IsFiniteSet(N)
    BY <2>1, FS_Subset
  <2>3. QED
    BY <2>2, FS_CardinalityType
<1>14. NewStrings(visited) = Cardinality(N)
  <2>1. PICK prefix : prefix = SubSeq(old, 1, m)
    OBVIOUS
  <2>2. Len(prefix) = m /\ \A i \in 1 .. m : prefix[i] = old[i]
    BY <1>5, <2>1, SubSeqProperties
  <2>3. {i \in 1 .. Len(prefix) : AddsNewline(prefix[i])} = N
    BY <2>2
  <2>4. QED
    BY <1>8, <2>1, <2>3 DEF NewStrings
<1>15. place \in Surjection(N, fresh)
  <2>1. place \in [N -> fresh]
    OBVIOUS
  <2>2. QED
    BY <2>1 DEF Surjection
<1> HIDE DEF N, place
<1>16. IsFiniteSet(fresh) /\ Cardinality(fresh) <= Cardinality(N) /\ Cardinality(fresh) \in Nat
  <2>1. IsFiniteSet(fresh) /\ Cardinality(fresh) <= Cardinality(N)
    BY <1>13, <1>15, FS_Surjection
  <2>2. QED
    BY <2>1, FS_CardinalityType
<1> HIDE DEF fresh
<1>17. IsFiniteSet(StringsOf(ast)) /\ Cardinality(StringsOf(ast)) \in Nat /\ Cardinality(StringsOf(ast')) \in Nat
  BY StringsFinite
<1>18. PICK both : both = StringsOf(ast) \cup fresh
  OBVIOUS
<1>19. Cardinality(both) <= Cardinality(StringsOf(ast)) + Cardinality(fresh) /\ IsFiniteSet(both)
  BY <1>16, <1>17, <1>18, UnionBound
<1>20. Cardinality(StringsOf(ast')) <= Cardinality(both) /\ Cardinality(both) \in Nat
  BY <1>12, <1>18, <1>19, FS_Subset, FS_CardinalityType
<1>21. QED
  BY <1>1, <1>13, <1>14, <1>16, <1>17, <1>19, <1>20, SMTT(30)
=============================================================================
