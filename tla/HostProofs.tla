------------------------------ MODULE HostProofs ------------------------------
(***************************************************************************)
(* However often a compiler is used, whatever names collide and whatever     *)
(* texts are refused: the function table answers with the first declaration  *)
(* of a name and always has room for the next, linked code calls what its    *)
(* names stand for, the string pool suffices, a program stays whole until    *)
(* the host frees it, and nothing is left when all is freed.                 *)
(***************************************************************************)
EXTENDS Host, LinkingProofs

Entry == [name : Nat, decl : Nat]

(* The slots hold declarations 1 .. n of names, and the search for a name       *)
(* passes only earlier declarations before each of them.                      *)
Stored(tab, size, names, n) ==
  /\ tab \in [0 .. size - 1 -> Entry]
  /\ \A s \in 0 .. size - 1 :
       tab[s].name # 0 => tab[s].decl \in 1 .. n /\ names[tab[s].decl] = tab[s].name
  /\ \A s, t \in 0 .. size - 1 : tab[s].name # 0 /\ tab[t].name # 0 /\ tab[s].decl = tab[t].decl => s = t
  /\ \A i \in 1 .. n :
       \E k \in 0 .. size - 1 :
         /\ tab[Probe(size, names[i], k)] = [name |-> names[i], decl |-> i]
         /\ \A j \in 0 .. k - 1 :
              LET slot == tab[Probe(size, names[i], j)] IN slot.name # 0 /\ slot.decl < i
-----------------------------------------------------------------------------
LEMMA ProbeInRange ==
  ASSUME NEW size \in Nat \ {0}, NEW name \in Nat, NEW k \in Nat
  PROVE  Probe(size, name, k) \in 0 .. size - 1
<1>1. name + k \in Nat
  OBVIOUS
<1>2. (name + k) % size \in 0 .. size - 1
  BY <1>1
<1>3. QED
  BY <1>2 DEF Probe

LEMMA ProbesInRange ==
  ASSUME NEW size \in Nat \ {0}, NEW name \in Nat
  PROVE  \A k \in 0 .. size - 1 : Probe(size, name, k) \in 0 .. size - 1
<1> TAKE k \in 0 .. size - 1
<1>1. k \in Nat
  OBVIOUS
<1>2. QED
  BY <1>1, ProbeInRange, Zenon

(* find_open_loc keeps the table as it should be.                            *)
LEMMA AddKeepsStored ==
  ASSUME NEW size \in Nat \ {0}, NEW n \in Nat, NEW names, \A i \in 1 .. n + 1 : names[i] \in Nat \ {0},
         NEW tab, Stored(tab, size, names, n),
         NEW new, new \in AddTo(tab, size, names[n + 1], [name |-> names[n + 1], decl |-> n + 1])
  PROVE  Stored(new, size, names, n + 1)
<1>1. PICK f \in Nat \ {0} : f = names[n + 1]
  OBVIOUS
<1>2. PICK k \in 0 .. size - 1 :
        /\ tab[Probe(size, f, k)].name = 0
        /\ \A j \in 0 .. k - 1 : tab[Probe(size, f, j)].name # 0
        /\ new = [tab EXCEPT ![Probe(size, f, k)] = [name |-> f, decl |-> n + 1]]
  BY <1>1 DEF AddTo, FirstOpen
<1>3. PICK e : e = [name |-> f, decl |-> n + 1]
  OBVIOUS
<1>4. e \in Entry /\ e.name = f /\ e.decl = n + 1
  BY <1>3 DEF Entry
<1>5. PICK s \in 0 .. size - 1 : s = Probe(size, f, k)
  <2>1. f \in Nat
    OBVIOUS
  <2>2. Probe(size, f, k) \in 0 .. size - 1
    BY <2>1, ProbesInRange, Zenon
  <2>3. QED
    BY <2>2
<1>6. tab \in [0 .. size - 1 -> Entry]
  BY DEF Stored
<1>7. /\ new \in [0 .. size - 1 -> Entry] /\ new[s] = e
      /\ \A q \in 0 .. size - 1 : q # s => new[q] = tab[q]
  BY <1>2, <1>3, <1>4, <1>5, <1>6
<1>8. \A q \in 0 .. size - 1 :
        new[q].name # 0 => new[q].decl \in 1 .. n + 1 /\ names[new[q].decl] = new[q].name
  <2> TAKE q \in 0 .. size - 1
  <2>1. CASE q = s
    BY <1>1, <1>4, <1>7, <2>1
  <2>2. CASE q # s
    <3>1. tab[q].name # 0 => tab[q].decl \in 1 .. n /\ names[tab[q].decl] = tab[q].name
      BY DEF Stored
    <3>2. new[q] = tab[q]
      BY <1>7, <2>2
    <3>3. QED
      BY <3>1, <3>2
  <2>3. QED
    BY <2>1, <2>2
<1>9. ASSUME NEW i \in 1 .. n
      PROVE  \E h \in 0 .. size - 1 :
               /\ new[Probe(size, names[i], h)] = [name |-> names[i], decl |-> i]
               /\ \A j \in 0 .. h - 1 : /\ new[Probe(size, names[i], j)].name # 0
                                        /\ new[Probe(size, names[i], j)].decl < i
  <2>1. PICK g \in Nat \ {0} : g = names[i]
    OBVIOUS
  <2>2. PICK h \in 0 .. size - 1 :
          /\ tab[Probe(size, g, h)] = [name |-> g, decl |-> i]
          /\ \A j \in 0 .. h - 1 : tab[Probe(size, g, j)].name # 0 /\ tab[Probe(size, g, j)].decl < i
    BY <2>1 DEF Stored
  <2>3. \A j \in 0 .. size - 1 : Probe(size, g, j) \in 0 .. size - 1
    <3>1. g \in Nat
      OBVIOUS
    <3>2. QED
      BY <3>1, ProbesInRange, Zenon
  <2>4. tab[s].name = 0
    BY <1>2, <1>5
  <2>5. Probe(size, g, h) # s
    BY <2>1, <2>2, <2>4
  <2>6. new[Probe(size, g, h)] = [name |-> g, decl |-> i]
    BY <1>7, <2>2, <2>3, <2>5
  <2>7. \A j \in 0 .. h - 1 : new[Probe(size, g, j)].name # 0 /\ new[Probe(size, g, j)].decl < i
    <3> TAKE j \in 0 .. h - 1
    <3>1. j \in 0 .. size - 1
      OBVIOUS
    <3>2. Probe(size, g, j) \in 0 .. size - 1 /\ Probe(size, g, j) # s
      BY <2>2, <2>3, <2>4, <3>1
    <3>3. QED
      BY <1>7, <2>2, <3>2
  <2>8. QED
    BY <2>1, <2>6, <2>7
<1>10. \A j \in 0 .. k - 1 : new[Probe(size, f, j)].name # 0 /\ new[Probe(size, f, j)].decl < n + 1
  <2> TAKE j \in 0 .. k - 1
  <2>1. j \in 0 .. size - 1
    OBVIOUS
  <2>2. PICK q \in 0 .. size - 1 : q = Probe(size, f, j)
    <3>1. f \in Nat
      OBVIOUS
    <3>2. Probe(size, f, j) \in 0 .. size - 1
      BY <2>1, <3>1, ProbesInRange, Zenon
    <3>3. QED
      BY <3>2
  <2>3. tab[q].name # 0 /\ q # s
    BY <1>2, <1>5, <2>2
  <2>4. tab[q].decl \in 1 .. n /\ new[q] = tab[q]
    BY <1>7, <2>3 DEF Stored
  <2>5. QED
    BY <2>2, <2>3, <2>4
<1>11. \E h \in 0 .. size - 1 :
         /\ new[Probe(size, names[n + 1], h)] = [name |-> names[n + 1], decl |-> n + 1]
         /\ \A j \in 0 .. h - 1 : /\ new[Probe(size, names[n + 1], j)].name # 0
                                  /\ new[Probe(size, names[n + 1], j)].decl < n + 1
  BY <1>1, <1>3, <1>5, <1>7, <1>10
<1>12. \A i \in 1 .. n + 1 : i \in 1 .. n \/ i = n + 1
  OBVIOUS
<1>13. \A i \in 1 .. n + 1 :
         \E h \in 0 .. size - 1 :
           /\ new[Probe(size, names[i], h)] = [name |-> names[i], decl |-> i]
           /\ \A j \in 0 .. h - 1 : /\ new[Probe(size, names[i], j)].name # 0
                                    /\ new[Probe(size, names[i], j)].decl < i
  <2> TAKE i \in 1 .. n + 1
  <2>1. CASE i \in 1 .. n
    BY <1>9, <2>1, Zenon
  <2>2. CASE i = n + 1
    BY <1>11, <2>2, Zenon
  <2>3. QED
    BY <1>12, <2>1, <2>2
<1>14. ASSUME NEW q \in 0 .. size - 1, NEW t \in 0 .. size - 1,
              new[q].name # 0, new[t].name # 0, new[q].decl = new[t].decl
       PROVE  q = t
  <2>1. \A r \in 0 .. size - 1 : tab[r].name # 0 => tab[r].decl # n + 1
    BY DEF Stored
  <2>2. q = s <=> t = s
    BY <1>4, <1>7, <1>14, <2>1
  <2>3. QED
    BY <1>7, <1>14, <2>2 DEF Stored
<1>15. QED
  BY <1>7, <1>8, <1>13, <1>14, Zenon DEF Stored

(* A table with fewer declarations than slots has room for one more: the rounds of *)
(* find_open_loc look at different slots, and not all of those are taken.       *)
LEMMA Multiples ==
  ASSUME NEW size \in Nat \ {0}, NEW p \in Int, NEW q \in Int, p < q
  PROVE  size * q >= size * p + size
<1>1. q - p \in Int /\ q - p >= 1
  OBVIOUS
<1>2. \A d \in Int : d >= 1 => size * d >= size
  OBVIOUS
<1>3. size * (q - p) = size * q - size * p
  OBVIOUS
<1>4. QED
  BY <1>1, <1>2, <1>3

LEMMA ProbesDiffer ==
  ASSUME NEW size \in Nat \ {0}, NEW name \in Nat, NEW j \in 0 .. size - 1, NEW k \in 0 .. size - 1,
         Probe(size, name, j) = Probe(size, name, k)
  PROVE  j = k
<1>1. PICK a \in Nat, b \in Nat : a = name + j /\ b = name + k
  OBVIOUS
<1>2. a = size * (a \div size) + (a % size) /\ b = size * (b \div size) + (b % size)
  OBVIOUS
<1>3. a % size \in 0 .. size - 1 /\ a % size = b % size /\ a \div size \in Int /\ b \div size \in Int
  BY <1>1 DEF Probe
<1>4. PICK p \in Int, q \in Int : p = a \div size /\ q = b \div size
  BY <1>3
<1>5. size * p - size * q = a - b /\ a - b = j - k
  BY <1>1, <1>2, <1>3, <1>4
<1>6. ~ (p < q) /\ ~ (q < p)
  BY <1>5, Multiples
<1>7. QED
  BY <1>5, <1>6

LEMMA RoomStored ==
  ASSUME NEW size \in Nat \ {0}, NEW n \in 0 .. size - 1, NEW names,
         NEW tab, Stored(tab, size, names, n), NEW f \in Nat
  PROVE  FirstOpen(tab, size, f) # {}
<1>1. \A k \in 0 .. size - 1 : Probe(size, f, k) \in 0 .. size - 1
  BY ProbesInRange, Zenon
<1> DEFINE open == {k \in 0 .. size - 1 : tab[Probe(size, f, k)].name = 0}
<1>2. open # {}
  <2> SUFFICES ASSUME open = {} PROVE FALSE
    OBVIOUS
  <2> DEFINE held == [k \in 0 .. size - 1 |-> tab[Probe(size, f, k)].decl]
  <2>1. \A k \in 0 .. size - 1 : tab[Probe(size, f, k)].name # 0
    OBVIOUS
  <2>2. held \in [0 .. size - 1 -> 1 .. n]
    BY <1>1, <2>1 DEF Stored
  <2>3. PICK S, T : S = 0 .. size - 1 /\ T = 1 .. n
    OBVIOUS
  <2>4. IsFiniteSet(S) /\ IsFiniteSet(T)
    <3>1. size - 1 \in Int /\ n \in Int /\ 0 \in Int /\ 1 \in Int
      OBVIOUS
    <3>2. QED
      BY <2>3, <3>1, FS_Interval, Zenon
  <2>5. Cardinality(T) < Cardinality(S)
    <3>1. PICK top \in Int : top = size - 1 /\ top >= n
      OBVIOUS
    <3>2. Cardinality(0 .. top) = IF 0 > top THEN 0 ELSE top - 0 + 1
      BY FS_Interval
    <3>3. Cardinality(1 .. n) = IF 1 > n THEN 0 ELSE n - 1 + 1
      BY FS_Interval
    <3>4. QED
      BY <2>3, <3>1, <3>2, <3>3
  <2> HIDE DEF held
  <2>6. PICK j \in 0 .. size - 1, k \in 0 .. size - 1 : j # k /\ held[j] = held[k]
    <3>1. held \in [S -> T]
      BY <2>2, <2>3
    <3>2. \E x, y \in S : x # y /\ held[x] = held[y]
      BY <2>4, <2>5, <3>1, FS_PigeonHole
    <3>3. QED
      BY <2>3, <3>2
  <2>7. tab[Probe(size, f, j)].decl = tab[Probe(size, f, k)].decl
    BY <2>6 DEF held
  <2>8. Probe(size, f, j) = Probe(size, f, k)
    <3>1. PICK a \in 0 .. size - 1, b \in 0 .. size - 1 : a = Probe(size, f, j) /\ b = Probe(size, f, k)
      BY <1>1
    <3>2. tab[a].name # 0 /\ tab[b].name # 0 /\ tab[a].decl = tab[b].decl
      BY <2>1, <2>7, <3>1
    <3>3. a = b
      BY <3>2 DEF Stored
    <3>4. QED
      BY <3>1, <3>3
  <2>9. QED
    BY <2>6, <2>8, ProbesDiffer
<1>3. PICK k \in open : \A j \in open : k <= j
  BY <1>2, LeastElement, open \in SUBSET Nat
<1>4. k \in FirstOpen(tab, size, f)
  BY <1>3 DEF FirstOpen
<1>5. QED
  BY <1>4

(* table_lookup then finds the first declaration of a name, if there is one.    *)
Answers(tab, size, names, n, f) ==
  /\ IsKnown(tab, size, f) =>
       /\ table_lookup(tab, size, f).decl \in 1 .. n
       /\ names[table_lookup(tab, size, f).decl] = f
       /\ \A j \in 1 .. n : names[j] = f => table_lookup(tab, size, f).decl <= j
  /\ ~IsKnown(tab, size, f) => \A j \in 1 .. n : names[j] # f
LEMMA LookupStored ==
  ASSUME NEW size \in Nat \ {0}, NEW n \in Nat, NEW names, \A i \in 1 .. n : names[i] \in Nat \ {0},
         NEW tab, Stored(tab, size, names, n), NEW f \in Nat \ {0}
  PROVE  Answers(tab, size, names, n, f)
<1> SUFFICES /\ IsKnown(tab, size, f) =>
                  /\ table_lookup(tab, size, f).decl \in 1 .. n
                  /\ names[table_lookup(tab, size, f).decl] = f
                  /\ \A j \in 1 .. n : names[j] = f => table_lookup(tab, size, f).decl <= j
             /\ ~IsKnown(tab, size, f) => \A j \in 1 .. n : names[j] # f
  BY Zenon DEF Answers
<1>0. \A k \in 0 .. size - 1 : Probe(size, f, k) \in 0 .. size - 1
  <2>1. f \in Nat
    OBVIOUS
  <2>2. QED
    BY <2>1, ProbesInRange, Zenon
<1>1. ASSUME NEW i \in 1 .. n, names[i] = f, \A j \in 1 .. n : names[j] = f => i <= j
      PROVE  \A k \in Hits(tab, size, f) : tab[Probe(size, f, k)].decl = i
  <2>1. PICK h \in 0 .. size - 1 :
          /\ tab[Probe(size, f, h)] = [name |-> f, decl |-> i]
          /\ \A j \in 0 .. h - 1 : tab[Probe(size, f, j)].name # 0 /\ tab[Probe(size, f, j)].decl < i
    BY <1>1 DEF Stored
  <2>2. SUFFICES ASSUME NEW k \in Hits(tab, size, f) PROVE tab[Probe(size, f, k)].decl = i
    OBVIOUS
  <2>3. /\ k \in 0 .. size - 1 /\ tab[Probe(size, f, k)].name = f
        /\ \A j \in 0 .. k - 1 : tab[Probe(size, f, j)].name # f
    BY DEF Hits
  <2>4. ~ (h < k)
    BY <2>1, <2>3
  <2>5. PICK s \in 0 .. size - 1 : s = Probe(size, f, k)
    BY <1>0, <2>3
  <2>6. tab[s].decl \in 1 .. n /\ names[tab[s].decl] = f
    BY <2>3, <2>5 DEF Stored
  <2>7. ~ (k < h)
    BY <1>1, <2>1, <2>3, <2>5, <2>6
  <2>8. k = h
    BY <2>3, <2>4, <2>7
  <2>9. QED
    BY <2>1, <2>8
<1>2. ASSUME NEW i \in 1 .. n, names[i] = f PROVE IsKnown(tab, size, f)
  <2> DEFINE T == {k \in 0 .. size - 1 : tab[Probe(size, f, k)].name = f}
  <2>0. PICK h \in 0 .. size - 1 : tab[Probe(size, f, h)] = [name |-> f, decl |-> i]
    BY <1>2 DEF Stored
  <2>1. T # {} /\ T \in SUBSET Nat
    <3>1. h \in T
      BY <2>0
    <3>2. QED
      BY <3>1
  <2>2. PICK k \in T : \A j \in T : k <= j
    BY <2>1, LeastElement
  <2>3. k \in Hits(tab, size, f)
    BY <2>2 DEF Hits
  <2>4. QED
    BY <2>3 DEF IsKnown
<1>3. ASSUME IsKnown(tab, size, f)
      PROVE  /\ table_lookup(tab, size, f).decl \in 1 .. n
             /\ names[table_lookup(tab, size, f).decl] = f
             /\ \A j \in 1 .. n : names[j] = f => table_lookup(tab, size, f).decl <= j
  <2>1. PICK k \in Hits(tab, size, f) : table_lookup(tab, size, f) = tab[Probe(size, f, k)]
    BY <1>3 DEF IsKnown, table_lookup
  <2>2. PICK s \in 0 .. size - 1 : s = Probe(size, f, k) /\ tab[s].name = f
    BY <1>0, <2>1 DEF Hits
  <2>3. tab[s].decl \in 1 .. n /\ names[tab[s].decl] = f
    BY <2>2 DEF Stored
  <2> DEFINE T == {j \in 1 .. n : names[j] = f}
  <2>4. PICK i \in T : \A j \in T : i <= j
    BY <2>3, LeastElement, T \in SUBSET Nat
  <2>5. tab[s].decl = i
    BY <1>1, <2>1, <2>2, <2>4
  <2>6. QED
    BY <2>1, <2>2, <2>3, <2>4, <2>5
<1>4. QED
  BY <1>2, <1>3
-----------------------------------------------------------------------------
(* The inductive invariant: in the middle of a compilation the table holds the  *)
(* declarations collected so far, and it has a slot for each declaration.      *)
Phases == {"idle", "collect", "check", "emit", "resolve", "linked"}
Names(decls) == [i \in 1 .. Len(decls) |-> decls[i].name]

Counts ==
  /\ ast \in Seq(Decl) /\ foreigns \in Seq(Foreigns)
  /\ function_count \in Nat /\ Len(ast) <= function_count
  /\ phase \in Phases /\ next \in 1 .. Len(ast) + 1
TableInv == Counts /\ (phase # "idle" => Stored(table, function_count, Names(ast), Collected))

(* What the table answers for any name.                                       *)
LEMMA LookupAnswers ==
  ASSUME TableInv, phase # "idle", NEW f \in Nat \ {0}
  PROVE  IF known(f) THEN lookup_fun(f) \in FirstOf(f, Collected) ELSE \A j \in 1 .. Collected : ast[j].name # f
<1>1. /\ Len(ast) \in Nat /\ function_count \in Nat /\ Collected \in 0 .. Len(ast) /\ Len(ast) <= function_count
      /\ \A j \in 1 .. Len(ast) : ast[j] \in Decl /\ ast[j].name \in Nat \ {0} /\ Names(ast)[j] = ast[j].name
  <2>1. /\ Len(ast) \in Nat /\ function_count \in Nat /\ Len(ast) <= function_count
        /\ \A j \in 1 .. Len(ast) : ast[j] \in Decl
    BY DEF TableInv, Counts
  <2>2. \A j \in 1 .. Len(ast) : ast[j].name \in Nat \ {0} /\ Names(ast)[j] = ast[j].name
    BY <2>1 DEF Decl, Names, NONE
  <2>3. Collected \in 0 .. Len(ast)
    BY <2>1 DEF TableInv, Counts, Collected
  <2>4. QED
    BY <2>1, <2>2, <2>3
<1>2. PICK n \in 0 .. Len(ast) : n = Collected
  BY <1>1
<1>3. CASE function_count = 0
  <2>1. n = 0 /\ ~known(f)
    BY <1>1, <1>3 DEF known
  <2>2. QED
    BY <1>2, <2>1
<1>4. CASE function_count # 0
  <2>1. function_count \in Nat \ {0} /\ n \in Nat /\ \A j \in 1 .. n : Names(ast)[j] \in Nat \ {0} /\ Names(ast)[j] = ast[j].name
    BY <1>1, <1>4
  <2>2. Stored(table, function_count, Names(ast), n)
    BY <1>2 DEF TableInv
  <2> DEFINE found == table_lookup(table, function_count, f).decl
  <2>3. /\ IsKnown(table, function_count, f) =>
             /\ found \in 1 .. n
             /\ Names(ast)[found] = f
             /\ \A j \in 1 .. n : Names(ast)[j] = f => found <= j
        /\ ~IsKnown(table, function_count, f) => \A j \in 1 .. n : Names(ast)[j] # f
    <3>1. Answers(table, function_count, Names(ast), n, f)
      BY <2>1, <2>2, LookupStored
    <3>2. QED
      BY <3>1, Zenon DEF Answers
  <2>4. (known(f) <=> IsKnown(table, function_count, f)) /\ lookup_fun(f) = found
    BY <2>1 DEF known, lookup_fun
  <2> HIDE DEF found
  <2>5. CASE known(f)
    <3>1. PICK d \in 1 .. n : d = found
      BY <2>3, <2>4, <2>5
    <3>2. ast[d].name = f /\ \A j \in 1 .. n : ast[j].name = f => d <= j
      BY <2>1, <2>3, <2>4, <2>5, <3>1
    <3>3. \A j \in 1 .. d - 1 : j \in 1 .. n /\ ~ (d <= j)
      BY <2>1
    <3>4. d \in FirstOf(f, n)
      BY <3>2, <3>3 DEF FirstOf
    <3>5. QED
      BY <1>2, <2>4, <2>5, <3>1, <3>4
  <2>6. CASE ~known(f)
    <3>1. \A j \in 1 .. n : ast[j].name # f
      BY <2>1, <2>3, <2>4, <2>6
    <3>2. QED
      BY <1>2, <2>6, <3>1
  <2>7. QED
    BY <2>5, <2>6
<1>5. QED
  BY <1>3, <1>4

LEMMA TableInvSuffices == TableInv => LookupFindsFirst
<1> SUFFICES ASSUME TableInv, phase # "idle", NEW i \in 1 .. Len(ast)
             PROVE  IF known(ast[i].name) THEN lookup_fun(ast[i].name) \in FirstOf(ast[i].name, Collected)
                    ELSE FirstOf(ast[i].name, Collected) = {}
  BY DEF LookupFindsFirst
<1>1. ast[i] \in Decl
  BY DEF TableInv, Counts
<1>2. PICK f \in Nat \ {0} : f = ast[i].name
  BY <1>1 DEF Decl, NONE
<1>3. IF known(f) THEN lookup_fun(f) \in FirstOf(f, Collected) ELSE \A j \in 1 .. Collected : ast[j].name # f
  BY LookupAnswers
<1>4. (\A j \in 1 .. Collected : ast[j].name # f) => FirstOf(f, Collected) = {}
  BY DEF FirstOf
<1>5. QED
  BY <1>2, <1>3, <1>4

(* The search for a free slot, which has no other end, finds one.               *)
LEMMA TableInvRoom == TableInv => SearchEnds
<1> SUFFICES ASSUME TableInv, phase = "collect", next <= Len(ast)
             PROVE  FirstOpen(table, function_count, ast[next].name) # {}
  BY DEF SearchEnds
<1>1. /\ Len(ast) \in Nat /\ function_count \in Nat /\ next \in 1 .. Len(ast) /\ Len(ast) <= function_count
      /\ ast[next] \in Decl
  BY DEF TableInv, Counts
<1>2. function_count \in Nat \ {0} /\ next - 1 \in 0 .. function_count - 1
  BY <1>1
<1>3. Stored(table, function_count, Names(ast), next - 1)
  BY DEF TableInv, Collected
<1>4. ast[next].name \in Nat
  BY <1>1 DEF Decl
<1>5. QED
  BY <1>2, <1>3, <1>4, RoomStored

(* When all are collected, that is what the compiler needs to know.             *)
LEMMA TableInvLookup ==
  ASSUME TableInv, phase \notin {"idle", "collect"}
  PROVE  LookupOK
<1> SUFFICES ASSUME NEW f \in Nat \ {NONE}, known(f) \/ \E i \in 1 .. Len(ast) : ast[i].name = f
             PROVE  lookup_fun(f) \in FirstOf(f, Len(ast))
  BY DEF LookupOK
<1>1. Collected = Len(ast)
  BY DEF Collected
<1>2. f \in Nat \ {0}
  BY DEF NONE
<1>3. IF known(f) THEN lookup_fun(f) \in FirstOf(f, Collected) ELSE \A j \in 1 .. Collected : ast[j].name # f
  BY <1>2, LookupAnswers
<1>4. QED
  BY <1>1, <1>3

LEMMA TableInvInit == HostInit => TableInv
  BY DEF HostInit, LinkInit, TableInv, Counts, Phases, Collected

(* A table that has just been allocated holds nothing.                        *)
LEMMA EmptyStored ==
  ASSUME NEW size \in Nat, NEW names
  PROVE  Stored(EmptyTable(size), size, names, 0)
  BY DEF Stored, EmptyTable, EmptySlot, Entry

LEMMA TableInvAdd == ASSUME TableInv, AddFunction, UNCHANGED foreigns PROVE TableInv'
<1> USE DEF AddFunction
<1>1. /\ phase = "collect" /\ phase' = phase /\ ast' = ast /\ function_count' = function_count
      /\ next \in 1 .. Len(ast) /\ Len(ast) \in Nat /\ function_count \in Nat \ {0} /\ next' = next + 1
  BY DEF TableInv, Counts, globals
<1>2. Counts'
  BY <1>1 DEF TableInv, Counts, Phases
<1>3. PICK n \in Nat : n = Collected /\ n + 1 = next /\ n + 1 = Collected'
  BY <1>1 DEF Collected
<1>4. /\ \A i \in 1 .. Len(ast) : Names(ast)[i] \in Nat \ {0}
      /\ Names(ast)[n + 1] = ast[next].name /\ Names(ast)' = Names(ast)
  <2>1. \A i \in 1 .. Len(ast) : ast[i] \in Decl
    BY <1>1 DEF TableInv, Counts
  <2>2. \A i \in 1 .. Len(ast) : Names(ast)[i] = ast[i].name /\ ast[i].name \in Nat \ {0}
    BY <2>1 DEF Decl, Names, NONE
  <2>3. Names(ast)' = Names(ast)
    BY <1>1 DEF Names
  <2>4. QED
    BY <1>1, <1>3, <2>2, <2>3
<1>5. \A i \in 1 .. n + 1 : Names(ast)[i] \in Nat \ {0}
  BY <1>1, <1>3, <1>4
<1>6. Stored(table, function_count, Names(ast), n)
  BY <1>1, <1>3 DEF TableInv
<1>7. table' \in AddTo(table, function_count, Names(ast)[n + 1],
                       [name |-> Names(ast)[n + 1], decl |-> n + 1])
  BY <1>3, <1>4
<1>8. Stored(table', function_count, Names(ast), n + 1)
  BY <1>1, <1>5, <1>6, <1>7, AddKeepsStored
<1>9. QED
  BY <1>1, <1>2, <1>3, <1>4, <1>8 DEF TableInv

(* The check of a function changes statements, never a name.                   *)
LEMMA TableInvCheck == ASSUME TableInv, CheckFunction, UNCHANGED foreigns PROVE TableInv'
<1> DEFINE stmts == ast[next].stmts
           bad == {i \in 1 .. Len(stmts) : ~ChecksOK(stmts[i])}
           reached == {i \in 1 .. Len(stmts) : \A b \in bad : i < b}
           new == [i \in 1 .. Len(stmts) |-> IF i \in reached THEN Checked(stmts[i]) ELSE stmts[i]]
<1>1. /\ phase = "check" /\ next \in 1 .. Len(ast) /\ Len(ast) \in Nat /\ stmts \in Seq(Stmt)
      /\ ast[next] \in Decl
  <2>1. phase = "check" /\ next \in 1 .. Len(ast) /\ Len(ast) \in Nat /\ ast[next] \in Decl
    BY DEF CheckFunction, TableInv, Counts
  <2>2. stmts \in Seq(Stmt)
    BY <2>1 DEF Decl
  <2>3. QED
    BY <2>1, <2>2
<1>2. \A stmt \in Stmt : Checked(stmt) \in Stmt
  <2> TAKE stmt \in Stmt
  <2>1. stmt.args \in Seq(Nat) /\ stmt.callee \in Nat /\ stmt.newline \in BOOLEAN
    BY DEF Stmt
  <2>2. Append(stmt.args, Newline) \in Seq(Nat)
    BY <2>1 DEF Newline
  <2>3. [stmt EXCEPT !.args = Append(@, Newline)] \in Stmt
    BY <2>1, <2>2 DEF Stmt
  <2>4. QED
    BY <2>3 DEF Checked
<1>3. new \in Seq(Stmt)
  <2>1. \A i \in 1 .. Len(stmts) : stmts[i] \in Stmt
    BY <1>1
  <2>2. \A i \in 1 .. Len(stmts) : new[i] \in Stmt
    BY <1>2, <2>1
  <2>3. Len(stmts) \in Nat
    BY <1>1
  <2>4. new \in [1 .. Len(stmts) -> Stmt]
    BY <2>2
  <2>5. QED
    BY <2>3, <2>4
<1>4. ast' = [ast EXCEPT ![next].stmts = new]
  BY DEF CheckFunction
<1>5. [ast[next] EXCEPT !.stmts = new] \in Decl /\ [ast[next] EXCEPT !.stmts = new].name = ast[next].name
  BY <1>1, <1>3 DEF Decl
<1>6. ast' = [ast EXCEPT ![next] = [ast[next] EXCEPT !.stmts = new]]
  BY <1>4
<1>7. /\ ast' \in Seq(Decl) /\ Len(ast') = Len(ast)
      /\ \A i \in 1 .. Len(ast) : ast'[i].name = ast[i].name
  BY <1>1, <1>5, <1>6 DEF TableInv, Counts
<1>8. Names(ast)' = Names(ast)
  BY <1>7 DEF Names
<1>9. /\ function_count' = function_count /\ table' = table
      /\ phase' \in {"check", "idle"} /\ next' \in {1, next + 1}
  BY <1>1 DEF CheckFunction, Enter, cc
<1>10. Counts'
  BY <1>1, <1>7, <1>9 DEF TableInv, Counts, Phases
<1>11. Collected' = Collected
  BY <1>1, <1>7, <1>9 DEF Collected
<1>12. QED
  BY <1>1, <1>8, <1>9, <1>10, <1>11 DEF TableInv

(* The phases after that leave the declarations and the table alone.           *)
LEMMA TableInvRest ==
  ASSUME TableInv, UNCHANGED foreigns,
         EndCollect \/ StartCompile \/ CompileTld \/ EndCompile \/ Resolve \/ EndResolve
  PROVE  TableInv'
<1>1. /\ ast' = ast /\ function_count' = function_count /\ table' = table
      /\ phase' \in Phases /\ next' \in 1 .. Len(ast) + 1
      /\ phase' # "idle" => phase # "idle" /\ Collected' = Collected
  <2>0. Len(ast) \in Nat /\ next \in 1 .. Len(ast) + 1 /\ phase \in Phases
    BY DEF TableInv, Counts
  <2>1. CASE EndCollect
    BY <2>0, <2>1 DEF Collected, EndCollect, Enter, globals, cc, Phases
  <2>2. CASE StartCompile
    BY <2>0, <2>2 DEF Collected, StartCompile, Enter, globals, cc, Phases
  <2>3. CASE CompileTld
    BY <2>0, <2>3 DEF Collected, CompileTld, globals, Phases
  <2>4. CASE EndCompile
    BY <2>0, <2>4 DEF Collected, EndCompile, Enter, globals, Phases
  <2>5. CASE Resolve
    BY <2>0, <2>5 DEF Collected, Resolve, globals, Phases
  <2>6. CASE EndResolve
    BY <2>0, <2>6 DEF Collected, EndResolve, Enter, globals, cc, Phases
  <2>7. QED
    BY <2>1, <2>2, <2>3, <2>4, <2>5, <2>6
<1>2. Names(ast)' = Names(ast)
  BY <1>1 DEF Names
<1>3. QED
  BY <1>1, <1>2 DEF TableInv, Counts

(* Parsing adds declarations and counts each of them.                          *)
LEMMA TableInvCompile == ASSUME TableInv, NEW text \in Texts, Compile(text) PROVE TableInv'
<1> DEFINE new == ast \o ForeignDecls \o text.decls
           count == function_count + Counted(text)
<1>1. text.decls \in Seq(Decl) /\ text.methods \in Nat /\ Foreigns \subseteq Nat \ {NONE}
  BY HostAssumption
<1>2. ForeignDecls \in Seq(Decl) /\ Len(ForeignDecls) = Len(foreigns) /\ Len(foreigns) \in Nat
  <2>1. \A f \in Foreigns : Foreign(f) \in Decl
    <3>1. << >> \in Seq(Stmt)
      OBVIOUS
    <3>2. QED
      BY <1>1, <3>1 DEF Foreign, Decl
  <2>2. Len(foreigns) \in Nat /\ \A i \in 1 .. Len(foreigns) : foreigns[i] \in Foreigns
    BY DEF TableInv, Counts
  <2>3. ForeignDecls \in [1 .. Len(foreigns) -> Decl]
    BY <2>1, <2>2 DEF ForeignDecls
  <2>4. QED
    BY <2>2, <2>3
<1>3. new \in Seq(Decl) /\ Len(new) = Len(ast) + Len(foreigns) + Len(text.decls)
  <2>1. ast \in Seq(Decl)
    BY DEF TableInv, Counts
  <2>2. ast \o ForeignDecls \in Seq(Decl) /\ Len(ast \o ForeignDecls) = Len(ast) + Len(ForeignDecls)
    BY <1>2, <2>1, ConcatProperties, Zenon
  <2>3. PICK front \in Seq(Decl) : front = ast \o ForeignDecls
    BY <2>2, Zenon
  <2>4. front \o text.decls \in Seq(Decl) /\ Len(front \o text.decls) = Len(front) + Len(text.decls)
    BY <1>1, <2>3, ConcatProperties, Zenon
  <2>5. new = front \o text.decls
    BY <2>3, Zenon
  <2>6. QED
    BY <1>2, <2>2, <2>3, <2>4, <2>5, Zenon
<1> HIDE DEF new
<1>4. count \in Nat /\ Len(new) \in Nat /\ Len(new) <= count /\ Len(new) >= Len(ast)
  <2>1. /\ Len(ast) \in Nat /\ function_count \in Nat /\ Len(ast) <= function_count
        /\ Len(text.decls) \in Nat /\ Len(foreigns) \in Nat
    BY <1>1, <1>2 DEF TableInv, Counts
  <2>2. Counted(text) = Len(foreigns) + Len(text.decls) + text.methods
    BY DEF Counted
  <2>3. Counted(text) \in Nat /\ Counted(text) >= Len(foreigns) + Len(text.decls)
    BY <1>1, <2>1, <2>2
  <2>4. Len(new) \in Nat /\ Len(new) <= function_count + Counted(text) /\ Len(new) >= Len(ast)
    <3>1. PICK a \in Nat, f \in Nat, d \in Nat : a = Len(ast) /\ f = Len(foreigns) /\ d = Len(text.decls)
      BY <2>1
    <3>2. PICK c \in Nat : c = Counted(text)
      BY <2>3
    <3>3. Len(new) = a + f + d /\ a <= function_count /\ c >= f + d
      BY <1>3, <2>1, <2>3, <3>1, <3>2, Zenon
    <3>4. PICK k \in Nat : k = function_count
      BY <2>1
    <3>5. a <= k
      BY <3>3, <3>4
    <3>6. a + f + d \in Nat /\ a + f + d <= k + c /\ a + f + d >= a
      BY <3>3, <3>5
    <3>7. QED
      BY <3>1, <3>2, <3>3, <3>4, <3>6, Zenon
  <2>5. function_count + Counted(text) \in Nat
    BY <2>1, <2>3
  <2>6. QED
    BY <2>4, <2>5 DEF count
<1> HIDE DEF count
<1>5. phase = "idle" /\ foreigns' = foreigns
  BY DEF Compile, Idle
<1>6. CASE UNCHANGED linkvars
  <2>1. Counts' /\ phase' = "idle"
    BY <1>5, <1>6 DEF TableInv, Counts, linkvars, globals
  <2>2. QED
    BY <2>1 DEF TableInv
<1>7. CASE ast' = new /\ function_count' = count /\ UNCHANGED <<phase, next, cc>>
  <2>1. Counts' /\ phase' = "idle"
    <3>1. /\ Len(ast) \in Nat /\ next \in 1 .. Len(ast) + 1 /\ foreigns \in Seq(Foreigns)
          /\ next' = next /\ phase' = "idle"
      BY <1>5, <1>7 DEF TableInv, Counts
    <3>2. ast' \in Seq(Decl) /\ function_count' \in Nat /\ Len(ast') <= function_count' /\ Len(ast') >= Len(ast)
          /\ Len(ast') \in Nat
      BY <1>3, <1>4, <1>7
    <3>3. next' \in 1 .. Len(ast') + 1
      BY <3>1, <3>2
    <3>4. QED
      BY <1>5, <3>1, <3>2, <3>3 DEF Counts, Phases
  <2>2. QED
    BY <2>1 DEF TableInv
<1>8. CASE StartText(text)
  <2>1. /\ ast' = new /\ function_count' = count /\ table' = EmptyTable(count)
        /\ phase' = "collect" /\ next' = 1
    BY <1>8 DEF StartText, StartTypecheck, Enter, new, count
  <2>2. Counts' /\ Collected' = 0
    <3>1. foreigns' \in Seq(Foreigns)
      BY <1>5 DEF TableInv, Counts
    <3>2. ast' \in Seq(Decl) /\ function_count' \in Nat /\ Len(ast') <= function_count' /\ Len(ast') \in Nat
      BY <1>3, <1>4, <2>1
    <3>3. next' \in 1 .. Len(ast') + 1
      BY <2>1, <3>2
    <3>4. QED
      BY <2>1, <3>1, <3>2, <3>3 DEF Counts, Collected, Phases
  <2>3. Stored(table', count, Names(ast)', 0)
    BY <1>4, <2>1, EmptyStored
  <2>4. QED
    BY <2>1, <2>2, <2>3 DEF TableInv
<1>9. \/ UNCHANGED linkvars
      \/ ast' = new /\ function_count' = count /\ UNCHANGED <<phase, next, cc>>
      \/ StartText(text)
  <2>1. text.outcome \in Outcomes
    BY HostAssumption
  <2>2. CASE text.outcome = "parse error"
    BY <2>2 DEF Compile, new, count
  <2>3. CASE text.outcome = "parsed"
    BY <2>3 DEF Compile
  <2>4. CASE text.outcome \in {"unreadable", "lex error", "read error"}
    BY <2>4 DEF Compile
  <2>5. QED
    BY <2>1, <2>2, <2>3, <2>4 DEF Outcomes
<1>10. QED
  BY <1>6, <1>7, <1>8, <1>9

LEMMA TableInvNext == TableInv /\ [HostNext]_vars => TableInv'
<1> SUFFICES ASSUME TableInv, [HostNext]_vars PROVE TableInv'
  OBVIOUS
<1>1. ASSUME NEW name \in Foreigns, NEW object \in BOOLEAN, del_register_function(name, object) PROVE TableInv'
  <2>1. UNCHANGED linkvars /\ foreigns' \in Seq(Foreigns)
    <3>1. UNCHANGED linkvars /\ (foreigns' = Append(foreigns, name) \/ foreigns' = foreigns)
      BY <1>1, Zenon DEF del_register_function
    <3>2. foreigns \in Seq(Foreigns)
      BY DEF TableInv, Counts
    <3>3. QED
      BY <3>1, <3>2
  <2>2. Counts' /\ Collected' = Collected /\ Names(ast)' = Names(ast)
    BY <2>1 DEF TableInv, Counts, Collected, Names, linkvars, globals
  <2>3. QED
    BY <2>1, <2>2 DEF TableInv, linkvars, globals, cc
<1>2. ASSUME NEW text \in Texts, Compile(text) PROVE TableInv'
  BY <1>2, TableInvCompile
<1>3. CASE CompileStep
  <2>1. UNCHANGED foreigns
    BY <1>3 DEF CompileStep, hostvars
  <2>2. Link
    BY <1>3 DEF CompileStep
  <2>3. QED
    BY <2>1, <2>2, TableInvAdd, TableInvCheck, TableInvRest DEF Link
<1>4. CASE Return
  <2>1. Counts' /\ phase' = "idle"
    BY <1>4 DEF Return, Enter, globals, TableInv, Counts, Phases
  <2>2. QED
    BY <2>1 DEF TableInv
<1>5. ASSUME UNCHANGED <<linkvars, foreigns>> PROVE TableInv'
  <2>1. Counts' /\ Collected' = Collected /\ Names(ast)' = Names(ast)
    BY <1>5 DEF TableInv, Counts, Collected, Names, linkvars, globals
  <2>2. QED
    BY <1>5, <2>1 DEF TableInv, linkvars, globals, cc
<1>6. CASE del_compiler_free
  BY <1>5, <1>6 DEF del_compiler_free
<1>7. ASSUME NEW p \in 1 .. Len(programs), del_vm_init(p) \/ del_program_free(p) PROVE TableInv'
  BY <1>5, <1>7 DEF del_vm_init, del_program_free
<1>8. ASSUME NEW m \in 1 .. Len(machines), del_vm_execute(m) \/ del_vm_free(m) PROVE TableInv'
  BY <1>5, <1>8 DEF del_vm_execute, del_vm_free
<1>9. CASE UNCHANGED vars
  BY <1>5, <1>9 DEF vars, hostvars
<1>10. QED
  BY <1>1, <1>2, <1>3, <1>4, <1>6, <1>7, <1>8, <1>9 DEF HostNext

(* However often a compiler is used, in whatever order functions are registered *)
(* and texts fail, a lookup answers with the first declaration of the name.    *)
THEOREM FirstDeclarationFound == HostSpec => []LookupFindsFirst
<1>1. HostSpec => []TableInv
  BY TableInvInit, TableInvNext, PTL DEF HostSpec
<1>2. QED
  BY <1>1, TableInvSuffices, PTL
-----------------------------------------------------------------------------
(* The blocks of the program that is being generated are there before it is    *)
(* returned, and a machine that is not freed has a program that is not freed.   *)
IsSeq(s) == \E S : s \in Seq(S)
Generating == phase \in {"emit", "resolve", "linked"}
Unfinished == ProgramBlocks(Len(programs) + 1, Len(pool), string_count > 0) \ {Block("program", Len(programs) + 1, 0)}

HostShape ==
  /\ IsSeq(programs) /\ IsSeq(machines)
  /\ \A p \in 1 .. Len(programs) :
       /\ programs[p] = [strings |-> programs[p].strings, pooled |-> programs[p].pooled, live |-> programs[p].live]
       /\ programs[p].live \in BOOLEAN
  /\ \A m \in 1 .. Len(machines) :
       /\ machines[m] = [program |-> machines[m].program, status |-> machines[m].status]
       /\ machines[m].program \in 1 .. Len(programs)
ProgramsInv ==
  /\ HostShape /\ ProgramsWhole
  /\ Generating => Unfinished \subseteq blocks

LEMMA AppendIsSeq ==
  ASSUME NEW s, IsSeq(s), NEW e
  PROVE  /\ IsSeq(Append(s, e)) /\ Len(Append(s, e)) = Len(s) + 1 /\ Len(s) \in Nat
         /\ Append(s, e)[Len(s) + 1] = e
         /\ \A i \in 1 .. Len(s) : Append(s, e)[i] = s[i]
<1>1. PICK S : s \in Seq(S)
  BY DEF IsSeq
<1>2. s \in Seq(S \cup {e})
  BY <1>1
<1>3. e \in S \cup {e}
  OBVIOUS
<1>4. QED
  BY <1>2, <1>3 DEF IsSeq

Update(s, i, e) == [s EXCEPT ![i] = e]
LEMMA UpdateIsSeq ==
  ASSUME NEW s, IsSeq(s), NEW i \in 1 .. Len(s), NEW e
  PROVE  /\ IsSeq(Update(s, i, e)) /\ Len(Update(s, i, e)) = Len(s)
         /\ \A j \in 1 .. Len(s) : Update(s, i, e)[j] = IF j = i THEN e ELSE s[j]
<1>1. PICK S : s \in Seq(S)
  BY DEF IsSeq
<1>2. s \in Seq(S \cup {e})
  BY <1>1
<1>3. [s EXCEPT ![i] = e] \in Seq(S \cup {e})
  BY <1>2
<1>4. QED
  BY <1>1, <1>2, <1>3 DEF IsSeq, Update

LEMMA ProgramsInvInit == HostInit => ProgramsInv
<1> SUFFICES ASSUME HostInit PROVE ProgramsInv
  OBVIOUS
<1>1. programs = << >> /\ machines = << >> /\ phase = "idle"
  BY DEF HostInit, LinkInit
<1>2. IsSeq(<< >>) /\ Len(<< >>) = 0
  BY DEF IsSeq
<1>3. QED
  BY <1>1, <1>2 DEF ProgramsInv, HostShape, ProgramsWhole, Generating

(* Nothing but freeing takes blocks away.                                     *)
LEMMA ProgramsInvGrow ==
  ASSUME ProgramsInv, UNCHANGED <<programs, machines>>, blocks \subseteq blocks', (Generating => Unfinished \subseteq blocks)'
  PROVE  ProgramsInv'
  BY DEF ProgramsInv, HostShape, ProgramsWhole

LEMMA ProgramsInvStep == ASSUME ProgramsInv, CompileStep PROVE ProgramsInv'
<1>1. /\ programs' = programs /\ machines' = machines
      /\ blocks' = IF phase' \in {"emit", "resolve", "linked"}
                   THEN blocks \cup (ProgramBlocks(Len(programs) + 1, Len(pool'), string_count > 0)
                                       \ {Block("program", Len(programs) + 1, 0)})
                   ELSE blocks
  BY DEF CompileStep, hostvars
<1>2. phase' \in {"emit", "resolve", "linked"} => string_count' = string_count
  BY DEF CompileStep, Link, AddFunction, EndCollect, CheckFunction, StartCompile, CompileTld, EndCompile,
         Resolve, EndResolve, Enter, globals
<1>3. Generating' => Unfinished' = ProgramBlocks(Len(programs) + 1, Len(pool'), string_count > 0)
                                       \ {Block("program", Len(programs) + 1, 0)}
  BY <1>1, <1>2 DEF Generating, Unfinished
<1>4. blocks \subseteq blocks' /\ (Generating => Unfinished \subseteq blocks)'
  BY <1>1, <1>3 DEF Generating
<1>5. QED
  BY <1>1, <1>4, ProgramsInvGrow

LEMMA ProgramsInvReturn == ASSUME ProgramsInv, Return PROVE ProgramsInv'
<1> DEFINE new == [strings |-> Len(pool), pooled |-> string_count > 0, live |-> TRUE]
           p == Len(programs) + 1
<1>1. /\ programs' = Append(programs, new) /\ machines' = machines
      /\ blocks' = blocks \cup {Block("program", Len(programs'), 0)} /\ phase' = "idle" /\ Generating
  BY DEF Return, Enter, Generating
<1>2. /\ IsSeq(programs') /\ Len(programs') = p /\ Len(programs) \in Nat /\ programs'[p] = new
      /\ \A q \in 1 .. Len(programs) : programs'[q] = programs[q]
  BY <1>1, AppendIsSeq DEF ProgramsInv, HostShape
<1>3. ProgramBlocks(p, new.strings, new.pooled) \subseteq blocks'
  BY <1>1, <1>2 DEF ProgramsInv, Unfinished
<1> HIDE DEF new
<1>4. \A q \in 1 .. Len(programs') : q = p \/ q \in 1 .. Len(programs)
  BY <1>2
<1>5. new = [strings |-> new.strings, pooled |-> new.pooled, live |-> new.live] /\ new.live = TRUE
  BY DEF new
<1>6. HostShape'
  <2>1. \A q \in 1 .. Len(programs') :
          /\ programs'[q] = [strings |-> programs'[q].strings, pooled |-> programs'[q].pooled,
                            live |-> programs'[q].live]
          /\ programs'[q].live \in BOOLEAN
    <3> TAKE q \in 1 .. Len(programs')
    <3>1. CASE q = p
      BY <1>2, <1>5, <3>1, Zenon
    <3>2. CASE q \in 1 .. Len(programs)
      BY <1>2, <3>2 DEF ProgramsInv, HostShape
    <3>3. QED
      BY <1>4, <3>1, <3>2
  <2>2. \A m \in 1 .. Len(machines') :
          /\ machines'[m] = [program |-> machines'[m].program, status |-> machines'[m].status]
          /\ machines'[m].program \in 1 .. Len(programs')
    BY <1>1, <1>2 DEF ProgramsInv, HostShape
  <2>3. IsSeq(machines')
    BY <1>1 DEF ProgramsInv, HostShape
  <2>4. QED
    BY <1>2, <2>1, <2>2, <2>3 DEF HostShape
<1>7. ProgramsWhole'
  <2>1. ASSUME NEW q \in 1 .. Len(programs'), programs'[q].live
        PROVE  ProgramBlocks(q, programs'[q].strings, programs'[q].pooled) \subseteq blocks'
    BY <1>1, <1>2, <1>3, <1>4, <2>1 DEF ProgramsInv, ProgramsWhole
  <2>2. \A m \in 1 .. Len(machines') : machines'[m].status # "freed" => programs'[machines'[m].program].live
    BY <1>1, <1>2 DEF ProgramsInv, HostShape, ProgramsWhole
  <2>3. QED
    BY <2>1, <2>2 DEF ProgramsWhole
<1>8. QED
  BY <1>1, <1>6, <1>7 DEF ProgramsInv, Generating

(* What is freed is not part of another program.                              *)
LEMMA BlocksOfProgram ==
  ASSUME NEW p, NEW strings, NEW pooled, NEW b \in ProgramBlocks(p, strings, pooled)
  PROVE  b[2] = p /\ b[1] \in {"program", "instructions", "string", "pool"}
  BY DEF ProgramBlocks, StringBlock, Block

LEMMA OthersKept ==
  ASSUME NEW p, NEW strings, NEW pooled, NEW freed,
         \A b \in freed : b[2] # p \/ ~ (b[1] \in {"program", "instructions", "string", "pool"}),
         ProgramBlocks(p, strings, pooled) \subseteq blocks
  PROVE  ProgramBlocks(p, strings, pooled) \subseteq blocks \ freed
  BY BlocksOfProgram

LEMMA ProgramsInvFreeCompiler == ASSUME ProgramsInv, del_compiler_free PROVE ProgramsInv'
<1>1. /\ programs' = programs /\ machines' = machines /\ blocks' = blocks \ CompilerBlocks
      /\ phase' = phase /\ phase = "idle"
  BY DEF del_compiler_free, linkvars, Idle
<1>2. \A b \in CompilerBlocks : ~ (b[1] \in {"program", "instructions", "string", "pool"})
  BY DEF CompilerBlocks, Arena, Block
<1>3. ASSUME NEW p \in 1 .. Len(programs), programs[p].live
      PROVE  ProgramBlocks(p, programs[p].strings, programs[p].pooled) \subseteq blocks'
  BY <1>1, <1>2, <1>3, OthersKept DEF ProgramsInv, ProgramsWhole
<1>4. QED
  BY <1>1, <1>3 DEF ProgramsInv, HostShape, ProgramsWhole, Generating

LEMMA ProgramsInvFree == ASSUME ProgramsInv, NEW p \in 1 .. Len(programs), del_program_free(p) PROVE ProgramsInv'
<1> DEFINE dead == [programs[p] EXCEPT !.live = FALSE]
           freed == ProgramBlocks(p, programs[p].strings, programs[p].pooled)
<1>1. /\ programs' = [programs EXCEPT ![p] = dead] /\ machines' = machines /\ blocks' = blocks \ freed
      /\ phase' = phase /\ phase = "idle"
      /\ \A m \in 1 .. Len(machines) : machines[m].program = p => machines[m].status = "freed"
  BY DEF del_program_free, linkvars, Idle
<1>2. dead = [strings |-> dead.strings, pooled |-> dead.pooled, live |-> dead.live] /\ dead.live = FALSE
  <2>1. PICK a, b, c : programs[p] = [strings |-> a, pooled |-> b, live |-> c]
    BY DEF ProgramsInv, HostShape
  <2>2. PICK no : no = FALSE
    OBVIOUS
  <2>3. [programs[p] EXCEPT !.live = no] = [strings |-> a, pooled |-> b, live |-> no]
    BY <2>1
  <2>4. dead = [strings |-> a, pooled |-> b, live |-> no]
    BY <2>2, <2>3, Zenon
  <2>5. QED
    BY <2>2, <2>4
<1> HIDE DEF dead
<1>3. /\ IsSeq(programs') /\ Len(programs') = Len(programs)
      /\ \A q \in 1 .. Len(programs) : programs'[q] = IF q = p THEN dead ELSE programs[q]
  <2>1. IsSeq(programs)
    BY DEF ProgramsInv, HostShape
  <2>2. programs' = Update(programs, p, dead)
    BY <1>1, Zenon DEF Update
  <2>3. QED
    BY <2>1, <2>2, UpdateIsSeq
<1>4. HostShape'
  <2>1. \A q \in 1 .. Len(programs') :
          /\ programs'[q] = [strings |-> programs'[q].strings, pooled |-> programs'[q].pooled,
                            live |-> programs'[q].live]
          /\ programs'[q].live \in BOOLEAN
    <3> TAKE q \in 1 .. Len(programs')
    <3>1. CASE q = p
      BY <1>2, <1>3, <3>1, Zenon
    <3>2. CASE q # p
      BY <1>3, <3>2 DEF ProgramsInv, HostShape
    <3>3. QED
      BY <3>1, <3>2
  <2>2. QED
    BY <1>1, <1>3, <2>1 DEF ProgramsInv, HostShape
<1>5. ASSUME NEW q \in 1 .. Len(programs'), programs'[q].live
      PROVE  ProgramBlocks(q, programs'[q].strings, programs'[q].pooled) \subseteq blocks'
  <2>1. q # p /\ programs'[q] = programs[q] /\ q \in 1 .. Len(programs)
    BY <1>2, <1>3, <1>5
  <2>2. \A b \in freed : b[2] # q
    BY <2>1, BlocksOfProgram
  <2>3. ProgramBlocks(q, programs[q].strings, programs[q].pooled) \subseteq blocks
    BY <1>5, <2>1 DEF ProgramsInv, ProgramsWhole
  <2>4. ProgramBlocks(q, programs[q].strings, programs[q].pooled) \subseteq blocks \ freed
    BY <2>2, <2>3, OthersKept
  <2>5. QED
    BY <1>1, <2>1, <2>4
<1>6. \A m \in 1 .. Len(machines') : machines'[m].status # "freed" => programs'[machines'[m].program].live
  BY <1>1, <1>3 DEF ProgramsInv, HostShape, ProgramsWhole
<1>7. QED
  BY <1>1, <1>4, <1>5, <1>6 DEF ProgramsInv, ProgramsWhole, Generating

LEMMA ProgramsInvMachine ==
  ASSUME ProgramsInv, NEW p \in 1 .. Len(programs), del_vm_init(p) PROVE ProgramsInv'
<1> DEFINE new == [program |-> p, status |-> "initialized"]
<1>1. /\ programs' = programs /\ machines' = Append(machines, new) /\ blocks \subseteq blocks'
      /\ phase' = phase /\ phase = "idle" /\ programs[p].live
  BY DEF del_vm_init, linkvars, Idle
<1>2. /\ IsSeq(machines') /\ Len(machines') = Len(machines) + 1 /\ Len(machines) \in Nat
      /\ machines'[Len(machines) + 1] = new
      /\ \A m \in 1 .. Len(machines) : machines'[m] = machines[m]
  BY <1>1, AppendIsSeq DEF ProgramsInv, HostShape
<1>3. \A m \in 1 .. Len(machines') : m = Len(machines) + 1 \/ m \in 1 .. Len(machines)
  BY <1>2
<1>4. HostShape'
  BY <1>1, <1>2, <1>3 DEF ProgramsInv, HostShape
<1>5. ProgramsWhole'
  BY <1>1, <1>2, <1>3 DEF ProgramsInv, ProgramsWhole
<1>6. QED
  BY <1>1, <1>4, <1>5 DEF ProgramsInv, Generating

(* A machine is run or freed; it does not get another program.                 *)
SetsStatus(m, status) == machines' = [machines EXCEPT ![m].status = status]
LEMMA ProgramsInvUpdate ==
  ASSUME ProgramsInv, phase' = phase, phase = "idle", programs' = programs,
         NEW m \in 1 .. Len(machines), NEW status, SetsStatus(m, status),
         status = "freed" \/ machines[m].status # "freed",
         NEW freed, blocks' = blocks \ freed,
         \A b \in freed : ~ (b[1] \in {"program", "instructions", "string", "pool"})
  PROVE  ProgramsInv'
<1> DEFINE new == [machines[m] EXCEPT !.status = status]
<1>1. machines' = [machines EXCEPT ![m] = new]
  BY DEF SetsStatus
<1>2. new = [program |-> machines[m].program, status |-> status]
  <2>1. PICK a, b : machines[m] = [program |-> a, status |-> b]
    <3>1. machines[m] = [program |-> machines[m].program, status |-> machines[m].status]
      BY DEF ProgramsInv, HostShape
    <3>2. QED
      BY <3>1, Zenon
  <2>2. QED
    BY <2>1
<1> HIDE DEF new
<1>3. new = [program |-> new.program, status |-> new.status] /\ new.program = machines[m].program /\ new.status = status
  BY <1>2
<1>4. /\ IsSeq(machines') /\ Len(machines') = Len(machines)
      /\ \A k \in 1 .. Len(machines) : machines'[k] = IF k = m THEN new ELSE machines[k]
  <2>1. IsSeq(machines)
    BY DEF ProgramsInv, HostShape
  <2>2. machines' = Update(machines, m, new)
    BY <1>1, Zenon DEF Update
  <2>3. QED
    BY <2>1, <2>2, UpdateIsSeq
<1>5. HostShape'
  BY <1>3, <1>4 DEF ProgramsInv, HostShape
<1>6. ASSUME NEW p \in 1 .. Len(programs), programs[p].live
      PROVE  ProgramBlocks(p, programs[p].strings, programs[p].pooled) \subseteq blocks'
  BY <1>6, OthersKept DEF ProgramsInv, ProgramsWhole
<1>7. \A k \in 1 .. Len(machines') : machines'[k].status # "freed" => programs'[machines'[k].program].live
  BY <1>3, <1>4 DEF ProgramsInv, ProgramsWhole
<1>8. QED
  BY <1>5, <1>6, <1>7 DEF ProgramsInv, ProgramsWhole, Generating

LEMMA ProgramsInvNext == ProgramsInv /\ [HostNext]_vars => ProgramsInv'
<1> SUFFICES ASSUME ProgramsInv, [HostNext]_vars PROVE ProgramsInv'
  OBVIOUS
<1>1. ASSUME NEW name \in Foreigns, NEW object \in BOOLEAN, del_register_function(name, object) PROVE ProgramsInv'
  <2>1. /\ UNCHANGED <<programs, machines>> /\ blocks' = blocks /\ phase' = phase /\ phase = "idle"
    BY <1>1 DEF del_register_function, linkvars, Idle
  <2>2. QED
    BY <2>1, ProgramsInvGrow DEF Generating
<1>2. ASSUME NEW text \in Texts, Compile(text) PROVE ProgramsInv'
  <2>1. UNCHANGED <<programs, machines>> /\ phase = "idle" /\ text.outcome \in Outcomes
    BY <1>2, HostAssumption DEF Compile, Idle
  <2>2. blocks \subseteq blocks' /\ phase' \in {"idle", "collect"}
    BY <1>2, <2>1 DEF Compile, StartText, StartTypecheck, Enter, Outcomes, linkvars
  <2>3. QED
    BY <2>1, <2>2, ProgramsInvGrow DEF Generating
<1>3. CASE CompileStep
  BY <1>3, ProgramsInvStep
<1>4. CASE Return
  BY <1>4, ProgramsInvReturn
<1>5. CASE del_compiler_free
  BY <1>5, ProgramsInvFreeCompiler
<1>6. ASSUME NEW p \in 1 .. Len(programs), del_vm_init(p) \/ del_program_free(p) PROVE ProgramsInv'
  BY <1>6, ProgramsInvMachine, ProgramsInvFree
<1>7. ASSUME NEW m \in 1 .. Len(machines), del_vm_execute(m) PROVE ProgramsInv'
  <2>1. /\ programs' = programs /\ phase' = phase /\ phase = "idle" /\ blocks' = blocks \ {}
        /\ machines[m].status # "freed"
    BY <1>7 DEF del_vm_execute, linkvars, Idle
  <2>2. PICK status : SetsStatus(m, status)
    BY <1>7 DEF del_vm_execute, SetsStatus
  <2>3. PICK none : none = {}
    OBVIOUS
  <2>4. \A b \in none : ~ (b[1] \in {"program", "instructions", "string", "pool"})
    BY <2>3
  <2>5. blocks' = blocks \ none
    BY <2>1, <2>3
  <2>6. QED
    BY <2>1, <2>2, <2>4, <2>5, ProgramsInvUpdate
<1>8. ASSUME NEW m \in 1 .. Len(machines), del_vm_free(m) PROVE ProgramsInv'
  <2>1. /\ programs' = programs /\ phase' = phase /\ phase = "idle" /\ blocks' = blocks \ MachineBlocks(m)
        /\ SetsStatus(m, "freed")
    BY <1>8 DEF del_vm_free, linkvars, Idle, SetsStatus
  <2>2. \A b \in MachineBlocks(m) : ~ (b[1] \in {"program", "instructions", "string", "pool"})
    <3>1. \A b \in MachineBlocks(m) : b[1] = "vm" \/ b[1] = "memory"
      BY DEF MachineBlocks, Block
    <3>2. QED
      BY <3>1
  <2>3. QED
    BY <2>1, <2>2, ProgramsInvUpdate
<1>9. CASE UNCHANGED vars
  <2>1. UNCHANGED <<programs, machines>> /\ blocks' = blocks /\ Generating' = Generating /\ Unfinished' = Unfinished
    BY <1>9 DEF vars, hostvars, linkvars, globals, cc, Generating, Unfinished
  <2>2. QED
    BY <2>1, ProgramsInvGrow DEF ProgramsInv
<1>10. QED
  BY <1>1, <1>2, <1>3, <1>4, <1>5, <1>6, <1>7, <1>8, <1>9 DEF HostNext

(* What a machine reads of its program stays allocated, whatever the host frees *)
(* and compiles in between.                                                  *)
THEOREM ProgramsStayWhole == HostSpec => []ProgramsWhole
<1>1. ProgramsInv => ProgramsWhole
  BY DEF ProgramsInv
<1>2. QED
  BY <1>1, ProgramsInvInit, ProgramsInvNext, PTL DEF HostSpec

(* A compilation never loops in find_open_loc: whatever was compiled before, the    *)
(* table has a slot for every declaration that is still to be added.  (The safety *)
(* part of CompilationEnds: CanStep holds as long as a compilation runs.)       *)
THEOREM SearchAlwaysEnds == HostSpec => []SearchEnds
<1>1. QED
  BY TableInvInit, TableInvNext, TableInvRoom, PTL DEF HostSpec
-----------------------------------------------------------------------------
(* The code: the table answers, the invariant of the compilation holds, and no   *)
(* string of a declaration is left uncounted.                                 *)
StringsCounted == string_count \in Nat /\ Cardinality(StringsOf(ast)) <= string_count
CompiledInv == TableInv /\ LinkInv /\ StringsCounted

LEMMA CompiledInit == HostInit => CompiledInv
<1> SUFFICES ASSUME HostInit PROVE CompiledInv
  OBVIOUS
<1>1. phase = "idle" /\ ast = << >> /\ string_count = 0
  BY DEF HostInit, LinkInit
<1>2. LinkInv
  BY <1>1 DEF LinkInv
<1>3. Len(<< >>) = 0
  OBVIOUS
<1>4. StringsOf(ast) = {}
  BY <1>1, <1>3 DEF StringsOf
<1>5. Cardinality(StringsOf(ast)) = 0
  BY <1>4, FS_EmptySet
<1>6. QED
  BY <1>1, <1>2, <1>5, TableInvInit DEF CompiledInv, StringsCounted

(* What a text adds to the declarations and to the counters.                    *)
Parsed(text) ==
  /\ ast' = ast \o ForeignDecls \o text.decls
  /\ function_count' = function_count + Counted(text) /\ string_count' = string_count + Literals(text)
LEMMA CompileOutcomes ==
  ASSUME NEW text \in Texts, Compile(text)
  PROVE  phase' \in {"idle", "collect"} /\ (UNCHANGED linkvars \/ Parsed(text))
<1>1. text.outcome \in Outcomes /\ phase = "idle"
  BY HostAssumption DEF Compile, Idle
<1>2. CASE text.outcome = "parse error"
  BY <1>1, <1>2 DEF Compile, Parsed
<1>3. CASE text.outcome = "parsed"
  BY <1>3 DEF Compile, StartText, StartTypecheck, Enter, Parsed
<1>4. CASE text.outcome \in {"unreadable", "lex error", "read error"}
  BY <1>1, <1>4 DEF Compile, linkvars
<1>5. QED
  BY <1>1, <1>2, <1>3, <1>4 DEF Outcomes

LEMMA ForeignsDeclared ==
  ASSUME TableInv
  PROVE  ForeignDecls \in Seq(Decl) /\ StringsOf(ForeignDecls) = {}
<1>1. Foreigns \subseteq Nat \ {NONE} /\ foreigns \in Seq(Foreigns)
  BY HostAssumption DEF TableInv, Counts
<1>2. \A f \in Foreigns : Foreign(f) \in Decl /\ Foreign(f).stmts = << >>
  <2>1. << >> \in Seq(Stmt)
    OBVIOUS
  <2>2. QED
    BY <1>1, <2>1 DEF Foreign, Decl
<1>3. Len(foreigns) \in Nat /\ \A i \in 1 .. Len(foreigns) : foreigns[i] \in Foreigns
  BY <1>1
<1>4. ForeignDecls \in [1 .. Len(foreigns) -> Decl]
  BY <1>2, <1>3 DEF ForeignDecls
<1>5. ForeignDecls \in Seq(Decl) /\ Len(ForeignDecls) = Len(foreigns)
  BY <1>3, <1>4
<1>6. \A i \in 1 .. Len(ForeignDecls) : ForeignDecls[i].stmts = << >>
  BY <1>2, <1>3, <1>5 DEF ForeignDecls
<1>7. Len(<< >>) = 0
  OBVIOUS
<1>8. \A p : ~IsPlace(ForeignDecls, p)
  BY <1>6, <1>7 DEF IsPlace
<1>9. QED
  BY <1>5, <1>8, StringPlace

LEMMA CountedCompile ==
  ASSUME TableInv, StringsCounted, NEW text \in Texts, Compile(text)
  PROVE  StringsCounted'
<1>1. CASE UNCHANGED linkvars
  BY <1>1 DEF StringsCounted, linkvars, globals
<1>2. CASE Parsed(text)
  <2>1. /\ text.decls \in Seq(Decl) /\ ast \in Seq(Decl)
        /\ ForeignDecls \in Seq(Decl) /\ StringsOf(ForeignDecls) = {}
    BY HostAssumption, ForeignsDeclared DEF TableInv, Counts
  <2>2. PICK front : front = ast \o ForeignDecls
    OBVIOUS
  <2>3. front \in Seq(Decl)
    BY <2>1, <2>2
  <2>4. Cardinality(StringsOf(front)) <= Cardinality(StringsOf(ast)) + Cardinality(StringsOf(ForeignDecls))
    BY <2>1, <2>2, StringsConcat
  <2>5. Cardinality(StringsOf(ForeignDecls)) = 0
    BY <2>1, FS_EmptySet
  <2>6. PICK new : new = front \o text.decls
    OBVIOUS
  <2>7. Cardinality(StringsOf(new)) <= Cardinality(StringsOf(front)) + Cardinality(StringsOf(text.decls))
    BY <2>1, <2>3, <2>6, StringsConcat
  <2>8. new \in Seq(Decl)
    BY <2>1, <2>3, <2>6
  <2>9. /\ Cardinality(StringsOf(front)) \in Nat /\ Cardinality(StringsOf(text.decls)) \in Nat
        /\ Cardinality(StringsOf(new)) \in Nat /\ Cardinality(StringsOf(ast)) \in Nat
    BY <2>1, <2>3, <2>8, StringsFinite
  <2>10. ast' = new /\ string_count' = string_count + Cardinality(StringsOf(text.decls))
    BY <1>2, <2>2, <2>6 DEF Parsed, Literals
  <2>11. string_count' \in Nat /\ Cardinality(StringsOf(new)) <= string_count'
    BY <2>4, <2>5, <2>7, <2>9, <2>10 DEF StringsCounted
  <2>12. StringsOf(ast)' = StringsOf(new)
    BY <2>10 DEF StringsOf
  <2>13. QED
    BY <2>11, <2>12 DEF StringsCounted
<1>3. QED
  BY <1>1, <1>2, CompileOutcomes

LEMMA CountedStep ==
  ASSUME TableInv, TableInv', StringsCounted, Link
  PROVE  StringsCounted'
<1>1. CASE CheckFunction
  <2>1. ast \in Seq(Decl) /\ ast' \in Seq(Decl) /\ next \in 1 .. Len(ast) + 1
    BY DEF TableInv, Counts
  <2>2. string_count' \in Nat /\ Cardinality(StringsOf(ast')) <= string_count'
    BY <1>1, <2>1, CheckCounts DEF StringsCounted
  <2>3. StringsOf(ast)' = StringsOf(ast')
    BY DEF StringsOf
  <2>4. QED
    BY <2>2, <2>3 DEF StringsCounted
<1>2. CASE UNCHANGED globals
  BY <1>2 DEF StringsCounted, globals
<1>3. CheckFunction \/ UNCHANGED globals
  BY DEF Link, AddFunction, EndCollect, StartCompile, CompileTld, EndCompile, Resolve, EndResolve
<1>4. QED
  BY <1>1, <1>2, <1>3

(* A step that changes nothing.                                               *)
LEMMA LinkInvStutter ==
  ASSUME LinkInv, UNCHANGED linkvars
  PROVE  LinkInv'
<1>1. /\ phase' = phase /\ next' = next /\ ast' = ast /\ function_count' = function_count /\ table' = table
      /\ ft' = ft /\ memory' = memory /\ code' = code /\ pool' = pool /\ todo' = todo
  BY DEF linkvars, globals, cc
<1>2. ASSUME NEW n, CheckedTo(n) PROVE CheckedTo(n)'
  BY <1>1, <1>2, CheckedKept
<1>3. ASSUME NEW n, CodeInv, Placed(Generated, n) PROVE CodeInv' /\ Placed(Generated, n)'
  BY <1>1, <1>3, CodeKept
<1>4. CASE phase \in {"idle", "collect"}
  BY <1>1, <1>4 DEF LinkInv
<1>5. CASE phase = "check"
  BY <1>1, <1>2, <1>5 DEF LinkInv
<1>6. CASE phase = "emit"
  <2>1. PICK n \in Nat : next = n + 1 /\ Placed(Generated, n)
    BY <1>6 DEF LinkInv
  <2>2. CodeInv' /\ Placed(Generated, n)'
    BY <1>3, <1>6, <2>1 DEF LinkInv
  <2>3. PICK N : N = Len(ast) /\ CheckedTo(N)
    BY <1>6 DEF LinkInv
  <2>4. CheckedTo(N)'
    BY <1>2, <2>3
  <2>5. CheckedTo(Len(ast))'
    BY <1>1, <2>3, <2>4 DEF CheckedTo
  <2>6. Unpatched(code)'
    BY <1>1, <1>6 DEF LinkInv
  <2>7. QED
    BY <1>1, <1>6, <2>1, <2>2, <2>5, <2>6 DEF LinkInv
<1>7. CASE phase \in {"resolve", "linked"}
  <2>1. PICK n : n = Len(ast) /\ Placed(Generated, n)
    BY <1>7 DEF LinkInv
  <2>2. CodeInv' /\ Placed(Generated, n)'
    BY <1>3, <1>7, <2>1 DEF LinkInv
  <2>3. Placed(Generated, Len(ast))'
    BY <1>1, <2>1, <2>2
  <2>4. \A R : (PatchedTo(R) => PatchedTo(R)') /\ (Reaching(R) => Reaching(R)')
    BY <1>1 DEF PatchedTo, Reaching
  <2>5. phase = "resolve" => \E R : Reaching(R)' /\ PatchedTo(R)'
    BY <2>4 DEF LinkInv
  <2>6. phase = "linked" => PatchedTo(1 .. Len(ft))'
    BY <1>1 DEF LinkInv, PatchedTo
  <2>7. QED
    BY <1>1, <1>7, <2>2, <2>3, <2>5, <2>6 DEF LinkInv
<1>8. CASE phase \notin {"idle", "collect", "check", "emit", "resolve", "linked"}
  BY <1>1, <1>8 DEF LinkInv
<1>9. QED
  BY <1>4, <1>5, <1>6, <1>7, <1>8

LEMMA CompiledNext == CompiledInv /\ [HostNext]_vars => CompiledInv'
<1> SUFFICES ASSUME CompiledInv, [HostNext]_vars PROVE CompiledInv'
  OBVIOUS
<1>1. TableInv /\ TableInv' /\ LinkInv /\ StringsCounted
  BY TableInvNext DEF CompiledInv
<1>2. SUFFICES LinkInv' /\ StringsCounted'
  BY <1>1 DEF CompiledInv
<1>3. CASE UNCHANGED linkvars
  BY <1>1, <1>3, LinkInvStutter DEF StringsCounted, linkvars, globals
<1>4. ASSUME NEW text \in Texts, Compile(text) PROVE LinkInv' /\ StringsCounted'
  <2>1. LinkInv'
    BY <1>4, CompileOutcomes DEF LinkInv
  <2>2. StringsCounted'
    BY <1>1, <1>4, CountedCompile
  <2>3. QED
    BY <2>1, <2>2
<1>5. CASE CompileStep
  <2>1. Link /\ ast \in Seq(Decl) /\ next \in 1 .. Len(ast) + 1
    BY <1>1, <1>5 DEF CompileStep, TableInv, Counts
  <2>2. phase \in {"check", "emit"} => LookupOK
    BY <1>1, TableInvLookup
  <2>3. LinkInv'
    BY <1>1, <2>1, <2>2, LinkInvStep
  <2>4. QED
    BY <1>1, <2>1, <2>3, CountedStep
<1>6. CASE Return
  BY <1>1, <1>6 DEF Return, Enter, globals, LinkInv, StringsCounted
<1>7. \/ UNCHANGED linkvars
      \/ \E text \in Texts : Compile(text)
      \/ CompileStep
      \/ Return
  BY DEF HostNext, vars, del_register_function, del_compiler_free, del_vm_init, del_program_free, del_vm_execute, del_vm_free
<1>8. QED
  BY <1>3, <1>4, <1>5, <1>6, <1>7

LEMMA PoolFitsByInv == CompiledInv => PoolFits
<1> SUFFICES ASSUME CompiledInv, phase \in {"emit", "resolve", "linked"} PROVE Len(pool) <= string_count
  BY DEF PoolFits
<1>1. PoolGood(pool) /\ ast \in Seq(Decl) /\ StringsCounted /\ Len(pool) \in Nat
  BY DEF CompiledInv, LinkInv, CodeInv, TableInv, Counts, PoolGood
<1>2. Len(pool) <= Cardinality(StringsOf(ast)) /\ Cardinality(StringsOf(ast)) \in Nat
  BY <1>1, PoolBound, StringsFinite
<1>3. QED
  BY <1>1, <1>2 DEF StringsCounted

LEMMA CompiledAlways == HostSpec => []CompiledInv
  BY CompiledInit, CompiledNext, PTL DEF HostSpec

(* While code is generated the call table finds every name, and lists for each  *)
(* exactly the jumps to it, whatever the order in which functions are defined    *)
(* and called.                                                               *)
THEOREM CallsAreIndexed == HostSpec => []CallsIndexed
<1>1. CompiledInv => CallsIndexed
  BY IndexedByInv DEF CompiledInv
<1>2. QED
  BY <1>1, CompiledAlways, PTL

(* In linked code every call reaches the function that its name stands for: the  *)
(* foreign one that is declared first, or the last definition of the name.       *)
THEOREM CallsAreResolved == HostSpec => []CallsResolved
<1>1. CompiledInv => CallsResolved
  <2> SUFFICES ASSUME CompiledInv PROVE CallsResolved
    OBVIOUS
  <2>1. LinkInv /\ Len(ast) \in Nat
    BY DEF CompiledInv, TableInv, Counts
  <2>2. QED
    BY <2>1, ResolvedByInv
<1>2. QED
  BY <1>1, CompiledAlways, PTL

(* The string pool is never overrun, however many texts, accepted or refused,     *)
(* were compiled before and however often println added a newline to them.       *)
THEOREM PoolNeverOverrun == HostSpec => []PoolFits
<1>1. QED
  BY PoolFitsByInv, CompiledAlways, PTL

(* Types, the bounds of the code's operands among them.                        *)
LEMMA TypeByInv == ASSUME CompiledInv, ProgramsInv, compiler \in {"live", "freed", "aborted"} PROVE TypeOK
<1>1. /\ phase \in Phases /\ next \in 1 .. Len(ast) + 1 /\ Len(ast) <= function_count
      /\ ast \in Seq(Decl) /\ (phase # "idle" => DOMAIN table = 0 .. function_count - 1)
  BY DEF CompiledInv, TableInv, Counts, Stored
<1>2. \A i \in 1 .. Len(ast) : ast[i].name # NONE
  <2> TAKE i \in 1 .. Len(ast)
  <2>1. ast[i] \in Decl
    BY <1>1
  <2>2. QED
    BY <2>1 DEF Decl
<1>3. phase \in {"emit", "resolve", "linked"} =>
        \A k \in 1 .. Len(code) :
          /\ code[k].op = "PUSH" => code[k].arg \in 0 .. Len(pool) - 1
          /\ code[k].op = "JMP" => code[k].target \in 0 .. Len(code) - 1
  BY DEF CompiledInv, LinkInv, CodeInv, WordGood
<1>4. \A m \in 1 .. Len(machines) : machines[m].program \in 1 .. Len(programs)
  BY DEF ProgramsInv, HostShape
<1>5. QED
  BY <1>1, <1>2, <1>3, <1>4 DEF TypeOK, Phases
-----------------------------------------------------------------------------
(* Every block has an owner that can still free it, but for the files that are   *)
(* left open.                                                                *)
Accounted(b) ==
  \/ b[1] = "open file"
  \/ compiler # "freed" /\ b \in CompilerBlocks
  \/ Generating /\ b \in Unfinished
  \/ \E p \in 1 .. Len(programs) :
       programs[p].live /\ b \in ProgramBlocks(p, programs[p].strings, programs[p].pooled)
  \/ \E m \in 1 .. Len(machines) : machines[m].status # "freed" /\ b \in MachineBlocks(m)
OwnedInv ==
  /\ compiler \in {"live", "freed", "aborted"} /\ (compiler = "freed" => phase = "idle")
  /\ \A b \in blocks : Accounted(b)

LEMMA StatusSet ==
  ASSUME HostShape, NEW m \in 1 .. Len(machines), NEW status, SetsStatus(m, status)
  PROVE  /\ Len(machines') = Len(machines)
         /\ \A k \in 1 .. Len(machines) : machines'[k].status = IF k = m THEN status ELSE machines[k].status
<1>1. PICK a, b : machines[m] = [program |-> a, status |-> b]
  <2>1. machines[m] = [program |-> machines[m].program, status |-> machines[m].status]
    BY DEF HostShape
  <2>2. QED
    BY <2>1, Zenon
<1>2. PICK new : new = [machines[m] EXCEPT !.status = status]
  OBVIOUS
<1>3. new = [program |-> a, status |-> status]
  BY <1>1, <1>2
<1>4. machines' = Update(machines, m, new)
  BY <1>2 DEF SetsStatus, Update
<1>5. /\ Len(machines') = Len(machines)
      /\ \A k \in 1 .. Len(machines) : machines'[k] = IF k = m THEN new ELSE machines[k]
  BY <1>4, UpdateIsSeq DEF HostShape
<1>6. QED
  BY <1>3, <1>5

LEMMA ProgramReplaced ==
  ASSUME IsSeq(programs), NEW p \in 1 .. Len(programs), NEW new
  PROVE  /\ Len(Update(programs, p, new)) = Len(programs)
         /\ \A q \in 1 .. Len(programs) : Update(programs, p, new)[q] = IF q = p THEN new ELSE programs[q]
BY UpdateIsSeq

LEMMA ProgramFreed ==
  ASSUME HostShape, NEW p \in 1 .. Len(programs), programs' = [programs EXCEPT ![p].live = FALSE]
  PROVE  /\ Len(programs') = Len(programs)
         /\ \A q \in 1 .. Len(programs) : q # p => programs'[q] = programs[q]
<1>1. PICK dead : dead = [programs[p] EXCEPT !.live = FALSE]
  OBVIOUS
<1>2. programs' = Update(programs, p, dead)
  BY <1>1, Zenon DEF Update
<1>3. IsSeq(programs)
  BY DEF HostShape
<1>4. /\ Len(programs') = Len(programs)
      /\ \A q \in 1 .. Len(programs) : programs'[q] = IF q = p THEN dead ELSE programs[q]
  <2>1. /\ Len(Update(programs, p, dead)) = Len(programs)
        /\ \A q \in 1 .. Len(programs) : Update(programs, p, dead)[q] = IF q = p THEN dead ELSE programs[q]
    BY <1>3, ProgramReplaced, Zenon
  <2>2. QED
    BY <1>2, <2>1
<1>5. QED
  BY <1>4, Zenon

LEMMA OwnedInvInit == HostInit => OwnedInv
<1> SUFFICES ASSUME HostInit PROVE OwnedInv
  OBVIOUS
<1>1. compiler = "live" /\ blocks = CompilerBlocks
  BY DEF HostInit
<1>2. QED
  BY <1>1 DEF OwnedInv, Accounted

(* A step of a compilation: the pool has grown, and with it the program.         *)
LEMMA OwnedInvStep ==
  ASSUME CompiledInv, OwnedInv, CompileStep
  PROVE  OwnedInv'
<1>1. /\ Link /\ UNCHANGED <<programs, machines, compiler>>
      /\ blocks' = IF phase' \in {"emit", "resolve", "linked"}
                   THEN blocks \cup (ProgramBlocks(Len(programs) + 1, Len(pool'), string_count > 0)
                                       \ {Block("program", Len(programs) + 1, 0)})
                   ELSE blocks
  BY DEF CompileStep, hostvars
<1>2. phase # "idle" /\ (Generating => Generating')
  BY <1>1 DEF Generating, Link, AddFunction, EndCollect, CheckFunction, StartCompile, CompileTld, EndCompile, Resolve,
              EndResolve, Enter
<1>3. Generating \/ Generating' => string_count' = string_count
  BY <1>1 DEF Generating, Link, AddFunction, EndCollect, CheckFunction, StartCompile, CompileTld, EndCompile, Resolve,
              EndResolve, Enter, globals
<1>4. Generating => Len(pool) <= Len(pool') /\ Len(pool) \in Nat /\ Len(pool') \in Nat
  <2>1. LinkInv /\ ast \in Seq(Decl) /\ next \in 1 .. Len(ast) + 1 /\ (phase \in {"check", "emit"} => LookupOK)
    BY TableInvLookup DEF CompiledInv, TableInv, Counts
  <2>2. LinkInv' /\ (Generating => Len(pool) <= Len(pool'))
    BY <1>1, <2>1, LinkInvStep DEF Generating
  <2>3. Generating => PoolGood(pool) /\ PoolGood(pool)'
    BY <1>2, <2>1, <2>2 DEF LinkInv, CodeInv, Generating
  <2>4. QED
    BY <2>2, <2>3 DEF PoolGood
<1>5. Generating => Unfinished \subseteq Unfinished'
  <2> SUFFICES ASSUME Generating PROVE Unfinished \subseteq Unfinished'
    OBVIOUS
  <2>1. PICK n, m, p, pooled : /\ n = Len(pool) /\ m = Len(pool') /\ n \in Nat /\ m \in Nat /\ n <= m
                               /\ p = Len(programs) + 1 /\ pooled = (string_count > 0)
    BY <1>4
  <2>2. \A i \in 1 .. n : i \in 1 .. m
    BY <2>1
  <2>3. ProgramBlocks(p, n, pooled) \subseteq ProgramBlocks(p, m, pooled)
    BY <2>2 DEF ProgramBlocks
  <2>4. Unfinished = ProgramBlocks(p, n, pooled) \ {Block("program", p, 0)}
    BY <2>1 DEF Unfinished
  <2>5. Unfinished' = ProgramBlocks(p, m, pooled) \ {Block("program", p, 0)}
    BY <1>1, <1>3, <2>1 DEF Unfinished
  <2>6. QED
    BY <2>3, <2>4, <2>5
<1>6. Generating' => Unfinished' = ProgramBlocks(Len(programs) + 1, Len(pool'), string_count > 0)
                                     \ {Block("program", Len(programs) + 1, 0)}
  BY <1>1, <1>3 DEF Unfinished
<1>7. ASSUME NEW b \in blocks' PROVE Accounted(b)'
  <2>1. CASE b \in blocks
    <3>1. Accounted(b)
      BY <2>1 DEF OwnedInv
    <3>2. QED
      BY <1>1, <1>2, <1>5, <3>1 DEF Accounted
  <2>2. CASE b \notin blocks
    <3>1. Generating' /\ b \in Unfinished'
      BY <1>1, <1>6, <1>7, <2>2 DEF Generating
    <3>2. QED
      BY <3>1 DEF Accounted
  <2>3. QED
    BY <2>1, <2>2
<1>8. QED
  BY <1>1, <1>2, <1>7 DEF OwnedInv

(* What was generated is the new program's.                                    *)
LEMMA OwnedInvReturn ==
  ASSUME ProgramsInv, OwnedInv, Return
  PROVE  OwnedInv'
<1>1. PICK new, p : /\ new = [strings |-> Len(pool), pooled |-> string_count > 0, live |-> TRUE]
                    /\ p = Len(programs) + 1
  OBVIOUS
<1>2. /\ programs' = Append(programs, new) /\ UNCHANGED <<machines, compiler>>
      /\ blocks' = blocks \cup {Block("program", Len(programs'), 0)} /\ phase = "linked" /\ phase' = "idle"
  BY <1>1 DEF Return, Enter
<1>3. /\ Len(programs') = p /\ Len(programs) \in Nat /\ programs'[p] = new
      /\ \A q \in 1 .. Len(programs) : programs'[q] = programs[q]
  BY <1>1, <1>2, AppendIsSeq DEF ProgramsInv, HostShape
<1>4. p \in 1 .. Len(programs') /\ \A q \in 1 .. Len(programs) : q \in 1 .. Len(programs')
  BY <1>1, <1>3
<1>5. programs'[p].live /\ programs'[p].strings = Len(pool) /\ programs'[p].pooled = (string_count > 0)
  BY <1>1, <1>3
<1>6. ASSUME NEW b, b \in ProgramBlocks(p, Len(pool), string_count > 0) PROVE Accounted(b)'
  BY <1>4, <1>5, <1>6 DEF Accounted
<1>7. Unfinished \subseteq ProgramBlocks(p, Len(pool), string_count > 0)
  BY <1>1 DEF Unfinished
<1>8. Block("program", p, 0) \in ProgramBlocks(p, Len(pool), string_count > 0)
  BY DEF ProgramBlocks
<1>9. ASSUME NEW b \in blocks' PROVE Accounted(b)'
  <2>1. CASE b = Block("program", p, 0)
    BY <1>6, <1>8, <2>1
  <2>2. CASE b # Block("program", p, 0)
    <3>1. Accounted(b)
      BY <1>2, <1>3, <1>9, <2>2 DEF OwnedInv
    <3>2. CASE b \in Unfinished
      BY <1>6, <1>7, <3>2
    <3>3. CASE b \notin Unfinished
      BY <1>2, <1>3, <1>4, <3>1, <3>3 DEF Accounted
    <3>4. QED
      BY <3>2, <3>3
  <2>3. QED
    BY <2>1, <2>2
<1>10. QED
  BY <1>2, <1>9 DEF OwnedInv

(* The host's other calls.                                                    *)
LEMMA OwnedInvFreeCompiler ==
  ASSUME OwnedInv, del_compiler_free
  PROVE  OwnedInv'
<1>1. /\ phase' = phase /\ phase = "idle" /\ compiler' = "freed" /\ UNCHANGED <<programs, machines>>
      /\ blocks' = blocks \ CompilerBlocks
  BY DEF del_compiler_free, Idle, linkvars
<1>2. ASSUME NEW b \in blocks' PROVE Accounted(b)'
  <2>1. Accounted(b) /\ b \notin CompilerBlocks
    BY <1>1, <1>2 DEF OwnedInv
  <2>2. QED
    BY <1>1, <2>1 DEF Accounted, Generating
<1>3. QED
  BY <1>1, <1>2 DEF OwnedInv

LEMMA OwnedInvCompile ==
  ASSUME OwnedInv, NEW text \in Texts, Compile(text)
  PROVE  OwnedInv'
<1>1. phase = "idle" /\ compiler' = compiler /\ compiler = "live" /\ UNCHANGED <<programs, machines>>
  BY DEF Compile, Idle
<1>2. blocks' = blocks \/ blocks' = blocks \cup {Block("open file", 0, compiles')}
  <2>1. text.outcome \in Outcomes
    BY HostAssumption
  <2>2. QED
    BY <2>1 DEF Compile, Outcomes
<1>3. Block("open file", 0, compiles')[1] = "open file"
  BY DEF Block
<1>4. ASSUME NEW b \in blocks' PROVE Accounted(b)'
  <2>1. CASE b[1] = "open file"
    BY <2>1 DEF Accounted
  <2>2. CASE b[1] # "open file"
    <3>1. b \in blocks
      BY <1>2, <1>3, <1>4, <2>2
    <3>2. Accounted(b) /\ ~Generating
      BY <1>1, <3>1 DEF OwnedInv, Generating
    <3>3. QED
      BY <1>1, <3>2 DEF Accounted
  <2>3. QED
    BY <2>1, <2>2
<1>5. QED
  BY <1>1, <1>4 DEF OwnedInv

LEMMA OwnedInvMachine ==
  ASSUME ProgramsInv, OwnedInv, NEW p \in 1 .. Len(programs), del_vm_init(p)
  PROVE  OwnedInv'
<1>1. PICK new : new = [program |-> p, status |-> "initialized"]
  OBVIOUS
<1>2. /\ phase' = phase /\ phase = "idle" /\ UNCHANGED <<programs, compiler>>
      /\ machines' = Append(machines, new) /\ blocks' = blocks \cup MachineBlocks(Len(machines'))
  BY <1>1 DEF del_vm_init, Idle, linkvars
<1>3. /\ Len(machines') = Len(machines) + 1 /\ Len(machines) \in Nat /\ machines'[Len(machines) + 1] = new
      /\ \A m \in 1 .. Len(machines) : machines'[m] = machines[m]
  BY <1>2, AppendIsSeq DEF ProgramsInv, HostShape
<1>4. /\ Len(machines') \in 1 .. Len(machines') /\ \A m \in 1 .. Len(machines) : m \in 1 .. Len(machines')
      /\ machines'[Len(machines')].status # "freed"
  BY <1>1, <1>3
<1>5. ASSUME NEW b \in blocks' PROVE Accounted(b)'
  <2>1. CASE b \in MachineBlocks(Len(machines'))
    BY <1>4, <2>1 DEF Accounted
  <2>2. CASE b \notin MachineBlocks(Len(machines'))
    <3>1. Accounted(b) /\ ~Generating
      BY <1>2, <1>5, <2>2 DEF OwnedInv, Generating
    <3>2. QED
      BY <1>2, <1>3, <1>4, <3>1 DEF Accounted
  <2>3. QED
    BY <2>1, <2>2
<1>6. QED
  BY <1>2, <1>5 DEF OwnedInv

LEMMA OwnedInvExecute ==
  ASSUME ProgramsInv, OwnedInv, NEW m \in 1 .. Len(machines), del_vm_execute(m)
  PROVE  OwnedInv'
<1>1. /\ phase' = phase /\ phase = "idle" /\ UNCHANGED <<programs, compiler>> /\ blocks' = blocks
  BY DEF del_vm_execute, Idle, linkvars
<1>2. PICK status \in {"error", "completed", "yield"} : SetsStatus(m, status)
  BY DEF del_vm_execute, SetsStatus
<1>3. /\ Len(machines') = Len(machines)
      /\ \A k \in 1 .. Len(machines) : machines'[k].status = IF k = m THEN status ELSE machines[k].status
  BY <1>2, StatusSet DEF ProgramsInv
<1>4. \A k \in 1 .. Len(machines) : machines[k].status # "freed" => machines'[k].status # "freed"
  BY <1>2, <1>3
<1>5. ASSUME NEW b \in blocks PROVE Accounted(b)'
  <2>1. Accounted(b) /\ ~Generating
    BY <1>1 DEF OwnedInv, Generating
  <2>2. QED
    BY <1>1, <1>3, <1>4, <2>1 DEF Accounted
<1>6. QED
  BY <1>1, <1>5 DEF OwnedInv

LEMMA OwnedInvFreeMachine ==
  ASSUME ProgramsInv, OwnedInv, NEW m \in 1 .. Len(machines), del_vm_free(m)
  PROVE  OwnedInv'
<1>1. /\ phase' = phase /\ phase = "idle" /\ UNCHANGED <<programs, compiler>> /\ blocks' = blocks \ MachineBlocks(m)
      /\ SetsStatus(m, "freed")
  BY DEF del_vm_free, Idle, linkvars, SetsStatus
<1>2. /\ Len(machines') = Len(machines)
      /\ \A k \in 1 .. Len(machines) : machines'[k].status = IF k = m THEN "freed" ELSE machines[k].status
  BY <1>1, StatusSet DEF ProgramsInv
<1>3. \A k \in 1 .. Len(machines) : k # m => machines'[k].status = machines[k].status
  BY <1>2
<1>4. ASSUME NEW b \in blocks' PROVE Accounted(b)'
  <2>1. Accounted(b) /\ ~Generating /\ b \notin MachineBlocks(m)
    BY <1>1, <1>4 DEF OwnedInv, Generating
  <2>2. QED
    BY <1>1, <1>2, <1>3, <2>1 DEF Accounted
<1>5. QED
  BY <1>1, <1>4 DEF OwnedInv

LEMMA OwnedInvFreeProgram ==
  ASSUME ProgramsInv, OwnedInv, NEW p \in 1 .. Len(programs), del_program_free(p)
  PROVE  OwnedInv'
<1>1. /\ phase' = phase /\ phase = "idle" /\ UNCHANGED <<machines, compiler>>
      /\ blocks' = blocks \ ProgramBlocks(p, programs[p].strings, programs[p].pooled)
      /\ programs' = [programs EXCEPT ![p].live = FALSE]
  BY DEF del_program_free, Idle, linkvars
<1>2. /\ Len(programs') = Len(programs)
      /\ \A q \in 1 .. Len(programs) : q # p => programs'[q] = programs[q]
  BY <1>1, ProgramFreed DEF ProgramsInv
<1>3. ASSUME NEW b \in blocks' PROVE Accounted(b)'
  <2>1. Accounted(b) /\ ~Generating /\ b \notin ProgramBlocks(p, programs[p].strings, programs[p].pooled)
    BY <1>1, <1>3 DEF OwnedInv, Generating
  <2>2. QED
    BY <1>1, <1>2, <2>1 DEF Accounted
<1>4. QED
  BY <1>1, <1>3 DEF OwnedInv

LEMMA OwnedInvNext == CompiledInv /\ ProgramsInv /\ OwnedInv /\ [HostNext]_vars => OwnedInv'
<1> SUFFICES ASSUME CompiledInv, ProgramsInv, OwnedInv, [HostNext]_vars PROVE OwnedInv'
  OBVIOUS
<1>1. ASSUME NEW name \in Foreigns, NEW object \in BOOLEAN, del_register_function(name, object) PROVE OwnedInv'
  <2>1. /\ phase' = phase /\ phase = "idle" /\ UNCHANGED <<programs, machines>> /\ blocks' = blocks
        /\ compiler = "live" /\ compiler' \in {"live", "aborted"}
    BY <1>1 DEF del_register_function, Idle, linkvars
  <2>2. ASSUME NEW b \in blocks PROVE Accounted(b)'
    <3>1. Accounted(b) /\ ~Generating
      BY <2>1 DEF OwnedInv, Generating
    <3>2. QED
      BY <2>1, <3>1 DEF Accounted
  <2>3. QED
    BY <2>1, <2>2 DEF OwnedInv
<1>2. ASSUME NEW text \in Texts, Compile(text) PROVE OwnedInv'
  BY <1>2, OwnedInvCompile
<1>3. CASE CompileStep
  BY <1>3, OwnedInvStep
<1>4. CASE Return
  BY <1>4, OwnedInvReturn
<1>5. CASE del_compiler_free
  BY <1>5, OwnedInvFreeCompiler
<1>6. ASSUME NEW p \in 1 .. Len(programs), del_vm_init(p) \/ del_program_free(p) PROVE OwnedInv'
  BY <1>6, OwnedInvMachine, OwnedInvFreeProgram
<1>7. ASSUME NEW m \in 1 .. Len(machines), del_vm_execute(m) \/ del_vm_free(m) PROVE OwnedInv'
  BY <1>7, OwnedInvExecute, OwnedInvFreeMachine
<1>8. CASE UNCHANGED vars
  <2>1. /\ UNCHANGED <<programs, machines, compiler, blocks, phase>>
        /\ Generating' = Generating /\ Unfinished' = Unfinished
    BY <1>8 DEF vars, hostvars, linkvars, globals, cc, Generating, Unfinished
  <2>2. \A b \in blocks : Accounted(b)'
    BY <2>1 DEF OwnedInv, Accounted
  <2>3. QED
    BY <2>1, <2>2 DEF OwnedInv
<1>9. QED
  BY <1>1, <1>2, <1>3, <1>4, <1>5, <1>6, <1>7, <1>8 DEF HostNext

LEMMA OwnedByInv ==
  ASSUME ProgramsInv, OwnedInv
  PROVE  Owned
<1>1. ASSUME AllFreed, NEW b \in blocks PROVE b[1] = "open file"
  <2>1. phase = "idle" /\ compiler = "freed" /\ Accounted(b)
    BY <1>1 DEF OwnedInv, AllFreed
  <2>2. QED
    BY <1>1, <2>1 DEF Accounted, Generating, AllFreed
<1>2. QED
  BY <1>1 DEF ProgramsInv, Owned

LEMMA HostAlways == HostSpec => [](CompiledInv /\ ProgramsInv /\ OwnedInv)
<1>1. HostInit => CompiledInv /\ ProgramsInv /\ OwnedInv
  BY CompiledInit, ProgramsInvInit, OwnedInvInit
<1>2. CompiledInv /\ ProgramsInv /\ OwnedInv /\ [HostNext]_vars => (CompiledInv /\ ProgramsInv /\ OwnedInv)'
  BY CompiledNext, ProgramsInvNext, OwnedInvNext
<1>3. QED
  BY <1>1, <1>2, PTL DEF HostSpec

(* The state is well typed; what the code refers to is there.                   *)
THEOREM HostTyped == HostSpec => []TypeOK
<1>1. CompiledInv /\ ProgramsInv /\ OwnedInv => TypeOK
  BY TypeByInv DEF OwnedInv
<1>2. QED
  BY <1>1, HostAlways, PTL

(* A program is whole as long as it lives, and when the host has freed what it    *)
(* was given nothing stays allocated but the files that readfile left open.       *)
THEOREM EverythingOwned == HostSpec => []Owned
<1>1. CompiledInv /\ ProgramsInv /\ OwnedInv => Owned
  BY OwnedByInv
<1>2. QED
  BY <1>1, HostAlways, PTL
=============================================================================
