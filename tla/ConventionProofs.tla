-------------------------- MODULE ConventionProofs --------------------------
(***************************************************************************)
(* Machine-checked facts about VM on disciplined code (module Convention),   *)
(* for every such code and every size of the stacks and the heap.  The rules *)
(* look at one instruction at a time; what they add up to is a stack of      *)
(* calls, which the machine keeps only implicitly: the return addresses and  *)
(* the values that each waiting function has left on the stacks.             *)
(***************************************************************************)
EXTENDS Convention, VMProofs, WellFoundedInduction

(* A call that is not over: the address it returns to, and where its part of  *)
(* each stack begins.  Activation 0 is the code that calls main.              *)
Activation == [val : Nat, obj : Nat, ret : Nat]

Match(a, c, ret) == a = Opaque \/ c = a \/ (a = Ret /\ c = Addr(ret))
Matches(abstract, n, cells, base, ret) == \A i \in 1 .. n : Match(abstract[i], cells[base + i], ret)

(* The running function's part of the stacks is as its shape says.            *)
Top(sh, a, st) ==
  /\ Len(st["val"]) = a.val + Len(sh.val) /\ Len(st["obj"]) = a.obj + sh.obj
  /\ Matches(sh.val, Len(sh.val), st["val"], a.val, a.ret)

(* a waits for b to return: its part of the stacks is as the shape at the      *)
(* return address says, but for what b took and what it will give.            *)
Waits(p, a, b, gives, st) ==
  LET back == Known[p][b.ret]
  IN  /\ b.ret \in DOMAIN Known[p] /\ back.entering /\ OpAt(p, b.ret) = "POP_SCOPE"
      /\ b.val + gives["val"] = a.val + Len(back.val)
      /\ b.obj + gives["obj"] = a.obj + back.obj
      /\ Matches(back.val, b.val - a.val, st["val"], a.val, a.ret)
      /\ \A i \in b.val - a.val + 1 .. Len(back.val) : back.val[i] = Opaque

(* Where a function's slots begin, and the slots it has counted so far.       *)
Low(f, j) == IF j = 0 THEN 0 ELSE f.offsets[j]
NextSlot(sh, d, f) == IF sh.entering THEN f.offsets[d + 1] ELSE f.index

FramesStand(p, sh, d, act, f, s) ==
  /\ Len(f.offsets) = d + (IF sh.entering THEN 1 ELSE 0)
  /\ \A j \in 1 .. d : f.offsets[j] >= Low(f, j - 1) + Known[p][act[j].ret].defined[s]
  /\ d # 0 => f.offsets[1] = 0
  /\ NextSlot(sh, d, f) >= Low(f, d) + sh.defined[s]
  /\ d = 0 => NextSlot(sh, d, f) = 0

ShapeOf(p, sh, d, act, j) == IF j = d THEN sh ELSE Known[p][act[j + 1].ret]

Stands(p, sh, d, act, st, fr) ==
  /\ act[0].val = 0 /\ act[0].obj = 0
  /\ \A i, j \in 0 .. d : i <= j => act[i].val <= act[j].val /\ act[i].obj <= act[j].obj
  /\ Top(sh, act[d], st)
  /\ \A j \in 1 .. d : Waits(p, act[j - 1], act[j], ShapeOf(p, sh, d, act, j).gives, st)
  /\ \A j \in 0 .. d : ShapeOf(p, sh, d, act, j).main <=> (j = 0)
  /\ \A s \in Kinds : FramesStand(p, sh, d, act, fr[s], s)

Conforms(p, i, st, fr) ==
  /\ i \in DOMAIN Known[p]
  /\ \E d \in Nat : \E act \in [0 .. d -> Activation] : Stands(p, Known[p][i], d, act, st, fr)

(* The inductive invariant: while nothing has failed, the machine conforms to   *)
(* the shape known at ip.                                                   *)
CInv ==
  /\ Disciplined(prog)
  /\ control # "host" => status \notin {"ERROR", "COMPLETED"}
  /\ status # "ERROR" => Conforms(prog, ip, stacks, frames)
  /\ CompletedClean
  /\ control = "crashed" => ~Defined
-----------------------------------------------------------------------------
(* Sequences.                                                                *)

(* The last n elements replaced by those of c.                                *)
Replace(q, n, c) == SubSeq(q, 1, Len(q) - n) \o c

IsReplaced(q, n, c, r) ==
  /\ Len(r) = Len(q) - n + Len(c)
  /\ \A i \in 1 .. Len(q) - n : r[i] = q[i]
  /\ \A i \in 1 .. Len(c) : r[Len(q) - n + i] = c[i]

(* What is left and what is new when n cells are replaced.                    *)
LEMMA Replaced ==
  ASSUME NEW S, NEW q \in Seq(S), NEW n \in Nat, n <= Len(q), NEW c \in Seq(S)
  PROVE  /\ Replace(q, n, c) \in Seq(S) /\ IsReplaced(q, n, c, Replace(q, n, c))
         /\ Len(q) \in Nat /\ Len(c) \in Nat
<1>1. Len(q) \in Nat /\ Len(c) \in Nat
  OBVIOUS
<1>2. PICK l : l = Len(q) - n
  OBVIOUS
<1>3. l \in Nat /\ \A i \in 1 .. l : q[i] \in S
  BY <1>1, <1>2, ElementOfSeq
<1>4. PICK h : h = SubSeq(q, 1, l)
  OBVIOUS
<1>5. /\ h \in Seq(S) /\ Len(h) = (IF 1 <= l THEN l - 1 + 1 ELSE 0)
      /\ \A i \in 1 .. l - 1 + 1 : h[i] = q[1 + i - 1]
  BY <1>3, <1>4, SubSeqProperties
<1>6. Len(h) = l /\ \A i \in 1 .. l : h[i] = q[i]
  BY <1>3, <1>5
<1>7. PICK r : r = h \o c
  OBVIOUS
<1>8. /\ r \in Seq(S) /\ Len(r) = Len(h) + Len(c)
      /\ \A i \in 1 .. Len(h) + Len(c) : r[i] = IF i <= Len(h) THEN h[i] ELSE c[i - Len(h)]
  BY <1>5, <1>7, ConcatProperties
<1>9. /\ r \in Seq(S) /\ Len(r) = l + Len(c)
      /\ \A i \in 1 .. l + Len(c) : r[i] = IF i <= l THEN h[i] ELSE c[i - l]
  BY <1>6, <1>8
<1>10. \A i \in 1 .. l : r[i] = q[i]
  BY <1>1, <1>3, <1>6, <1>9
<1>11. ASSUME NEW i \in 1 .. Len(c)
       PROVE  r[l + i] = c[i]
  <2>1. PICK j : j = l + i
    OBVIOUS
  <2>2. j \in 1 .. l + Len(c) /\ ~ (j <= l) /\ j - l = i
    BY <1>1, <1>3, <2>1
  <2> QED BY <1>9, <2>1, <2>2
<1>12. Replace(q, n, c) = r
  BY <1>2, <1>4, <1>7, Zenon DEF Replace
<1> QED BY <1>1, <1>2, <1>9, <1>10, <1>11, <1>12, Zenon DEF IsReplaced

(* Cells of which nothing is known match whatever is there.                   *)
LEMMA OpaqueFacts ==
  ASSUME NEW n \in Nat
  PROVE  Opaques(n) \in Seq(Abstract) /\ Len(Opaques(n)) = n /\ \A i \in 1 .. n : Opaques(n)[i] = Opaque
BY DEF Opaques, Abstract
-----------------------------------------------------------------------------
(* One step of the running function.                                         *)

(* The same in sequences: v is a shape's, q the stack it says something of.    *)
Segment(v, q, base, ret) ==
  /\ base \in Nat /\ Len(v) \in Nat /\ Len(q) = base + Len(v) /\ Matches(v, Len(v), q, base, ret)
SameBelow(base, q, r) == \A i \in 1 .. base : r[i] = q[i]

(* A part of the stack still matches when its top is replaced by what is known. *)
LEMMA SegmentMoved ==
  ASSUME NEW v, NEW q, NEW base, NEW ret, Segment(v, q, base, ret),
         NEW n \in Nat, n <= Len(v), NEW known, NEW cells, Segment(known, cells, 0, ret),
         NEW w, IsReplaced(v, n, known, w), NEW r, IsReplaced(q, n, cells, r)
  PROVE  Segment(w, r, base, ret) /\ SameBelow(base, q, r)
<1> USE DEF Segment
<1>1. Len(v) \in Nat /\ Len(q) \in Nat /\ Len(known) \in Nat /\ Len(cells) \in Nat /\ base \in Nat
  OBVIOUS
<1>3. /\ Len(w) = Len(v) - n + Len(known)
      /\ \A i \in 1 .. Len(v) - n : w[i] = v[i]
      /\ \A i \in 1 .. Len(known) : w[Len(v) - n + i] = known[i]
  BY DEF IsReplaced
<1>4. /\ Len(r) = Len(q) - n + Len(cells)
      /\ \A i \in 1 .. Len(q) - n : r[i] = q[i]
      /\ \A i \in 1 .. Len(cells) : r[Len(q) - n + i] = cells[i]
  BY DEF IsReplaced
<1>5. Len(r) = base + Len(w)
  <2>1. Len(q) = base + Len(v) /\ Len(known) = Len(cells)
    BY <1>1
  <2> QED BY ONLY <1>1, <1>3, <1>4, <2>1
<1>6. \A i \in 1 .. base : r[i] = q[i]
  <2> TAKE i \in 1 .. base
  <2>1. i \in 1 .. Len(q) - n
    BY <1>1
  <2> QED BY <1>4, <2>1
<1>7. ASSUME NEW i \in 1 .. Len(w)
      PROVE  Match(w[i], r[base + i], ret)
  <2>1. CASE i <= Len(v) - n
    <3>1. i \in 1 .. Len(v) - n /\ i \in 1 .. Len(v) /\ base + i \in 1 .. Len(q) - n
      BY <1>1, <2>1
    <3> QED BY <1>3, <1>4, <3>1 DEF Matches
  <2>2. CASE ~ (i <= Len(v) - n)
    <3>1. PICK j : j = i - (Len(v) - n)
      OBVIOUS
    <3>2. /\ j \in 1 .. Len(known) /\ i = Len(v) - n + j
          /\ base + i = Len(q) - n + j
      <4>1. Len(w) \in Nat /\ i \in Int /\ 1 <= i /\ i <= Len(w) /\ Len(w) = Len(v) - n + Len(known)
        BY <1>1, <1>3
      <4>2. Len(q) = base + Len(v)
        OBVIOUS
      <4> QED BY <1>1, <2>2, <3>1, <4>1, <4>2
    <3>3. w[i] = known[j] /\ r[base + i] = cells[j]
      BY <1>3, <1>4, <3>2
    <3>4. Match(known[j], cells[j], ret)
      <4>1. Match(known[j], cells[0 + j], ret)
        BY <3>2 DEF Matches
      <4>2. 0 + j = j
        BY <1>1, <3>2
      <4> QED BY <4>1, <4>2
    <3> QED BY <3>3, <3>4
  <2> QED BY <2>1, <2>2
<1>8. Len(w) \in Nat
  BY <1>1, <1>3
<1> QED BY <1>1, <1>5, <1>6, <1>7, <1>8 DEF Matches, SameBelow

(* What becomes of the stacks: n cells replaced, m references replaced by k.   *)
Moved(st, n, cells, m, k, st2) ==
  /\ st2["val"] = Replace(st["val"], n, cells)
  /\ Len(st2["obj"]) = Len(st["obj"]) - m + k

(* The running function's part of both stacks, after an instruction.          *)
LEMMA TopMoved ==
  ASSUME NEW sh \in Shape, NEW next \in Shape, NEW a \in Activation,
         NEW st \in [Kinds -> Seq(Cell)], Top(sh, a, st),
         NEW n \in Nat, NEW m \in Nat, NEW k \in Nat, Enough(sh, n, m),
         NEW known \in Seq(Abstract), NEW D, NEW cells \in Seq(D), Len(known) = Len(cells),
         Matches(known, Len(known), cells, 0, a.ret),
         next.val = Replace(sh.val, n, known), next.obj = sh.obj - m + k,
         NEW st2, Moved(st, n, cells, m, k, st2)
  PROVE  Top(next, a, st2) /\ SameBelow(a.val, st["val"], st2["val"])
<1>1. /\ sh.val \in Seq(Abstract) /\ sh.obj \in Nat
      /\ a.val \in Nat /\ a.obj \in Nat
      /\ st["val"] \in Seq(Cell) /\ st["obj"] \in Seq(Cell)
  BY DEF Shape, Activation, Kinds
<1>2. /\ Len(st["val"]) = a.val + Len(sh.val) /\ Len(st["obj"]) = a.obj + sh.obj
      /\ Matches(sh.val, Len(sh.val), st["val"], a.val, a.ret)
      /\ n <= Len(sh.val) /\ m <= sh.obj
  BY DEF Top, Enough
<1>3. /\ IsReplaced(sh.val, n, known, next.val)
      /\ Len(sh.val) \in Nat /\ Len(known) \in Nat
  <2>1. n \in Nat /\ n <= Len(sh.val) /\ known \in Seq(Abstract) /\ sh.val \in Seq(Abstract)
    BY <1>1, <1>2
  <2>2. IsReplaced(sh.val, n, known, Replace(sh.val, n, known)) /\ Len(sh.val) \in Nat /\ Len(known) \in Nat
    BY ONLY <2>1, Replaced, Zenon
  <2>3. next.val = Replace(sh.val, n, known)
    OBVIOUS
  <2> QED BY ONLY <2>2, <2>3, Zenon
<1>4. n <= Len(st["val"]) /\ Len(st["val"]) \in Nat
  <2>1. n <= Len(sh.val) /\ n \in Nat /\ Len(sh.val) \in Nat /\ a.val \in Nat
    BY <1>1, <1>2, <1>3
  <2> QED BY ONLY <1>2, <2>1
<1>5. IsReplaced(st["val"], n, cells, st2["val"])
  <2>1. n \in Nat /\ n <= Len(st["val"]) /\ cells \in Seq(Cell \cup D) /\ st["val"] \in Seq(Cell \cup D)
    BY <1>1, <1>4
  <2>2. IsReplaced(st["val"], n, cells, Replace(st["val"], n, cells))
    BY ONLY <2>1, Replaced, Zenon
  <2>3. st2["val"] = Replace(st["val"], n, cells)
    BY DEF Moved
  <2> QED BY ONLY <2>2, <2>3, Zenon
<1>6. Segment(next.val, st2["val"], a.val, a.ret) /\ SameBelow(a.val, st["val"], st2["val"])
  <2>1. Segment(sh.val, st["val"], a.val, a.ret) /\ n \in Nat /\ n <= Len(sh.val)
    BY <1>1, <1>2, <1>3 DEF Segment
  <2>2. Segment(known, cells, 0, a.ret)
    BY <1>3 DEF Segment
  <2> QED BY ONLY <1>3, <1>5, <2>1, <2>2, SegmentMoved, Zenon
<1>7. Len(st2["obj"]) = a.obj + next.obj
  <2>1. next.obj = sh.obj - m + k /\ Len(st2["obj"]) = Len(st["obj"]) - m + k
    BY DEF Moved
  <2>2. sh.obj \in Nat /\ a.obj \in Nat /\ Len(st["obj"]) = a.obj + sh.obj
    BY <1>1, <1>2
  <2> QED BY <2>1, <2>2
<1> QED BY <1>6, <1>7 DEF Top, Segment

(* What waits is not touched.                                                *)
LEMMA Carried ==
  ASSUME NEW p, NEW sh \in Shape, NEW next \in Shape, NEW d \in Nat, NEW act \in [0 .. d -> Activation],
         NEW st, NEW st2, NEW fr, NEW fr2, Stands(p, sh, d, act, st, fr),
         next.main = sh.main, next.gives = sh.gives, Top(next, act[d], st2),
         SameBelow(act[d].val, st["val"], st2["val"]),
         \A s \in Kinds : FramesStand(p, next, d, act, fr2[s], s)
  PROVE  Stands(p, next, d, act, st2, fr2)
<1>1. ASSUME NEW j \in 0 .. d
      PROVE  /\ ShapeOf(p, next, d, act, j).gives = ShapeOf(p, sh, d, act, j).gives
             /\ ShapeOf(p, next, d, act, j).main = ShapeOf(p, sh, d, act, j).main
  BY DEF ShapeOf
<1>2. ASSUME NEW j \in 1 .. d
      PROVE  Waits(p, act[j - 1], act[j], ShapeOf(p, next, d, act, j).gives, st2)
  <2> DEFINE a == act[j - 1]
             b == act[j]
             back == Known[p][b.ret]
  <2>1. j - 1 \in 0 .. d /\ j \in 0 .. d /\ d \in 0 .. d /\ j - 1 <= j /\ j <= d
    OBVIOUS
  <2>2. a.val \in Nat /\ b.val \in Nat /\ act[d].val \in Nat /\ a.val <= b.val /\ b.val <= act[d].val
    BY <2>1 DEF Stands, Activation
  <2>3. Waits(p, a, b, ShapeOf(p, next, d, act, j).gives, st)
    BY <1>1, <2>1 DEF Stands
  <2>4. Matches(back.val, b.val - a.val, st["val"], a.val, a.ret)
    BY <2>3 DEF Waits
  <2>5. \A i \in 1 .. b.val - a.val : st2["val"][a.val + i] = st["val"][a.val + i]
    <3> TAKE i \in 1 .. b.val - a.val
    <3>1. a.val + i \in 1 .. act[d].val
      BY <2>2
    <3> QED BY <3>1 DEF SameBelow
  <2>6. Matches(back.val, b.val - a.val, st2["val"], a.val, a.ret)
    BY <2>4, <2>5 DEF Matches
  <2> QED BY <2>3, <2>6 DEF Waits
<1> QED BY <1>1, <1>2 DEF Stands

(* Less may be counted on at a location than on one way to it.               *)
FramesOK(fr) == \A s \in Kinds : fr[s].offsets \in Seq(Nat) /\ fr[s].index \in Nat /\ Nested(fr[s])

(* Counting on fewer variables than before is no harm.                        *)
LEMMA FramesWeakened ==
  ASSUME NEW p, NEW after, NEW next, NEW s \in Kinds, next.entering = after.entering,
         NEW d \in Nat, NEW act, NEW f, f.offsets \in Seq(Nat), f.index \in Nat,
         next.defined[s] \in Nat, after.defined[s] \in Nat, next.defined[s] <= after.defined[s],
         FramesStand(p, after, d, act, f, s)
  PROVE  FramesStand(p, next, d, act, f, s)
<1>1. Low(f, d) \in Nat /\ NextSlot(after, d, f) \in Nat
  BY DEF FramesStand, Low, NextSlot
<1>2. NextSlot(next, d, f) = NextSlot(after, d, f)
  BY DEF NextSlot
<1>3. NextSlot(next, d, f) >= Low(f, d) + next.defined[s]
  BY <1>1, <1>2 DEF FramesStand
<1> QED BY <1>2, <1>3 DEF FramesStand

(* The running function goes on at a location that its shape leads to.        *)
LEMMA Continued ==
  ASSUME NEW p, Disciplined(p), NEW sh \in Shape, NEW d \in Nat, NEW act \in [0 .. d -> Activation],
         NEW st, NEW fr, Stands(p, sh, d, act, st, fr),
         NEW to, NEW after \in Shape, Leads(p, to, after),
         after.main = sh.main, after.gives = sh.gives,
         NEW st2, Top(after, act[d], st2), SameBelow(act[d].val, st["val"], st2["val"]),
         NEW fr2, FramesOK(fr2), \A s \in Kinds : FramesStand(p, after, d, act, fr2[s], s)
  PROVE  Conforms(p, to, st2, fr2)
<1>1. PICK next : next = Known[p][to]
  OBVIOUS
<1>2. /\ to \in DOMAIN Known[p] /\ next \in Shape
      /\ next.val = after.val /\ next.obj = after.obj /\ next.entering = after.entering
      /\ next.main = sh.main /\ next.gives = sh.gives
      /\ \A s \in Kinds : next.defined[s] <= after.defined[s]
  BY <1>1 DEF Leads, Disciplined
<1>3. Top(next, act[d], st2)
  BY <1>2 DEF Top
<1>4. ASSUME NEW s \in Kinds
      PROVE  FramesStand(p, next, d, act, fr2[s], s)
  <2>1. fr2[s].offsets \in Seq(Nat) /\ fr2[s].index \in Nat
    BY DEF FramesOK
  <2>2. next.defined[s] \in Nat /\ after.defined[s] \in Nat
    BY <1>2 DEF Shape
  <2> QED BY <1>2, <2>1, <2>2, FramesWeakened
<1>5. Stands(p, next, d, act, st2, fr2)
  BY <1>2, <1>3, <1>4, Carried
<1> QED BY <1>1, <1>2, <1>5 DEF Conforms

SameFrames(fr, fr2) ==
  \A s \in Kinds : fr2[s].offsets = fr[s].offsets /\ fr2[s].index = fr[s].index

IsAfter(after, sh, n, known, m, k) ==
  /\ after \in Shape /\ after.val = Replace(sh.val, n, known) /\ after.obj = sh.obj - m + k
  /\ after.entering = sh.entering /\ after.main = sh.main /\ after.gives = sh.gives
  /\ after.defined = sh.defined

(* The shape after an instruction is a shape, field by field.                 *)
LEMMA AfterShape ==
  ASSUME NEW sh \in Shape, NEW n \in Nat, NEW m \in Nat, NEW k \in Nat, Enough(sh, n, m),
         NEW known \in Seq(Abstract)
  PROVE  IsAfter(After(sh, n, known, m, k), sh, n, known, m, k)
<1>1. sh.val \in Seq(Abstract) /\ sh.obj \in Nat /\ n <= Len(sh.val) /\ m <= sh.obj
  BY DEF Shape, Enough
<1>2. Replace(sh.val, n, known) \in Seq(Abstract)
  BY ONLY n \in Nat, known \in Seq(Abstract), <1>1, Replaced, Zenon
<1>3. PICK v : v = Replace(sh.val, n, known)
  OBVIOUS
<1>4. PICK o : o = sh.obj - m + k
  OBVIOUS
<1>5. After(sh, n, known, m, k) = [sh EXCEPT !.val = v, !.obj = o]
  BY <1>3, <1>4, Zenon DEF After, Replace
<1>6. v \in Seq(Abstract) /\ o \in Nat
  <2>1. o \in Nat
    BY ONLY <1>1, <1>4, m \in Nat, k \in Nat
  <2> QED BY <1>2, <1>3, <2>1
<1>7. PICK next : next = [sh EXCEPT !.val = v, !.obj = o]
  OBVIOUS
<1>8. /\ next \in Shape /\ next.val = v /\ next.obj = o
      /\ next.entering = sh.entering /\ next.main = sh.main
      /\ next.gives = sh.gives /\ next.defined = sh.defined
  BY ONLY <1>6, <1>7, sh \in Shape DEF Shape
<1> QED BY ONLY <1>3, <1>4, <1>5, <1>7, <1>8, Zenon DEF IsAfter

(* What an instruction does to the stacks is what After says of the shapes:   *)
(* then the machine conforms to the next shape.                               *)
LEMMA Advance ==
  ASSUME NEW p, Disciplined(p), NEW i \in DOMAIN Known[p], NEW st \in [Kinds -> Seq(Cell)], NEW fr,
         Conforms(p, i, st, fr),
         NEW n \in Nat, NEW m \in Nat, NEW k \in Nat, Enough(Known[p][i], n, m),
         NEW known \in Seq(Abstract), NEW D, NEW cells \in Seq(D), Len(known) = Len(cells),
         \A a \in Activation : Top(Known[p][i], a, st) => Matches(known, Len(known), cells, 0, a.ret),
         NEW to, Leads(p, to, After(Known[p][i], n, known, m, k)),
         NEW st2, Moved(st, n, cells, m, k, st2), NEW fr2, SameFrames(fr, fr2), FramesOK(fr2)
  PROVE  Conforms(p, to, st2, fr2)
<1>1. PICK sh : sh = Known[p][i]
  OBVIOUS
<1>2. sh \in Shape
  BY <1>1 DEF Disciplined
<1>3. PICK d \in Nat : \E act \in [0 .. d -> Activation] : Stands(p, sh, d, act, st, fr)
  BY <1>1 DEF Conforms
<1>4. PICK act \in [0 .. d -> Activation] : Stands(p, sh, d, act, st, fr)
  BY <1>3
<1>5. PICK after : after = After(sh, n, known, m, k)
  OBVIOUS
<1>6. /\ after \in Shape /\ after.val = Replace(sh.val, n, known) /\ after.obj = sh.obj - m + k
      /\ after.entering = sh.entering /\ after.main = sh.main /\ after.gives = sh.gives
      /\ after.defined = sh.defined
  <2>1. n \in Nat /\ m \in Nat /\ k \in Nat /\ known \in Seq(Abstract) /\ Enough(sh, n, m)
    BY <1>1
  <2>2. IsAfter(After(sh, n, known, m, k), sh, n, known, m, k)
    BY ONLY <1>2, <2>1, AfterShape, Zenon
  <2>3. IsAfter(after, sh, n, known, m, k)
    BY ONLY <1>5, <2>2, Zenon
  <2> QED BY ONLY <2>3 DEF IsAfter
<1>7. act[d] \in Activation /\ Top(sh, act[d], st)
  BY <1>4 DEF Stands
<1>8. Top(after, act[d], st2) /\ SameBelow(act[d].val, st["val"], st2["val"])
  <2>1. /\ n \in Nat /\ m \in Nat /\ k \in Nat /\ known \in Seq(Abstract) /\ cells \in Seq(D)
        /\ Enough(sh, n, m) /\ Len(known) = Len(cells) /\ st \in [Kinds -> Seq(Cell)]
        /\ Moved(st, n, cells, m, k, st2) /\ Matches(known, Len(known), cells, 0, act[d].ret)
    BY <1>1, <1>7
  <2> QED BY ONLY <1>2, <1>6, <1>7, <2>1, TopMoved, Zenon
<1>9. \A s \in Kinds : FramesStand(p, after, d, act, fr2[s], s)
  <2> TAKE s \in Kinds
  <2>1. FramesStand(p, sh, d, act, fr[s], s)
    BY <1>4 DEF Stands
  <2>2. fr2[s].offsets = fr[s].offsets /\ fr2[s].index = fr[s].index
    BY <1>1 DEF SameFrames
  <2> QED BY <1>6, <2>1, <2>2 DEF FramesStand, NextSlot, Low
<1>10. Leads(p, to, after)
  BY <1>1, <1>5
<1>11. Disciplined(p) /\ FramesOK(fr2)
  OBVIOUS
<1> QED BY ONLY <1>2, <1>4, <1>6, <1>8, <1>9, <1>10, <1>11, Continued, Zenon

(* The same when the stacks stay as they are.                                *)
LEMMA Onward ==
  ASSUME NEW p, Disciplined(p), NEW sh \in Shape, NEW d \in Nat, NEW act \in [0 .. d -> Activation],
         NEW st, NEW fr, Stands(p, sh, d, act, st, fr),
         NEW to, NEW after \in Shape, Leads(p, to, after),
         after.val = sh.val, after.obj = sh.obj, after.main = sh.main, after.gives = sh.gives,
         NEW fr2, FramesOK(fr2), \A s \in Kinds : FramesStand(p, after, d, act, fr2[s], s)
  PROVE  Conforms(p, to, st, fr2)
<1>1. Top(after, act[d], st) /\ SameBelow(act[d].val, st["val"], st["val"])
  BY DEF Stands, Top, SameBelow
<1> QED BY <1>1, Continued, Zenon

(* JMP outside a call, and POP_SCOPE's way on, change no stack.               *)
LEMMA Jumped ==
  ASSUME NEW p, Disciplined(p), NEW i \in DOMAIN Known[p], NEW st, NEW fr, FramesOK(fr),
         Conforms(p, i, st, fr), NEW to, Leads(p, to, Known[p][i])
  PROVE  Conforms(p, to, st, fr)
<1>1. PICK sh : sh = Known[p][i]
  OBVIOUS
<1>2. sh \in Shape /\ Leads(p, to, sh)
  BY <1>1 DEF Disciplined
<1>3. PICK d \in Nat : \E act \in [0 .. d -> Activation] : Stands(p, sh, d, act, st, fr)
  BY <1>1 DEF Conforms
<1>4. PICK act \in [0 .. d -> Activation] : Stands(p, sh, d, act, st, fr)
  BY <1>3
<1>5. \A s \in Kinds : FramesStand(p, sh, d, act, fr[s], s)
  BY <1>4 DEF Stands
<1> QED BY <1>2, <1>4, <1>5, Onward, Zenon

(* PUSH_SCOPE opens a frame at the index; the shape is entering from there.   *)
LEMMA Entered ==
  ASSUME NEW p, Disciplined(p), NEW i \in DOMAIN Known[p], NEW st, NEW fr, FramesOK(fr),
         Conforms(p, i, st, fr), ~Known[p][i].entering,
         NEW to, Leads(p, to, [Known[p][i] EXCEPT !.entering = TRUE]),
         NEW fr2, FramesOK(fr2),
         \A s \in Kinds : fr2[s].index = fr[s].index /\ fr2[s].offsets = Append(fr[s].offsets, fr[s].index)
  PROVE  Conforms(p, to, st, fr2)
<1>1. PICK sh : sh = Known[p][i]
  OBVIOUS
<1>2. PICK after : after = [sh EXCEPT !.entering = TRUE]
  OBVIOUS
<1>3. sh \in Shape /\ ~sh.entering /\ Leads(p, to, after)
  BY <1>1, <1>2 DEF Disciplined
<1>4. /\ after \in Shape /\ after.entering
      /\ after.val = sh.val /\ after.obj = sh.obj /\ after.main = sh.main /\ after.gives = sh.gives
      /\ after.defined = sh.defined
  BY ONLY <1>2, <1>3 DEF Shape
<1>5. PICK d \in Nat : \E act \in [0 .. d -> Activation] : Stands(p, sh, d, act, st, fr)
  BY <1>1 DEF Conforms
<1>6. PICK act \in [0 .. d -> Activation] : Stands(p, sh, d, act, st, fr)
  BY <1>5
<1>7. ASSUME NEW s \in Kinds
      PROVE  FramesStand(p, after, d, act, fr2[s], s)
  <2>1. PICK f : f = fr[s]
    OBVIOUS
  <2>2. PICK g : g = fr2[s]
    OBVIOUS
  <2>3. f.offsets \in Seq(Nat) /\ f.index \in Nat /\ FramesStand(p, sh, d, act, f, s)
    BY <1>6, <2>1 DEF FramesOK, Stands
  <2>4. g.offsets = Append(f.offsets, f.index)
    BY <2>1, <2>2
  <2>5. Len(f.offsets) = d /\ NextSlot(sh, d, f) = f.index
    BY <1>3, <2>3 DEF FramesStand, NextSlot
  <2>6. /\ Len(g.offsets) = d + 1 /\ g.offsets[d + 1] = f.index
        /\ \A j \in 1 .. d : g.offsets[j] = f.offsets[j]
    BY ONLY <2>3, <2>4, <2>5
  <2>7. /\ \A j \in 0 .. d : Low(g, j) = Low(f, j)
        /\ NextSlot(after, d, g) = f.index
    BY <1>4, <2>6 DEF Low, NextSlot
  <2>8. Len(g.offsets) = d + (IF after.entering THEN 1 ELSE 0)
    BY <1>4, <2>6
  <2>9. ASSUME NEW j \in 1 .. d
        PROVE  g.offsets[j] >= Low(g, j - 1) + Known[p][act[j].ret].defined[s]
    <3>1. j - 1 \in 0 .. d
      OBVIOUS
    <3> QED BY <2>3, <2>6, <2>7, <3>1 DEF FramesStand
  <2>10. d # 0 => g.offsets[1] = 0
    <3>1. d # 0 => 1 \in 1 .. d
      OBVIOUS
    <3> QED BY <2>3, <2>6, <3>1 DEF FramesStand
  <2>11. /\ NextSlot(after, d, g) >= Low(g, d) + after.defined[s]
         /\ d = 0 => NextSlot(after, d, g) = 0
    <3>1. d \in 0 .. d
      OBVIOUS
    <3> QED BY <1>4, <2>3, <2>5, <2>7, <3>1 DEF FramesStand
  <2> QED BY <2>2, <2>8, <2>9, <2>10, <2>11 DEF FramesStand
<1> QED BY <1>3, <1>4, <1>6, <1>7, Onward, Zenon

(* POP_SCOPE closes it, and the index is back where the caller's was.         *)
LEMMA Left ==
  ASSUME NEW p, Disciplined(p), NEW i \in DOMAIN Known[p], NEW st, NEW fr, FramesOK(fr),
         Conforms(p, i, st, fr), Known[p][i].entering,
         NEW to, Leads(p, to, [Known[p][i] EXCEPT !.entering = FALSE]),
         NEW fr2, FramesOK(fr2),
         \A s \in Kinds : LET n == Len(fr[s].offsets)
                         IN  /\ fr2[s].index = fr[s].offsets[n]
                             /\ fr2[s].offsets = SubSeq(fr[s].offsets, 1, n - 1)
  PROVE  Conforms(p, to, st, fr2)
<1>1. PICK sh : sh = Known[p][i]
  OBVIOUS
<1>2. PICK after : after = [sh EXCEPT !.entering = FALSE]
  OBVIOUS
<1>3. sh \in Shape /\ sh.entering /\ Leads(p, to, after)
  BY <1>1, <1>2 DEF Disciplined
<1>4. /\ after \in Shape /\ ~after.entering
      /\ after.val = sh.val /\ after.obj = sh.obj /\ after.main = sh.main /\ after.gives = sh.gives
      /\ after.defined = sh.defined
  BY ONLY <1>2, <1>3 DEF Shape
<1>5. PICK d \in Nat : \E act \in [0 .. d -> Activation] : Stands(p, sh, d, act, st, fr)
  BY <1>1 DEF Conforms
<1>6. PICK act \in [0 .. d -> Activation] : Stands(p, sh, d, act, st, fr)
  BY <1>5
<1>7. ASSUME NEW s \in Kinds
      PROVE  FramesStand(p, after, d, act, fr2[s], s)
  <2>1. PICK f : f = fr[s]
    OBVIOUS
  <2>2. PICK g : g = fr2[s]
    OBVIOUS
  <2>3. f.offsets \in Seq(Nat) /\ FramesStand(p, sh, d, act, f, s)
    BY <1>6, <2>1 DEF FramesOK, Stands
  <2>4. Len(f.offsets) = d + 1 /\ NextSlot(sh, d, f) = f.offsets[d + 1]
    BY <1>3, <2>3 DEF FramesStand, NextSlot
  <2>5. g.index = f.offsets[d + 1] /\ g.offsets = SubSeq(f.offsets, 1, d + 1 - 1)
    BY <2>1, <2>2, <2>4
  <2>6. Len(g.offsets) = d /\ \A j \in 1 .. d : g.offsets[j] = f.offsets[j]
    <3>1. g.offsets = SubSeq(f.offsets, 1, d)
      BY <2>5
    <3>2. /\ Len(g.offsets) = (IF 1 <= d THEN d - 1 + 1 ELSE 0)
          /\ \A j \in 1 .. d - 1 + 1 : g.offsets[j] = f.offsets[1 + j - 1]
      <4>1. \A j \in 1 .. d : f.offsets[j] \in Nat
        BY <2>3, <2>4
      <4> QED BY <3>1, <4>1, SubSeqProperties
    <3> QED BY <3>2
  <2>7. /\ \A j \in 0 .. d : Low(g, j) = Low(f, j)
        /\ NextSlot(after, d, g) = f.offsets[d + 1]
    BY <1>4, <2>5, <2>6 DEF Low, NextSlot
  <2>8. Len(g.offsets) = d + (IF after.entering THEN 1 ELSE 0)
    BY <1>4, <2>6
  <2>9. ASSUME NEW j \in 1 .. d
        PROVE  g.offsets[j] >= Low(g, j - 1) + Known[p][act[j].ret].defined[s]
    <3>1. j - 1 \in 0 .. d
      OBVIOUS
    <3> QED BY <2>3, <2>6, <2>7, <3>1 DEF FramesStand
  <2>10. d # 0 => g.offsets[1] = 0
    <3>1. d # 0 => 1 \in 1 .. d
      OBVIOUS
    <3> QED BY <2>3, <2>6, <3>1 DEF FramesStand
  <2>11. /\ NextSlot(after, d, g) >= Low(g, d) + after.defined[s]
         /\ d = 0 => NextSlot(after, d, g) = 0
    <3>1. d \in 0 .. d
      OBVIOUS
    <3> QED BY <1>4, <2>3, <2>4, <2>7, <3>1 DEF FramesStand
  <2> QED BY <2>2, <2>8, <2>9, <2>10, <2>11 DEF FramesStand
<1> QED BY <1>3, <1>4, <1>6, <1>7, Onward, Zenon

(* DEFINE counts one variable more in the shape and in the frame.             *)
LEMMA CountedOn ==
  ASSUME NEW p, Disciplined(p), NEW i \in DOMAIN Known[p], NEW st, NEW fr, FramesOK(fr),
         Conforms(p, i, st, fr), ~Known[p][i].entering, ~Known[p][i].main,
         NEW s \in Kinds, NEW to, Leads(p, to, Counted(Known[p][i], s)),
         NEW fr2, FramesOK(fr2),
         \A t \in Kinds : /\ fr2[t].index = fr[t].index + (IF t = s THEN 1 ELSE 0)
                         /\ fr2[t].offsets = fr[t].offsets
  PROVE  Conforms(p, to, st, fr2)
<1>1. PICK sh : sh = Known[p][i]
  OBVIOUS
<1>2. PICK after : after = [sh EXCEPT !.defined[s] = @ + 1]
  OBVIOUS
<1>3. sh \in Shape /\ ~sh.entering /\ ~sh.main /\ Leads(p, to, after)
  BY <1>1, <1>2 DEF Disciplined, Counted
<1>4. /\ after \in Shape /\ ~after.entering
      /\ after.val = sh.val /\ after.obj = sh.obj /\ after.main = sh.main /\ after.gives = sh.gives
      /\ \A t \in Kinds : /\ after.defined[t] = sh.defined[t] + (IF t = s THEN 1 ELSE 0)
                          /\ sh.defined[t] \in Nat
  <2>1. PICK v : v = sh.defined
    OBVIOUS
  <2>2. PICK w : w = [v EXCEPT ![s] = @ + 1]
    OBVIOUS
  <2>3. v \in [Kinds -> Nat]
    BY <1>3, <2>1 DEF Shape
  <2>4. w \in [Kinds -> Nat] /\ \A t \in Kinds : w[t] = v[t] + (IF t = s THEN 1 ELSE 0) /\ v[t] \in Nat
    BY ONLY <2>2, <2>3, s \in Kinds
  <2>5. after = [sh EXCEPT !.defined = w]
    BY ONLY <1>2, <1>3, <2>1, <2>2, <2>3, s \in Kinds DEF Shape
  <2>6. /\ after \in Shape /\ after.entering = sh.entering
        /\ after.val = sh.val /\ after.obj = sh.obj /\ after.main = sh.main /\ after.gives = sh.gives
        /\ after.defined = w
    BY ONLY <1>3, <2>4, <2>5 DEF Shape
  <2> QED BY ONLY <1>3, <2>1, <2>4, <2>6
<1>5. PICK d \in Nat : \E act \in [0 .. d -> Activation] : Stands(p, sh, d, act, st, fr)
  BY <1>1 DEF Conforms
<1>6. PICK act \in [0 .. d -> Activation] : Stands(p, sh, d, act, st, fr)
  BY <1>5
<1>7. d # 0
  <2>1. d \in 0 .. d /\ ShapeOf(p, sh, d, act, d) = sh
    BY DEF ShapeOf
  <2> QED BY <1>3, <1>6, <2>1 DEF Stands
<1>8. ASSUME NEW t \in Kinds
      PROVE  FramesStand(p, after, d, act, fr2[t], t)
  <2>1. PICK f : f = fr[t]
    OBVIOUS
  <2>2. PICK g : g = fr2[t]
    OBVIOUS
  <2>3. PICK one : one = IF t = s THEN 1 ELSE 0
    OBVIOUS
  <2>4. f.offsets \in Seq(Nat) /\ f.index \in Nat /\ FramesStand(p, sh, d, act, f, t)
    BY <1>6, <2>1 DEF FramesOK, Stands
  <2>5. g.index = f.index + one /\ g.offsets = f.offsets /\ one \in Nat
    BY <2>1, <2>2, <2>3
  <2>6. Len(f.offsets) = d /\ NextSlot(sh, d, f) = f.index /\ NextSlot(after, d, g) = f.index + one
    BY <1>3, <1>4, <2>4, <2>5 DEF FramesStand, NextSlot
  <2>7. Low(f, d) \in Nat /\ Low(g, d) = Low(f, d)
    BY <1>7, <2>4, <2>5, <2>6 DEF Low
  <2>8. NextSlot(after, d, g) >= Low(g, d) + after.defined[t]
    <3>1. f.index >= Low(f, d) + sh.defined[t]
      BY <2>4, <2>6 DEF FramesStand
    <3>2. after.defined[t] = sh.defined[t] + one /\ sh.defined[t] \in Nat
      BY <1>4, <2>3
    <3> QED BY ONLY <2>4, <2>5, <2>6, <2>7, <3>1, <3>2
  <2> QED BY <1>4, <1>7, <2>2, <2>4, <2>5, <2>6, <2>8 DEF FramesStand, Low
<1> QED BY <1>3, <1>4, <1>6, <1>8, Onward, Zenon
-----------------------------------------------------------------------------
(* Calls and returns.                                                        *)

(* A cell that is known to be an address is that address.                     *)
LEMMA KnownAddress ==
  ASSUME NEW a \in Abstract, a.tag = "addr", NEW c, NEW ret, Match(a, c, ret)
  PROVE  c = Addr(a.val) /\ a # Opaque /\ a # Ret
<1>1. a # Opaque /\ a # Ret
  BY DEF Opaque, Ret
<1>2. a \in Cell
  BY <1>1 DEF Abstract
<1>3. a = Addr(a.val)
  BY <1>2 DEF Cell, Pointer, Scalar, TypesWord, Instruction, PtrTags, Addr
<1> QED BY <1>1, <1>3 DEF Match

(* JMP after PUSH_SCOPE: a new activation, whose part of the stacks is the    *)
(* argument list.                                                             *)
LEMMA Called ==
  ASSUME NEW p, Disciplined(p), NEW i \in DOMAIN Known[p],
         NEW st \in [Kinds -> Seq(Cell)], NEW fr, FramesOK(fr), Conforms(p, i, st, fr),
         Known[p][i].entering, NEW to, CallRule(p, Known[p][i], to)
  PROVE  Conforms(p, to, st, fr)
<1>1. PICK sh : sh = Known[p][i]
  OBVIOUS
<1>2. PICK callee : callee = Known[p][to]
  OBVIOUS
<1>3. /\ sh \in Shape /\ sh.entering /\ callee \in Shape /\ to \in DOMAIN Known[p]
      /\ sh.val \in Seq(Abstract) /\ callee.val \in Seq(Abstract) /\ sh.obj \in Nat /\ callee.obj \in Nat
      /\ callee.gives["val"] \in Nat /\ callee.gives["obj"] \in Nat
  <2>1. to \in DOMAIN Known[p] /\ sh.entering
    BY <1>1 DEF CallRule
  <2>2. sh \in Shape /\ callee \in Shape
    BY <1>1, <1>2, <2>1 DEF Disciplined
  <2> QED BY <2>1, <2>2 DEF Shape, Kinds
<1>4. PICK below : below = Len(sh.val) - Len(callee.val)
  OBVIOUS
<1>5. PICK return : return = sh.val[below + 1]
  OBVIOUS
<1>6. PICK n : n = Len(callee.val)
  OBVIOUS
<1>7. /\ ~callee.main /\ ~callee.entering /\ \A s \in Kinds : callee.defined[s] = 0
      /\ n > 0 /\ callee.val = <<Ret>> \o Opaques(n - 1)
      /\ below >= 0 /\ callee.obj <= sh.obj
      /\ return.tag = "addr" /\ return.val \in DOMAIN Known[p] /\ OpAt(p, return.val) = "POP_SCOPE"
      /\ Leads(p, return.val, After(sh, n, Opaques(callee.gives["val"]), callee.obj, callee.gives["obj"]))
  BY <1>1, <1>2, <1>4, <1>5, <1>6 DEF CallRule
<1>8. n \in Nat /\ Len(sh.val) = below + n /\ below \in Nat /\ n >= 1
  <2>1. Len(sh.val) \in Nat /\ Len(callee.val) \in Nat
    BY <1>3
  <2> QED BY <2>1, <1>4, <1>6, <1>7
<1>9. PICK o : o = sh.obj - callee.obj
  OBVIOUS
<1>10. o \in Nat /\ sh.obj = o + callee.obj
  <2>1. sh.obj \in Nat /\ callee.obj \in Nat /\ callee.obj <= sh.obj
    BY <1>3, <1>7
  <2> QED BY ONLY <1>9, <2>1
<1>11. PICK back : back = Known[p][return.val]
  OBVIOUS
<1>12. PICK after : after = After(sh, n, Opaques(callee.gives["val"]), callee.obj, callee.gives["obj"])
  OBVIOUS
<1>13. IsAfter(after, sh, n, Opaques(callee.gives["val"]), callee.obj, callee.gives["obj"])
  <2>1. Enough(sh, n, callee.obj)
    BY <1>7, <1>8 DEF Enough
  <2>2. Opaques(callee.gives["val"]) \in Seq(Abstract)
    BY <1>3, OpaqueFacts
  <2>3. IsAfter(After(sh, n, Opaques(callee.gives["val"]), callee.obj, callee.gives["obj"]),
                sh, n, Opaques(callee.gives["val"]), callee.obj, callee.gives["obj"])
    BY ONLY <1>3, <1>8, <2>1, <2>2, AfterShape, Zenon
  <2> QED BY ONLY <1>12, <2>3, Zenon
<1>14. /\ back \in Shape /\ back.entering /\ back.main = sh.main /\ back.gives = sh.gives
       /\ back.val = Replace(sh.val, n, Opaques(callee.gives["val"]))
       /\ back.obj = sh.obj - callee.obj + callee.gives["obj"]
       /\ \A s \in Kinds : back.defined[s] <= sh.defined[s]
  <2>1. back \in Shape
    BY <1>7, <1>11 DEF Disciplined
  <2>2. /\ back.val = after.val /\ back.obj = after.obj /\ back.entering = after.entering
        /\ back.main = after.main /\ back.gives = after.gives
        /\ \A s \in Kinds : back.defined[s] <= after.defined[s]
    BY <1>7, <1>11, <1>12 DEF Leads
  <2>3. /\ after.val = Replace(sh.val, n, Opaques(callee.gives["val"]))
        /\ after.obj = sh.obj - callee.obj + callee.gives["obj"] /\ after.entering = sh.entering
        /\ after.main = sh.main /\ after.gives = sh.gives /\ after.defined = sh.defined
    BY <1>13 DEF IsAfter
  <2> QED BY <1>3, <2>1, <2>2, <2>3
<1>15. /\ Len(back.val) = below + callee.gives["val"]
       /\ \A j \in 1 .. below : back.val[j] = sh.val[j]
       /\ \A j \in below + 1 .. Len(back.val) : back.val[j] = Opaque
  <2>1. PICK c : c = Opaques(callee.gives["val"])
    OBVIOUS
  <2>2. c \in Seq(Abstract) /\ Len(c) = callee.gives["val"] /\ \A j \in 1 .. Len(c) : c[j] = Opaque
    BY <1>3, <2>1, OpaqueFacts
  <2>3. n <= Len(sh.val)
    BY <1>8
  <2>4. IsReplaced(sh.val, n, c, Replace(sh.val, n, c))
    BY ONLY <1>3, <1>8, <2>2, <2>3, Replaced, Zenon
  <2>5. IsReplaced(sh.val, n, c, back.val)
    BY ONLY <1>14, <2>1, <2>4, Zenon
  <2>6. Len(sh.val) - n = below
    BY ONLY <1>8
  <2>7. /\ Len(back.val) = below + Len(c)
        /\ \A j \in 1 .. below : back.val[j] = sh.val[j]
        /\ \A j \in 1 .. Len(c) : back.val[below + j] = c[j]
    BY ONLY <2>5, <2>6 DEF IsReplaced
  <2>8. ASSUME NEW j \in below + 1 .. Len(back.val)
        PROVE  back.val[j] = Opaque
    <3>1. PICK l : l = j - below
      OBVIOUS
    <3>2. l \in 1 .. Len(c) /\ j = below + l
      BY ONLY <1>3, <1>8, <2>2, <2>7, <3>1, j \in below + 1 .. Len(back.val)
    <3> QED BY <2>2, <2>7, <3>2
  <2> QED BY <2>2, <2>7, <2>8
<1>16. PICK d \in Nat : \E act \in [0 .. d -> Activation] : Stands(p, sh, d, act, st, fr)
  BY <1>1 DEF Conforms
<1>17. PICK act \in [0 .. d -> Activation] : Stands(p, sh, d, act, st, fr)
  BY <1>16
<1>18. PICK a : a = act[d]
  OBVIOUS
<1>19. /\ a \in Activation /\ a.val \in Nat /\ a.obj \in Nat
       /\ Len(st["val"]) = a.val + Len(sh.val) /\ Len(st["obj"]) = a.obj + sh.obj
       /\ Matches(sh.val, Len(sh.val), st["val"], a.val, a.ret)
  BY <1>17, <1>18 DEF Stands, Top, Activation
<1>20. below + 1 \in 1 .. Len(sh.val) /\ return \in Abstract
  <2>1. below + 1 \in 1 .. Len(sh.val)
    BY <1>8
  <2> QED BY <1>3, <1>5, <2>1, ElementOfSeq
<1>21. st["val"][a.val + (below + 1)] = Addr(return.val) /\ return.val \in Nat
  <2>1. Match(return, st["val"][a.val + (below + 1)], a.ret)
    BY <1>5, <1>19, <1>20 DEF Matches
  <2>2. return.val \in Nat
    BY <1>7 DEF Disciplined, WellFormed
  <2> QED BY <1>7, <1>20, <2>1, <2>2, KnownAddress
<1>22. PICK b : b = [val |-> a.val + below, obj |-> a.obj + o, ret |-> return.val]
  OBVIOUS
<1>23. /\ b \in Activation /\ b.val = a.val + below /\ b.obj = a.obj + o
       /\ b.ret = return.val
  <2>1. a.val \in Nat /\ a.obj \in Nat
    BY <1>19
  <2>2. a.val + below \in Nat /\ a.obj + o \in Nat
    BY ONLY <1>8, <1>10, <2>1
  <2> QED BY ONLY <1>21, <1>22, <2>2 DEF Activation
<1>24. PICK av : av = a.val
  OBVIOUS
<1>25. PICK ao : ao = a.obj
  OBVIOUS
<1>26. PICK bv : bv = b.val
  OBVIOUS
<1>27. PICK bo : bo = b.obj
  OBVIOUS
<1>28. av \in Nat /\ ao \in Nat /\ bv = av + below /\ bo = ao + o
  BY <1>19, <1>23, <1>24, <1>25, <1>26, <1>27
<1>29. bv \in Nat /\ bo \in Nat /\ av <= bv /\ ao <= bo
  BY ONLY <1>8, <1>10, <1>28
<1>30. a.val \in Nat /\ a.obj \in Nat /\ a.val <= b.val /\ a.obj <= b.obj /\ b.val \in Nat /\ b.obj \in Nat
  BY ONLY <1>24, <1>25, <1>26, <1>27, <1>28, <1>29
<1>31. PICK act2 : act2 = [j \in 0 .. d + 1 |-> IF j = d + 1 THEN b ELSE act[j]]
  OBVIOUS
<1>32. /\ act2 \in [0 .. d + 1 -> Activation] /\ act2[d + 1] = b
       /\ \A j \in 0 .. d : act2[j] = act[j]
  <2>1. \A j \in 0 .. d + 1 : j # d + 1 => j \in 0 .. d
    OBVIOUS
  <2> QED BY <1>23, <1>31, <2>1
<1>33. Stands(p, callee, d + 1, act2, st, fr)
  <2>1. act2[0].val = 0 /\ act2[0].obj = 0
    BY <1>17, <1>32 DEF Stands
  <2>2. ASSUME NEW j \in 0 .. d + 1, NEW k \in 0 .. d + 1, j <= k
        PROVE  act2[j].val <= act2[k].val /\ act2[j].obj <= act2[k].obj
    <3>1. CASE k # d + 1
      <4>1. j \in 0 .. d /\ k \in 0 .. d
        BY <2>2, <3>1
      <4> QED BY <1>17, <1>32, <2>2, <4>1 DEF Stands
    <3>2. CASE k = d + 1 /\ j # d + 1
      <4>1. j \in 0 .. d /\ d \in 0 .. d /\ j <= d
        BY <2>2, <3>2
      <4>2. act[j].val <= a.val /\ act[j].obj <= a.obj
        BY <1>17, <1>18, <4>1 DEF Stands
      <4>3. act[j].val \in Nat /\ act[j].obj \in Nat
        BY <4>1 DEF Activation
      <4>4. act2[j] = act[j] /\ act2[k] = b
        BY <1>32, <3>2, <4>1
      <4>5. a.val <= b.val /\ a.obj <= b.obj /\ b.val \in Nat /\ b.obj \in Nat
        BY <1>30
      <4> QED BY ONLY <1>30, <4>2, <4>3, <4>4, <4>5
    <3>3. CASE j = d + 1 /\ k = d + 1
      BY <1>23, <1>32, <3>3 DEF Activation
    <3> QED BY <3>1, <3>2, <3>3
  <2>3. Top(callee, b, st)
    <3>1. Len(st["val"]) = b.val + Len(callee.val) /\ Len(st["obj"]) = b.obj + callee.obj
      <4>1. /\ Len(st["val"]) = a.val + (below + n) /\ Len(callee.val) = n
            /\ Len(st["obj"]) = a.obj + sh.obj /\ callee.obj \in Nat
        BY <1>3, <1>6, <1>8, <1>19
      <4>2. PICK lv : lv = Len(st["val"])
        OBVIOUS
      <4>3. PICK lo : lo = Len(st["obj"])
        OBVIOUS
      <4>4. PICK co : co = callee.obj
        OBVIOUS
      <4>5. lv = av + (below + n) /\ lo = ao + (o + co) /\ co \in Nat
        BY <1>10, <1>24, <1>25, <4>1, <4>2, <4>3, <4>4
      <4>6. lv = bv + n /\ lo = bo + co
        <5>1. below \in Nat /\ n \in Nat /\ o \in Nat
          BY ONLY <1>8, <1>10
        <5> QED BY ONLY <1>28, <4>5, <5>1
      <4> QED BY ONLY <1>26, <1>27, <4>1, <4>2, <4>3, <4>4, <4>6
    <3>2. ASSUME NEW j \in 1 .. Len(callee.val)
          PROVE  Match(callee.val[j], st["val"][b.val + j], b.ret)
      <4>1. Opaques(n - 1) \in Seq(Abstract) /\ Len(Opaques(n - 1)) = n - 1 /\ \A l \in 1 .. n - 1 : Opaques(n - 1)[l] = Opaque
        <5>1. n - 1 \in Nat
          BY <1>8
        <5> QED BY <5>1, OpaqueFacts
      <4>2. PICK c : c = Opaques(n - 1)
        OBVIOUS
      <4>3. callee.val = <<Ret>> \o c /\ c \in Seq(Abstract) /\ Len(c) = n - 1
        BY <1>7, <4>1, <4>2
      <4>4. <<Ret>> \in Seq(Abstract) /\ Len(<<Ret>>) = 1 /\ <<Ret>>[1] = Ret
        BY DEF Abstract
      <4>5. PICK one : one = <<Ret>>
        OBVIOUS
      <4>6. \A l \in 1 .. Len(one) + Len(c) : (one \o c)[l] = IF l <= Len(one) THEN one[l] ELSE c[l - Len(one)]
        BY <4>3, <4>4, <4>5, ConcatProperties
      <4>7. callee.val[j] = IF j <= 1 THEN Ret ELSE c[j - 1]
        <5>1. j \in 1 .. Len(one) + Len(c) /\ Len(one) = 1 /\ callee.val = one \o c /\ one[1] = Ret
          BY <1>6, <1>8, <4>3, <4>4, <4>5
        <5>2. j <= 1 => j = 1
          OBVIOUS
        <5> QED BY <4>6, <5>1, <5>2
      <4>8. CASE j = 1
        <5>1. b.val + j = a.val + (below + 1)
          <6>1. below \in Nat
            BY <1>8
          <6>2. bv + j = av + (below + 1)
            BY ONLY <1>28, <4>8, <6>1
          <6> QED BY ONLY <1>24, <1>26, <6>2
        <5>2. callee.val[j] = Ret
          BY <4>7, <4>8
        <5> QED BY <1>21, <1>23, <5>1, <5>2 DEF Match
      <4>9. CASE j # 1
        <5>1. j - 1 \in 1 .. n - 1 /\ ~ (j <= 1)
          BY <1>6, <1>8, <4>9
        <5>2. callee.val[j] = Opaque
          BY <4>1, <4>2, <4>7, <5>1
        <5> QED BY <5>2 DEF Match
      <4> QED BY <4>8, <4>9
    <3> QED BY <3>1, <3>2 DEF Top, Matches
  <2>4. /\ ShapeOf(p, callee, d + 1, act2, d + 1) = callee
        /\ ShapeOf(p, callee, d + 1, act2, d) = back /\ ShapeOf(p, sh, d, act, d) = sh
        /\ \A j \in 0 .. d - 1 : ShapeOf(p, callee, d + 1, act2, j) = ShapeOf(p, sh, d, act, j)
    <3>1. ASSUME NEW j \in 0 .. d - 1
          PROVE  ShapeOf(p, callee, d + 1, act2, j) = ShapeOf(p, sh, d, act, j)
      <4>1. j # d /\ j # d + 1 /\ j + 1 \in 0 .. d
        OBVIOUS
      <4> QED BY <1>32, <4>1 DEF ShapeOf
    <3>2. d # d + 1
      OBVIOUS
    <3> QED BY <1>11, <1>23, <1>32, <3>1, <3>2 DEF ShapeOf
  <2>5. ASSUME NEW j \in 1 .. d + 1
        PROVE  Waits(p, act2[j - 1], act2[j], ShapeOf(p, callee, d + 1, act2, j).gives, st)
    <3>1. CASE j \in 1 .. d
      <4>1. ShapeOf(p, callee, d + 1, act2, j).gives = ShapeOf(p, sh, d, act, j).gives
        <5>1. j = d \/ j \in 0 .. d - 1
          BY <3>1
        <5> QED BY <1>14, <2>4, <5>1
      <4>2. act2[j - 1] = act[j - 1] /\ act2[j] = act[j]
        <5>1. j - 1 \in 0 .. d /\ j \in 0 .. d
          BY <3>1
        <5> QED BY <1>32, <5>1
      <4> QED BY <1>17, <3>1, <4>1, <4>2 DEF Stands
    <3>2. CASE j = d + 1
      <4>1. act2[j - 1] = a /\ act2[j] = b /\ ShapeOf(p, callee, d + 1, act2, j) = callee
        <5>1. j - 1 = d /\ d \in 0 .. d
          BY <3>2
        <5> QED BY <1>18, <1>32, <2>4, <3>2, <5>1
      <4>2. /\ b.val + callee.gives["val"] = a.val + Len(back.val)
            /\ b.obj + callee.gives["obj"] = a.obj + back.obj
        <5>1. /\ back.obj = sh.obj - callee.obj + callee.gives["obj"]
              /\ Len(back.val) = below + callee.gives["val"]
              /\ callee.obj \in Nat /\ callee.gives["val"] \in Nat /\ callee.gives["obj"] \in Nat
          BY <1>3, <1>14, <1>15
        <5>2. PICK gv : gv = callee.gives["val"]
          OBVIOUS
        <5>3. PICK go : go = callee.gives["obj"]
          OBVIOUS
        <5>4. PICK lb : lb = Len(back.val)
          OBVIOUS
        <5>5. gv \in Nat /\ go \in Nat /\ lb = below + gv /\ o \in Nat /\ below \in Nat
          BY ONLY <1>8, <1>10, <5>1, <5>2, <5>3, <5>4
        <5>6. PICK ko : ko = back.obj
          OBVIOUS
        <5>7. ko = o + go
          BY ONLY <1>9, <5>1, <5>3, <5>6
        <5>8. bv + gv = av + lb /\ bo + go = ao + ko
          BY ONLY <1>28, <5>5, <5>7
        <5> QED BY ONLY <1>24, <1>25, <1>26, <1>27, <5>2, <5>3, <5>4, <5>6, <5>8
      <4>3. b.val - a.val = below
        <5>1. below \in Nat
          BY <1>8
        <5>2. bv - av = below
          BY ONLY <1>28, <5>1
        <5> QED BY ONLY <1>24, <1>26, <5>2
      <4>4. Matches(back.val, below, st["val"], a.val, a.ret)
        <5> SUFFICES ASSUME NEW l \in 1 .. below
                     PROVE  Match(back.val[l], st["val"][a.val + l], a.ret)
          BY DEF Matches
        <5>1. l \in 1 .. Len(sh.val)
          BY <1>8
        <5> QED BY <1>15, <1>19, <5>1 DEF Matches
      <4>5. Waits(p, a, b, callee.gives, st)
        <5>1. \A l \in b.val - a.val + 1 .. Len(back.val) : back.val[l] = Opaque
          BY ONLY <1>15, <4>3
        <5>2. Matches(back.val, b.val - a.val, st["val"], a.val, a.ret)
          BY ONLY <4>3, <4>4
        <5>3. b.ret \in DOMAIN Known[p] /\ OpAt(p, b.ret) = "POP_SCOPE" /\ back = Known[p][b.ret] /\ back.entering
          BY <1>7, <1>11, <1>14, <1>23
        <5> QED BY ONLY <4>2, <5>1, <5>2, <5>3 DEF Waits
      <4> QED BY ONLY <4>1, <4>5
    <3> QED BY <3>1, <3>2
  <2>6. ASSUME NEW j \in 0 .. d + 1
        PROVE  ShapeOf(p, callee, d + 1, act2, j).main <=> (j = 0)
    <3>1. CASE j = d + 1
      BY <1>7, <2>4, <3>1
    <3>2. CASE j = d
      <4>1. sh.main <=> (d = 0)
        <5>1. d \in 0 .. d
          OBVIOUS
        <5> QED BY <1>17, <2>4, <5>1 DEF Stands
      <4> QED BY <1>14, <2>4, <3>2, <4>1
    <3>3. CASE j \in 0 .. d - 1
      <4>1. j \in 0 .. d
        BY <3>3
      <4> QED BY <1>17, <2>4, <3>3, <4>1 DEF Stands
    <3> QED BY <3>1, <3>2, <3>3
  <2>7. ASSUME NEW s \in Kinds
        PROVE  FramesStand(p, callee, d + 1, act2, fr[s], s)
    <3>1. PICK f : f = fr[s]
      OBVIOUS
    <3>2. f.offsets \in Seq(Nat) /\ f.index \in Nat /\ Nested(f) /\ FramesStand(p, sh, d, act, f, s)
      BY <1>17, <3>1 DEF FramesOK, Stands
    <3>3. Len(f.offsets) = d + 1 /\ NextSlot(sh, d, f) = f.offsets[d + 1]
      BY <1>3, <3>2 DEF FramesStand, NextSlot
    <3>4. Len(f.offsets) = d + 1 + (IF callee.entering THEN 1 ELSE 0)
      BY <1>7, <3>3
    <3>5. f.offsets[d + 1] \in Nat /\ Low(f, d) \in Nat
      BY <3>2, <3>3 DEF Low
    <3>6. ASSUME NEW j \in 1 .. d + 1
          PROVE  f.offsets[j] >= Low(f, j - 1) + Known[p][act2[j].ret].defined[s]
      <4>1. CASE j \in 1 .. d
        <5>1. j \in 0 .. d
          BY <4>1
        <5>2. f.offsets[j] >= Low(f, j - 1) + Known[p][act[j].ret].defined[s]
          BY <3>2, <4>1 DEF FramesStand
        <5>3. act2[j] = act[j]
          BY <1>32, <5>1
        <5> QED BY ONLY <5>2, <5>3
      <4>2. CASE j = d + 1
        <5>1. Known[p][act2[j].ret] = back /\ j - 1 = d
          BY <1>11, <1>23, <1>32, <4>2
        <5>2. f.offsets[d + 1] >= Low(f, d) + sh.defined[s]
          BY <3>2, <3>3 DEF FramesStand
        <5>3. back.defined[s] <= sh.defined[s] /\ back.defined[s] \in Nat /\ sh.defined[s] \in Nat
          BY <1>3, <1>14 DEF Shape
        <5>4. PICK sd : sd = sh.defined[s]
          OBVIOUS
        <5>5. PICK bd : bd = back.defined[s]
          OBVIOUS
        <5>6. PICK top : top = f.offsets[d + 1]
          OBVIOUS
        <5>7. PICK low : low = Low(f, d)
          OBVIOUS
        <5>8. top \in Nat /\ low \in Nat /\ sd \in Nat /\ bd \in Nat /\ top >= low + sd /\ bd <= sd
          BY ONLY <3>5, <5>2, <5>3, <5>4, <5>5, <5>6, <5>7
        <5>9. top >= low + bd
          BY ONLY <5>8
        <5>10. j = d + 1
          BY <4>2
        <5> QED BY ONLY <5>1, <5>5, <5>6, <5>7, <5>9, <5>10
      <4> QED BY <4>1, <4>2
    <3>7. f.offsets[1] = 0
      <4>1. CASE d = 0
        BY <3>2, <3>3, <4>1 DEF FramesStand
      <4>2. CASE d # 0
        BY <3>2, <4>2 DEF FramesStand
      <4> QED BY <4>1, <4>2
    <3>8. NextSlot(callee, d + 1, f) >= Low(f, d + 1) + callee.defined[s]
      <4>1. d + 1 \in 1 .. Len(f.offsets)
        BY <3>3
      <4>2. f.offsets[d + 1] <= f.index
        BY <3>2, <4>1 DEF Nested
      <4>3. NextSlot(callee, d + 1, f) = f.index /\ Low(f, d + 1) = f.offsets[d + 1] /\ callee.defined[s] = 0
        BY <1>7 DEF NextSlot, Low
      <4> QED BY <3>2, <3>5, <4>2, <4>3
    <3> QED BY <3>1, <3>4, <3>6, <3>7, <3>8 DEF FramesStand
  <2> QED BY <1>32, <2>1, <2>2, <2>3, <2>5, <2>6, <2>7 DEF Stands
<1> QED BY <1>2, <1>3, <1>32, <1>33 DEF Conforms

(* A function that returns is not the outermost, and finds its return address. *)
LEMMA Returned ==
  ASSUME NEW p, Disciplined(p), NEW i \in DOMAIN Known[p],
         NEW st \in [Kinds -> Seq(Cell)], NEW fr, FramesOK(fr), Conforms(p, i, st, fr),
         ~Known[p][i].entering, ReturnRule(Known[p][i])
  PROVE  \E to \in Nat :
           /\ to \in DOMAIN Known[p] /\ OpAt(p, to) = "POP_SCOPE"
           /\ st["val"][Len(st["val"])] = Addr(to)
           /\ \A st2 : Moved(st, 1, << >>, 0, 0, st2) => Conforms(p, to, st2, fr)
<1>1. PICK sh : sh = Known[p][i]
  OBVIOUS
<1>2. /\ sh \in Shape /\ ~sh.entering /\ ~sh.main /\ sh.val \in Seq(Abstract) /\ sh.obj \in Nat
      /\ sh.gives["val"] \in Nat /\ sh.gives["obj"] \in Nat
      /\ Len(sh.val) = sh.gives["val"] + 1 /\ sh.val[Len(sh.val)] = Ret /\ sh.obj = sh.gives["obj"]
  <2>1. sh \in Shape /\ ~sh.entering /\ ReturnRule(sh)
    BY <1>1 DEF Disciplined
  <2>2. /\ sh.val \in Seq(Abstract) /\ sh.obj \in Nat
        /\ sh.gives["val"] \in Nat /\ sh.gives["obj"] \in Nat
    BY <2>1 DEF Shape, Kinds
  <2>3. Len(sh.val) - 0 = Len(sh.val)
    BY <2>2
  <2> QED BY <2>1, <2>2, <2>3 DEF ReturnRule, TopOf
<1>3. PICK d \in Nat : \E act \in [0 .. d -> Activation] : Stands(p, sh, d, act, st, fr)
  BY <1>1 DEF Conforms
<1>4. PICK act \in [0 .. d -> Activation] : Stands(p, sh, d, act, st, fr)
  BY <1>3
<1>5. d # 0 /\ ShapeOf(p, sh, d, act, d) = sh
  <2>1. d \in 0 .. d /\ ShapeOf(p, sh, d, act, d) = sh
    BY DEF ShapeOf
  <2> QED BY <1>2, <1>4, <2>1 DEF Stands
<1>6. PICK e : e = d - 1
  OBVIOUS
<1>7. e \in Nat /\ d = e + 1 /\ e \in 0 .. d /\ d \in 0 .. d /\ d \in 1 .. d /\ e # d
  BY <1>5, <1>6
<1>8. PICK b : b = act[d]
  OBVIOUS
<1>9. PICK a : a = act[e]
  OBVIOUS
<1>10. PICK back : back = Known[p][b.ret]
  OBVIOUS
<1>11. /\ a \in Activation /\ b \in Activation /\ b.ret \in Nat
       /\ a.val \in Nat /\ b.val \in Nat /\ a.obj \in Nat /\ b.obj \in Nat /\ a.val <= b.val
       /\ Top(sh, b, st) /\ Waits(p, a, b, sh.gives, st)
  <2>1. a \in Activation /\ b \in Activation
    BY <1>7, <1>8, <1>9
  <2>2. a.val <= b.val
    BY <1>4, <1>6, <1>7, <1>8, <1>9 DEF Stands
  <2>3. Waits(p, act[d - 1], act[d], ShapeOf(p, sh, d, act, d).gives, st)
    BY <1>4, <1>7 DEF Stands
  <2> QED BY <1>4, <1>5, <1>6, <1>8, <1>9, <2>1, <2>2, <2>3 DEF Stands, Activation
<1>12. /\ b.ret \in DOMAIN Known[p] /\ back.entering /\ OpAt(p, b.ret) = "POP_SCOPE"
       /\ b.val + sh.gives["val"] = a.val + Len(back.val)
       /\ b.obj + sh.gives["obj"] = a.obj + back.obj
       /\ Matches(back.val, b.val - a.val, st["val"], a.val, a.ret)
       /\ \A l \in b.val - a.val + 1 .. Len(back.val) : back.val[l] = Opaque
       /\ back \in Shape /\ back.val \in Seq(Abstract) /\ back.obj \in Nat
  <2>1. b.ret \in DOMAIN Known[p]
    BY <1>11 DEF Waits
  <2>2. back \in Shape
    BY <1>10, <2>1 DEF Disciplined
  <2> QED BY <1>10, <1>11, <2>2 DEF Waits, Shape
<1>13. PICK n : n = Len(st["val"])
  OBVIOUS
<1>14. PICK lv : lv = Len(sh.val)
  OBVIOUS
<1>15. PICK av : av = a.val
  OBVIOUS
<1>16. PICK bv : bv = b.val
  OBVIOUS
<1>17. PICK gv : gv = sh.gives["val"]
  OBVIOUS
<1>18. PICK kv : kv = Len(back.val)
  OBVIOUS
<1>19. /\ n = bv + lv /\ lv = gv + 1 /\ bv + gv = av + kv /\ av <= bv
       /\ lv \in Nat /\ bv \in Nat /\ av \in Nat /\ gv \in Nat /\ kv \in Nat
  <2>1. Len(st["val"]) = b.val + Len(sh.val)
    BY <1>11 DEF Top
  <2>2. n = bv + lv
    BY ONLY <1>13, <1>14, <1>16, <2>1
  <2>3. lv = gv + 1
    BY ONLY <1>2, <1>14, <1>17
  <2>4. bv + gv = av + kv
    BY ONLY <1>12, <1>15, <1>16, <1>17, <1>18
  <2>5. Len(sh.val) \in Nat /\ Len(back.val) \in Nat
    BY <1>2, <1>12
  <2>6. gv \in Nat /\ av \in Nat /\ bv \in Nat /\ av <= bv
    BY ONLY <1>2, <1>11, <1>15, <1>16, <1>17
  <2>7. lv \in Nat /\ kv \in Nat
    BY ONLY <1>14, <1>18, <2>5
  <2> QED BY ONLY <2>2, <2>3, <2>4, <2>6, <2>7
<1>20. st["val"][n] = Addr(b.ret)
  <2>1. lv \in 1 .. Len(sh.val) /\ sh.val[lv] = Ret
    <3>1. lv \in Nat /\ lv >= 1
      BY ONLY <1>19
    <3>2. Len(sh.val) - 0 = lv /\ sh.val[Len(sh.val) - 0] = Ret
      BY <1>2, <1>14, <3>1 DEF TopOf
    <3> QED BY ONLY <1>14, <3>1, <3>2
  <2>2. Match(sh.val[lv], st["val"][b.val + lv], b.ret)
    BY <1>11, <2>1 DEF Top, Matches
  <2>3. Ret # Opaque /\ Ret \notin Cell /\ st["val"][b.val + lv] = st["val"][n]
    <3>1. Ret # Opaque
      BY DEF Ret, Opaque
    <3>2. Ret \notin Cell
      <4>1. \A c \in Cell : c.tag \in PtrTags \cup ScalarTags \cup {"types", "op"}
        BY DEF Cell, Pointer, Scalar, TypesWord, Instruction
      <4> QED BY <4>1 DEF Ret, PtrTags, ScalarTags
    <3> QED BY <1>16, <1>19, <3>1, <3>2
  <2>4. n \in 1 .. n /\ st["val"] \in Seq(Cell)
    BY <1>19 DEF Kinds
  <2>5. st["val"][n] \in Cell
    BY <1>13, <2>4, ElementOfSeq
  <2> QED BY <2>1, <2>2, <2>3, <2>5 DEF Match
<1>21. ASSUME NEW st2, Moved(st, 1, << >>, 0, 0, st2)
       PROVE  Conforms(p, b.ret, st2, fr)
  <2>1. /\ Len(st2["val"]) = n - 1 /\ \A l \in 1 .. n - 1 : st2["val"][l] = st["val"][l]
        /\ Len(st2["obj"]) = Len(st["obj"])
    <3>1. st["val"] \in Seq(Cell) /\ st["obj"] \in Seq(Cell) /\ << >> \in Seq(Cell) /\ 1 \in Nat /\ 1 <= Len(st["val"])
      BY <1>13, <1>19 DEF Kinds
    <3>2. IsReplaced(st["val"], 1, << >>, Replace(st["val"], 1, << >>))
      BY ONLY <3>1, Replaced, Zenon
    <3>3. IsReplaced(st["val"], 1, << >>, st2["val"])
      BY ONLY <3>2, <1>21, Zenon DEF Moved
    <3>4. Len(st2["obj"]) = Len(st["obj"]) - 0 + 0
      BY <1>21 DEF Moved
    <3>5. Len(st2["obj"]) = Len(st["obj"])
      BY <3>1, <3>4
    <3>6. Len(<< >>) = 0 /\ n \in Nat
      BY <1>19
    <3>7. n - 1 + 0 = n - 1
      BY <3>6
    <3> QED BY <1>13, <3>3, <3>5, <3>6, <3>7 DEF IsReplaced
  <2>2. PICK act2 : act2 = [j \in 0 .. e |-> act[j]]
    OBVIOUS
  <2>3. /\ act2 \in [0 .. e -> Activation] /\ act2[e] = a
        /\ \A j \in 0 .. e : act2[j] = act[j] /\ j \in 0 .. d
    <3>1. \A j \in 0 .. e : j \in 0 .. d
      BY <1>7
    <3>2. e \in 0 .. e
      BY <1>7
    <3> QED BY <1>9, <2>2, <3>1, <3>2
  <2>4. Top(back, a, st2)
    <3>1. Len(st2["val"]) = a.val + Len(back.val)
      <4>1. n - 1 = av + kv
        BY ONLY <1>19
      <4> QED BY ONLY <1>15, <1>18, <2>1, <4>1
    <3>2. Len(st2["obj"]) = a.obj + back.obj
      BY <1>2, <1>11, <1>12, <2>1 DEF Top
    <3>3. ASSUME NEW l \in 1 .. Len(back.val)
          PROVE  Match(back.val[l], st2["val"][a.val + l], a.ret)
      <4>1. CASE l <= bv - av
        <5>1. l \in 1 .. b.val - a.val /\ av + l \in 1 .. n - 1
          <6>1. l \in 1 .. bv - av /\ av + l \in 1 .. n - 1
            BY ONLY <1>19, <4>1, <1>18, l \in 1 .. Len(back.val)
          <6> QED BY ONLY <1>15, <1>16, <6>1
        <5>2. Match(back.val[l], st["val"][a.val + l], a.ret)
          BY <1>12, <5>1 DEF Matches
        <5> QED BY ONLY <1>15, <2>1, <5>1, <5>2
      <4>2. CASE ~ (l <= bv - av)
        <5>1. l \in bv - av + 1 .. kv
          BY ONLY <1>19, <4>2, <1>18, l \in 1 .. Len(back.val)
        <5>2. back.val[l] = Opaque
          BY ONLY <1>12, <1>15, <1>16, <1>18, <5>1
        <5> QED BY <5>2 DEF Match
      <4> QED BY <4>1, <4>2
    <3> QED BY <3>1, <3>2, <3>3 DEF Top, Matches
  <2>5. ASSUME NEW j \in 0 .. e
        PROVE  ShapeOf(p, back, e, act2, j) = ShapeOf(p, sh, d, act, j)
    <3>1. CASE j = e
      BY <1>7, <1>8, <1>10, <3>1 DEF ShapeOf
    <3>2. CASE j # e
      <4>1. j # d /\ j + 1 \in 0 .. e
        BY <1>7, <3>2
      <4> QED BY <2>3, <3>2, <4>1 DEF ShapeOf
    <3> QED BY <3>1, <3>2
  <2>6. ASSUME NEW j \in 1 .. e
        PROVE  Waits(p, act2[j - 1], act2[j], ShapeOf(p, back, e, act2, j).gives, st2)
    <3>1. j - 1 \in 0 .. e /\ j \in 0 .. e /\ j \in 1 .. d /\ j - 1 \in 0 .. d /\ j \in 0 .. d /\ j - 1 <= j /\ j <= e
      BY <1>7
    <3>2. PICK u : u = act[j - 1]
      OBVIOUS
    <3>3. PICK v : v = act[j]
      OBVIOUS
    <3>4. u = act2[j - 1] /\ v = act2[j] /\ ShapeOf(p, back, e, act2, j).gives = ShapeOf(p, sh, d, act, j).gives
      BY <2>3, <2>5, <3>1, <3>2, <3>3
    <3>5. Waits(p, u, v, ShapeOf(p, sh, d, act, j).gives, st)
      BY <1>4, <3>1, <3>2, <3>3 DEF Stands
    <3>6. PICK uv : uv = u.val
      OBVIOUS
    <3>7. PICK vv : vv = v.val
      OBVIOUS
    <3>8. uv \in Nat /\ vv \in Nat /\ uv <= vv /\ vv <= av
      BY <1>4, <1>7, <1>9, <1>15, <3>1, <3>2, <3>3, <3>6, <3>7 DEF Stands, Activation
    <3>9. \A l \in 1 .. vv - uv : uv + l \in 1 .. n - 1
      BY ONLY <1>19, <3>8
    <3>10. Matches(Known[p][v.ret].val, v.val - u.val, st["val"], u.val, u.ret)
      BY <3>5 DEF Waits
    <3>11. Matches(Known[p][v.ret].val, v.val - u.val, st2["val"], u.val, u.ret)
      BY ONLY <2>1, <3>6, <3>7, <3>9, <3>10 DEF Matches
    <3> QED BY <3>4, <3>5, <3>11 DEF Waits
  <2>7. ASSUME NEW j \in 0 .. e
        PROVE  ShapeOf(p, back, e, act2, j).main <=> (j = 0)
    BY <1>4, <2>3, <2>5 DEF Stands
  <2>8. ASSUME NEW s \in Kinds
        PROVE  FramesStand(p, back, e, act2, fr[s], s)
    <3>1. PICK f : f = fr[s]
      OBVIOUS
    <3>2. f.offsets \in Seq(Nat) /\ FramesStand(p, sh, d, act, f, s)
      BY <1>4, <3>1 DEF FramesOK, Stands
    <3>3. Len(f.offsets) = d
      BY <1>2, <3>2 DEF FramesStand
    <3>4. Len(f.offsets) = e + (IF back.entering THEN 1 ELSE 0)
      BY <1>7, <1>12, <3>3
    <3>5. ASSUME NEW j \in 1 .. e
          PROVE  f.offsets[j] >= Low(f, j - 1) + Known[p][act2[j].ret].defined[s]
      <4>1. j \in 0 .. e /\ j \in 1 .. d
        BY <1>7
      <4>2. f.offsets[j] >= Low(f, j - 1) + Known[p][act[j].ret].defined[s]
        BY <3>2, <4>1 DEF FramesStand
      <4>3. act2[j] = act[j]
        BY <2>3, <4>1
      <4> QED BY ONLY <4>2, <4>3
    <3>6. f.offsets[1] = 0
      BY <1>5, <3>2 DEF FramesStand
    <3>7. NextSlot(back, e, f) = f.offsets[d]
      BY <1>7, <1>12 DEF NextSlot
    <3>8. f.offsets[d] >= Low(f, e) + back.defined[s]
      <4>1. f.offsets[d] >= Low(f, d - 1) + Known[p][act[d].ret].defined[s]
        BY <1>7, <3>2 DEF FramesStand
      <4> QED BY ONLY <1>6, <1>8, <1>10, <4>1
    <3>9. e = 0 => f.offsets[d] = 0
      <4>1. e = 0 => d = 1
        BY <1>7
      <4> QED BY <3>6, <4>1
    <3> QED BY <3>1, <3>4, <3>5, <3>6, <3>7, <3>8, <3>9 DEF FramesStand
  <2>9. act2[0].val = 0 /\ act2[0].obj = 0
    <3>1. 0 \in 0 .. e
      BY <1>7
    <3> QED BY <1>4, <2>3, <3>1 DEF Stands
  <2>10. \A j, k \in 0 .. e : j <= k => act2[j].val <= act2[k].val /\ act2[j].obj <= act2[k].obj
    BY <1>4, <2>3 DEF Stands
  <2>11. Stands(p, back, e, act2, st2, fr)
    BY <2>3, <2>4, <2>6, <2>7, <2>8, <2>9, <2>10 DEF Stands
  <2> QED BY <1>7, <1>10, <1>12, <2>3, <2>11 DEF Conforms
<1> QED BY <1>11, <1>12, <1>13, <1>20, <1>21
-----------------------------------------------------------------------------
(* PUSH_HEAP: what the shape says it takes is what it takes.                  *)

(* A property of positions that holds somewhere holds at a first one.         *)
LEMMA LeastPosition ==
  ASSUME NEW T \in SUBSET Nat, T # {}
  PROVE  \E x \in T : \A y \in T : x <= y
<1>1. PICK x \in T : \A y \in T : ~ (<<y, x>> \in OpToRel(<, Nat))
  BY NatLessThanWellFounded, WFMin, Zenon
<1>2. \A y \in Nat : ~ (<<y, x>> \in OpToRel(<, Nat)) => ~ (x \in Nat /\ y < x)
  BY Zenon DEF OpToRel
<1>3. \A y \in T : ~ (y < x)
  BY <1>1, <1>2, Zenon
<1> QED BY <1>3

(* How many cells each stack gives, one cell after the other.                 *)
LEMMA TakenFacts ==
  ASSUME NEW n \in Nat, NEW k \in [0 .. n - 1 -> Kinds]
  PROVE  /\ \A s \in Kinds, i \in Nat : Taken(k, s, i) \in Nat
         /\ \A i \in 0 .. n - 1 : Taken(k, k[i], i) < Taken(k, k[i], n)
<1> DEFINE T(s, i) == {j \in 0 .. i - 1 : k[j] = s}
<1>1. ASSUME NEW s \in Kinds, NEW i \in Nat
      PROVE  IsFiniteSet(T(s, i)) /\ Taken(k, s, i) \in Nat
  <2>1. IsFiniteSet(0 .. i - 1)
    BY FS_Interval
  <2>2. T(s, i) \in SUBSET (0 .. i - 1)
    OBVIOUS
  <2>3. IsFiniteSet(T(s, i))
    BY <2>1, <2>2, FS_Subset
  <2> QED BY <2>3, FS_CardinalityType DEF Taken
<1>2. ASSUME NEW i \in 0 .. n - 1
      PROVE  Taken(k, k[i], i) < Taken(k, k[i], n)
  <2> DEFINE s == k[i]
  <2>1. s \in Kinds /\ i \in Nat
    OBVIOUS
  <2>2. T(s, i) \in SUBSET T(s, n) /\ i \in T(s, n) /\ i \notin T(s, i)
    BY <2>1
  <2>3. Cardinality(T(s, i)) <= Cardinality(T(s, n)) /\ Cardinality(T(s, i)) # Cardinality(T(s, n))
    BY <1>1, <2>1, <2>2, FS_Subset
  <2>4. Taken(k, s, i) <= Taken(k, s, n) /\ Taken(k, s, i) # Taken(k, s, n)
    BY <2>3 DEF Taken
  <2>5. Taken(k, s, i) \in Nat /\ Taken(k, s, n) \in Nat
    BY <1>1, <2>1, Zenon
  <2> QED BY <2>4, <2>5
<1> QED BY <1>1, <1>2

(* Position i is in the group of a types word, at or before it.               *)
LEMMA Groups ==
  ASSUME NEW i \in Nat
  PROVE  /\ i - (i % 5) \in 0 .. i /\ (i - (i % 5)) % 5 = 0
         /\ i % 5 # 0 => i - (i % 5) < i
<1>1. PICK r : r = i % 5
  OBVIOUS
<1>2. PICK q : q = i \div 5
  OBVIOUS
<1>3. r \in 0 .. 4 /\ q \in Nat /\ i = 5 * q + r
  BY <1>1, <1>2
<1>4. (5 * q) % 5 = 0
  BY <1>3
<1>5. i - r = 5 * q
  BY <1>3
<1> QED BY <1>1, <1>3, <1>4, <1>5

(* The types words that are popped determine the layout.                      *)
LEMMA LayoutUnique ==
  ASSUME NEW n \in Nat, NEW k \in Layouts(n), NEW l \in Layouts(n)
  PROVE  k = l
<1>1. /\ k \in [0 .. n - 1 -> Kinds] /\ l \in [0 .. n - 1 -> Kinds]
      /\ IsLayout(k, n) /\ IsLayout(l, n)
  BY DEF Layouts
<1> DEFINE T == {i \in 0 .. n - 1 : k[i] # l[i]}
<1>2. SUFFICES ASSUME T # {} PROVE FALSE
  BY <1>1
<1>3. T \in SUBSET Nat
  OBVIOUS
<1>4. PICK x \in T : \A y \in T : x <= y
  BY <1>2, <1>3, LeastPosition
<1>5. x \in 0 .. n - 1 /\ k[x] # l[x] /\ \A y \in 0 .. x - 1 : k[y] = l[y]
  BY <1>4
<1>6. CASE x % 5 = 0
  BY <1>1, <1>5, <1>6 DEF IsLayout
<1>7. CASE x % 5 # 0
  <2>1. PICK y : y = x - (x % 5)
    OBVIOUS
  <2>2. y \in 0 .. x - 1 /\ y \in 0 .. n - 1 /\ y % 5 = 0
    BY <1>5, <1>7, <2>1, Groups
  <2>3. k[y] = "val" /\ l[y] = "val"
    BY <1>1, <2>2 DEF IsLayout
  <2>4. {j \in 0 .. y - 1 : k[j] = "val"} = {j \in 0 .. y - 1 : l[j] = "val"}
    BY <1>5, <2>2
  <2>5. Taken(k, "val", y) = Taken(l, "val", y)
    BY ONLY <2>4, Zenon DEF Taken
  <2>6. Popped(k, y) = Popped(l, y)
    BY ONLY <2>3, <2>5, Zenon DEF Popped
  <2>7. /\ k[x] = IF is_object_or_null(Popped(k, y).types[x % 5]) THEN "obj" ELSE "val"
        /\ l[x] = IF is_object_or_null(Popped(l, y).types[x % 5]) THEN "obj" ELSE "val"
    BY <1>1, <1>5, <1>7, <2>1, Zenon DEF IsLayout
  <2> QED BY <1>5, <2>6, <2>7, Zenon
<1> QED BY <1>6, <1>7

(* The layout read off the known types words is the one that the machine finds. *)
LEMMA LayoutKnown ==
  ASSUME NEW sh \in Shape, NEW a \in Activation, Top(sh, a, stacks),
         NEW n \in Nat, NEW k, LaidOut(sh, k, n)
  PROVE  k \in Layouts(n) /\ Enough(sh, Taken(k, "val", n), Taken(k, "obj", n))
<1>1. /\ k \in [0 .. n - 1 -> Kinds]
      /\ Taken(k, "val", n) <= Len(sh.val) /\ Taken(k, "obj", n) <= sh.obj
  BY DEF LaidOut, Enough
<1>2. PICK av : av = a.val
  OBVIOUS
<1>3. PICK ao : ao = a.obj
  OBVIOUS
<1>4. PICK lv : lv = Len(sh.val)
  OBVIOUS
<1>5. /\ av \in Nat /\ ao \in Nat /\ lv \in Nat /\ sh.obj \in Nat /\ sh.val \in Seq(Abstract)
      /\ Depth("val") = av + lv /\ Depth("obj") = ao + sh.obj
  BY <1>2, <1>3, <1>4 DEF Top, Depth, Activation, Shape
<1>6. \A s \in Kinds : Taken(k, s, n) <= Depth(s)
  <2>1. Taken(k, "val", n) \in Nat /\ Taken(k, "obj", n) \in Nat
    BY <1>1, TakenFacts DEF Kinds
  <2>2. Taken(k, "val", n) <= Depth("val") /\ Taken(k, "obj", n) <= Depth("obj")
    BY <1>1, <1>4, <1>5, <2>1
  <2> QED BY <2>2 DEF Kinds
<1>7. ASSUME NEW i \in 0 .. n - 1, i % 5 = 0
      PROVE  k[i] = "val" /\ Popped(k, i).tag = "types" /\ Popped(k, i) = PoppedOf(sh, k, i)
  <2>1. k[i] = "val" /\ PoppedOf(sh, k, i).tag = "types"
    BY <1>7 DEF LaidOut
  <2>2. PICK t : t = Taken(k, "val", i)
    OBVIOUS
  <2>3. t \in Nat /\ t < lv
    <3>1. Taken(k, "val", i) < Taken(k, "val", n) /\ Taken(k, "val", i) \in Nat /\ Taken(k, "val", n) \in Nat
      <4>1. Taken(k, k[i], i) < Taken(k, k[i], n)
        BY ONLY <1>1, n \in Nat, i \in 0 .. n - 1, TakenFacts
      <4>2. "val" \in Kinds /\ i \in Nat
        BY DEF Kinds
      <4>3. Taken(k, "val", i) \in Nat /\ Taken(k, "val", n) \in Nat
        BY ONLY <1>1, n \in Nat, <4>2, TakenFacts
      <4>4. k[i] = "val"
        BY <2>1
      <4> QED BY ONLY <4>1, <4>3, <4>4
    <3> QED BY <1>1, <1>4, <1>5, <2>2, <3>1
  <2>4. PICK l : l = lv - t
    OBVIOUS
  <2>5. l \in 1 .. lv /\ (av + lv) - t = av + l
    BY <1>5, <2>3, <2>4
  <2>6. PoppedOf(sh, k, i) = sh.val[l] /\ Popped(k, i) = stacks["val"][av + l]
    <3>1. k[i] = "val"
      BY <2>1
    <3>2. PoppedOf(sh, k, i) = sh.val[lv - t]
      BY ONLY <1>4, <2>2, <3>1 DEF PoppedOf, TopOf
    <3>3. Popped(k, i) = stacks["val"][(av + lv) - t]
      <4>1. Depth("val") = av + lv
        BY <1>5
      <4>2. Popped(k, i) = stacks["val"][Depth("val") - t]
        BY ONLY <2>2, <3>1, Zenon DEF Popped, Peek
      <4> QED BY ONLY <4>1, <4>2, Zenon
    <3> QED BY ONLY <2>4, <2>5, <3>2, <3>3
  <2>7. Match(sh.val[l], stacks["val"][av + l], a.ret)
    BY <1>2, <1>4, <2>5 DEF Top, Matches
  <2>8. Opaque.tag # "types" /\ Ret.tag # "types"
    BY DEF Opaque, Ret
  <2>9. stacks["val"][av + l] = sh.val[l]
    BY <2>1, <2>6, <2>7, <2>8 DEF Match
  <2> QED BY <2>1, <2>6, <2>9
<1>8. ASSUME NEW i \in 0 .. n - 1, i % 5 # 0
      PROVE  k[i] = IF is_object_or_null(Popped(k, i - (i % 5)).types[i % 5]) THEN "obj" ELSE "val"
  <2>1. PICK y : y = i - (i % 5)
    OBVIOUS
  <2>2. y \in 0 .. n - 1 /\ y % 5 = 0
    BY <2>1, Groups
  <2>3. Popped(k, y) = PoppedOf(sh, k, y)
    BY <1>7, <2>2
  <2>4. k[i] = IF is_object_or_null(PoppedOf(sh, k, y).types[i % 5]) THEN "obj" ELSE "val"
    BY <1>8, <2>1 DEF LaidOut
  <2> QED BY <2>1, <2>3, <2>4
<1> QED BY <1>1, <1>6, <1>7, <1>8, Zenon DEF Layouts, IsLayout, LaidOut
-----------------------------------------------------------------------------
(* The machine's steps.                                                      *)

(* What Invariance says of the variables, one by one.                         *)
LEMMA Typed ==
  ASSUME IInv
  PROVE  /\ stacks \in [Kinds -> Seq(Cell)] /\ FramesOK(frames)
         /\ Depth("val") \in Nat /\ Depth("obj") \in Nat
<1>1. Good(Len(heap)) \subseteq Cell
  BY DEF Good
<1>2. \A s \in Kinds : stacks[s] \in Seq(Cell)
  BY <1>1, SeqMonotonic DEF IInv, GoodStacks
<1>3. stacks \in [Kinds -> Seq(Cell)]
  BY <1>2 DEF IInv, GoodStacks
<1>4. FramesOK(frames)
  BY DEF IInv, GoodFrames, Frame, FramesOK
<1>5. Depth("val") \in Nat /\ Depth("obj") \in Nat
  BY <1>3 DEF Depth, Kinds
<1> QED BY <1>3, <1>4, <1>5

(* What is known where the machine runs.                                     *)
LEMMA Here ==
  ASSUME IInv, CInv, control # "host"
  PROVE  /\ Disciplined(prog) /\ ip \in DOMAIN Known[prog] /\ Known[prog][ip] \in Shape
         /\ Conforms(prog, ip, stacks, frames) /\ WellFormed(prog, ip) /\ Follows(prog, ip)
         /\ Instr = OpAt(prog, ip) /\ ip \in Nat /\ status \notin {"ERROR", "COMPLETED"}
<1>1. /\ Disciplined(prog) /\ status \notin {"ERROR", "COMPLETED"}
      /\ Conforms(prog, ip, stacks, frames)
  BY DEF CInv
<1>2. ip \in DOMAIN Known[prog]
  BY <1>1 DEF Conforms
<1>3. Known[prog][ip] \in Shape /\ WellFormed(prog, ip) /\ Follows(prog, ip)
  BY <1>1, <1>2 DEF Disciplined
<1>4. ip \in 0 .. Len(code) - 1 /\ code[ip + 1].tag = "op"
  BY <1>3 DEF WellFormed, Cells, code
<1>5. Instr = OpAt(prog, ip)
  BY <1>4 DEF Instr, IsOpcodeAt, OpAt, Cells, code
<1>6. ip \in Nat
  BY <1>4
<1> QED BY <1>1, <1>2, <1>3, <1>5, <1>6

(* The first operand, as the machine and as the rules read it.                *)
LEMMA Operand1 ==
  ASSUME IInv
  PROVE  /\ IntOf(Arg(prog, ip, 1)) = Operand(1) /\ Arg(prog, ip, 1) = Immediate
         /\ IntOf(Arg(prog, ip, 2)) = Operand(2)
<1>1. ip + 1 + 1 = ip + 2 /\ ip + 1 + 2 = ip + 2 + 1
  BY DEF IInv
<1> QED BY <1>1 DEF Arg, Cells, code, Operand, Immediate

(* A failed check leaves for the host with ERROR, where nothing is claimed.   *)
LEMMA Failed ==
  ASSUME CInv, NEW st, Fail(st)
  PROVE  CInv'
<1>1. status' = "ERROR" /\ control' = "host" /\ prog' = prog
  BY DEF Fail, Leave
<1> QED BY <1>1 DEF CInv, CompletedClean

(* A step that goes on to a location whose shape conforms keeps the invariant. *)
LEMMA Gone ==
  ASSUME CInv, control = "running", NEW to, NEW st, Goto(to, st), Conforms(prog, to, st, frames')
  PROVE  CInv'
<1>1. ip' = to /\ stacks' = st /\ prog' = prog /\ status' = status /\ control' = control
  BY DEF Goto
<1>2. status \notin {"ERROR", "COMPLETED"}
  BY DEF CInv
<1>3. Conforms(prog', ip', stacks', frames')
  BY <1>1
<1>4. Disciplined(prog')
  BY <1>1 DEF CInv
<1> QED BY <1>1, <1>2, <1>3, <1>4 DEF CInv, CompletedClean

(* So does an instruction that changes the stacks as After changes its shape.  *)
LEMMA Advanced ==
  ASSUME IInv, CInv, control = "running", ~Known[prog][ip].entering,
         NEW n \in Nat, NEW m \in Nat, NEW k \in Nat, Enough(Known[prog][ip], n, m),
         NEW known \in Seq(Abstract), NEW D, NEW cells \in Seq(D), Len(known) = Len(cells),
         \A a \in Activation : Top(Known[prog][ip], a, stacks) => Matches(known, Len(known), cells, 0, a.ret),
         NEW to, Leads(prog, to, After(Known[prog][ip], n, known, m, k)),
         NEW st, Moved(stacks, n, cells, m, k, st), Goto(to, st), SameFrames(frames, frames')
  PROVE  CInv'
<1>1. FramesOK(frames')
  BY Typed DEF FramesOK, SameFrames, Nested
<1>2. Disciplined(prog) /\ ip \in DOMAIN Known[prog] /\ Conforms(prog, ip, stacks, frames) /\ stacks \in [Kinds -> Seq(Cell)]
  BY Here, Typed
<1>3. PICK fr2 : fr2 = frames'
  OBVIOUS
<1>4. SameFrames(frames, fr2) /\ FramesOK(fr2)
  BY <1>1, <1>3
<1>5. Conforms(prog, to, st, fr2)
  BY <1>2, <1>4, Advance
<1>6. Conforms(prog, to, st, frames')
  BY <1>3, <1>5
<1> QED BY <1>6, Gone

(* Cells that nothing is known of.                                           *)
LEMMA Unknowns ==
  ASSUME NEW D, NEW cells \in Seq(D)
  PROVE  /\ Len(cells) \in Nat /\ Opaques(Len(cells)) \in Seq(Abstract) /\ Len(Opaques(Len(cells))) = Len(cells)
         /\ \A ret : Matches(Opaques(Len(cells)), Len(Opaques(Len(cells))), cells, 0, ret)
<1>1. Len(cells) \in Nat
  OBVIOUS
<1>2. PICK n : n = Len(cells)
  OBVIOUS
<1>3. Opaques(n) \in Seq(Abstract) /\ Len(Opaques(n)) = n /\ \A i \in 1 .. n : Opaques(n)[i] = Opaque
  BY <1>1, <1>2, OpaqueFacts
<1> QED BY <1>1, <1>2, <1>3 DEF Matches, Match

(* Instructions of which only their effect on the heights is known.           *)
LEMMA Plain ==
  ASSUME IInv, CInv, control = "running", Instr \notin Special,
         NEW c \in Nat, NEW n \in Nat, NEW m \in Nat, NEW k \in Nat, Effect(Instr) = <<n, c, m, k>>,
         NEW D, NEW cells \in Seq(D), Len(cells) = c,
         NEW st, Moved(stacks, n, cells, m, k, st), Step(st), SameFrames(frames, frames')
  PROVE  CInv'
<1>1. PICK sh : sh = Known[prog][ip]
  OBVIOUS
<1>2. Follows(prog, ip) /\ Instr = OpAt(prog, ip) /\ sh \in Shape
  BY <1>1, Here
<1>3. /\ ~sh.entering
      /\ PlainRule(prog, sh, Instr, ip + 1 + Operands(Instr))
  <2>1. Instr \notin {"JMP", "POP_SCOPE"}
    BY DEF Special
  <2> QED BY <1>1, <1>2, <2>1 DEF Follows
<1>4. Enough(sh, n, m) /\ Leads(prog, ip + 1 + Operands(Instr), After(sh, n, Opaques(c), m, k))
  BY <1>3 DEF PlainRule
<1>5. /\ Opaques(c) \in Seq(Abstract) /\ Len(Opaques(c)) = Len(cells)
      /\ \A ret : Matches(Opaques(c), Len(Opaques(c)), cells, 0, ret)
  BY Unknowns
<1>6. Goto(ip + 1 + Operands(Instr), st)
  BY DEF Step
<1> QED BY <1>1, <1>3, <1>4, <1>5, <1>6, Advanced

(* How the machine's steps write the stacks.                                 *)
LEMMA NothingReplaced ==
  ASSUME NEW S, NEW q \in Seq(S)
  PROVE  Replace(q, 0, << >>) = q
<1>1. Len(q) \in Nat /\ Len(q) - 0 = Len(q)
  OBVIOUS
<1>2. SubSeq(q, 1, Len(q)) = q
  BY SubSeqFull
<1>3. q \o << >> = q
  BY ConcatEmptySeq
<1> QED BY ONLY <1>1, <1>2, <1>3 DEF Replace

(* The three forms of a step on the stacks: on stack only,                    *)
LEMMA ValuesMoved ==
  ASSUME IInv, NEW n, NEW cells
  PROVE  Moved(stacks, n, cells, 0, 0, On("val", n, cells))
<1>1. /\ On("val", n, cells)["val"] = Replace(stacks["val"], n, cells)
      /\ On("val", n, cells)["obj"] = stacks["obj"]
  BY Typed DEF On, Drop, Depth, Replace, Kinds
<1>2. Len(stacks["obj"]) \in Nat
  BY Typed DEF Depth
<1>3. Len(On("val", n, cells)["obj"]) = Len(stacks["obj"]) - 0 + 0
  BY <1>1, <1>2
<1> QED BY <1>1, <1>3 DEF Moved

(* on both,                                                                   *)
LEMMA BothMoved ==
  ASSUME IInv, NEW n, NEW vals, NEW m \in Nat, m <= Depth("obj"), NEW D, NEW objs \in Seq(D)
  PROVE  Moved(stacks, n, vals, m, Len(objs), Both(n, vals, m, objs))
<1>1. /\ Both(n, vals, m, objs)["val"] = Replace(stacks["val"], n, vals)
      /\ Both(n, vals, m, objs)["obj"] = Replace(stacks["obj"], m, objs)
  BY DEF Both, Drop, Depth, Replace, Kinds
<1>2. m <= Len(stacks["obj"]) /\ stacks["obj"] \in Seq(Cell \cup D) /\ objs \in Seq(Cell \cup D) /\ m \in Nat
  <2>1. stacks["obj"] \in Seq(Cell)
    BY Typed DEF Kinds
  <2> QED BY <2>1, SeqMonotonic DEF Depth
<1>3. IsReplaced(stacks["obj"], m, objs, Replace(stacks["obj"], m, objs))
  BY ONLY <1>2, Replaced, Zenon
<1> QED BY ONLY <1>1, <1>3 DEF Moved, IsReplaced

(* and on stack_obj only.                                                     *)
LEMMA ObjectsMoved ==
  ASSUME IInv, NEW m \in Nat, m <= Depth("obj"), NEW D, NEW objs \in Seq(D)
  PROVE  Moved(stacks, 0, << >>, m, Len(objs), On("obj", m, objs))
<1>1. /\ On("obj", m, objs)["val"] = stacks["val"]
      /\ On("obj", m, objs)["obj"] = Both(0, << >>, m, objs)["obj"]
  BY Typed DEF On, Both, Drop, Depth, Kinds
<1>2. stacks["val"] = Replace(stacks["val"], 0, << >>)
  <2>1. stacks["val"] \in Seq(Cell)
    BY Typed DEF Kinds
  <2> QED BY <2>1, NothingReplaced
<1>3. Moved(stacks, 0, << >>, m, Len(objs), Both(0, << >>, m, objs))
  BY BothMoved
<1> QED BY ONLY <1>1, <1>2, <1>3 DEF Moved

(* The instructions that move whole cells between the stacks and the rest.    *)
LEMMA Effects ==
  /\ \A op \in Binary \cup FloatBinary : Effect(op) = <<2, 1, 0, 0>> /\ op \notin Special
  /\ \A op \in Unary : Effect(op) = <<1, 1, 0, 0>> /\ op \notin Special
  /\ \A op \in {"GET_LOCAL"} : Effect(op) = <<0, 1, 0, 0>> /\ op \notin Special
  /\ \A op \in {"POP", "SET_LOCAL"} : Effect(op) = <<1, 0, 0, 0>> /\ op \notin Special
  /\ \A op \in {"EQ_OBJ", "NEQ_OBJ"} : Effect(op) = <<0, 1, 2, 0>> /\ op \notin Special
  /\ \A op \in {"LEN_ARRAY", "GET_HEAP"} : Effect(op) = <<0, 1, 1, 0>> /\ op \notin Special
  /\ \A op \in {"GET_ARRAY"} : Effect(op) = <<1, 1, 1, 0>> /\ op \notin Special
  /\ \A op \in {"SET_HEAP"} : Effect(op) = <<1, 0, 1, 0>> /\ op \notin Special
  /\ \A op \in {"SET_ARRAY"} : Effect(op) = <<2, 0, 1, 0>> /\ op \notin Special
  /\ \A op \in {"PUSH_ARRAY"} : Effect(op) = <<2, 0, 0, 1>> /\ op \notin Special
  /\ \A op \in {"CAST_BYTE_ARRAY"} : Effect(op) = <<1, 0, 0, 1>> /\ op \notin Special
  /\ \A op \in {"PUSH_OBJ", "GET_LOCAL_OBJ"} : Effect(op) = <<0, 0, 0, 1>> /\ op \notin Special
  /\ \A op \in {"DUP_OBJ"} : Effect(op) = <<0, 0, 1, 2>> /\ op \notin Special
  /\ \A op \in {"POP_OBJ", "SET_LOCAL_OBJ"} : Effect(op) = <<0, 0, 1, 0>> /\ op \notin Special
  /\ \A op \in {"SWAP_OBJ"} : Effect(op) = <<0, 0, 2, 2>> /\ op \notin Special
  /\ \A op \in {"GET_HEAP_OBJ"} : Effect(op) = <<0, 0, 1, 1>> /\ op \notin Special
  /\ \A op \in {"SET_HEAP_OBJ"} : Effect(op) = <<0, 0, 2, 0>> /\ op \notin Special
  /\ \A op \in {"GET_ARRAY_OBJ"} : Effect(op) = <<1, 0, 1, 1>> /\ op \notin Special
  /\ \A op \in {"SET_ARRAY_OBJ"} : Effect(op) = <<1, 0, 2, 0>> /\ op \notin Special
  /\ \A op \in {"YIELD"} : Effect(op) = <<0, 0, 0, 0>> /\ op \notin Special
BY DEF Effect, Special, Binary, FloatBinary, Unary

(* Storing in a slot keeps offsets and index.                                 *)
LEMMA SameFramesKept ==
  ASSUME UNCHANGED frames
  PROVE  SameFrames(frames, frames')
BY DEF SameFrames

(* Plain instructions, by the stacks that they work on.                       *)
LEMMA ValueStep ==
  ASSUME IInv, CInv, NEW op, Running(op), op \notin Special, NEW n \in Nat, NEW D, NEW cells \in Seq(D),
         Effect(op) = <<n, Len(cells), 0, 0>>, Step(On("val", n, cells)), SameFrames(frames, frames')
  PROVE  CInv'
<1>1. Instr = op /\ control = "running"
  BY DEF Running
<1>2. Moved(stacks, n, cells, 0, 0, On("val", n, cells))
  BY ValuesMoved
<1>3. Len(cells) \in Nat
  OBVIOUS
<1> QED BY <1>1, <1>2, <1>3, Plain

(* The same on stack_obj.                                                     *)
LEMMA ObjectStep ==
  ASSUME IInv, CInv, NEW op, Running(op), op \notin Special,
         NEW m \in Nat, m <= Depth("obj"), NEW D, NEW objs \in Seq(D),
         Effect(op) = <<0, 0, m, Len(objs)>>, Step(On("obj", m, objs)), SameFrames(frames, frames')
  PROVE  CInv'
<1>1. Instr = op /\ control = "running"
  BY DEF Running
<1>2. Moved(stacks, 0, << >>, m, Len(objs), On("obj", m, objs))
  BY ObjectsMoved
<1>3. Len(objs) \in Nat /\ Len(<< >>) = 0 /\ << >> \in Seq(D)
  OBVIOUS
<1> QED BY <1>1, <1>2, <1>3, Plain

(* The same on both.                                                          *)
LEMMA BothStep ==
  ASSUME IInv, CInv, NEW op, Running(op), op \notin Special, NEW n \in Nat, NEW D, NEW vals \in Seq(D),
         NEW m \in Nat, m <= Depth("obj"), NEW objs \in Seq(D),
         Effect(op) = <<n, Len(vals), m, Len(objs)>>, Step(Both(n, vals, m, objs)), SameFrames(frames, frames')
  PROVE  CInv'
<1>1. Instr = op /\ control = "running"
  BY DEF Running
<1>2. Moved(stacks, n, vals, m, Len(objs), Both(n, vals, m, objs))
  BY BothMoved
<1>3. Len(objs) \in Nat /\ Len(vals) \in Nat
  OBVIOUS
<1> QED BY <1>1, <1>2, <1>3, Plain

(* Sequences of no, one and two cells.                                       *)
LEMMA Few ==
  /\ \A D : << >> \in Seq(D) /\ Len(<< >>) = 0
  /\ \A c : <<c>> \in Seq({c}) /\ Len(<<c>>) = 1
  /\ \A b, c : <<b, c>> \in Seq({b, c}) /\ Len(<<b, c>>) = 2
<1>1. \A D : << >> \in Seq(D) /\ Len(<< >>) = 0
  BY EmptySeq
<1>2. ASSUME NEW c PROVE <<c>> \in Seq({c}) /\ Len(<<c>>) = 1
  BY Singleton
<1>3. ASSUME NEW b, NEW c PROVE <<b, c>> \in Seq({b, c}) /\ Len(<<b, c>>) = 2
  BY Pair
<1> QED BY <1>1, <1>2, <1>3

(* PUSH_OBJ, DUP_OBJ, SWAP_OBJ, POP and POP_OBJ.                              *)
LEMMA Shuffles ==
  ASSUME IInv, CInv,
         \/ Push("obj") \/ Dup("obj") \/ Swap("obj")
         \/ Pop("val") \/ Pop("obj")
  PROVE  CInv'
<1>1. CASE Push("obj")
  <2>1. Running("PUSH_OBJ") /\ PushChecked("obj", 0, <<Immediate>>) /\ SameFrames(frames, frames')
    BY <1>1, SameFramesKept DEF Push, Of
  <2>2. CASE Full("obj")
    BY <2>1, <2>2, Failed DEF PushChecked
  <2>3. CASE ~Full("obj")
    <3>1. Step(On("obj", 0, <<Immediate>>))
      BY <2>1, <2>3 DEF PushChecked
    <3>2. PICK objs : objs = <<Immediate>>
      OBVIOUS
    <3>3. objs \in Seq({Immediate}) /\ Len(objs) = 1
      BY <3>2, Few
    <3>4. Effect("PUSH_OBJ") = <<0, 0, 0, Len(objs)>> /\ "PUSH_OBJ" \notin Special
      BY <3>3, Effects
    <3>5. 0 \in Nat /\ 0 <= Depth("obj")
      BY Typed
    <3>6. Step(On("obj", 0, objs))
      BY <3>1, <3>2
    <3> QED BY <2>1, <3>3, <3>4, <3>5, <3>6, ObjectStep, Zenon
  <2> QED BY <2>2, <2>3
<1>2. CASE Dup("obj")
  <2>1. Running("DUP_OBJ") /\ PushChecked("obj", 0, <<Peek("obj", 0)>>) /\ SameFrames(frames, frames')
    BY <1>2, SameFramesKept DEF Dup, Of
  <2>2. CASE Full("obj")
    BY <2>1, <2>2, Failed DEF PushChecked
  <2>3. CASE ~Full("obj")
    <3>1. PICK objs : objs = <<Peek("obj", 0)>>
      OBVIOUS
    <3>2. objs \in Seq({Peek("obj", 0)}) /\ Len(objs) = 1
      BY <3>1, Few
    <3>3. PICK st : st = On("obj", 0, objs)
      OBVIOUS
    <3>4. Step(st)
      BY <2>1, <2>3, <3>1, <3>3 DEF PushChecked
    <3>5. Moved(stacks, 0, << >>, 0, 1, st)
      <4>1. 0 \in Nat /\ 0 <= Depth("obj")
        BY Typed
      <4>2. Moved(stacks, 0, << >>, 0, Len(objs), On("obj", 0, objs))
        BY <3>2, <4>1, ObjectsMoved
      <4> QED BY <3>2, <3>3, <4>2
    <3>6. Moved(stacks, 0, << >>, 1, 2, st)
      <4>1. Len(stacks["obj"]) \in Nat
        BY Typed DEF Depth
      <4>2. Len(st["obj"]) = Len(stacks["obj"]) - 0 + 1
        BY <3>5 DEF Moved
      <4>3. Len(st["obj"]) = Len(stacks["obj"]) - 1 + 2
        BY ONLY <4>1, <4>2
      <4> QED BY <3>5, <4>3 DEF Moved
    <3>7. Effect("DUP_OBJ") = <<0, 0, 1, 2>> /\ "DUP_OBJ" \notin Special
      BY Effects
    <3>8. Instr = "DUP_OBJ" /\ control = "running" /\ << >> \in Seq({}) /\ Len(<< >>) = 0
      BY <2>1 DEF Running
    <3> QED BY <2>1, <3>4, <3>6, <3>7, <3>8, Plain
  <2> QED BY <2>2, <2>3
<1>3. CASE Swap("obj")
  <2>1. /\ Running("SWAP_OBJ") /\ Step(On("obj", 2, <<Peek("obj", 0), Peek("obj", 1)>>))
        /\ SameFrames(frames, frames')
    BY <1>3, SameFramesKept DEF Swap, Of
  <2>2. PICK objs : objs = <<Peek("obj", 0), Peek("obj", 1)>>
    OBVIOUS
  <2>3. objs \in Seq({Peek("obj", 0), Peek("obj", 1)}) /\ Len(objs) = 2
    BY <2>2, Few
  <2>4. Effect("SWAP_OBJ") = <<0, 0, 2, Len(objs)>> /\ "SWAP_OBJ" \notin Special
    BY <2>3, Effects
  <2>5. 2 \in Nat /\ 2 <= Depth("obj")
    BY <2>1, Available
  <2>6. Step(On("obj", 2, objs))
    BY <2>1, <2>2
  <2> QED BY <2>1, <2>3, <2>4, <2>5, <2>6, ObjectStep, Zenon
<1>4. CASE Pop("val")
  <2>1. Running("POP") /\ Step(On("val", 1, << >>)) /\ SameFrames(frames, frames')
    BY <1>4, SameFramesKept DEF Pop, Of
  <2>2. /\ Effect("POP") = <<1, Len(<< >>), 0, 0>> /\ "POP" \notin Special /\ 1 \in Nat
        /\ << >> \in Seq({})
    BY Few, Effects
  <2> QED BY <2>1, <2>2, ValueStep, Zenon
<1>5. CASE Pop("obj")
  <2>1. Running("POP_OBJ") /\ Step(On("obj", 1, << >>)) /\ SameFrames(frames, frames')
    BY <1>5, SameFramesKept DEF Pop, Of
  <2>2. /\ Effect("POP_OBJ") = <<0, 0, 1, Len(<< >>)>> /\ "POP_OBJ" \notin Special /\ 1 \in Nat
        /\ << >> \in Seq({})
    BY Few, Effects
  <2>3. 1 <= Depth("obj")
    BY <2>1, Available
  <2> QED BY <2>1, <2>2, <2>3, ObjectStep, Zenon
<1> QED BY <1>1, <1>2, <1>3, <1>4, <1>5

(* Operators, casts and comparisons.                                          *)
LEMMA Calculations ==
  ASSUME IInv, CInv,
         \/ \E op \in Binary : BinaryOp(op)
         \/ \E op \in FloatBinary : FloatOp(op, 2)
         \/ FloatOp("FLOAT_UNARY_MINUS", 1)
         \/ \E op \in Unary \ {"FLOAT_UNARY_MINUS"} : UnaryOp(op)
         \/ \E op \in {"EQ_OBJ", "NEQ_OBJ"} : EqObj(op)
  PROVE  CInv'
<1>1. ASSUME NEW op, NEW n \in Nat, NEW c, Running(op), Step(On("val", n, <<c>>)), UNCHANGED frames,
             \/ op \in Binary \cup FloatBinary /\ n = 2
             \/ op \in Unary /\ n = 1
      PROVE  CInv'
  <2>1. PICK cells : cells = <<c>>
    OBVIOUS
  <2>2. cells \in Seq({c}) /\ Len(cells) = 1 /\ Step(On("val", n, cells))
    BY <1>1, <2>1, Few
  <2>3. Effect(op) = <<n, Len(cells), 0, 0>> /\ op \notin Special
    <3>1. CASE op \in Binary \cup FloatBinary /\ n = 2
      BY <2>2, <3>1, Effects, Zenon
    <3>2. CASE op \in Unary /\ n = 1
      BY <2>2, <3>2, Effects, Zenon
    <3> QED BY <1>1, <3>1, <3>2
  <2> QED BY <1>1, <2>2, <2>3, SameFramesKept, ValueStep, Zenon
<1>2. ASSUME NEW op \in Binary, BinaryOp(op)
      PROVE  CInv'
  <2>1. Running(op) /\ UNCHANGED frames
    BY <1>2 DEF BinaryOp
  <2>2. \/ Fail(On("val", 2, << >>))
        \/ \E c : Step(On("val", 2, <<c>>))
    BY <1>2 DEF BinaryOp
  <2> QED BY <1>1, <2>1, <2>2, Failed
<1>3. ASSUME NEW op \in FloatBinary, FloatOp(op, 2)
      PROVE  CInv'
  BY <1>1, <1>3 DEF FloatOp
<1>4. ASSUME FloatOp("FLOAT_UNARY_MINUS", 1)
      PROVE  CInv'
  <2>1. "FLOAT_UNARY_MINUS" \in Unary
    BY DEF Unary
  <2> QED BY <1>1, <1>4, <2>1 DEF FloatOp
<1>5. ASSUME NEW op \in Unary, UnaryOp(op)
      PROVE  CInv'
  <2>1. Running(op) /\ UNCHANGED frames /\ \E c : Step(On("val", 1, <<c>>))
    BY <1>5 DEF UnaryOp
  <2> QED BY <1>1, <2>1
<1>6. ASSUME NEW op \in {"EQ_OBJ", "NEQ_OBJ"}, EqObj(op)
      PROVE  CInv'
  <2>1. PICK c : c = Num(Bool(SameBits(Peek("obj", 0), Peek("obj", 1)) = (op = "EQ_OBJ")))
    OBVIOUS
  <2>2. PICK vals : vals = <<c>>
    OBVIOUS
  <2>3. /\ Running(op) /\ Step(Both(0, vals, 2, << >>)) /\ SameFrames(frames, frames')
    BY <1>6, <2>1, <2>2, SameFramesKept DEF EqObj
  <2>4. vals \in Seq({c}) /\ Len(vals) = 1 /\ << >> \in Seq({c}) /\ Len(<< >>) = 0
    BY <2>2, Few
  <2>5. Effect(op) = <<0, Len(vals), 2, Len(<< >>)>> /\ op \notin Special
    BY <2>4, Effects, Zenon
  <2>6. 0 \in Nat /\ 2 \in Nat /\ 2 <= Depth("obj")
    BY <2>3, Available
  <2> QED BY <2>3, <2>4, <2>5, <2>6, BothStep, Zenon
<1> QED BY <1>2, <1>3, <1>4, <1>5, <1>6

(* PUSH_ARRAY, CAST_BYTE_ARRAY and LEN_ARRAY.                                 *)
LEMMA Arrays ==
  ASSUME IInv, CInv, PushArray \/ CastByteArray \/ LenArray
  PROVE  CInv'
<1>1. ASSUME NEW op \in {"PUSH_ARRAY", "CAST_BYTE_ARRAY"}, Running(op), UNCHANGED frames, NEW c,
             Step(Both(IF op = "PUSH_ARRAY" THEN 2 ELSE 1, << >>, 0, <<c>>))
      PROVE  CInv'
  <2>1. PICK objs : objs = <<c>>
    OBVIOUS
  <2>2. PICK n : n = IF op = "PUSH_ARRAY" THEN 2 ELSE 1
    OBVIOUS
  <2>3. objs \in Seq({c}) /\ Len(objs) = 1 /\ << >> \in Seq({c}) /\ Len(<< >>) = 0
    BY <2>1, Few
  <2>4. Step(Both(n, << >>, 0, objs)) /\ SameFrames(frames, frames')
    BY <1>1, <2>1, <2>2, SameFramesKept
  <2>5. Effect(op) = <<n, Len(<< >>), 0, Len(objs)>> /\ op \notin Special
    <3>1. CASE op = "PUSH_ARRAY"
      BY <2>2, <2>3, <3>1, Effects
    <3>2. CASE op = "CAST_BYTE_ARRAY"
      BY <2>2, <2>3, <3>2, Effects
    <3> QED BY <3>1, <3>2
  <2>6. n \in Nat /\ 0 \in Nat /\ 0 <= Depth("obj")
    BY <2>2, Typed
  <2> QED BY <1>1, <2>3, <2>4, <2>5, <2>6, BothStep, Zenon
<1>2. CASE PushArray
  <2>1. Running("PUSH_ARRAY") /\ UNCHANGED frames
    BY <1>2 DEF PushArray
  <2>2. \/ \E st : Fail(st)
        \/ \E c : Step(Both(2, << >>, 0, <<c>>))
    BY <1>2 DEF PushArray
  <2> QED BY <1>1, <2>1, <2>2, Failed
<1>3. CASE CastByteArray
  <2>1. Running("CAST_BYTE_ARRAY") /\ UNCHANGED frames
    BY <1>3 DEF CastByteArray
  <2>2. \/ \E st : Fail(st)
        \/ \E c : Step(Both(1, << >>, 0, <<c>>))
    BY <1>3 DEF CastByteArray
  <2> QED BY <1>1, <2>1, <2>2, Failed
<1>4. CASE LenArray
  <2>1. Running("LEN_ARRAY") /\ SameFrames(frames, frames')
    BY <1>4, SameFramesKept DEF LenArray
  <2>2. CASE Full("val")
    BY <1>4, <2>2, Failed DEF LenArray
  <2>3. CASE ~Full("val")
    <3>1. PICK c : c = Num(Peek("obj", 0).count)
      OBVIOUS
    <3>2. PICK vals : vals = <<c>>
      OBVIOUS
    <3>3. Step(Both(0, vals, 1, << >>))
      BY <1>4, <2>3, <3>1, <3>2 DEF LenArray
    <3>4. vals \in Seq({c}) /\ Len(vals) = 1 /\ << >> \in Seq({c}) /\ Len(<< >>) = 0
      BY <3>2, Few
    <3>5. Effect("LEN_ARRAY") = <<0, Len(vals), 1, Len(<< >>)>> /\ "LEN_ARRAY" \notin Special
      BY <3>4, Effects
    <3>6. 0 \in Nat /\ 1 \in Nat /\ 1 <= Depth("obj")
      BY <2>1, Available
    <3> QED BY <2>1, <3>3, <3>4, <3>5, <3>6, BothStep, Zenon
  <2> QED BY <2>2, <2>3
<1> QED BY <1>2, <1>3, <1>4

(* What the instructions of fields and elements have on the two stacks.       *)
LEMMA Fetched ==
  ASSUME IInv, CInv, NEW op, Running(op), UNCHANGED frames, NEW s \in Kinds, NEW m \in Nat, NEW l, Fetch(s, m, l),
         \/ op = Of(s, "GET_HEAP", "GET_HEAP_OBJ") /\ m = 0
         \/ op = Of(s, "GET_ARRAY", "GET_ARRAY_OBJ") /\ m = 1
  PROVE  CInv'
<1>1. PICK c : c = At(l)
  OBVIOUS
<1>2. PICK one : one = <<c>>
  OBVIOUS
<1>3. one \in Seq({c}) /\ Len(one) = 1 /\ << >> \in Seq({c}) /\ Len(<< >>) = 0
  BY <1>2, Few
<1>4. SameFrames(frames, frames') /\ 1 \in Nat
  BY SameFramesKept
<1>5. op \in {"GET_HEAP", "GET_HEAP_OBJ", "GET_ARRAY", "GET_ARRAY_OBJ"} /\ 1 <= Depth("obj")
  <2>1. op \in {"GET_HEAP", "GET_HEAP_OBJ", "GET_ARRAY", "GET_ARRAY_OBJ"}
    BY DEF Of
  <2> QED BY <2>1, Available
<1>6. CASE s = "val"
  <2>1. Step(Both(m, one, 1, << >>))
    BY <1>1, <1>2, <1>6 DEF Fetch
  <2>2. Effect(op) = <<m, Len(one), 1, Len(<< >>)>> /\ op \notin Special
    BY <1>3, <1>6, Effects DEF Of
  <2> QED BY <1>3, <1>4, <1>5, <2>1, <2>2, BothStep, Zenon
<1>7. CASE s = "obj"
  <2>1. Step(Both(m, << >>, 1, one))
    BY <1>1, <1>2, <1>7 DEF Fetch
  <2>2. Effect(op) = <<m, Len(<< >>), 1, Len(one)>> /\ op \notin Special
    BY <1>3, <1>7, Effects DEF Of
  <2> QED BY <1>3, <1>4, <1>5, <2>1, <2>2, BothStep, Zenon
<1> QED BY <1>6, <1>7 DEF Kinds

(* Properties and elements, read and written.                                 *)
LEMMA FieldsAndElements ==
  ASSUME IInv, CInv, NEW s \in Kinds, GetHeap(s) \/ SetHeap(s) \/ GetArray(s) \/ SetArray(s)
  PROVE  CInv'
<1>1. CASE GetHeap(s)
  <2>1. Running(Of(s, "GET_HEAP", "GET_HEAP_OBJ")) /\ UNCHANGED frames
    BY <1>1 DEF GetHeap
  <2>2. (\E st : Fail(st)) \/ (\E l : Fetch(s, 0, l))
    BY <1>1 DEF GetHeap
  <2> QED BY <2>1, <2>2, Fetched, Failed
<1>2. CASE GetArray(s)
  <2>1. Running(Of(s, "GET_ARRAY", "GET_ARRAY_OBJ")) /\ UNCHANGED frames
    BY <1>2 DEF GetArray
  <2>2. (\E st : Fail(st)) \/ (\E l : Fetch(s, 1, l))
    BY <1>2 DEF GetArray
  <2> QED BY <2>1, <2>2, Fetched, Failed
<1>3. << >> \in Seq({}) /\ Len(<< >>) = 0 /\ 0 \in Nat /\ 1 \in Nat /\ 2 \in Nat
  BY Few
<1>4. CASE SetHeap(s)
  <2>1. Running(Of(s, "SET_HEAP", "SET_HEAP_OBJ")) /\ SameFrames(frames, frames')
    BY <1>4, SameFramesKept DEF SetHeap
  <2>2. CASE s = "val"
    <3>1. Running("SET_HEAP") /\ Step(Both(1, << >>, 1, << >>)) /\ 1 <= Depth("obj")
      BY <1>4, <2>1, <2>2, Available DEF SetHeap, Of
    <3>2. Effect("SET_HEAP") = <<1, Len(<< >>), 1, Len(<< >>)>> /\ "SET_HEAP" \notin Special
      BY <1>3, Effects
    <3> QED BY <1>3, <2>1, <3>1, <3>2, BothStep, Zenon
  <2>3. CASE s = "obj"
    <3>1. Running("SET_HEAP_OBJ") /\ Step(On("obj", 2, << >>)) /\ 2 <= Depth("obj")
      BY <1>4, <2>1, <2>3, Available DEF SetHeap, Of
    <3>2. Effect("SET_HEAP_OBJ") = <<0, 0, 2, Len(<< >>)>> /\ "SET_HEAP_OBJ" \notin Special
      BY <1>3, Effects
    <3> QED BY <1>3, <2>1, <3>1, <3>2, ObjectStep, Zenon
  <2> QED BY <2>2, <2>3 DEF Kinds
<1>5. CASE SetArray(s)
  <2>1. Running(Of(s, "SET_ARRAY", "SET_ARRAY_OBJ")) /\ SameFrames(frames, frames')
    BY <1>5, SameFramesKept DEF SetArray
  <2>2. \/ \E st : Fail(st)
        \/ IF s = "val" THEN Step(Both(2, << >>, 1, << >>)) ELSE Step(Both(1, << >>, 2, << >>))
    BY <1>5 DEF SetArray
  <2>3. CASE \E st : Fail(st)
    BY <2>3, Failed
  <2>4. CASE s = "val" /\ Step(Both(2, << >>, 1, << >>))
    <3>1. Running("SET_ARRAY") /\ 1 <= Depth("obj")
      BY <2>1, <2>4, Available DEF Of
    <3>2. Effect("SET_ARRAY") = <<2, Len(<< >>), 1, Len(<< >>)>> /\ "SET_ARRAY" \notin Special
      BY <1>3, Effects
    <3> QED BY <1>3, <2>1, <2>4, <3>1, <3>2, BothStep, Zenon
  <2>5. CASE s = "obj" /\ Step(Both(1, << >>, 2, << >>))
    <3>1. Running("SET_ARRAY_OBJ") /\ 2 <= Depth("obj")
      BY <2>1, <2>5, Available DEF Of
    <3>2. Effect("SET_ARRAY_OBJ") = <<1, Len(<< >>), 2, Len(<< >>)>> /\ "SET_ARRAY_OBJ" \notin Special
      BY <1>3, Effects
    <3> QED BY <1>3, <2>1, <2>5, <3>1, <3>2, BothStep, Zenon
  <2> QED BY <2>2, <2>3, <2>4, <2>5 DEF Kinds
<1> QED BY <1>1, <1>2, <1>4, <1>5

(* Local variables: the slots change, offsets and index do not.               *)
LEMMA Variables ==
  ASSUME IInv, CInv, NEW s \in Kinds, GetLocal(s) \/ SetLocal(s)
  PROVE  CInv'
<1>1. CASE GetLocal(s)
  <2>1. PICK c : c = frames[s].values[Slot(s)]
    OBVIOUS
  <2>2. PICK one : one = <<c>>
    OBVIOUS
  <2>3. one \in Seq({c}) /\ Len(one) = 1 /\ 0 \in Nat /\ 0 <= Depth("obj")
    BY <2>2, Few, Typed
  <2>4. /\ Running(Of(s, "GET_LOCAL", "GET_LOCAL_OBJ")) /\ SameFrames(frames, frames')
        /\ PushChecked(s, 0, one)
    BY <1>1, <2>1, <2>2, SameFramesKept DEF GetLocal
  <2>5. CASE Full(s)
    BY <2>4, <2>5, Failed DEF PushChecked
  <2>6. CASE ~Full(s) /\ s = "val"
    <3>1. Running("GET_LOCAL") /\ Step(On("val", 0, one))
      BY <2>4, <2>6 DEF PushChecked, Of
    <3>2. Effect("GET_LOCAL") = <<0, Len(one), 0, 0>> /\ "GET_LOCAL" \notin Special
      BY <2>3, Effects
    <3> QED BY <2>3, <2>4, <3>1, <3>2, ValueStep, Zenon
  <2>7. CASE ~Full(s) /\ s = "obj"
    <3>1. Running("GET_LOCAL_OBJ") /\ Step(On("obj", 0, one))
      BY <2>4, <2>7 DEF PushChecked, Of
    <3>2. Effect("GET_LOCAL_OBJ") = <<0, 0, 0, Len(one)>> /\ "GET_LOCAL_OBJ" \notin Special
      BY <2>3, Effects
    <3> QED BY <2>3, <2>4, <3>1, <3>2, ObjectStep, Zenon
  <2> QED BY <2>5, <2>6, <2>7 DEF Kinds
<1>2. CASE SetLocal(s)
  <2>1. << >> \in Seq({}) /\ Len(<< >>) = 0 /\ 1 \in Nat
    BY Few
  <2>2. SameFrames(frames, frames')
    <3>1. frames \in [Kinds -> Frame(Len(heap))] /\ frames' = [frames EXCEPT ![s].values[Slot(s)] = Peek(s, 0)]
      BY <1>2, FrameFacts DEF SetLocal
    <3> QED BY <3>1 DEF SameFrames, Frame
  <2>3. CASE s = "val"
    <3>1. Running("SET_LOCAL") /\ Step(On("val", 1, << >>))
      BY <1>2, <2>3 DEF SetLocal, Of
    <3>2. Effect("SET_LOCAL") = <<1, Len(<< >>), 0, 0>> /\ "SET_LOCAL" \notin Special
      BY <2>1, Effects
    <3> QED BY <2>1, <2>2, <3>1, <3>2, ValueStep, Zenon
  <2>4. CASE s = "obj"
    <3>1. Running("SET_LOCAL_OBJ") /\ Step(On("obj", 1, << >>)) /\ 1 <= Depth("obj")
      BY <1>2, <2>4, Available DEF SetLocal, Of
    <3>2. Effect("SET_LOCAL_OBJ") = <<0, 0, 1, Len(<< >>)>> /\ "SET_LOCAL_OBJ" \notin Special
      BY <2>1, Effects
    <3> QED BY <2>1, <2>2, <3>1, <3>2, ObjectStep, Zenon
  <2> QED BY <2>3, <2>4 DEF Kinds
<1> QED BY <1>1, <1>2

(* Instructions with a rule of their own.                                    *)
LEMMA OwnRule ==
  ASSUME IInv, CInv, NEW op \in Special \ {"JMP", "POP_SCOPE"}, Running(op)
  PROVE  /\ ~Known[prog][ip].entering
         /\ SpecialRule(prog, ip, Known[prog][ip], op, ip + 1 + Operands(op))
         /\ control = "running" /\ Instr = op
<1>1. control = "running" /\ Instr = op
  BY DEF Running
<1>2. Follows(prog, ip) /\ Instr = OpAt(prog, ip)
  BY <1>1, Here
<1> QED BY <1>1, <1>2 DEF Follows

(* The cells on top of the stack are as the shape says.                       *)
LEMMA SomeTop ==
  ASSUME IInv, CInv, control # "host"
  PROVE  Known[prog][ip] \in Shape /\ \E a \in Activation : Top(Known[prog][ip], a, stacks)
<1>1. Known[prog][ip] \in Shape /\ Conforms(prog, ip, stacks, frames)
  BY Here
<1>2. PICK d \in Nat : \E act \in [0 .. d -> Activation] : Stands(prog, Known[prog][ip], d, act, stacks, frames)
  BY <1>1 DEF Conforms
<1>3. PICK act \in [0 .. d -> Activation] : Stands(prog, Known[prog][ip], d, act, stacks, frames)
  BY <1>2
<1>4. act[d] \in Activation /\ Top(Known[prog][ip], act[d], stacks)
  BY <1>3 DEF Stands
<1> QED BY <1>1, <1>4

(* The top of the stack matches what is known of it.                          *)
LEMMA TopCell ==
  ASSUME NEW sh \in Shape, NEW a \in Activation, Top(sh, a, stacks), NEW j \in Nat, j < Len(sh.val)
  PROVE  TopOf(sh, j) \in Abstract /\ Match(TopOf(sh, j), Peek("val", j), a.ret)
<1>1. PICK av : av = a.val
  OBVIOUS
<1>2. PICK lv : lv = Len(sh.val)
  OBVIOUS
<1>3. av \in Nat /\ lv \in Nat /\ sh.val \in Seq(Abstract) /\ Depth("val") = av + lv /\ j < lv
  BY <1>1, <1>2 DEF Top, Depth, Activation, Shape
<1>4. PICK l : l = lv - j
  OBVIOUS
<1>5. l \in 1 .. lv /\ (av + lv) - j = av + l
  BY <1>3, <1>4
<1>6. TopOf(sh, j) = sh.val[l]
  BY ONLY <1>2, <1>4 DEF TopOf
<1>7. Peek("val", j) = stacks["val"][av + l]
  <2>1. Peek("val", j) = stacks["val"][Depth("val") - j]
    BY Zenon DEF Peek
  <2>2. Depth("val") - j = av + l
    BY ONLY <1>3, <1>5
  <2> QED BY ONLY <2>1, <2>2
<1>8. Match(sh.val[l], stacks["val"][av + l], a.ret)
  BY <1>1, <1>2, <1>5 DEF Top, Matches
<1>9. sh.val[l] \in Abstract
  BY <1>2, <1>3, <1>5, ElementOfSeq
<1> QED BY <1>6, <1>7, <1>8, <1>9

(* One cell is pushed.                                                       *)
LEMMA OnePushed ==
  ASSUME IInv, CInv, control = "running", ~Known[prog][ip].entering,
         NEW n \in Nat, Enough(Known[prog][ip], n, 0), NEW a \in Abstract, NEW c,
         \A ret : Match(a, c, ret),
         NEW to, Leads(prog, to, After(Known[prog][ip], n, <<a>>, 0, 0)),
         Goto(to, On("val", n, <<c>>)), UNCHANGED frames
  PROVE  CInv'
<1>1. PICK known : known = <<a>>
  OBVIOUS
<1>2. PICK cells : cells = <<c>>
  OBVIOUS
<1>3. /\ known \in Seq(Abstract) /\ Len(known) = 1 /\ known[1] = a
      /\ cells \in Seq({c}) /\ Len(cells) = 1 /\ cells[1] = c
  BY <1>1, <1>2
<1>4. \A ret : Matches(known, Len(known), cells, 0, ret)
  BY <1>3 DEF Matches
<1>5. Moved(stacks, n, cells, 0, 0, On("val", n, cells)) /\ SameFrames(frames, frames') /\ 0 \in Nat
  BY ValuesMoved, SameFramesKept
<1>6. Goto(to, On("val", n, cells)) /\ Leads(prog, to, After(Known[prog][ip], n, known, 0, 0))
  BY <1>1, <1>2
<1> QED BY <1>3, <1>4, <1>5, <1>6, Advanced

(* Cells are popped, and nothing is pushed that the shape says something of.   *)
LEMMA Consumed ==
  ASSUME IInv, CInv, control = "running", ~Known[prog][ip].entering,
         NEW n \in Nat, NEW m \in Nat, NEW k \in Nat, Enough(Known[prog][ip], n, m),
         NEW to, Leads(prog, to, After(Known[prog][ip], n, << >>, m, k)),
         NEW st, Moved(stacks, n, << >>, m, k, st), Goto(to, st), UNCHANGED frames
  PROVE  CInv'
<1>1. << >> \in Seq(Abstract) /\ << >> \in Seq(Cell) /\ Len(<< >>) = 0
  BY Few
<1>2. \A ret : Matches(<< >>, Len(<< >>), << >>, 0, ret)
  BY <1>1 DEF Matches
<1> QED BY <1>1, <1>2, SameFramesKept, Advanced

(* PUSH, DUP and SWAP: known cells are pushed and change places.              *)
LEMMA Duplicates ==
  ASSUME IInv, CInv, Push("val") \/ Dup("val") \/ Swap("val")
  PROVE  CInv'
<1>1. CASE Push("val")
  <2>1. Running("PUSH") /\ PushChecked("val", 0, <<Immediate>>) /\ UNCHANGED frames
    BY <1>1 DEF Push, Of
  <2>2. CASE Full("val")
    BY <2>1, <2>2, Failed DEF PushChecked
  <2>3. CASE ~Full("val")
    <3>1. /\ ~Known[prog][ip].entering /\ control = "running" /\ Instr = "PUSH"
          /\ SpecialRule(prog, ip, Known[prog][ip], "PUSH", ip + 1 + Operands("PUSH"))
      BY <2>1, OwnRule DEF Special
    <3>2. Leads(prog, ip + 1 + Operands("PUSH"), After(Known[prog][ip], 0, <<Immediate>>, 0, 0))
      BY <3>1, Operand1 DEF SpecialRule
    <3>3. Immediate \in Abstract
      BY <2>1, Immediates DEF Abstract, Good
    <3>4. \A ret : Match(Immediate, Immediate, ret)
      BY DEF Match
    <3>5. Goto(ip + 1 + Operands("PUSH"), On("val", 0, <<Immediate>>))
      BY <2>1, <2>3, <3>1 DEF PushChecked, Step
    <3>6. 0 \in Nat /\ Enough(Known[prog][ip], 0, 0)
      BY <3>1, SomeTop DEF Enough, Shape
    <3> QED BY <2>1, <3>1, <3>2, <3>3, <3>4, <3>5, <3>6, OnePushed, Zenon
  <2> QED BY <2>2, <2>3
<1>2. CASE Dup("val")
  <2>1. Running("DUP") /\ PushChecked("val", 0, <<Peek("val", 0)>>) /\ UNCHANGED frames
    BY <1>2 DEF Dup, Of
  <2>2. CASE Full("val")
    BY <2>1, <2>2, Failed DEF PushChecked
  <2>3. CASE ~Full("val")
    <3>1. /\ ~Known[prog][ip].entering /\ control = "running" /\ Instr = "DUP"
          /\ SpecialRule(prog, ip, Known[prog][ip], "DUP", ip + 1 + Operands("DUP"))
      BY <2>1, OwnRule DEF Special
    <3>2. Leads(prog, ip + 1 + Operands("DUP"), After(Known[prog][ip], 0, <<Opaque>>, 0, 0))
      BY <3>1 DEF SpecialRule
    <3>3. Opaque \in Abstract /\ \A ret : Match(Opaque, Peek("val", 0), ret)
      BY DEF Abstract, Match
    <3>5. Goto(ip + 1 + Operands("DUP"), On("val", 0, <<Peek("val", 0)>>))
      BY <2>1, <2>3, <3>1 DEF PushChecked, Step
    <3>6. 0 \in Nat /\ Enough(Known[prog][ip], 0, 0)
      BY <3>1, SomeTop DEF Enough, Shape
    <3> QED BY <2>1, <3>1, <3>2, <3>3, <3>5, <3>6, OnePushed, Zenon
  <2> QED BY <2>2, <2>3
<1>3. CASE Swap("val")
  <2> DEFINE sh == Known[prog][ip]
  <2>1. Running("SWAP") /\ Step(On("val", 2, <<Peek("val", 0), Peek("val", 1)>>)) /\ UNCHANGED frames
    BY <1>3 DEF Swap, Of
  <2>2. /\ ~sh.entering /\ control = "running" /\ Instr = "SWAP"
        /\ SpecialRule(prog, ip, sh, "SWAP", ip + 1 + Operands("SWAP"))
    BY <2>1, OwnRule DEF Special
  <2>3. PICK known : known = <<TopOf(sh, 0), TopOf(sh, 1)>>
    OBVIOUS
  <2>4. PICK cells : cells = <<Peek("val", 0), Peek("val", 1)>>
    OBVIOUS
  <2>5. Enough(sh, 2, 0) /\ Leads(prog, ip + 1 + Operands("SWAP"), After(sh, 2, known, 0, 0))
    BY <2>2, <2>3 DEF SpecialRule
  <2>6. sh \in Shape /\ 0 < Len(sh.val) /\ 1 < Len(sh.val) /\ \E a \in Activation : Top(sh, a, stacks)
    BY <2>2, <2>5, SomeTop DEF Enough, Shape
  <2>7. ASSUME NEW a \in Activation, Top(sh, a, stacks)
        PROVE  /\ TopOf(sh, 0) \in Abstract /\ Match(TopOf(sh, 0), Peek("val", 0), a.ret)
               /\ TopOf(sh, 1) \in Abstract /\ Match(TopOf(sh, 1), Peek("val", 1), a.ret)
    <3>1. 0 \in Nat /\ 1 \in Nat
      OBVIOUS
    <3> HIDE DEF sh
    <3> QED BY <2>6, <2>7, <3>1, TopCell
  <2>8. /\ known \in Seq(Abstract) /\ Len(known) = 2
        /\ known[1] = TopOf(sh, 0) /\ known[2] = TopOf(sh, 1)
    <3>1. TopOf(sh, 0) \in Abstract /\ TopOf(sh, 1) \in Abstract
      BY <2>6, <2>7
    <3> QED BY ONLY <2>3, <3>1
  <2>9. /\ cells \in Seq({Peek("val", 0), Peek("val", 1)}) /\ Len(cells) = 2
        /\ cells[1] = Peek("val", 0) /\ cells[2] = Peek("val", 1)
    BY ONLY <2>4
  <2>10. ASSUME NEW a \in Activation, Top(sh, a, stacks)
         PROVE  Matches(known, Len(known), cells, 0, a.ret)
    <3>1. Match(known[1], cells[1], a.ret) /\ Match(known[2], cells[2], a.ret)
      BY <2>7, <2>8, <2>9, <2>10
    <3>2. Len(known) = 2
      BY <2>8
    <3>3. \A i \in 1 .. 2 : Match(known[i], cells[0 + i], a.ret)
      BY ONLY <3>1
    <3> QED BY ONLY <3>2, <3>3 DEF Matches
  <2>11. Moved(stacks, 2, cells, 0, 0, On("val", 2, cells)) /\ SameFrames(frames, frames') /\ 0 \in Nat /\ 2 \in Nat
    BY <2>1, ValuesMoved, SameFramesKept
  <2>12. Goto(ip + 1 + Operands("SWAP"), On("val", 2, cells))
    BY <2>1, <2>2, <2>4 DEF Step
  <2>13. Len(known) = Len(cells)
    BY <2>8, <2>9
  <2> QED BY <2>2, <2>5, <2>8, <2>9, <2>10, <2>11, <2>12, <2>13, Advanced, Zenon
<1> QED BY <1>1, <1>2, <1>3

(* PRINT pops the value its type constant announces.                          *)
LEMMA Prints ==
  ASSUME IInv, CInv, PrintValue
  PROVE  CInv'
<1> DEFINE sh == Known[prog][ip]
           next == ip + 1 + Operands("PRINT")
<1>1. Running("PRINT") /\ UNCHANGED frames
  BY DEF PrintValue
<1>2. /\ ~sh.entering /\ control = "running" /\ Instr = "PRINT"
      /\ PrintRule(prog, sh, next)
  BY <1>1, OwnRule DEF Special, SpecialRule
<1>3. sh \in Shape /\ \E a \in Activation : Top(sh, a, stacks)
  BY <1>2, SomeTop
<1>4. Enough(sh, 1, 0) /\ IsNum(TopOf(sh, 0)) /\ 0 < Len(sh.val)
  BY <1>2, <1>3 DEF PrintRule, Enough, Shape
<1>5. TopOf(sh, 0).val = PrintedType
  <2>1. PICK a \in Activation : Top(sh, a, stacks)
    BY <1>3
  <2>2. TopOf(sh, 0) \in Abstract /\ Match(TopOf(sh, 0), Peek("val", 0), a.ret)
    <3>1. 0 \in Nat
      OBVIOUS
    <3> HIDE DEF sh
    <3> QED BY <1>3, <1>4, <2>1, <3>1, TopCell
  <2>3. Opaque.tag # "num" /\ Ret.tag # "num"
    BY DEF Opaque, Ret
  <2>4. Peek("val", 0) = TopOf(sh, 0) /\ TopOf(sh, 0).tag = "num"
    BY <1>4, <2>2, <2>3 DEF Match, IsNum
  <2> QED BY <2>4 DEF PrintedType, IntOf, ScalarTags
<1>6. CASE ~is_object_or_null(PrintedType)
  <2>1. Enough(sh, 2, 0) /\ Leads(prog, next, After(sh, 2, << >>, 0, 0))
    BY <1>2, <1>5, <1>6 DEF PrintRule
  <2>2. Goto(next, On("val", 2, << >>))
    BY <1>2, <1>6 DEF PrintValue, Step
  <2>3. Moved(stacks, 2, << >>, 0, 0, On("val", 2, << >>)) /\ 0 \in Nat /\ 2 \in Nat
    BY ValuesMoved
  <2> QED BY <1>1, <1>2, <2>1, <2>2, <2>3, Consumed, Zenon
<1>7. CASE is_object_or_null(PrintedType)
  <2>1. Enough(sh, 1, 1) /\ Leads(prog, next, After(sh, 1, << >>, 1, 0))
    BY <1>2, <1>5, <1>7 DEF PrintRule
  <2>2. Goto(next, Both(1, << >>, 1, << >>))
    BY <1>2, <1>7 DEF PrintValue, Step
  <2>3. 1 \in Nat /\ 0 \in Nat /\ 1 <= Depth("obj")
    <3>1. PICK a \in Activation : Top(sh, a, stacks)
      BY <1>3
    <3>2. sh.obj \in Nat /\ a.obj \in Nat /\ Depth("obj") = a.obj + sh.obj /\ 1 <= sh.obj
      BY <1>3, <2>1, <3>1 DEF Top, Depth, Enough, Shape, Activation
    <3> QED BY ONLY <3>2
  <2>4. << >> \in Seq({}) /\ Len(<< >>) = 0
    BY Few
  <2>5. Moved(stacks, 1, << >>, 1, 0, Both(1, << >>, 1, << >>))
    <3>1. Moved(stacks, 1, << >>, 1, Len(<< >>), Both(1, << >>, 1, << >>))
      BY <2>3, <2>4, BothMoved, Zenon
    <3> QED BY ONLY <2>4, <3>1
  <2> QED BY <1>1, <1>2, <2>1, <2>2, <2>3, <2>5, Consumed, Zenon
<1> QED BY <1>6, <1>7

(* PUSH_HEAP pops what the types words among the constants announce.           *)
LEMMA Constructs ==
  ASSUME IInv, CInv, PushHeap
  PROVE  CInv'
<1> DEFINE sh == Known[prog][ip]
           next == ip + 1 + Operands("PUSH_HEAP")
<1>1. Running("PUSH_HEAP") /\ UNCHANGED frames
  BY DEF PushHeap
<1>2. /\ ~sh.entering /\ control = "running" /\ Instr = "PUSH_HEAP"
      /\ ConstructRule(prog, sh, Operand(1), next)
  BY <1>1, OwnRule, Operand1 DEF Special, SpecialRule
<1>3. PICK n : n = Operand(1)
  OBVIOUS
<1>4. n \in Nat
  <2>1. \A k \in 1 .. Operands("PUSH_HEAP") : Operand(k) \in Nat
    BY <1>1, RunningFacts
  <2>2. 1 \in 1 .. Operands("PUSH_HEAP")
    BY DEF Operands, OneOperand
  <2> QED BY <1>3, <2>1, <2>2
<1>5. CASE Full("obj") \/ ~Fits(n)
  BY <1>3, <1>5, Failed DEF PushHeap
<1>6. CASE ~(Full("obj") \/ ~Fits(n))
  <2>1. PICK k \in Layouts(n) : Step(Both(Taken(k, "val", n), << >>, Taken(k, "obj", n), <<Ptr("obj", Len(heap), n)>>))
    BY <1>3, <1>6 DEF PushHeap
  <2>2. PICK l : LaidOut(sh, l, n) /\ Leads(prog, next, After(sh, Taken(l, "val", n), << >>, Taken(l, "obj", n), 1))
    BY <1>2, <1>3 DEF ConstructRule
  <2>3. PICK a \in Activation : Top(sh, a, stacks)
    BY <1>2, SomeTop
  <2>4. l \in Layouts(n) /\ Enough(sh, Taken(l, "val", n), Taken(l, "obj", n))
    <3>1. sh \in Shape
      BY <1>2, SomeTop
    <3> HIDE DEF sh
    <3> QED BY <1>4, <2>2, <2>3, <3>1, LayoutKnown
  <2>5. l = k
    BY <1>4, <2>1, <2>4, LayoutUnique
  <2>6. PICK tv : tv = Taken(k, "val", n)
    OBVIOUS
  <2>7. PICK to : to = Taken(k, "obj", n)
    OBVIOUS
  <2>8. PICK objs : objs = <<Ptr("obj", Len(heap), n)>>
    OBVIOUS
  <2>9. objs \in Seq({Ptr("obj", Len(heap), n)}) /\ Len(objs) = 1
    BY <2>8, Few
  <2>10. tv \in Nat /\ to \in Nat /\ to <= Depth("obj") /\ 1 \in Nat
    BY <1>4, <2>6, <2>7, LayoutFacts DEF Kinds
  <2>11. Enough(sh, tv, to) /\ Leads(prog, next, After(sh, tv, << >>, to, 1))
    BY <2>2, <2>4, <2>5, <2>6, <2>7
  <2>12. Goto(next, Both(tv, << >>, to, objs))
    BY <1>2, <2>1, <2>6, <2>7, <2>8 DEF Step
  <2>13. Moved(stacks, tv, << >>, to, 1, Both(tv, << >>, to, objs))
    <3>1. Moved(stacks, tv, << >>, to, Len(objs), Both(tv, << >>, to, objs))
      BY <2>9, <2>10, BothMoved, Zenon
    <3> QED BY ONLY <2>9, <3>1
  <2> QED BY <1>1, <1>2, <2>10, <2>11, <2>12, <2>13, Consumed, Zenon
<1> QED BY <1>5, <1>6

(* JMP, JNE and CALL.                                                         *)
LEMMA Branches ==
  ASSUME IInv, CInv, JumpUnless \/ Call \/ Jump
  PROVE  CInv'
<1> DEFINE sh == Known[prog][ip]
<1>1. CASE JumpUnless
  <2>1. Running("JNE") /\ UNCHANGED frames
    BY <1>1 DEF JumpUnless
  <2>2. /\ ~sh.entering /\ control = "running" /\ Instr = "JNE"
        /\ SpecialRule(prog, ip, sh, "JNE", ip + 1 + Operands("JNE"))
    BY <2>1, OwnRule DEF Special
  <2>3. PICK to : to = IF IntOf(Peek("val", 0)) = 0 THEN Operand(1) ELSE ip + 2
    OBVIOUS
  <2>4. ip + 1 + Operands("JNE") = ip + 2
    BY <2>2, Here DEF Operands, OneOperand
  <2>5. Enough(sh, 1, 0) /\ \A l \in {ip + 2, Operand(1)} : Leads(prog, l, After(sh, 1, << >>, 0, 0))
    BY <2>2, <2>4, Operand1 DEF SpecialRule
  <2>6. Leads(prog, to, After(sh, 1, << >>, 0, 0))
    BY <2>3, <2>5
  <2>7. Goto(to, On("val", 1, << >>))
    BY <1>1, <2>3 DEF JumpUnless
  <2>8. Moved(stacks, 1, << >>, 0, 0, On("val", 1, << >>)) /\ 0 \in Nat /\ 1 \in Nat
    BY ValuesMoved
  <2> QED BY <2>1, <2>2, <2>5, <2>6, <2>7, <2>8, Consumed, Zenon
<1>2. CASE Call
  <2>1. Running("CALL") /\ UNCHANGED frames
    BY <1>2 DEF Call
  <2>2. PICK n : n = Operand(1)
    OBVIOUS
  <2>3. /\ ~sh.entering /\ control = "running" /\ Instr = "CALL"
        /\ Enough(sh, n, 0) /\ Leads(prog, ip + 1 + Operands("CALL"), After(sh, n, <<Opaque>>, 0, 0))
    BY <2>1, <2>2, OwnRule, Operand1 DEF Special, SpecialRule
  <2>4. n \in Nat
    <3>1. \A k \in 1 .. Operands("CALL") : Operand(k) \in Nat
      BY <2>1, RunningFacts
    <3>2. 1 \in 1 .. Operands("CALL")
      BY DEF Operands, OneOperand
    <3> QED BY <2>2, <3>1, <3>2
  <2>5. PICK r \in ForeignResults : Step(On("val", n, <<Num(r)>>))
    BY <1>2, <2>2 DEF Call
  <2>6. Goto(ip + 1 + Operands("CALL"), On("val", n, <<Num(r)>>))
    BY <2>3, <2>5 DEF Step
  <2>7. Opaque \in Abstract /\ \A ret : Match(Opaque, Num(r), ret)
    BY DEF Abstract, Match
  <2> QED BY <2>1, <2>3, <2>4, <2>6, <2>7, OnePushed, Zenon
<1>3. CASE Jump
  <2>1. /\ control = "running" /\ Instr = "JMP" /\ Goto(Operand(1), stacks) /\ UNCHANGED frames
    BY <1>3 DEF Jump, Running
  <2>2. /\ Follows(prog, ip) /\ OpAt(prog, ip) = "JMP" /\ Disciplined(prog) /\ ip \in DOMAIN Known[prog]
        /\ Conforms(prog, ip, stacks, frames)
    BY <2>1, Here
  <2>3. stacks \in [Kinds -> Seq(Cell)] /\ FramesOK(frames)
    BY Typed
  <2>4. PICK to : to = Operand(1)
    OBVIOUS
  <2>5. Conforms(prog, to, stacks, frames)
    <3>1. CASE sh.entering
      <4>1. CallRule(prog, sh, to)
        BY <2>2, <2>4, <3>1, Operand1 DEF Follows
      <4> QED BY <2>2, <2>3, <3>1, <4>1, Called
    <3>2. CASE ~sh.entering
      <4>1. Leads(prog, to, sh)
        BY <2>2, <2>4, <3>2, Operand1 DEF Follows, SpecialRule, Special
      <4> QED BY <2>2, <2>3, <4>1, Jumped
    <3> QED BY <3>1, <3>2
  <2>6. PICK fr : fr = frames'
    OBVIOUS
  <2>7. Conforms(prog, to, stacks, frames')
    BY <2>1, <2>5
  <2> QED BY <2>1, <2>4, <2>7, Gone
<1> QED BY <1>1, <1>2, <1>3

(* Frames stay frames.                                                        *)
LEMMA NextFrames ==
  ASSUME IInv'
  PROVE  FramesOK(frames')
BY DEF IInv, GoodFrames, Frame, FramesOK

(* DEFINE, PUSH_SCOPE and POP_SCOPE.                                          *)
LEMMA Scoping ==
  ASSUME IInv, IInv', CInv, (\E s \in Kinds : Define(s)) \/ PushScope \/ PopScope
  PROVE  CInv'
<1> DEFINE sh == Known[prog][ip]
<1>1. /\ FramesOK(frames) /\ FramesOK(frames')
      /\ frames \in [Kinds -> Frame(Len(heap))]
  BY Typed, NextFrames, FrameFacts DEF Kinds
<1>2. ASSUME control = "running", NEW to, Goto(to, stacks), Conforms(prog, to, stacks, frames')
      PROVE  CInv'
  BY <1>2, Gone
<1>3. ASSUME NEW s \in Kinds, Define(s)
      PROVE  CInv'
  <2> DEFINE op == Of(s, "DEFINE", "DEFINE_OBJ")
             next == ip + 1 + Operands(op)
  <2>1. Running(op) /\ frames' = [frames EXCEPT ![s].index = @ + 1] /\ op \in Special \ {"JMP", "POP_SCOPE"}
    BY <1>3 DEF Define, Of, Special, Kinds
  <2>2. ~sh.entering /\ SpecialRule(prog, ip, sh, op, next) /\ control = "running" /\ Instr = op
    BY <2>1, OwnRule
  <2>3. ~sh.main /\ Leads(prog, next, Counted(sh, s))
    BY <2>2 DEF SpecialRule
  <2>4. \A t \in Kinds : /\ frames'[t].index = frames[t].index + (IF t = s THEN 1 ELSE 0)
                         /\ frames'[t].offsets = frames[t].offsets
    <3> TAKE t \in Kinds
    <3>1. frames[t] \in Frame(Len(heap)) /\ frames[s] \in Frame(Len(heap))
      BY <1>1
    <3>2. frames[t].index \in Nat
      BY <3>1 DEF Frame
    <3>3. frames'[t] = IF t = s THEN [frames[s] EXCEPT !.index = @ + 1] ELSE frames[t]
      BY <1>1, <2>1
    <3> QED BY <3>1, <3>2, <3>3 DEF Frame
  <2>5. PICK fr : fr = frames'
    OBVIOUS
  <2>6. /\ Disciplined(prog) /\ ip \in DOMAIN Known[prog] /\ Conforms(prog, ip, stacks, frames)
    BY <2>2, Here
  <2>7. FramesOK(fr) /\ \A t \in Kinds : /\ fr[t].index = frames[t].index + (IF t = s THEN 1 ELSE 0)
                                       /\ fr[t].offsets = frames[t].offsets
    BY <1>1, <2>4, <2>5
  <2>8. Conforms(prog, next, stacks, fr)
    BY <1>1, <2>2, <2>3, <2>6, <2>7, CountedOn
  <2>9. Goto(next, stacks)
    BY <1>3, <2>2 DEF Define, Step
  <2> QED BY <1>2, <2>2, <2>5, <2>8, <2>9
<1>4. CASE PushScope
  <2> DEFINE next == ip + 1 + Operands("PUSH_SCOPE")
  <2>1. Running("PUSH_SCOPE") /\ "PUSH_SCOPE" \in Special \ {"JMP", "POP_SCOPE"}
    BY <1>4 DEF PushScope, Special
  <2>2. ~sh.entering /\ SpecialRule(prog, ip, sh, "PUSH_SCOPE", next) /\ control = "running" /\ Instr = "PUSH_SCOPE"
    BY <2>1, OwnRule
  <2>3. Leads(prog, next, [sh EXCEPT !.entering = TRUE])
    BY <2>2 DEF SpecialRule
  <2>4. CASE Fail(stacks)
    BY <2>4, Failed
  <2>5. CASE /\ frames' = [s \in Kinds |-> [frames[s] EXCEPT !.offsets = Append(@, frames[s].index)]]
             /\ Step(stacks)
    <3>1. \A s \in Kinds : frames'[s].index = frames[s].index /\ frames'[s].offsets = Append(frames[s].offsets, frames[s].index)
      BY <1>1, <2>5 DEF Frame
    <3>2. PICK fr : fr = frames'
      OBVIOUS
    <3>3. Disciplined(prog) /\ ip \in DOMAIN Known[prog] /\ Conforms(prog, ip, stacks, frames)
      BY <2>2, Here
    <3>4. FramesOK(fr) /\ \A s \in Kinds : fr[s].index = frames[s].index /\ fr[s].offsets = Append(frames[s].offsets, frames[s].index)
      BY <1>1, <3>1, <3>2
    <3>5. Conforms(prog, next, stacks, fr)
      BY <1>1, <2>2, <2>3, <3>3, <3>4, Entered
    <3>6. Goto(next, stacks)
      BY <2>2, <2>5 DEF Step
    <3> QED BY <1>2, <2>2, <3>2, <3>5, <3>6
  <2> QED BY <1>4, <2>4, <2>5 DEF PushScope
<1>5. CASE PopScope
  <2> DEFINE next == ip + 1 + Operands("POP_SCOPE")
  <2>1. control = "running" /\ Instr = "POP_SCOPE"
    BY <1>5 DEF PopScope, Running
  <2>2. /\ Disciplined(prog) /\ ip \in DOMAIN Known[prog] /\ Conforms(prog, ip, stacks, frames)
        /\ Follows(prog, ip) /\ OpAt(prog, ip) = "POP_SCOPE"
    BY <2>1, Here
  <2>3. sh.entering /\ Leads(prog, next, [sh EXCEPT !.entering = FALSE])
    BY <2>2 DEF Follows
  <2>4. \A s \in Kinds : LET n == Len(frames[s].offsets)
                         IN  /\ frames'[s].index = frames[s].offsets[n]
                             /\ frames'[s].offsets = SubSeq(frames[s].offsets, 1, n - 1)
    BY <1>1, <1>5 DEF PopScope, Frame
  <2>5. PICK fr : fr = frames'
    OBVIOUS
  <2>6. /\ FramesOK(fr)
        /\ \A s \in Kinds : LET n == Len(frames[s].offsets)
                           IN  /\ fr[s].index = frames[s].offsets[n]
                               /\ fr[s].offsets = SubSeq(frames[s].offsets, 1, n - 1)
    BY <1>1, <2>4, <2>5
  <2>7. Conforms(prog, next, stacks, fr)
    BY <1>1, <2>2, <2>3, <2>6, Left
  <2>8. Goto(next, stacks)
    BY <1>5, <2>1 DEF PopScope, Step
  <2> QED BY <1>2, <2>1, <2>5, <2>7, <2>8
<1> QED BY <1>3, <1>4, <1>5

(* RET: the top is the address of the POP_SCOPE that the caller waits for.    *)
LEMMA Returns ==
  ASSUME IInv, CInv, control = "running", Instr = "RET"
  PROVE  /\ \E to \in DOMAIN Known[prog] :
              /\ to \in Nat /\ OpAt(prog, to) = "POP_SCOPE" /\ Peek("val", 0) = Addr(to)
              /\ Conforms(prog, to, On("val", 1, << >>), frames)
<1> DEFINE sh == Known[prog][ip]
<1>1. /\ Disciplined(prog) /\ ip \in DOMAIN Known[prog] /\ Conforms(prog, ip, stacks, frames)
      /\ Follows(prog, ip) /\ OpAt(prog, ip) = "RET"
  BY Here
<1>2. ~sh.entering /\ ReturnRule(sh)
  BY <1>1 DEF Follows, Special, SpecialRule
<1>3. stacks \in [Kinds -> Seq(Cell)] /\ FramesOK(frames)
  BY Typed
<1>4. PICK to \in Nat : /\ to \in DOMAIN Known[prog] /\ OpAt(prog, to) = "POP_SCOPE"
                        /\ stacks["val"][Len(stacks["val"])] = Addr(to)
                        /\ \A st : Moved(stacks, 1, << >>, 0, 0, st) => Conforms(prog, to, st, frames)
  BY <1>1, <1>2, <1>3, Returned
<1>5. Conforms(prog, to, On("val", 1, << >>), frames)
  BY <1>4, ValuesMoved
<1>6. Peek("val", 0) = Addr(to)
  <2>1. Depth("val") \in Nat
    BY Typed
  <2>2. Depth("val") - 0 = Depth("val")
    BY <2>1
  <2> QED BY <1>4, <2>2 DEF Peek, Depth
<1> QED BY <1>4, <1>5, <1>6

(* RET, EXIT and YIELD.                                                       *)
LEMMA Leaves ==
  ASSUME IInv, CInv, Return \/ Exit \/ Yield
  PROVE  CInv'
<1> DEFINE sh == Known[prog][ip]
<1>1. CASE Return
  <2>1. control = "running" /\ Instr = "RET" /\ Goto(IntOf(Peek("val", 0)), On("val", 1, << >>)) /\ UNCHANGED frames
    BY <1>1 DEF Return, Running
  <2>2. PICK to : to \in Nat /\ Peek("val", 0) = Addr(to) /\ Conforms(prog, to, On("val", 1, << >>), frames)
    BY <2>1, Returns
  <2>3. IntOf(Peek("val", 0)) = to
    BY <2>2 DEF IntOf, Addr, ScalarTags
  <2>4. Conforms(prog, to, On("val", 1, << >>), frames')
    BY <2>1, <2>2
  <2>5. PICK st : st = On("val", 1, << >>)
    OBVIOUS
  <2> QED BY <2>1, <2>3, <2>4, <2>5, Gone
<1>2. CASE Exit
  <2>1. Running("EXIT") /\ "EXIT" \in Special \ {"JMP", "POP_SCOPE"}
    BY <1>2 DEF Exit, Special
  <2>2. ~sh.entering /\ sh.main /\ sh.val = << >> /\ sh.obj = 0
    BY <2>1, OwnRule DEF SpecialRule
  <2>3. control = "running" /\ Disciplined(prog) /\ Conforms(prog, ip, stacks, frames)
    BY <2>1, Here DEF Running
  <2>4. PICK d \in Nat : \E act \in [0 .. d -> Activation] : Stands(prog, sh, d, act, stacks, frames)
    BY <2>3 DEF Conforms
  <2>5. PICK act \in [0 .. d -> Activation] : Stands(prog, sh, d, act, stacks, frames)
    BY <2>4
  <2>6. d = 0
    <3>1. d \in 0 .. d
      OBVIOUS
    <3>2. ShapeOf(prog, sh, d, act, d) = sh
      BY DEF ShapeOf
    <3>3. sh.main <=> (d = 0)
      BY <2>5, <3>1, <3>2 DEF Stands
    <3> QED BY <2>2, <3>3
  <2>7. Len(stacks["val"]) = 0 /\ Len(stacks["obj"]) = 0
    <3>1. Top(sh, act[0], stacks) /\ act[0].val = 0 /\ act[0].obj = 0
      BY <2>5, <2>6 DEF Stands
    <3>2. /\ Len(stacks["val"]) = act[0].val + Len(sh.val) /\ Len(stacks["obj"]) = act[0].obj + sh.obj
      BY <3>1 DEF Top
    <3>3. Len(sh.val) = 0
      BY <2>2
    <3> QED BY ONLY <2>2, <3>1, <3>2, <3>3
  <2>8. \A s \in Kinds : frames[s].index = 0 /\ Len(frames[s].offsets) = 0
    BY <2>2, <2>5, <2>6 DEF Stands, FramesStand, NextSlot
  <2>9. /\ prog' = prog /\ ip' = ip /\ stacks' = stacks /\ frames' = frames
        /\ status' = "COMPLETED" /\ control' = "host"
    BY <1>2 DEF Exit, Leave
  <2>10. CompletedClean'
    BY <2>7, <2>8, <2>9 DEF CompletedClean, Kinds
  <2> QED BY <2>3, <2>9, <2>10 DEF CInv
<1>3. CASE Yield
  <2>1. control = "running" /\ Instr = "YIELD" /\ Leave("YIELD", ip + 1, stacks) /\ UNCHANGED frames
    BY <1>3 DEF Yield, Running
  <2>2. /\ Disciplined(prog) /\ ip \in DOMAIN Known[prog] /\ sh \in Shape
        /\ Conforms(prog, ip, stacks, frames) /\ Follows(prog, ip) /\ OpAt(prog, ip) = "YIELD" /\ ip \in Nat
    BY <2>1, Here
  <2>3. Effect("YIELD") = <<0, 0, 0, 0>> /\ "YIELD" \notin Special /\ Operands("YIELD") = 0
    BY Effects DEF Operands, OneOperand
  <2>4. ~sh.entering /\ PlainRule(prog, sh, "YIELD", ip + 1 + 0)
    BY <2>2, <2>3 DEF Follows
  <2>5. ip + 1 + 0 = ip + 1
    BY <2>2
  <2>6. /\ Enough(sh, 0, 0) /\ Leads(prog, ip + 1, After(sh, 0, Opaques(0), 0, 0))
    BY <2>3, <2>4, <2>5 DEF PlainRule
  <2>7. << >> \in Seq({}) /\ Len(<< >>) = 0 /\ 0 \in Nat
    BY Few
  <2>8. /\ Opaques(0) \in Seq(Abstract) /\ Len(Opaques(0)) = Len(<< >>)
        /\ \A ret : Matches(Opaques(0), Len(Opaques(0)), << >>, 0, ret)
    <3>1. /\ Opaques(Len(<< >>)) \in Seq(Abstract) /\ Len(Opaques(Len(<< >>))) = Len(<< >>)
          /\ \A ret : Matches(Opaques(Len(<< >>)), Len(Opaques(Len(<< >>))), << >>, 0, ret)
      BY <2>7, Unknowns, Zenon
    <3> QED BY ONLY <2>7, <3>1
  <2>9. stacks \in [Kinds -> Seq(Cell)] /\ FramesOK(frames)
    BY Typed
  <2>10. Moved(stacks, 0, << >>, 0, 0, stacks)
    <3>1. stacks["val"] \in Seq(Cell) /\ Len(stacks["obj"]) \in Nat
      BY <2>9 DEF Kinds
    <3>2. stacks["val"] = Replace(stacks["val"], 0, << >>)
      BY <3>1, NothingReplaced
    <3>3. Len(stacks["obj"]) = Len(stacks["obj"]) - 0 + 0
      BY <3>1
    <3> QED BY <3>2, <3>3 DEF Moved
  <2>11. SameFrames(frames, frames)
    BY DEF SameFrames
  <2>12. Conforms(prog, ip + 1, stacks, frames)
    BY <2>2, <2>6, <2>7, <2>8, <2>9, <2>10, <2>11, Advance
  <2>13. /\ prog' = prog /\ ip' = ip + 1 /\ stacks' = stacks /\ frames' = frames
         /\ status' = "YIELD" /\ control' = "host"
    BY <2>1 DEF Leave
  <2>14. Conforms(prog', ip', stacks', frames')
    BY <2>12, <2>13
  <2> QED BY <2>2, <2>13, <2>14 DEF CInv, CompletedClean
<1> QED BY <1>1, <1>2, <1>3

(* Whether a step is defined depends on these variables only.                 *)
LEMMA DefinedSame ==
  ASSUME UNCHANGED <<prog, ip, stacks, frames, heap>>
  PROVE  Defined' <=> Defined
<1>1. code' = code /\ pool' = pool /\ Instr' = Instr
  BY DEF code, pool, Instr, IsOpcodeAt
<1>2. \A k : Operand(k)' = Operand(k)
  BY <1>1 DEF Operand
<1>3. \A s : Depth(s)' = Depth(s)
  BY DEF Depth
<1>4. \A s, k : Peek(s, k)' = Peek(s, k)
  BY DEF Peek, Depth
<1>5. (\A l : InHeap(l)' <=> InHeap(l)) /\ \A l : At(l)' = At(l)
  BY DEF InHeap, At
<1>6. BadInstruction' <=> BadInstruction
  BY <1>1, <1>2 DEF BadInstruction
<1>7. Underflow' <=> Underflow
  BY <1>1, <1>2, <1>3 DEF Underflow, ValPops, ObjPops
<1>8. Overrun' <=> Overrun
  BY <1>1, <1>2, <1>3, <1>4 DEF Overrun
<1>9. BadReference' <=> BadReference
  BY <1>1, <1>2, <1>4, <1>5 DEF BadReference
<1>10. BadFrame' <=> BadFrame
  BY <1>1, <1>2 DEF BadFrame, Slot
<1>11. Trap' <=> Trap
  BY <1>1, <1>4 DEF Trap
<1>12. \A type, c : Printable(type, c)' <=> Printable(type, c)
  BY <1>1 DEF Printable
<1>13. Unprintable' <=> Unprintable
  BY <1>1, <1>3, <1>4, <1>5, <1>12 DEF Unprintable, PrintedType, PrintableArray, PrintableObject, FieldType
<1>14. BadString' <=> BadString
  BY <1>1, <1>4, <1>12 DEF BadString
<1>15. BadLayout' <=> BadLayout
  <2>1. \A n : Layouts(n)' = Layouts(n)
    <3>1. \A k, i : Popped(k, i)' = Popped(k, i)
      BY <1>4 DEF Popped
    <3>2. \A k, n : IsLayout(k, n)' <=> IsLayout(k, n)
      BY <1>3, <3>1 DEF IsLayout
    <3> QED BY <3>2 DEF Layouts
  <2> QED BY <1>1, <1>2, <1>3, <2>1 DEF BadLayout, Full, Fits
<1> QED BY <1>6, <1>7, <1>8, <1>9, <1>10, <1>11, <1>13, <1>14, <1>15 DEF Defined

(* A step that changes control only, by the host or by a crash.               *)
LEMMA Untouched ==
  ASSUME CInv, UNCHANGED <<prog, ip, stacks, frames, heap, status>>,
         control' = "host" => control = "host",
         control' # "host" => status \notin {"ERROR", "COMPLETED"},
         control' = "crashed" => ~Defined
  PROVE  CInv'
<1>1. Defined' <=> Defined
  BY DefinedSame
<1>2. CompletedClean'
  BY DEF CInv, CompletedClean
<1>3. status # "ERROR" => Conforms(prog, ip, stacks, frames)
  BY DEF CInv
<1> QED BY <1>1, <1>2, <1>3 DEF CInv

(* vm_init: one activation, nothing on the stacks.                            *)
LEMMA ConventionInitially ==
  ASSUME Init, Disciplined(prog)
  PROVE  CInv
<1>1. Disciplined(prog)
  OBVIOUS
<1>2. PICK sh : sh = Known[prog][0]
  OBVIOUS
<1>3. 0 \in DOMAIN Known[prog] /\ sh \in Shape
  BY <1>1, <1>2 DEF Disciplined, Leads
<1>4. /\ sh.val = << >> /\ sh.obj = 0 /\ ~sh.entering /\ sh.main
      /\ \A s \in Kinds : sh.defined[s] = 0
  <2>1. /\ sh.val = Beginning.val /\ sh.obj = Beginning.obj /\ sh.entering = Beginning.entering
        /\ sh.main = Beginning.main /\ \A s \in Kinds : sh.defined[s] <= Beginning.defined[s]
    BY <1>1, <1>2 DEF Disciplined, Leads
  <2>2. \A s \in Kinds : Beginning.defined[s] = 0 /\ sh.defined[s] \in Nat
    BY <1>3 DEF Beginning, Shape
  <2>3. Beginning.val = << >> /\ Beginning.obj = 0 /\ ~Beginning.entering /\ Beginning.main
    BY DEF Beginning
  <2>4. \A s \in Kinds : sh.defined[s] = 0
    BY <2>1, <2>2
  <2> QED BY <2>1, <2>3, <2>4
<1>5. PICK a : a = [val |-> 0, obj |-> 0, ret |-> 0]
  OBVIOUS
<1>6. a \in Activation /\ a.val = 0 /\ a.obj = 0
  BY <1>5 DEF Activation
<1>7. PICK act : act = [j \in 0 .. 0 |-> a]
  OBVIOUS
<1>8. act \in [0 .. 0 -> Activation] /\ act[0] = a /\ \A j \in 0 .. 0 : act[j] = a
  BY <1>6, <1>7
<1>9. Stands(prog, sh, 0, act, stacks, frames)
  <2>1. Len(stacks["val"]) = 0 /\ Len(stacks["obj"]) = 0 /\ Len(sh.val) = 0
    BY <1>4 DEF Init, Kinds
  <2>2. Top(sh, act[0], stacks)
    BY <1>4, <1>6, <1>8, <2>1 DEF Top, Matches
  <2>3. \A s \in Kinds : FramesStand(prog, sh, 0, act, frames[s], s)
    <3> TAKE s \in Kinds
    <3>1. frames[s].index = 0 /\ Len(frames[s].offsets) = 0
      BY DEF Init
    <3> QED BY <1>4, <3>1 DEF FramesStand, NextSlot, Low
  <2>4. \A j \in 0 .. 0 : ShapeOf(prog, sh, 0, act, j).main <=> (j = 0)
    BY <1>4 DEF ShapeOf
  <2>5. act[0].val = 0 /\ act[0].obj = 0 /\ 1 .. 0 = {}
    BY <1>6, <1>8
  <2>6. \A i, j \in 0 .. 0 : i <= j => act[i].val <= act[j].val /\ act[i].obj <= act[j].obj
    BY <1>6, <1>8
  <2> QED BY <2>2, <2>3, <2>4, <2>5, <2>6 DEF Stands
<1>10. Conforms(prog, 0, stacks, frames)
  <2>1. 0 \in Nat
    OBVIOUS
  <2> QED BY <1>2, <1>3, <1>8, <1>9, <2>1 DEF Conforms
<1> QED BY <1>1, <1>10 DEF CInv, Init, CompletedClean

(* Every step keeps the invariant.                                            *)
LEMMA ConventionKept ==
  ASSUME IInv, IInv', CInv, [Next]_vars
  PROVE  CInv'
<1>1. CASE UNCHANGED vars
  BY <1>1, Untouched DEF vars, CInv
<1>2. CASE ExecuteInstruction
  BY <1>2, Shuffles, Duplicates, Calculations, Arrays, FieldsAndElements, Variables, Prints,
     Constructs, Branches, Scoping, Leaves DEF ExecuteInstruction, Kinds
<1>3. CASE Crash
  BY <1>3, Untouched DEF Crash, CInv
<1>4. CASE Execute
  BY <1>4, Untouched DEF Execute
<1>5. CASE Stop
  BY <1>1, <1>5 DEF Stop
<1> QED BY <1>1, <1>2, <1>3, <1>4, <1>5 DEF Next

(* The host initialises a machine with one program (vm_init).                 *)
LEMMA SameProgram ==
  ASSUME [Next]_vars
  PROVE  prog' = prog
<1> USE DEF Step, Goto, Fail, Leave, PushChecked
<1>1. CASE UNCHANGED vars \/ Crash \/ Execute \/ Stop
  BY <1>1 DEF vars, Crash, Execute, Stop
<1>2. ASSUME NEW s \in Kinds,
             Push(s) \/ Dup(s) \/ Pop(s) \/ Swap(s) \/ GetHeap(s) \/ SetHeap(s) \/ GetArray(s) \/ SetArray(s)
             \/ Define(s) \/ GetLocal(s) \/ SetLocal(s)
      PROVE  prog' = prog
  BY <1>2 DEF Push, Dup, Pop, Swap, GetHeap, SetHeap, GetArray, SetArray, Define, GetLocal, SetLocal, Fetch
<1>3. ASSUME NEW op, BinaryOp(op) \/ FloatOp(op, 1) \/ FloatOp(op, 2) \/ UnaryOp(op) \/ EqObj(op)
      PROVE  prog' = prog
  BY <1>3 DEF BinaryOp, FloatOp, UnaryOp, EqObj
<1>4. CASE PushHeap \/ PushArray \/ CastByteArray \/ LenArray \/ PushScope \/ PopScope \/ Jump \/ JumpUnless
           \/ Return \/ Call \/ PrintValue \/ Exit \/ Yield
  BY <1>4 DEF PushHeap, PushArray, CastByteArray, LenArray, PushScope, PopScope, Jump, JumpUnless,
     Return, Call, PrintValue, Exit, Yield
<1>5. CASE ExecuteInstruction
  BY <1>2, <1>3, <1>4, <1>5 DEF ExecuteInstruction
<1> QED BY <1>1, <1>5 DEF Next

(* While the machine runs a disciplined program, the shape at ip is what its   *)
(* stacks and frames hold, on top of one activation for every call that has not *)
(* returned: each instruction of vm_execute keeps to the calling convention of *)
(* compile_del_funcall and compile_return.                                  *)
THEOREM ConventionInvariant == Spec => [](Disciplined(prog) => CInv)
<1>1. Init => (Disciplined(prog) => CInv)
  BY ConventionInitially
<1>2. IInv /\ IInv' /\ (Disciplined(prog) => CInv) /\ [Next]_vars => (Disciplined(prog) => CInv)'
  BY ConventionKept, SameProgram
<1> QED BY <1>1, <1>2, Invariance, PTL DEF Spec

(* In every disciplined program, RET finds on top of the stack the address that *)
(* the caller pushed, under whatever arguments, results and nested calls the    *)
(* function had, and goes to the POP_SCOPE behind the call.                    *)
THEOREM CallersAreFound == Spec => [](Disciplined(prog) => ReturnsToCaller)
<1>1. IInv /\ CInv => ReturnsToCaller
  <2> SUFFICES ASSUME IInv, CInv, control = "running", Instr = "RET"
               PROVE  LET a == Peek("val", 0)
                      IN  a.tag = "addr" /\ IsOpcodeAt(a.val) /\ code[a.val + 1].op = "POP_SCOPE"
    BY DEF ReturnsToCaller
  <2>1. PICK to : /\ to \in DOMAIN Known[prog] /\ OpAt(prog, to) = "POP_SCOPE"
                  /\ Peek("val", 0) = Addr(to)
    BY Returns
  <2>2. Disciplined(prog)
    BY DEF CInv
  <2>3. WellFormed(prog, to)
    BY <2>1, <2>2 DEF Disciplined
  <2> QED BY <2>1, <2>3 DEF WellFormed, Addr, IsOpcodeAt, OpAt, Cells, code
<1> QED BY <1>1, ConventionInvariant, Invariance, PTL

(* A disciplined program that ends COMPLETED has popped every value of its      *)
(* statements and every frame of its calls, on both stacks.                   *)
THEOREM CompletionIsClean == Spec => [](Disciplined(prog) => CompletedClean)
<1>1. CInv => CompletedClean
  BY DEF CInv
<1> QED BY <1>1, ConventionInvariant, PTL

(* get_local, which checks nothing, reads only slots that DEFINE has counted    *)
(* since the function was entered, on every path of a disciplined program.     *)
THEOREM LocalsAreDefined == Spec => [](Disciplined(prog) => LocalsDefined)
<1>1. IInv /\ CInv => LocalsDefined
  <2> SUFFICES ASSUME IInv, CInv, control = "running", NEW s \in Kinds,
                      Instr = Of(s, "GET_LOCAL", "GET_LOCAL_OBJ")
               PROVE  Slot(s) < frames[s].index
    BY DEF LocalsDefined
  <2> DEFINE sh == Known[prog][ip]
  <2>1. /\ sh \in Shape /\ Conforms(prog, ip, stacks, frames) /\ WellFormed(prog, ip)
        /\ Follows(prog, ip) /\ OpAt(prog, ip) = Instr
    BY Here
  <2>2. Instr \notin Special /\ Instr \in LocalAccess(s) /\ Instr \in {"GET_LOCAL", "GET_LOCAL_OBJ"}
    BY DEF Special, LocalAccess, Of
  <2>3. ~sh.entering /\ LocalRule(sh, Instr, IntOf(Arg(prog, ip, 1)))
    BY <2>1, <2>2 DEF Follows
  <2>4. ~sh.main /\ Operand(1) < sh.defined[s]
    BY <2>2, <2>3, Operand1 DEF LocalRule
  <2>5. Operand(1) \in Nat
    <3>1. \A k \in 1 .. Operands(Instr) : IntOf(Arg(prog, ip, k)) \in Nat
      BY <2>1, <2>2 DEF WellFormed
    <3>2. 1 \in 1 .. Operands(Instr)
      BY <2>2 DEF Operands, OneOperand
    <3> QED BY <3>1, <3>2, Operand1
  <2>6. PICK d \in Nat : \E act \in [0 .. d -> Activation] : Stands(prog, sh, d, act, stacks, frames)
    BY <2>1 DEF Conforms
  <2>7. PICK act \in [0 .. d -> Activation] : Stands(prog, sh, d, act, stacks, frames)
    BY <2>6
  <2>8. d # 0
    <3>1. d \in 0 .. d /\ ShapeOf(prog, sh, d, act, d) = sh
      BY DEF ShapeOf
    <3> QED BY <2>4, <2>7, <3>1 DEF Stands
  <2>9. PICK f : f = frames[s]
    OBVIOUS
  <2>10. FramesStand(prog, sh, d, act, f, s)
    BY <2>7, <2>9 DEF Stands
  <2>11. Len(f.offsets) = d /\ f.index >= f.offsets[d] + sh.defined[s]
    BY <2>3, <2>8, <2>10 DEF FramesStand, NextSlot, Low
  <2>12. f.offsets[d] \in Nat /\ f.index \in Nat /\ sh.defined[s] \in Nat
    <3>1. f.offsets \in Seq(Nat) /\ f.index \in Nat
      BY <2>9, Typed DEF FramesOK
    <3> QED BY <2>1, <2>8, <2>11, <3>1 DEF Shape
  <2>13. Slot(s) = f.offsets[d] + Operand(1)
    BY <2>9, <2>11 DEF Slot
  <2>14. PICK o : o = f.offsets[d]
    OBVIOUS
  <2>15. PICK x : x = f.index
    OBVIOUS
  <2>16. PICK m : m = sh.defined[s]
    OBVIOUS
  <2>17. PICK w : w = Operand(1)
    OBVIOUS
  <2>18. o + w < x
    BY ONLY <2>4, <2>5, <2>11, <2>12, <2>14, <2>15, <2>16, <2>17
  <2> QED BY <2>9, <2>13, <2>14, <2>15, <2>17, <2>18
<1> QED BY <1>1, ConventionInvariant, Invariance, PTL
-----------------------------------------------------------------------------
(* What the shape has is on the stacks.                                      *)
LEMMA EnoughThere ==
  ASSUME IInv, CInv, control # "host", NEW n \in Nat, NEW m \in Nat, Enough(Known[prog][ip], n, m)
  PROVE  n <= Depth("val") /\ m <= Depth("obj")
<1>1. PICK sh : sh = Known[prog][ip]
  OBVIOUS
<1>2. sh \in Shape
  BY <1>1, SomeTop
<1>3. PICK a \in Activation : Top(sh, a, stacks)
  BY <1>1, SomeTop
<1>4. PICK lv : lv = Len(sh.val)
  OBVIOUS
<1>5. PICK av : av = a.val
  OBVIOUS
<1>6. PICK ao : ao = a.obj
  OBVIOUS
<1>7. PICK so : so = sh.obj
  OBVIOUS
<1>8. /\ lv \in Nat /\ av \in Nat /\ ao \in Nat /\ so \in Nat
      /\ Depth("val") = av + lv /\ Depth("obj") = ao + so /\ n <= lv /\ m <= so
  BY <1>1, <1>2, <1>3, <1>4, <1>5, <1>6, <1>7 DEF Shape, Activation, Top, Depth, Enough
<1> QED BY ONLY n \in Nat, m \in Nat, <1>8

(* The rules require at least the operands that the machine pops.             *)
LEMMA EffectPops ==
  ASSUME NEW op \in Opcodes \ Special
  PROVE  \E n, m, k, c \in Nat : Effect(op) = <<n, c, m, k>> /\ ValPops(op) <= n /\ ObjPops(op) <= m
<1>1. op \notin {"PUSH", "DUP", "SWAP", "PRINT", "PUSH_HEAP", "CALL", "DEFINE", "DEFINE_OBJ", "JNE",
                 "JMP", "PUSH_SCOPE", "POP_SCOPE", "RET", "EXIT"}
  BY DEF Special
<1>2. CASE op \in Binary \cup FloatBinary
  <2>1. Effect(op) = <<2, 1, 0, 0>>
    BY <1>2, Effects
  <2>2. ValPops(op) = 2 /\ ObjPops(op) = 0
    BY <1>2 DEF ValPops, ObjPops, Unary, Binary, FloatBinary
  <2> QED BY <2>1, <2>2
<1>3. CASE op \in Unary
  <2>1. Effect(op) = <<1, 1, 0, 0>>
    BY <1>3, Effects
  <2>2. ValPops(op) = 1 /\ ObjPops(op) = 0
    BY <1>3 DEF ValPops, ObjPops, Unary, Binary, FloatBinary
  <2> QED BY <2>1, <2>2
<1>4. CASE op \notin Binary \cup FloatBinary \cup Unary
  <2>1. op \in {"GET_LOCAL", "POP", "SET_LOCAL", "EQ_OBJ", "NEQ_OBJ", "LEN_ARRAY", "GET_HEAP", "GET_ARRAY",
                "SET_HEAP", "SET_ARRAY", "PUSH_ARRAY", "CAST_BYTE_ARRAY", "PUSH_OBJ", "GET_LOCAL_OBJ",
                "DUP_OBJ", "POP_OBJ", "SET_LOCAL_OBJ", "SWAP_OBJ", "GET_HEAP_OBJ", "SET_HEAP_OBJ",
                "GET_ARRAY_OBJ", "SET_ARRAY_OBJ", "YIELD"}
    BY <1>1, <1>4 DEF Opcodes, NoOperand, OneOperand
  <2>2. CASE op \in {"GET_LOCAL", "PUSH_OBJ", "GET_LOCAL_OBJ", "YIELD"}
    <3>1. ValPops(op) = 0 /\ ObjPops(op) = 0
      BY <1>4, <2>2 DEF ValPops, ObjPops
    <3> QED BY <2>2, <3>1, Effects
  <2>3. CASE op \in {"POP", "SET_LOCAL", "CAST_BYTE_ARRAY"}
    <3>1. ValPops(op) = 1 /\ ObjPops(op) = 0
      BY <1>4, <2>3 DEF ValPops, ObjPops
    <3> QED BY <2>3, <3>1, Effects
  <2>4. CASE op \in {"EQ_OBJ", "NEQ_OBJ", "SWAP_OBJ", "SET_HEAP_OBJ"}
    <3>1. ValPops(op) = 0 /\ ObjPops(op) = 2
      BY <1>4, <2>4 DEF ValPops, ObjPops
    <3> QED BY <2>4, <3>1, Effects
  <2>5. CASE op \in {"LEN_ARRAY", "GET_HEAP", "DUP_OBJ", "POP_OBJ", "SET_LOCAL_OBJ", "GET_HEAP_OBJ"}
    <3>1. ValPops(op) = 0 /\ ObjPops(op) = 1
      BY <1>4, <2>5 DEF ValPops, ObjPops
    <3> QED BY <2>5, <3>1, Effects
  <2>6. CASE op \in {"GET_ARRAY", "SET_HEAP", "GET_ARRAY_OBJ"}
    <3>1. ValPops(op) = 1 /\ ObjPops(op) = 1
      BY <1>4, <2>6 DEF ValPops, ObjPops
    <3> QED BY <2>6, <3>1, Effects
  <2>7. CASE op = "SET_ARRAY_OBJ"
    <3>1. ValPops(op) = 1 /\ ObjPops(op) = 2
      BY <1>4, <2>7 DEF ValPops, ObjPops
    <3> QED BY <2>7, <3>1, Effects
  <2>8. CASE op \in {"SET_ARRAY", "PUSH_ARRAY"}
    <3>1. ValPops(op) = 2 /\ ObjPops(op) = (IF op = "SET_ARRAY" THEN 1 ELSE 0)
      BY <1>4, <2>8 DEF ValPops, ObjPops
    <3> QED BY <2>8, <3>1, Effects
  <2> QED BY <2>1, <2>2, <2>3, <2>4, <2>5, <2>6, <2>7, <2>8
<1> QED BY <1>2, <1>3, <1>4

(* No pop of an empty stack.                                                  *)
LEMMA NeverUnderflows ==
  ASSUME IInv, CInv, control # "host"
  PROVE  ~Underflow
<1>1. PICK sh : sh = Known[prog][ip]
  OBVIOUS
<1>2. PICK op : op = Instr
  OBVIOUS
<1>3. /\ sh \in Shape /\ WellFormed(prog, ip) /\ Follows(prog, ip) /\ op = OpAt(prog, ip)
      /\ op \in Opcodes
  BY <1>1, <1>2, Here DEF WellFormed
<1>4. Depth("val") \in Nat /\ Depth("obj") \in Nat
  BY Typed
<1>5. SUFFICES ValPops(op) <= Depth("val") /\ ObjPops(op) <= Depth("obj") /\ ValPops(op) \in Nat /\ ObjPops(op) \in Nat
  BY <1>2, <1>4, <1>5 DEF Underflow
<1>6. CASE op \notin Special
  <2>1. ~sh.entering /\ PlainRule(prog, sh, op, ip + 1 + Operands(op))
    BY <1>1, <1>3, <1>6 DEF Follows, Special
  <2>2. PICK n, m, k, c \in Nat : Effect(op) = <<n, c, m, k>> /\ ValPops(op) <= n /\ ObjPops(op) <= m
    BY <1>3, <1>6, EffectPops
  <2>3. Enough(sh, n, m)
    BY <2>1, <2>2 DEF PlainRule
  <2>4. n <= Depth("val") /\ m <= Depth("obj")
    BY <1>1, <2>3, EnoughThere
  <2>5. ValPops(op) \in Nat /\ ObjPops(op) \in Nat
    <3>1. op # "CALL"
      BY <1>6 DEF Special
    <3> QED BY <3>1 DEF ValPops, ObjPops
  <2> QED BY <1>4, <2>2, <2>4, <2>5
<1>7. CASE op \in {"PUSH", "PUSH_HEAP", "DEFINE", "DEFINE_OBJ", "JMP", "PUSH_SCOPE", "POP_SCOPE", "EXIT"}
  <2>1. ValPops(op) = 0 /\ ObjPops(op) = 0
    BY <1>7 DEF ValPops, ObjPops, Unary, Binary, FloatBinary
  <2> QED BY <1>4, <2>1
<1>8. CASE op \in {"DUP", "SWAP", "PRINT", "CALL", "JNE", "RET"}
  <2>1. SpecialRule(prog, ip, sh, op, ip + 1 + Operands(op))
    BY <1>1, <1>3, <1>8 DEF Follows, Special
  <2>2. ObjPops(op) = 0
    BY <1>8 DEF ObjPops
  <2>3. ASSUME NEW n \in Nat, Enough(sh, n, 0), ValPops(op) = n
        PROVE  ValPops(op) <= Depth("val") /\ ValPops(op) \in Nat
    <3>1. 0 \in Nat
      OBVIOUS
    <3> QED BY <1>1, <2>3, <3>1, EnoughThere
  <2>4. CASE op \in {"DUP", "JNE", "PRINT"}
    <3>1. Enough(sh, 1, 0)
      BY <2>1, <2>4 DEF SpecialRule, PrintRule
    <3>2. ValPops(op) = 1
      BY <2>4 DEF ValPops, Unary, Binary, FloatBinary
    <3> QED BY <1>4, <2>2, <2>3, <3>1, <3>2
  <2>5. CASE op = "RET"
    <3>1. Enough(sh, 1, 0)
      <4>1. ReturnRule(sh)
        BY <2>1, <2>5 DEF SpecialRule
      <4>2. sh.gives["val"] \in Nat /\ sh.obj \in Nat /\ Len(sh.val) = sh.gives["val"] + 1
        BY <1>3, <4>1 DEF ReturnRule, Shape, Kinds
      <4>3. PICK g : g = sh.gives["val"]
        OBVIOUS
      <4>4. 1 <= Len(sh.val) /\ 0 <= sh.obj
        BY ONLY <4>2, <4>3
      <4> QED BY <4>4 DEF Enough
    <3>2. ValPops(op) = 1
      BY <2>5 DEF ValPops, Unary, Binary, FloatBinary
    <3> QED BY <1>4, <2>2, <2>3, <3>1, <3>2
  <2>6. CASE op = "SWAP"
    <3>1. Enough(sh, 2, 0)
      BY <2>1, <2>6 DEF SpecialRule
    <3>2. ValPops(op) = 2
      BY <2>6 DEF ValPops, Unary, Binary, FloatBinary
    <3> QED BY <1>4, <2>2, <2>3, <3>1, <3>2
  <2>7. CASE op = "CALL"
    <3>1. Enough(sh, Operand(1), 0)
      BY <2>1, <2>7, Operand1 DEF SpecialRule
    <3>2. ValPops(op) = Operand(1)
      BY <2>7 DEF ValPops, Unary, Binary, FloatBinary
    <3>3. Operand(1) \in Nat
      <4>1. \A k \in 1 .. Operands(op) : IntOf(Arg(prog, ip, k)) \in Nat
        BY <1>3, <2>7 DEF WellFormed
      <4>2. 1 \in 1 .. Operands(op)
        BY <2>7 DEF Operands, OneOperand
      <4> QED BY <4>1, <4>2, Operand1
    <3> QED BY <1>4, <2>2, <2>3, <3>1, <3>2, <3>3
  <2> QED BY <1>8, <2>4, <2>5, <2>6, <2>7
<1> QED BY <1>6, <1>7, <1>8 DEF Special

(* ip is at an instruction with its operands, always, and PUSH_HEAP finds the   *)
(* cells of an object that it takes.                                         *)
LEMMA AlwaysInstructions ==
  ASSUME IInv, CInv, control # "host"
  PROVE  ~BadInstruction /\ ~BadLayout
<1>1. PICK sh : sh = Known[prog][ip]
  OBVIOUS
<1>2. /\ sh \in Shape /\ WellFormed(prog, ip) /\ Follows(prog, ip) /\ Instr = OpAt(prog, ip) /\ ip \in Nat
  BY <1>1, Here
<1>3. Instr \in Opcodes /\ ip + Operands(Instr) < Len(code)
  BY <1>2 DEF WellFormed, Cells, code
<1>4. \A k \in 1 .. Operands(Instr) : Operand(k) = IntOf(Arg(prog, ip, k))
  <2> TAKE k \in 1 .. Operands(Instr)
  <2>1. ip + 1 + k = ip + k + 1
    BY <1>2
  <2> QED BY <2>1 DEF Operand, Arg, Cells, code
<1>5. Instr \notin {"PUSH", "PUSH_OBJ"} => \A k \in 1 .. Operands(Instr) : Operand(k) \in Nat
  BY <1>2, <1>4 DEF WellFormed
<1>6. ~BadInstruction
  <2>1. Operands(Instr) \in Nat /\ Len(code) \in Nat
    BY VMAssumption DEF Operands, code, IInv
  <2>2. ~ ip + Operands(Instr) >= Len(code)
    BY <1>2, <1>3, <2>1
  <2> QED BY <1>3, <1>5, <2>2 DEF BadInstruction
<1>7. ASSUME Instr = "PUSH_HEAP"
      PROVE  Operand(2) = 0 /\ Layouts(Operand(1)) # {}
  <2>1. IntOf(Arg(prog, ip, 2)) = 0 /\ ConstructRule(prog, sh, IntOf(Arg(prog, ip, 1)), ip + 1 + Operands("PUSH_HEAP"))
    BY <1>1, <1>2, <1>7 DEF Follows, SpecialRule, Special
  <2>2. PICK n : n = Operand(1)
    OBVIOUS
  <2>3. n \in Nat
    <3>1. 1 \in 1 .. Operands(Instr)
      BY <1>7 DEF Operands, OneOperand
    <3> QED BY <1>5, <1>7, <2>2, <3>1
  <2>4. PICK l : LaidOut(sh, l, n)
    BY <2>1, <2>2, Operand1 DEF ConstructRule
  <2>5. PICK a \in Activation : Top(sh, a, stacks)
    BY <1>1, SomeTop
  <2>6. l \in Layouts(n)
    BY <1>2, <2>3, <2>4, <2>5, LayoutKnown
  <2> QED BY <2>1, <2>2, <2>6, Operand1
<1> QED BY <1>6, <1>7 DEF BadLayout

(* A variable is accessed, and a scope left, in a frame only.                 *)
LEMMA FramesAreThere ==
  ASSUME IInv, CInv, control # "host", BadFrame
  PROVE  \E s \in Kinds : Instr \in LocalAccess(s) /\ Slot(s) >= STACK_MAX
<1> DEFINE sh == Known[prog][ip]
<1>1. /\ sh \in Shape /\ Conforms(prog, ip, stacks, frames) /\ WellFormed(prog, ip)
      /\ Follows(prog, ip) /\ OpAt(prog, ip) = Instr
  BY Here
<1>2. PICK d \in Nat : \E act \in [0 .. d -> Activation] : Stands(prog, sh, d, act, stacks, frames)
  BY <1>1 DEF Conforms
<1>3. PICK act \in [0 .. d -> Activation] : Stands(prog, sh, d, act, stacks, frames)
  BY <1>2
<1>4. \A s \in Kinds : /\ Len(frames[s].offsets) = d + (IF sh.entering THEN 1 ELSE 0)
                       /\ frames[s].offsets \in Seq(Nat)
  BY <1>3, Typed DEF Stands, FramesStand, FramesOK
<1>5. CASE Instr = "POP_SCOPE"
  <2>1. sh.entering
    BY <1>1, <1>5 DEF Follows
  <2>2. \A s \in Kinds : frames[s].offsets # << >>
    BY <1>4, <2>1
  <2>3. \A s \in Kinds : Instr \notin LocalAccess(s)
    BY <1>5 DEF LocalAccess, Of
  <2> QED BY <2>2, <2>3 DEF BadFrame
<1>6. CASE Instr # "POP_SCOPE"
  <2>1. PICK s \in Kinds : Instr \in LocalAccess(s) /\ (frames[s].offsets = << >> \/ Slot(s) \notin Slots)
    BY <1>6 DEF BadFrame
  <2>2. Instr \notin Special /\ Instr \in {"GET_LOCAL", "GET_LOCAL_OBJ", "SET_LOCAL", "SET_LOCAL_OBJ"}
    BY <2>1 DEF Special, LocalAccess, Of
  <2>3. ~sh.entering /\ ~sh.main
    BY <1>1, <2>1, <2>2 DEF Follows, LocalRule
  <2>4. d # 0
    <3>1. d \in 0 .. d /\ ShapeOf(prog, sh, d, act, d) = sh
      BY DEF ShapeOf
    <3> QED BY <1>3, <2>3, <3>1 DEF Stands
  <2>5. frames[s].offsets # << >> /\ frames[s].offsets[Len(frames[s].offsets)] \in Nat
    BY <1>4, <2>3, <2>4
  <2>6. Operand(1) \in Nat
    <3>1. \A k \in 1 .. Operands(Instr) : IntOf(Arg(prog, ip, k)) \in Nat
      BY <1>1, <2>2 DEF WellFormed
    <3>2. 1 \in 1 .. Operands(Instr)
      BY <2>2 DEF Operands, OneOperand
    <3> QED BY <3>1, <3>2, Operand1
  <2>7. Slot(s) \in Nat
    BY <2>5, <2>6 DEF Slot
  <2>8. Slot(s) >= STACK_MAX
    BY <2>1, <2>5, <2>7, VMAssumption DEF Slots
  <2> QED BY <2>1, <2>8
<1> QED BY <1>5, <1>6

(* A disciplined program never pops an empty stack, runs a cell that is no       *)
(* instruction, builds an object from cells that are not there or returns       *)
(* without a frame: what can still go wrong in vm_execute is that a push finds   *)
(* no room, that a frame has not enough slots, that a reference is null or of   *)
(* another kind, that a division traps or that an unset string is used.        *)
THEOREM OnlyKnownCrashes == Spec => []CrashesAreKnown
<1>1. IInv /\ (Disciplined(prog) => CInv) => CrashesAreKnown
  <2> SUFFICES ASSUME IInv, CInv, control = "crashed" PROVE CrashesAreKnown
    BY DEF CrashesAreKnown
  <2>1. ~Defined /\ ~Underflow /\ ~BadInstruction /\ ~BadLayout
    BY NeverUnderflows, AlwaysInstructions DEF CInv
  <2>2. BadFrame => \E s \in Kinds : Instr \in LocalAccess(s) /\ Slot(s) >= STACK_MAX
    BY FramesAreThere
  <2> QED BY <2>1, <2>2 DEF CrashesAreKnown, Defined
<1> QED BY <1>1, ConventionInvariant, Invariance, PTL

(* And if its accesses of the heap are typed, it crashes only at what no type     *)
(* checker can know: where a push finds no room, a frame has too few slots, a    *)
(* division traps, or what is printed or cast has no format (an unset string). *)
THEOREM OnlyUncheckedLimits ==
  Spec /\ []AccessesTyped =>
    [](control = "crashed" /\ Disciplined(prog) =>
         \/ Overrun \/ Trap \/ Unprintable \/ BadString
         \/ \E s \in Kinds : Instr \in LocalAccess(s) /\ Slot(s) >= STACK_MAX)
<1>1. CrashesAreKnown /\ (Reached => ~BadReference) =>
        (control = "crashed" /\ Disciplined(prog) =>
           \/ Overrun \/ Trap \/ Unprintable \/ BadString
           \/ \E s \in Kinds : Instr \in LocalAccess(s) /\ Slot(s) >= STACK_MAX)
  BY DEF CrashesAreKnown, Reached
<1> QED BY <1>1, OnlyKnownCrashes, ReferencesGood, PTL
=============================================================================
