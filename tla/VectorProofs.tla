---------------------------- MODULE VectorProofs ----------------------------
(***************************************************************************)
(* Machine-checked facts about Vector, for every set of values and every   *)
(* initial and maximal capacity: type correctness, the capacity bounds,    *)
(* the two rules on when an append is refused, in general and when the     *)
(* maximum is a doubled initial capacity, what a halving keeps, and the    *)
(* refinement of BoundedList.                                              *)
(***************************************************************************)
EXTENDS Vector, TLAPS

Live == outcome \in {"ok", "refused"}

(* Only a usable vector has iterations of vector_grow outstanding. *)
GrowOnlyLive == pending > 0 => Live

(* The part of RefusedOnlyFull that needs no history of the capacity. *)
PastHalf == outcome = "refused" => 2 * length > max_capacity

IInv == TypeOK /\ CapacityInv /\ GrowOnlyLive /\ PastHalf

LEMMA ReallocatedType ==
  ASSUME NEW c \in Nat, NEW old \in Nat, NEW len \in Nat, len <= old, len <= c,
         NEW vals \in [0 .. old - 1 -> Values]
  PROVE  /\ Reallocated(c, len, vals) \in [0 .. c - 1 -> Values]
         /\ \A i \in 0 .. len - 1 : Reallocated(c, len, vals)[i] = vals[i]
BY ValuesAssumption DEF Reallocated

LEMMA FreshType == \A c \in Nat : Fresh(c) \in [0 .. c - 1 -> Values]
BY ValuesAssumption DEF Fresh

(* What appending v does to the array, in both outcomes. *)
LEMMA AppendEffect ==
  ASSUME IInv, Live, NEW v \in Values, AppendValue(v)
  PROVE  /\ capacity' \in Nat /\ length' \in Nat /\ outcome' \in {"ok", "refused"}
         /\ values' \in [0 .. capacity' - 1 -> Values]
         /\ capacity <= capacity' /\ capacity' <= max_capacity /\ length' <= capacity'
         /\ \/ /\ outcome' = "refused" /\ 2 * length > max_capacity
               /\ UNCHANGED <<length, values>>
            \/ /\ outcome' = "ok" /\ length' = length + 1
               /\ values'[length] = v
               /\ \A i \in 0 .. length - 1 : values'[i] = values[i]
<1> DEFINE full == length = capacity
           grown == IF full THEN capacity * 2 ELSE capacity
           base == IF full THEN Reallocated(grown, length, values) ELSE values
<1>1. /\ capacity \in Nat /\ length \in Nat /\ max_capacity \in Nat /\ min_capacity \in Nat
      /\ values \in [0 .. capacity - 1 -> Values]
      /\ 0 < capacity /\ length <= capacity /\ capacity <= max_capacity
  BY DEF IInv, TypeOK, CapacityInv, Live
<1>2. CASE full /\ grown > max_capacity
  <2>1. outcome' = "refused" /\ UNCHANGED <<capacity, length, values>>
    BY <1>2 DEF AppendValue, LIST_GROWTH_FACTOR
  <2> QED BY <1>1, <1>2, <2>1
<1>3. CASE ~(full /\ grown > max_capacity)
  <2>1. /\ capacity' = grown /\ length' = length + 1 /\ outcome' = "ok"
        /\ values' = [base EXCEPT ![length] = v]
    BY <1>3 DEF AppendValue, LIST_GROWTH_FACTOR
  <2>2. grown \in Nat /\ length < grown /\ capacity <= grown /\ grown <= max_capacity
    BY <1>1, <1>3
  <2>3. /\ base \in [0 .. grown - 1 -> Values]
        /\ \A i \in 0 .. length - 1 : base[i] = values[i]
    BY <1>1, <2>2, ReallocatedType
  <2> HIDE DEF base, grown
  <2> QED BY <1>1, <2>1, <2>2, <2>3
<1> QED BY <1>2, <1>3

(* What reducing the length to len does. *)
LEMMA ShrinkEffect ==
  ASSUME IInv, Live, NEW len \in Nat, len <= length, ShrinkTo(len)
  PROVE  /\ capacity' \in Nat /\ length' = len /\ outcome' = "ok"
         /\ values' \in [0 .. capacity' - 1 -> Values]
         /\ min_capacity <= capacity' /\ capacity' <= max_capacity /\ len <= capacity'
         /\ capacity' < capacity => 2 * len <= capacity'
         /\ \A i \in 0 .. len - 1 : values'[i] = values[i]
<1> DEFINE halved == capacity \div 2
           shrinks == 4 * len <= capacity /\ halved >= min_capacity
<1>1. /\ capacity \in Nat /\ length \in Nat /\ max_capacity \in Nat /\ min_capacity \in Nat
      /\ values \in [0 .. capacity - 1 -> Values]
      /\ min_capacity <= capacity /\ length <= capacity /\ capacity <= max_capacity
  BY DEF IInv, TypeOK, CapacityInv, Live
<1>2. /\ length' = len /\ outcome' = "ok"
      /\ capacity' = IF shrinks THEN halved ELSE capacity
      /\ values' = IF shrinks THEN Reallocated(halved, len, values) ELSE values
  BY DEF ShrinkTo, LIST_GROWTH_FACTOR, LIST_SHRINK_FACTOR
<1>3. halved \in Nat /\ halved <= capacity /\ (4 * len <= capacity => 2 * len <= halved)
  BY <1>1
<1>4. CASE shrinks
  <2>1. len <= halved
    BY <1>3, <1>4
  <2>2. /\ Reallocated(halved, len, values) \in [0 .. halved - 1 -> Values]
        /\ \A i \in 0 .. len - 1 : Reallocated(halved, len, values)[i] = values[i]
    BY <1>1, <1>3, <2>1, ReallocatedType
  <2> QED BY <1>1, <1>2, <1>3, <1>4, <2>1, <2>2
<1>5. CASE ~shrinks
  BY <1>1, <1>2, <1>5
<1> QED BY <1>4, <1>5

LEMMA InitInv == Init => IInv
BY FreshType DEF Init, IInv, TypeOK, CapacityInv, GrowOnlyLive, PastHalf, Live

LEMMA StepInv == IInv /\ [Next]_vars => IInv'
<1> SUFFICES ASSUME IInv, [Next]_vars PROVE IInv'
  OBVIOUS
<1> USE DEF IInv, TypeOK, CapacityInv, GrowOnlyLive, PastHalf, Live
<1>1. ASSUME NEW init \in InitCapacities, NEW max \in MaxCapacities, New(init, max)
      PROVE  IInv'
  BY <1>1, ValuesAssumption, FreshType DEF New
<1>2. ASSUME NEW v \in Values, Append_(v) PROVE IInv'
  BY <1>2, AppendEffect DEF Append_, Idle
<1>3. ASSUME NEW n \in 1 .. GrowMax, Grow(n) PROVE IInv'
  BY <1>3, ValuesAssumption DEF Grow, Idle
<1>4. CASE GrowStep
  BY <1>4, AppendEffect, ValuesAssumption DEF GrowStep
<1>5. CASE Pop
  <2>1. length - 1 \in Nat /\ values[length - 1] \in Values
    BY <1>5 DEF Pop, Idle
  <2> QED BY <1>5, <2>1, ShrinkEffect DEF Pop, Idle
<1>6. ASSUME NEW n \in 0 .. length, Shrink(n) PROVE IInv'
  <2>1. length - n \in Nat /\ length - n <= length
    BY <1>6
  <2> QED BY <1>6, <2>1, ShrinkEffect DEF Shrink, Idle
<1>7. CASE Free
  BY <1>7, FreshType DEF Free, Idle
<1>8. CASE UNCHANGED vars
  BY <1>8 DEF vars
<1> QED BY <1>1, <1>2, <1>3, <1>4, <1>5, <1>6, <1>7, <1>8 DEF Next

LEMMA Invariance == Spec => []IInv
BY InitInv, StepInv, PTL DEF Spec

(* vector.c keeps its array and counters well formed. *)
THEOREM TypeCorrect == Spec => []TypeOK
<1>1. IInv => TypeOK
  BY DEF IInv
<1> QED BY <1>1, Invariance, PTL

(* The length never passes the allocation and the allocation never leaves  *)
(* the interval from the initial to the maximal capacity.                  *)
THEOREM CapacitySafe == Spec => []CapacityInv
<1>1. IInv => CapacityInv
  BY DEF IInv
<1> QED BY <1>1, Invariance, PTL

(* Halving keeps every element that is still in the list and leaves half   *)
(* of the smaller array free.                                              *)
THEOREM ShrinkSafe == Spec => ShrinkKeepsRoom
<1> DEFINE Kept == \A i \in 0 .. length' - 1 : values'[i] = values[i]
           Room == 2 * length' <= capacity' /\ Kept
<1>1. IInv /\ [Next]_vars => [capacity' < capacity /\ outcome' # "none" => Room]_vars
  <2> SUFFICES ASSUME IInv, Next, capacity' < capacity, outcome' # "none"
               PROVE  Room
    OBVIOUS
  <2>0. capacity \in Nat /\ length \in Nat /\ pending \in Nat
    BY DEF IInv, TypeOK
  <2>1. ASSUME NEW init \in InitCapacities, NEW max \in MaxCapacities, New(init, max)
        PROVE  Room
    BY <2>1, ValuesAssumption DEF New
  <2>2. ASSUME NEW v \in Values, Append_(v) PROVE Room
    BY <2>0, <2>2, AppendEffect DEF Append_, Idle, Live
  <2>3. ASSUME NEW n \in 1 .. GrowMax, Grow(n) PROVE Room
    BY <2>0, <2>3 DEF Grow
  <2>4. CASE GrowStep
    BY <2>0, <2>4, AppendEffect, ValuesAssumption DEF GrowStep, IInv, GrowOnlyLive
  <2>5. CASE Pop
    <3>1. length - 1 \in Nat /\ length - 1 <= length
      BY <2>0, <2>5 DEF Pop
    <3> QED BY <2>5, <3>1, ShrinkEffect DEF Pop, Idle, Live
  <2>6. ASSUME NEW n \in 0 .. length, Shrink(n) PROVE Room
    <3>1. length - n \in Nat /\ length - n <= length
      BY <2>0, <2>6
    <3> QED BY <2>6, <3>1, ShrinkEffect DEF Shrink, Idle, Live
  <2>7. CASE Free
    BY <2>7 DEF Free
  <2> QED BY <2>1, <2>2, <2>3, <2>4, <2>5, <2>6, <2>7 DEF Next
<1> QED BY <1>1, Invariance, PTL DEF Spec, ShrinkKeepsRoom
-----------------------------------------------------------------------------
(* Doublings form a chain: of two capacities made from the initial one, one  *)
(* is made from the other.                                                  *)
Closed(S) == \A e \in S : 2 * e <= max_capacity => 2 * e \in S

LEMMA DoubledStart == \A c : IsDoubled(c, c)
BY DEF IsDoubled

LEMMA DoubledOnce ==
  ASSUME NEW c, NEW d, IsDoubled(c, d), 2 * d <= max_capacity
  PROVE  IsDoubled(c, 2 * d)
BY DEF IsDoubled

LEMMA DoubledNext ==
  ASSUME max_capacity \in Nat, NEW c \in 1 .. max_capacity, NEW d \in 1 .. max_capacity,
         IsDoubled(c, d), c # d
  PROVE  2 * c <= max_capacity /\ IsDoubled(2 * c, d)
<1>1. 2 * c <= max_capacity
  <2> SUFFICES ASSUME ~(2 * c <= max_capacity) PROVE FALSE
    OBVIOUS
  <2>1. {c} \in SUBSET (1 .. max_capacity) /\ Closed({c})
    BY DEF Closed
  <2> QED BY <2>1 DEF IsDoubled, Closed
<1>2. ASSUME NEW S \in SUBSET (1 .. max_capacity), 2 * c \in S, Closed(S) PROVE d \in S
  <2>1. S \cup {c} \in SUBSET (1 .. max_capacity) /\ Closed(S \cup {c})
    BY <1>2 DEF Closed
  <2> QED BY <2>1 DEF IsDoubled, Closed
<1> QED BY <1>1, <1>2 DEF IsDoubled, Closed

(* What is made by doublings is at least as large.                           *)
LEMMA DoubledGrows ==
  ASSUME max_capacity \in Nat, NEW c \in 1 .. max_capacity, NEW d \in 1 .. max_capacity, IsDoubled(c, d)
  PROVE  c <= d
<1> DEFINE S == {e \in 1 .. max_capacity : c <= e}
<1>1. S \in SUBSET (1 .. max_capacity) /\ c \in S /\ Closed(S)
  BY DEF Closed
<1> QED BY <1>1 DEF IsDoubled, Closed

LEMMA DoubledChain ==
  ASSUME max_capacity \in Nat, NEW m \in 1 .. max_capacity,
         NEW c \in 1 .. max_capacity, NEW d \in 1 .. max_capacity, IsDoubled(m, c), IsDoubled(m, d)
  PROVE  IsDoubled(c, d) \/ IsDoubled(d, c)
<1> DEFINE S == {e \in 1 .. max_capacity : IsDoubled(c, e) \/ IsDoubled(e, c)}
<1>1. S \in SUBSET (1 .. max_capacity) /\ m \in S
  OBVIOUS
<1>2. ASSUME NEW e \in S, 2 * e <= max_capacity PROVE 2 * e \in S
  <2>1. 2 * e \in 1 .. max_capacity
    BY <1>2
  <2>2. CASE IsDoubled(c, e)
    BY <1>2, <2>1, <2>2, DoubledOnce
  <2>3. CASE e = c
    BY <1>2, <2>1, <2>3, DoubledStart, DoubledOnce
  <2>4. CASE e # c /\ IsDoubled(e, c)
    <3>1. IsDoubled(2 * e, c)
      BY <1>1, <2>4, DoubledNext
    <3> QED BY <2>1, <3>1
  <2> QED BY <2>2, <2>3, <2>4
<1>3. d \in S
  BY <1>1, <1>2 DEF IsDoubled
<1> QED BY <1>3

(* Half of a capacity that is larger than the initial one was made before.    *)
LEMMA DoubledHalf ==
  ASSUME max_capacity \in Nat, NEW m \in 1 .. max_capacity, NEW c \in 1 .. max_capacity,
         IsDoubled(m, c), c # m
  PROVE  c \div 2 \in 1 .. max_capacity /\ IsDoubled(m, c \div 2)
<1> DEFINE Made(e) == e \in 1 .. max_capacity /\ IsDoubled(m, e)
           S == {e \in 1 .. max_capacity : Made(e) /\ (e = m \/ \E h \in 1 .. max_capacity : Made(h) /\ e = 2 * h)}
<1>1. S \in SUBSET (1 .. max_capacity) /\ m \in S
  BY DoubledStart
<1>2. ASSUME NEW e \in S, 2 * e <= max_capacity PROVE 2 * e \in S
  <2>1. 2 * e \in 1 .. max_capacity
    BY <1>2
  <2>2. Made(e) /\ Made(2 * e)
    BY <1>2, <2>1, DoubledOnce
  <2> HIDE DEF Made
  <2> QED BY <2>1, <2>2
<1>3. c \in S
  BY <1>1, <1>2 DEF IsDoubled
<1>4. PICK h \in 1 .. max_capacity : IsDoubled(m, h) /\ c = 2 * h
  BY <1>3
<1>5. c \div 2 = h
  BY <1>4
<1> QED BY <1>4, <1>5

(* The capacity is the initial one, doubled some number of times; and after a *)
(* refusal the next doubling would pass the maximum.                         *)
MadeByDoubling == Live => IsDoubled(min_capacity, capacity)
NoRoom == outcome = "refused" => length = capacity /\ 2 * capacity > max_capacity

LEMMA AppendMade ==
  ASSUME IInv, Live, MadeByDoubling, NEW v \in Values, AppendValue(v), UNCHANGED <<max_capacity, min_capacity>>
  PROVE  MadeByDoubling' /\ NoRoom'
<1>1. /\ capacity \in Nat /\ max_capacity \in Nat
      /\ IsDoubled(min_capacity, capacity)
  BY DEF IInv, TypeOK, MadeByDoubling
<1>2. \/ capacity' = capacity /\ (outcome' = "refused" => length' = capacity /\ 2 * capacity > max_capacity)
      \/ capacity' = 2 * capacity /\ 2 * capacity <= max_capacity /\ outcome' = "ok"
  BY <1>1 DEF AppendValue, LIST_GROWTH_FACTOR
<1>3. IsDoubled(min_capacity, capacity')
  BY <1>1, <1>2, DoubledOnce
<1> QED BY <1>2, <1>3 DEF MadeByDoubling, NoRoom, IsDoubled

LEMMA ShrinkMade ==
  ASSUME IInv, Live, MadeByDoubling, NEW len \in Nat, len <= length, ShrinkTo(len),
         UNCHANGED <<max_capacity, min_capacity>>
  PROVE  MadeByDoubling' /\ NoRoom'
<1>1. /\ capacity \in Nat /\ max_capacity \in Nat /\ min_capacity \in Nat
      /\ 0 < min_capacity /\ min_capacity <= capacity /\ capacity <= max_capacity
      /\ IsDoubled(min_capacity, capacity)
  BY DEF IInv, TypeOK, CapacityInv, MadeByDoubling, Live
<1>2. /\ outcome' = "ok"
      /\ capacity' = capacity \/ (capacity' = capacity \div 2 /\ capacity \div 2 >= min_capacity)
  BY DEF ShrinkTo, LIST_GROWTH_FACTOR
<1>3. IsDoubled(min_capacity, capacity')
  <2>1. CASE capacity' = capacity
    BY <1>1, <2>1
  <2>2. CASE (capacity' = capacity \div 2) /\ (capacity \div 2 >= min_capacity)
    <3>1. capacity # min_capacity
      BY <1>1, <2>2
    <3> QED BY <1>1, <2>2, <3>1, DoubledHalf
  <2> QED BY <1>2, <2>1, <2>2
<1> QED BY <1>2, <1>3 DEF MadeByDoubling, NoRoom, IsDoubled

LEMMA StepMade == IInv /\ MadeByDoubling /\ NoRoom /\ [Next]_vars => MadeByDoubling' /\ NoRoom'
<1> SUFFICES ASSUME IInv, MadeByDoubling, NoRoom, [Next]_vars PROVE MadeByDoubling' /\ NoRoom'
  OBVIOUS
<1>0. length \in Nat /\ pending \in Nat /\ Zero \in Values
  BY ValuesAssumption DEF IInv, TypeOK
<1>1. ASSUME NEW init \in InitCapacities, NEW max \in MaxCapacities, New(init, max)
      PROVE  MadeByDoubling' /\ NoRoom'
  BY <1>1 DEF New, MadeByDoubling, NoRoom, IsDoubled
<1>2. ASSUME NEW v \in Values, Append_(v) PROVE MadeByDoubling' /\ NoRoom'
  BY <1>2, AppendMade DEF Append_, Idle, Live
<1>3. ASSUME NEW n \in 1 .. GrowMax, Grow(n) PROVE MadeByDoubling' /\ NoRoom'
  BY <1>3 DEF Grow, MadeByDoubling, NoRoom, IsDoubled, Live
<1>4. CASE GrowStep
  BY <1>0, <1>4, AppendMade DEF GrowStep, IInv, GrowOnlyLive
<1>5. CASE Pop
  <2>1. length - 1 \in Nat /\ length - 1 <= length
    BY <1>0, <1>5 DEF Pop
  <2> QED BY <1>5, <2>1, ShrinkMade DEF Pop, Idle, Live
<1>6. ASSUME NEW n \in 0 .. length, Shrink(n) PROVE MadeByDoubling' /\ NoRoom'
  <2>1. length - n \in Nat /\ length - n <= length
    BY <1>0, <1>6
  <2> QED BY <1>6, <2>1, ShrinkMade DEF Shrink, Idle, Live
<1>7. CASE Free
  BY <1>7 DEF Free, MadeByDoubling, NoRoom, Live
<1>8. CASE UNCHANGED vars
  BY <1>8 DEF vars, MadeByDoubling, NoRoom, IsDoubled, Live
<1> QED BY <1>1, <1>2, <1>3, <1>4, <1>5, <1>6, <1>7, <1>8 DEF Next

(* An append is refused only when more than half of the maximum is in use, and *)
(* if the maximum is the initial capacity doubled some number of times, only   *)
(* when the vector is full to its maximum: the comparison of push_heap and     *)
(* push_array with max_capacity is then enough, whatever growths and halvings  *)
(* came before.                                                               *)
THEOREM RefusalJustified == Spec => []RefusedOnlyFull
<1>1. Init => MadeByDoubling /\ NoRoom
  BY DEF Init, MadeByDoubling, NoRoom, Live
<1>2. IInv /\ MadeByDoubling /\ NoRoom => RefusedOnlyFull
  <2> SUFFICES ASSUME IInv, MadeByDoubling, NoRoom, outcome = "refused", DoubledInit
               PROVE  capacity = max_capacity
    BY DEF RefusedOnlyFull, NoRoom, IInv, PastHalf
  <2>1. /\ max_capacity \in Nat /\ min_capacity \in 1 .. max_capacity
        /\ capacity \in 1 .. max_capacity /\ max_capacity \in 1 .. max_capacity
    BY DEF IInv, TypeOK, CapacityInv
  <2>2. IsDoubled(capacity, max_capacity) \/ IsDoubled(max_capacity, capacity)
    BY <2>1, DoubledChain DEF MadeByDoubling, Live, DoubledInit
  <2>3. IsDoubled(max_capacity, capacity) => max_capacity <= capacity
    BY <2>1, DoubledGrows
  <2>4. IsDoubled(capacity, max_capacity) => capacity = max_capacity
    BY <2>1, DoubledNext DEF NoRoom
  <2> QED BY <2>1, <2>2, <2>3, <2>4
<1> QED BY <1>1, <1>2, StepMade, Invariance, PTL DEF Spec
-----------------------------------------------------------------------------
(* The refinement: a vector step is a step of the list or leaves it alone. *)
LEMMA ElementsSeq == ASSUME IInv, Live PROVE Elements \in Seq(Values) /\ Len(Elements) = length
<1>1. /\ length \in Nat /\ capacity \in Nat /\ length <= capacity
      /\ values \in [0 .. capacity - 1 -> Values]
  BY DEF IInv, TypeOK, CapacityInv, Live
<1>2. \A i \in 1 .. length : values[i - 1] \in Values
  <2> TAKE i \in 1 .. length
  <2>1. i - 1 \in 0 .. capacity - 1
    BY <1>1
  <2> QED BY <1>1, <2>1
<1> QED BY <1>1, <1>2 DEF Elements

LEMMA AppendRefines ==
  ASSUME IInv, Live, NEW v \in Values, AppendValue(v), IInv'
  PROVE  \/ outcome' = "ok" /\ Elements' = Append(Elements, v)
         \/ outcome' = "refused" /\ 2 * Len(Elements) > max_capacity /\ Elements' = Elements
<1>1. Elements \in Seq(Values) /\ Len(Elements) = length /\ length \in Nat
  BY ElementsSeq DEF IInv, TypeOK
<1>2. CASE outcome' = "refused"
  BY <1>1, <1>2, AppendEffect DEF Elements
<1>3. CASE outcome' = "ok"
  <2>1. /\ length' = length + 1 /\ values'[length] = v
        /\ \A i \in 0 .. length - 1 : values'[i] = values[i]
    BY <1>3, AppendEffect
  <2>2. Elements' \in Seq(Values) /\ Len(Elements') = length + 1
    <3>1. Elements' = [i \in 1 .. length' |-> values'[i - 1]]
      BY DEF Elements
    <3>2. /\ length' <= capacity' /\ capacity' \in Nat
          /\ values' \in [0 .. capacity' - 1 -> Values]
      BY AppendEffect
    <3>3. \A i \in 1 .. length' : values'[i - 1] \in Values
      <4> TAKE i \in 1 .. length'
      <4>1. i - 1 \in 0 .. capacity' - 1
        BY <1>1, <2>1, <3>2
      <4> QED BY <3>2, <4>1
    <3> QED BY <1>1, <2>1, <3>1, <3>3, SMTT(30)
  <2>3. \A i \in 1 .. length + 1 : Elements'[i] = Append(Elements, v)[i]
    <3> TAKE i \in 1 .. length + 1
    <3>1. Elements'[i] = values'[i - 1]
      BY <1>1, <2>1 DEF Elements
    <3>2. CASE i = length + 1
      BY <1>1, <2>1, <3>1, <3>2
    <3>3. CASE i \in 1 .. length
      <4>1. i - 1 \in 0 .. length - 1
        BY <1>1, <3>3
      <4> QED BY <1>1, <2>1, <3>1, <3>3, <4>1 DEF Elements
    <3> QED BY <1>1, <3>2, <3>3
  <2> QED BY <1>1, <1>3, <2>2, <2>3
<1> QED BY <1>2, <1>3, AppendEffect

LEMMA ShrinkRefines ==
  ASSUME IInv, Live, NEW len \in Nat, len <= length, ShrinkTo(len), IInv'
  PROVE  Elements' = SubSeq(Elements, 1, len) /\ outcome' = "ok"
<1>1. Elements \in Seq(Values) /\ Len(Elements) = length /\ length \in Nat
  BY ElementsSeq DEF IInv, TypeOK
<1>2. /\ length' = len /\ outcome' = "ok"
      /\ \A i \in 0 .. len - 1 : values'[i] = values[i]
  BY ShrinkEffect
<1>3. Elements' = [i \in 1 .. len |-> values'[i - 1]]
  BY <1>2 DEF Elements
<1>4. \A i \in 1 .. len : values'[i - 1] = Elements[i]
  <2> TAKE i \in 1 .. len
  <2>1. i - 1 \in 0 .. len - 1 /\ i \in 1 .. length
    BY <1>1
  <2> QED BY <1>2, <2>1 DEF Elements
<1>5. SubSeq(Elements, 1, len) = [i \in 1 .. len |-> Elements[i]]
  BY <1>1
<1> QED BY <1>2, <1>3, <1>4, <1>5

LEMMA EmptyElements == length = 0 => Elements = <<>>
BY DEF Elements

(* Vector implements BoundedList: reallocation is invisible, pops return   *)
(* the last value appended, and the only failure is the refusal past half  *)
(* of the maximum (or a vector_new whose assert fails).                    *)
THEOREM Refinement == Spec => ImplementsBoundedList
<1>1. Init => List!Init
  BY EmptyElements DEF Init, List!Init
<1>2. IInv /\ IInv' /\ [Next]_vars => [List!Next]_(List!vars)
  <2> SUFFICES ASSUME IInv, IInv', [Next]_vars PROVE [List!Next]_(List!vars)
    OBVIOUS
  <2> USE DEF List!Usable
  <2>1. ASSUME NEW init \in InitCapacities, NEW max \in MaxCapacities, New(init, max)
        PROVE  List!Next
    BY <2>1, ValuesAssumption DEF New, List!Create, Elements, List!Next
  <2>2. ASSUME NEW v \in Values, Append_(v) PROVE List!Next
    BY <2>2, AppendRefines DEF Append_, Idle, Live, List!Add, List!Refuse, List!Next
  <2>3. ASSUME NEW n \in 1 .. GrowMax, Grow(n) PROVE UNCHANGED List!vars
    BY <2>3 DEF Grow, List!vars, Elements
  <2>4. CASE GrowStep
    <3>1. Live
      BY <2>4 DEF GrowStep, IInv, GrowOnlyLive
    <3> QED BY <2>4, <3>1, AppendRefines, ValuesAssumption
            DEF GrowStep, Live, List!Add, List!Refuse, List!Next
  <2>5. CASE Pop
    <3>1. /\ length \in Nat /\ length - 1 \in Nat /\ length - 1 <= length /\ Live
          /\ length > 0 /\ ShrinkTo(length - 1) /\ returned' = values[length - 1]
          /\ UNCHANGED max_capacity
      BY <2>5 DEF Pop, Idle, Live, IInv, TypeOK
    <3>2. /\ Elements' = SubSeq(Elements, 1, length - 1) /\ outcome' = "ok"
          /\ Elements \in Seq(Values) /\ Len(Elements) = length
      BY <3>1, ShrinkRefines, ElementsSeq
    <3>3. Elements # <<>> /\ Elements[Len(Elements)] = values[length - 1]
      BY <3>1, <3>2 DEF Elements
    <3> QED BY <3>1, <3>2, <3>3 DEF Live, List!TakeLast, List!Next
  <2>6. ASSUME NEW n \in 0 .. length, Shrink(n) PROVE List!Next
    <3>1. /\ length \in Nat /\ length - n \in Nat /\ length - n <= length /\ Live
          /\ ShrinkTo(length - n) /\ UNCHANGED <<max_capacity, returned>>
      BY <2>6 DEF Shrink, Idle, Live, IInv, TypeOK
    <3>2. /\ Elements' = SubSeq(Elements, 1, length - n) /\ outcome' = "ok"
          /\ Len(Elements) = length
      BY <3>1, ShrinkRefines, ElementsSeq
    <3> QED BY <3>1, <3>2 DEF Live, List!DropLast, List!Next
  <2>7. CASE Free
    BY <2>7 DEF Free, Idle, List!Destroy, Elements, List!Next
  <2>8. CASE UNCHANGED vars
    BY <2>8 DEF vars, List!vars, Elements
  <2> HIDE DEF List!Usable
  <2> QED BY <2>1, <2>2, <2>3, <2>4, <2>5, <2>6, <2>7, <2>8 DEF Next
<1> QED BY <1>1, <1>2, Invariance, PTL DEF Spec, ImplementsBoundedList, List!Spec
=============================================================================
