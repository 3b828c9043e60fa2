------------------------------ MODULE Vector ------------------------------
(***************************************************************************)
(* The growable array of vector.c, used for the VM heap and for the        *)
(* compiler's instruction stream.  A doubling that would pass the maximum  *)
(* is refused with a NULL that no caller looks at; a removal halves the    *)
(* array when at most a quarter of it is used, down to the initial size.   *)
(* vector_grow is a loop of appends, one step each.                        *)
(***************************************************************************)
EXTENDS Naturals, Sequences

CONSTANTS
  Values,          \* DelValues a caller may store
  Zero,            \* the all-zero DelValue of calloc and vector_grow
  NoValue,         \* no pop has returned yet
  InitCapacities,  \* capacities callers pass to vector_new
  MaxCapacities,   \* maxima callers pass to vector_new
  GrowMax          \* bound: largest n given to vector_grow

ASSUME ValuesAssumption ==
  /\ Zero \in Values
  /\ InitCapacities \subseteq Nat /\ MaxCapacities \subseteq Nat
  /\ GrowMax \in Nat

VARIABLES
  max_capacity, min_capacity, capacity, length,
  values,          \* 0 .. capacity-1 -> Values
  pending,         \* iterations left of a running vector_grow
  outcome,         \* of the last call: "none" (no vector), "ok", "refused", "aborted"
  returned         \* value of the last vector_pop

vars == <<max_capacity, min_capacity, capacity, length, values, pending, outcome, returned>>

(* Mutants: an array that grows too fast, or halves while it is half full.    *)
GrowThreefold == 3
LIST_GROWTH_FACTOR == 2
LIST_SHRINK_FACTOR == LIST_GROWTH_FACTOR * LIST_GROWTH_FACTOR

Fresh(c) == [i \in 0 .. c - 1 |-> Zero]

Init ==
  /\ max_capacity = 0 /\ min_capacity = 0 /\ capacity = 0 /\ length = 0
  /\ values = Fresh(0)
  /\ pending = 0 /\ outcome = "none" /\ returned = NoValue

(* vector_new: both asserts are live in the default build. *)
New(init, max) ==
  /\ outcome = "none"
  /\ max_capacity' = max /\ min_capacity' = init
  /\ capacity' = init /\ length' = 0
  /\ values' = Fresh(init)
  /\ outcome' = IF init <= max /\ init > 0 THEN "ok" ELSE "aborted"
  /\ UNCHANGED <<pending, returned>>

Idle == outcome \in {"ok", "refused"} /\ pending = 0

(* Mutants: the new array has room for the old elements only, or loses one.   *)
ReallocatedTight(c, len, vals) == [i \in 0 .. len - 1 |-> vals[i]]
ReallocatedShort(c, len, vals) == [i \in 0 .. c - 1 |-> IF i + 1 < len THEN vals[i] ELSE Zero]

(* internal_vector_grow: a fresh zeroed array of the new size that takes   *)
(* over the first len elements of the old one.                             *)
Reallocated(c, len, vals) == [i \in 0 .. c - 1 |-> IF i < len THEN vals[i] ELSE Zero]

(* vector_append without its caller's bookkeeping. *)
AppendValue(v) ==
  LET full == length = capacity
      grown == IF full THEN capacity * LIST_GROWTH_FACTOR ELSE capacity
  IN  IF full /\ grown > max_capacity
      THEN outcome' = "refused" /\ UNCHANGED <<capacity, length, values>>
      ELSE /\ capacity' = grown
           /\ values' = [(IF full THEN Reallocated(grown, length, values) ELSE values)
                           EXCEPT ![length] = v]
           /\ length' = length + 1
           /\ outcome' = "ok"

Append_(v) ==
  /\ Idle
  /\ AppendValue(v)
  /\ UNCHANGED <<max_capacity, min_capacity, pending, returned>>

Grow(n) ==
  /\ Idle
  /\ pending' = n
  /\ UNCHANGED <<max_capacity, min_capacity, capacity, length, values, outcome, returned>>

GrowStep ==
  /\ pending > 0
  /\ AppendValue(Zero)
  /\ pending' = pending - 1
  /\ UNCHANGED <<max_capacity, min_capacity, returned>>

(* Mutant: the initial capacity is no lower limit.                            *)
ShrinkToAny(len) ==
  LET halved == capacity \div LIST_GROWTH_FACTOR
      shrinks == LIST_SHRINK_FACTOR * len <= capacity
  IN  /\ length' = len
      /\ capacity' = IF shrinks THEN halved ELSE capacity
      /\ values' = IF shrinks THEN Reallocated(halved, len, values) ELSE values
      /\ outcome' = "ok"

(* vector_shrink_internal, run with the length already reduced to len. *)
ShrinkTo(len) ==
  LET halved == capacity \div LIST_GROWTH_FACTOR
      shrinks == LIST_SHRINK_FACTOR * len <= capacity /\ halved >= min_capacity
  IN  /\ length' = len
      /\ capacity' = IF shrinks THEN halved ELSE capacity
      /\ values' = IF shrinks THEN Reallocated(halved, len, values) ELSE values
      /\ outcome' = "ok"

Pop ==
  /\ Idle
  /\ length > 0                          \* assert in vector_pop, the caller's duty
  /\ returned' = values[length - 1]
  /\ ShrinkTo(length - 1)
  /\ UNCHANGED <<max_capacity, min_capacity, pending>>

Shrink(n) ==
  /\ Idle
  /\ n <= length                         \* assert in vector_shrink, the caller's duty
  /\ ShrinkTo(length - n)
  /\ UNCHANGED <<max_capacity, min_capacity, pending, returned>>

Free ==
  /\ Idle
  /\ max_capacity' = 0 /\ min_capacity' = 0 /\ capacity' = 0 /\ length' = 0
  /\ values' = Fresh(0) /\ outcome' = "none"
  /\ UNCHANGED <<pending, returned>>

Next ==
  \/ \E init \in InitCapacities, max \in MaxCapacities : New(init, max)
  \/ \E v \in Values : Append_(v)
  \/ \E n \in 1 .. GrowMax : Grow(n)
  \/ GrowStep
  \/ Pop
  \/ \E n \in 0 .. length : Shrink(n)
  \/ Free

Spec == Init /\ [][Next]_vars
-----------------------------------------------------------------------------
(* Shape of the state: the array has exactly capacity cells. *)
TypeOK ==
  /\ max_capacity \in Nat /\ min_capacity \in Nat
  /\ capacity \in Nat /\ length \in Nat /\ pending \in Nat
  /\ values \in [0 .. capacity - 1 -> Values]
  /\ outcome \in {"none", "ok", "refused", "aborted"}
  /\ returned \in Values \cup {NoValue}

(* No element is ever outside the allocation, and the allocation stays     *)
(* between the initial and the maximal capacity, whatever mix of doublings *)
(* and halvings led here (memcpy in internal_vector_grow relies on it).    *)
CapacityInv ==
  outcome \in {"ok", "refused"} =>
    /\ 0 < min_capacity /\ min_capacity <= capacity /\ capacity <= max_capacity
    /\ length <= capacity

(* A halving never drops an element and leaves at least half of the new    *)
(* array free, so the next append cannot double it straight back.          *)
ShrinkKeepsRoom ==
  [][capacity' < capacity /\ outcome' # "none" =>
       /\ 2 * length' <= capacity'
       /\ \A i \in 0 .. length' - 1 : values'[i] = values[i]]_vars

(* The capacities that are made from c by doublings within the maximum: the   *)
(* least set with c in it that the doublings do not leave.                  *)
IsDoubled(c, d) ==
  \A S \in SUBSET (1 .. max_capacity) :
    (c \in S /\ \A e \in S : 2 * e <= max_capacity => 2 * e \in S) => d \in S

DoubledInit == IsDoubled(min_capacity, max_capacity)

(* vector_append returns NULL only when more than half of the maximum is   *)
(* in use: the doubling rule can waste at most that much.  push_heap and   *)
(* push_array check only length + count <= max_capacity and ignore the     *)
(* result, which is enough when the maximum is the initial capacity doubled *)
(* some number of times, as the commented-out HEAP_MAX of settings.h (1024  *)
(* from 128) is: then only a full vector refuses.                           *)
RefusedOnlyFull ==
  outcome = "refused" =>
    /\ 2 * length > max_capacity
    /\ DoubledInit => length = max_capacity

(* vector.h: "if max_capacity given is 0, allow vector to grow unbounded". *)
ZeroMaxMeansUnbounded ==
  max_capacity = 0 /\ min_capacity > 0 => outcome # "aborted"

(* A struct Vector behaves like the bounded list of module BoundedList. *)
Elements == [i \in 1 .. length |-> values[i - 1]]

List == INSTANCE BoundedList WITH
  list <- Elements, limit <- max_capacity

ImplementsBoundedList == List!Spec
=============================================================================
