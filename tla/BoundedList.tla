---------------------------- MODULE BoundedList ----------------------------
(***************************************************************************)
(* What a struct Vector promises to its users: a list that grows and       *)
(* shrinks at its end, gives back what was appended, last in first out,    *)
(* and may refuse an append only when it already holds more than half of   *)
(* its limit.  Capacities and reallocation are not visible here.           *)
(***************************************************************************)
EXTENDS Naturals, Sequences

CONSTANTS
  Values,   \* the DelValues a caller may store
  NoValue   \* "nothing returned yet"

VARIABLES
  list,     \* the elements, oldest first
  limit,    \* the maximum the list was created with
  outcome,  \* "none", "ok", "refused" or "aborted"
  returned  \* the value of the last pop

vars == <<list, limit, outcome, returned>>

Init == list = <<>> /\ limit = 0 /\ outcome = "none" /\ returned = NoValue

Create ==
  /\ outcome = "none"
  /\ list' = <<>>
  /\ limit' \in Nat
  /\ outcome' \in {"ok", "aborted"}
  /\ UNCHANGED returned

Usable == outcome \in {"ok", "refused"}

Add ==
  /\ Usable
  /\ \E v \in Values : list' = Append(list, v)
  /\ outcome' = "ok"
  /\ UNCHANGED <<limit, returned>>

Refuse ==
  /\ Usable
  /\ 2 * Len(list) > limit
  /\ outcome' = "refused"
  /\ UNCHANGED <<list, limit, returned>>

TakeLast ==
  /\ Usable
  /\ list # <<>>
  /\ returned' = list[Len(list)]
  /\ list' = SubSeq(list, 1, Len(list) - 1)
  /\ outcome' = "ok"
  /\ UNCHANGED limit

DropLast ==
  /\ Usable
  /\ \E n \in 0 .. Len(list) : list' = SubSeq(list, 1, Len(list) - n)
  /\ outcome' = "ok"
  /\ UNCHANGED <<limit, returned>>

Destroy ==
  /\ Usable
  /\ list' = <<>> /\ limit' = 0 /\ outcome' = "none"
  /\ UNCHANGED returned

Next == Create \/ Add \/ Refuse \/ TakeLast \/ DropLast \/ Destroy

Spec == Init /\ [][Next]_vars
=============================================================================
