------------------------------- MODULE Sequence -------------------------------
(***************************************************************************)
(* What linkedlist.h promises: a sequence of values, changed at both ends   *)
(* or turned around.                                                        *)
(***************************************************************************)
EXTENDS Integers, Sequences

CONSTANTS Values, NULL      \* NULL is not a value

VARIABLES
  contents,   \* the values, first to last
  returned    \* result of the last operation, NULL if it has none

sequence == <<contents, returned>>

SequenceInit == contents = << >> /\ returned = NULL

AppendValue(v) == contents' = Append(contents, v) /\ returned' = NULL
PrependValue(v) == contents' = <<v>> \o contents /\ returned' = NULL

PopLast ==
  IF contents = << >> THEN returned' = NULL /\ UNCHANGED contents
  ELSE /\ returned' = contents[Len(contents)]
       /\ contents' = [i \in 1 .. Len(contents) - 1 |-> contents[i]]

TurnAround ==
  /\ contents' = [i \in 1 .. Len(contents) |-> contents[Len(contents) + 1 - i]]
  /\ returned' = NULL

SequenceNext == (\E v \in Values : AppendValue(v) \/ PrependValue(v)) \/ PopLast \/ TurnAround
SequenceSpec == SequenceInit /\ [][SequenceNext]_sequence
=============================================================================
