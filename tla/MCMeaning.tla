------------------------------- MODULE MCMeaning -------------------------------
(* The virtual machine on every accepted program of two sample statements,    *)
(* beside the meaning of these programs.                                     *)
EXTENDS MCVM, SequencesExt

CONSTANT Meanings       \* the runs that each of Programs means

(* The programs, as trees and compiled, and in the same order what they mean.   *)
(* TLC evaluates Evaluated once; the LETs are for its coverage report, as in     *)
(* module MCVM.                                                              *)
Trees == LET trees == AcceptedOnes(StatementPrograms(2)) IN trees
MCPrograms == LET programs == Map(Compiled, Trees) IN programs

Meant == INSTANCE Semantics
MeaningOf(checked) == Meant!Meaning(checked.tlds)
Evaluated == Map(MeaningOf, Trees)
MCMeanings == LET meanings == Evaluated IN meanings
-----------------------------------------------------------------------------
(* What the machine printed, as far as its meaning says: the bytes of a string *)
(* and the fields of an object without the types words between them.          *)
PrintedBy(o) ==
  CASE o.type = TYPE_STRING -> pool[o.vals[1] + 1]
    [] is_object(o.type) ->
         LET offsets == SetToSortSeq(DOMAIN o.vals, <)
             types == Meant!FieldTypesOf(Tlds(<<NodeClass, WideClass>>, << >>), o.type, Len(offsets))
         IN  [i \in 1 .. Len(offsets) |-> Meant!Visible(types[i], o.vals[offsets[i]])]
    [] OTHER -> <<Meant!Visible(o.type, o.vals[1])>>
MachineOut == [i \in 1 .. Len(out) |-> [type |-> out[i].type, shown |-> PrintedBy(out[i])]]

(* A stack is full, or the heap might be too full for one more object.         *)
Exhausted == (\E s \in Kinds : Full(s)) \/ Len(heap) + COUNT_LIMIT > HEAP_MAX

(* A program does what it says: bytecode, slots, jumps and calling convention   *)
(* together print, in order, what an interpreter of the tree prints, and fail  *)
(* where it fails; unless the machine has run out of memory, which stops the    *)
(* program early but prints nothing wrong.  (References in what is printed     *)
(* are compared as null or not null.)                                        *)
MeansWhatItSays ==
  control = "host" /\ status \in {"COMPLETED", "ERROR"} =>
    \E run \in Meanings[prog] :
      \/ MachineOut = run.out /\ run.error = (status = "ERROR")
      \/ status = "ERROR" /\ Exhausted /\ IsPrefix(MachineOut, run.out)
=============================================================================
