-------------------------------- MODULE MCVM --------------------------------
(* The virtual machine, with the shapes of the code of its programs.          *)
EXTENDS Inference, Samples

(* The LETs keep TLC's coverage report from descending into the compiler at  *)
(* every use of the constant Programs.                                       *)
MCShapes == LET shapes == [p \in DOMAIN Loaded |-> ShapesOf(p)] IN shapes
MCResults == {0, 2}
MCFloatInts == {0, 1}
-----------------------------------------------------------------------------
(* Small stacks and a small heap, and programs that reach undefined cases.    *)
MCLimitPrograms == LET programs == CompiledOnes(StatementPrograms(1) \o <<TwoBlocks>> \o Hazards(STACK_MAX, INT_MAX)) IN programs

MCUnsetInt == LET programs == CompiledOnes(<<UnsetInt>>) IN programs
MCUnaryPlus == LET programs == CompiledOnes(<<UnaryPlus>>) IN programs
MCNullStore == LET programs == CompiledOnes(<<NullStore>>) IN programs
MCDeepFetch == LET programs == CompiledOnes(<<DeepFetch(STACK_MAX)>>) IN programs

(* README.md: a variable that is not set defaults to 0.  The program prints    *)
(* one variable, which it never sets.                                        *)
UnsetDefaultsToZero == \A i \in 1 .. Len(out) : out[i].type = TYPE_INT => out[i].vals = <<0>>

(* vm.c, at push: a push that is not preceded by as many pops checks for       *)
(* overflow.                                                                 *)
PushesCheckOverflow == control = "running" => ~Overrun

(* vm.c, in pop: assert(stack->offset > 0).                                   *)
PopsFindValues == control = "running" => ~Underflow

(* vector.h, in vector_get and vector_set: assert(i < vector->length).         *)
HeapIndexed == control = "running" => ~BadReference
=============================================================================
