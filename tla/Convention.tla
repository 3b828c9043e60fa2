----------------------------- MODULE Convention -----------------------------
(***************************************************************************)
(* The calling convention and the stack discipline of compiler.c, as a      *)
(* condition on code that looks at one instruction at a time.               *)
(*                                                                         *)
(* A shape says what the machine holds before an instruction, as far as its  *)
(* function is concerned: what the function has on the two stacks, how many  *)
(* of its variables are counted at least, and what it returns.  Disciplined  *)
(* requires of every instruction that the shapes of what may run next follow *)
(* from its own.  The machine is then free of the mistakes a stack machine   *)
(* can make, however the code came about (module ConventionProofs); Shapes   *)
(* are found for the compiler's code in module Inference.                   *)
(***************************************************************************)
EXTENDS VM

CONSTANT Shapes     \* for each program, the shape before each location that control reaches

Known == Shapes     \* evaluated once, as Loaded is

(* What is known of a cell on the stack of plain values: nothing, that it is  *)
(* the return address of the running function, or which cell it is.          *)
Opaque == [tag |-> "opaque"]
Ret == [tag |-> "return"]
Abstract == Cell \cup {Opaque, Ret}
Opaques(n) == [i \in 1 .. n |-> Opaque]

Shape == [val : Seq(Abstract),         \* the function's part of the stack
          obj : Nat,                   \* the size of its part of stack_obj
          entering : BOOLEAN,          \* between PUSH_SCOPE and POP_SCOPE
          main : BOOLEAN,              \* in the code that calls main
          defined : [Kinds -> Nat],    \* variables counted, at least
          gives : [Kinds -> Nat]]      \* what the function leaves when it returns

(* The shape sh implies the shape known at a location.                        *)
Leads(p, location, sh) ==
  /\ location \in DOMAIN Known[p]
  /\ LET next == Known[p][location]
     IN  /\ next.val = sh.val /\ next.obj = sh.obj
         /\ next.entering = sh.entering /\ next.main = sh.main /\ next.gives = sh.gives
         /\ \A s \in Kinds : next.defined[s] <= sh.defined[s]
-----------------------------------------------------------------------------
(* What an instruction does to the heights of the stacks.                    *)

(* Values popped and pushed, references popped and pushed.                    *)
Effect(op) ==
  CASE op \in Binary \cup FloatBinary             -> <<2, 1, 0, 0>>
    [] op \in Unary                               -> <<1, 1, 0, 0>>
    [] op = "GET_LOCAL"                           -> <<0, 1, 0, 0>>
    [] op \in {"POP", "SET_LOCAL"}                -> <<1, 0, 0, 0>>
    [] op \in {"EQ_OBJ", "NEQ_OBJ"}               -> <<0, 1, 2, 0>>
    [] op \in {"LEN_ARRAY", "GET_HEAP"}           -> <<0, 1, 1, 0>>
    [] op = "GET_ARRAY"                           -> <<1, 1, 1, 0>>
    [] op = "SET_HEAP"                            -> <<1, 0, 1, 0>>
    [] op = "SET_ARRAY"                           -> <<2, 0, 1, 0>>
    [] op = "PUSH_ARRAY"                          -> <<2, 0, 0, 1>>
    [] op = "CAST_BYTE_ARRAY"                     -> <<1, 0, 0, 1>>
    [] op \in {"PUSH_OBJ", "GET_LOCAL_OBJ"}       -> <<0, 0, 0, 1>>
    [] op = "DUP_OBJ"                             -> <<0, 0, 1, 2>>
    [] op \in {"POP_OBJ", "SET_LOCAL_OBJ"}        -> <<0, 0, 1, 0>>
    [] op = "SWAP_OBJ"                            -> <<0, 0, 2, 2>>
    [] op = "GET_HEAP_OBJ"                        -> <<0, 0, 1, 1>>
    [] op = "SET_HEAP_OBJ"                        -> <<0, 0, 2, 0>>
    [] op = "GET_ARRAY_OBJ"                       -> <<1, 0, 1, 1>>
    [] op = "SET_ARRAY_OBJ"                       -> <<1, 0, 2, 0>>
    [] op = "YIELD"                               -> <<0, 0, 0, 0>>

(* The other instructions have a rule of their own.                          *)
Special == {"PUSH", "DUP", "SWAP", "PRINT", "PUSH_HEAP", "CALL", "DEFINE", "DEFINE_OBJ", "JNE",
            "JMP", "PUSH_SCOPE", "POP_SCOPE", "RET", "EXIT"}

(* After n cells were popped and others pushed on the stack, and m cells on  *)
(* stack_obj replaced by k.                                                  *)
Enough(sh, n, m) == n <= Len(sh.val) /\ m <= sh.obj
After(sh, n, cells, m, k) ==
  [sh EXCEPT !.val = SubSeq(@, 1, Len(@) - n) \o cells, !.obj = @ - m + k]
Counted(sh, s) == [sh EXCEPT !.defined[s] = @ + 1]

TopOf(sh, k) == sh.val[Len(sh.val) - k]
IsNum(a) == a.tag = "num"

(* The stack each cell that PUSH_HEAP pops comes from, read off the types    *)
(* words, which are pushed as constants.                                     *)
PoppedOf(sh, k, i) == TopOf(sh, Taken(k, k[i], i))
LaidOut(sh, k, n) ==
  /\ k \in [0 .. n - 1 -> Kinds]
  /\ Enough(sh, Taken(k, "val", n), Taken(k, "obj", n))
  /\ \A i \in 0 .. n - 1 :
       IF i % 5 = 0
       THEN k[i] = "val" /\ PoppedOf(sh, k, i).tag = "types"
       ELSE k[i] = IF is_object_or_null(PoppedOf(sh, k, i - (i % 5)).types[i % 5]) THEN "obj" ELSE "val"
-----------------------------------------------------------------------------
(* The rules.  Instruction i of program p has the opcode op, the operands     *)
(* arg(1), arg(2) .. and the shape sh; next is what follows it.              *)

Cells(p) == Loaded[p].code
OpAt(p, i) == Cells(p)[i + 1].op
Arg(p, i, k) == Cells(p)[i + 1 + k]

WellFormed(p, i) ==
  /\ i \in 0 .. Len(Cells(p)) - 1 /\ Cells(p)[i + 1].tag = "op"
  /\ OpAt(p, i) \in Opcodes /\ i + Operands(OpAt(p, i)) < Len(Cells(p))
  /\ OpAt(p, i) \notin {"PUSH", "PUSH_OBJ"} =>
       \A k \in 1 .. Operands(OpAt(p, i)) : IntOf(Arg(p, i, k)) \in Nat

PlainRule(p, sh, op, next) ==
  LET e == Effect(op)
  IN  Enough(sh, e[1], e[3]) /\ Leads(p, next, After(sh, e[1], Opaques(e[2]), e[3], e[4]))

(* A function reads only variables that are counted on every path to there,  *)
(* and only functions have variables.                                        *)
LocalRule(sh, op, arg) ==
  \A s \in Kinds :
    /\ op \in LocalAccess(s) => ~sh.main
    /\ op = Of(s, "GET_LOCAL", "GET_LOCAL_OBJ") => arg < sh.defined[s]

PrintRule(p, sh, next) ==
  /\ Enough(sh, 1, 0) /\ IsNum(TopOf(sh, 0))
  /\ IF is_object_or_null(TopOf(sh, 0).val)
     THEN Enough(sh, 1, 1) /\ Leads(p, next, After(sh, 1, << >>, 1, 0))
     ELSE Enough(sh, 2, 0) /\ Leads(p, next, After(sh, 2, << >>, 0, 0))

ConstructRule(p, sh, n, next) ==
  \E k \in [0 .. n - 1 -> Kinds] :
    /\ LaidOut(sh, k, n)
    /\ Leads(p, next, After(sh, Taken(k, "val", n), << >>, Taken(k, "obj", n), 1))

(* PUSH_SCOPE; JMP f: what f takes is on the stacks, above the address of the *)
(* POP_SCOPE that follows, where f's results will be instead.                *)
CallRule(p, sh, target) ==
  /\ target \in DOMAIN Known[p]
  /\ LET callee == Known[p][target]
         below == Len(sh.val) - Len(callee.val)
         return == sh.val[below + 1]
     IN  /\ ~callee.main /\ ~callee.entering /\ \A s \in Kinds : callee.defined[s] = 0
         /\ Len(callee.val) > 0 /\ callee.val = <<Ret>> \o Opaques(Len(callee.val) - 1)
         /\ below >= 0 /\ callee.obj <= sh.obj
         /\ return.tag = "addr" /\ return.val \in DOMAIN Known[p] /\ OpAt(p, return.val) = "POP_SCOPE"
         /\ Leads(p, return.val, After(sh, Len(callee.val), Opaques(callee.gives["val"]),
                                       callee.obj, callee.gives["obj"]))

ReturnRule(sh) ==
  /\ ~sh.main /\ Len(sh.val) = sh.gives["val"] + 1 /\ TopOf(sh, 0) = Ret
  /\ sh.obj = sh.gives["obj"]

SpecialRule(p, i, sh, op, next) ==
  LET arg == IntOf(Arg(p, i, 1))
  IN  /\ op = "PUSH"       => Leads(p, next, After(sh, 0, <<Arg(p, i, 1)>>, 0, 0))
      /\ op = "DUP"        => Enough(sh, 1, 0) /\ Leads(p, next, After(sh, 0, <<Opaque>>, 0, 0))
      /\ op = "SWAP"       => Enough(sh, 2, 0) /\ Leads(p, next, After(sh, 2, <<TopOf(sh, 0), TopOf(sh, 1)>>, 0, 0))
      /\ op = "PRINT"      => PrintRule(p, sh, next)
      /\ op = "PUSH_HEAP"  => IntOf(Arg(p, i, 2)) = 0 /\ ConstructRule(p, sh, arg, next)
      /\ op = "CALL"       => Enough(sh, arg, 0) /\ Leads(p, next, After(sh, arg, <<Opaque>>, 0, 0))
      /\ op = "JNE"        => /\ Enough(sh, 1, 0)
                              /\ \A l \in {next, arg} : Leads(p, l, After(sh, 1, << >>, 0, 0))
      /\ op = "JMP"        => Leads(p, arg, sh)
      /\ op = "PUSH_SCOPE" => Leads(p, next, [sh EXCEPT !.entering = TRUE])
      /\ op = "RET"        => ReturnRule(sh)
      /\ op = "EXIT"       => sh.main /\ sh.val = << >> /\ sh.obj = 0
      /\ \A s \in Kinds : op = Of(s, "DEFINE", "DEFINE_OBJ") => ~sh.main /\ Leads(p, next, Counted(sh, s))

Follows(p, i) ==
  LET sh == Known[p][i]
      op == OpAt(p, i)
      next == i + 1 + Operands(op)
  IN  IF sh.entering
      THEN /\ op \in {"JMP", "POP_SCOPE"}
           /\ op = "JMP" => CallRule(p, sh, IntOf(Arg(p, i, 1)))
           /\ op = "POP_SCOPE" => Leads(p, next, [sh EXCEPT !.entering = FALSE])
      ELSE /\ op # "POP_SCOPE"
           /\ op \in Special => SpecialRule(p, i, sh, op, next)
           /\ op \notin Special => PlainRule(p, sh, op, next) /\ LocalRule(sh, op, IntOf(Arg(p, i, 1)))

Beginning == [val |-> << >>, obj |-> 0, entering |-> FALSE, main |-> TRUE,
              defined |-> [s \in Kinds |-> 0], gives |-> [s \in Kinds |-> 0]]

Disciplined(p) ==
  /\ Leads(p, 0, Beginning)
  /\ \A i \in DOMAIN Known[p] : Known[p][i] \in Shape /\ WellFormed(p, i) /\ Follows(p, i)

(* Every program that is handed to the machine follows the rules: each call    *)
(* site, branch and loop of the code leaves the stacks as what follows them    *)
(* expects, and a variable is counted on every path to where it is read.      *)
CodeDisciplined == control = "host" /\ status = "INITIALIZED" => Disciplined(prog)

(* What the machine may still meet in disciplined code: a push that nothing   *)
(* checks, a reference that is null or wrong, a frame beyond its slots, a     *)
(* division that traps, a value that was never set and cannot be printed.    *)
CrashesAreKnown ==
  control = "crashed" /\ Disciplined(prog) =>
    /\ ~BadInstruction /\ ~Underflow /\ ~BadLayout
    /\ \/ Overrun \/ BadReference \/ Trap \/ Unprintable \/ BadString
       \/ \E s \in Kinds : Instr \in LocalAccess(s) /\ Slot(s) >= STACK_MAX
=============================================================================
