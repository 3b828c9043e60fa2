-------------------------------- MODULE VM --------------------------------
(***************************************************************************)
(* The bytecode interpreter of vm.c: two operand stacks and two stacks of  *)
(* frames, one pair for plain values ("val") and one for heap references   *)
(* ("obj"), and a heap that only grows.  A step is one instruction, with   *)
(* every check it makes; a failed check stores an ERROR status and returns *)
(* to the host, which calls vm_execute again after a YIELD.                *)
(*                                                                         *)
(* Where the C code would leave its arrays, dereference something that is  *)
(* no pointer or fail an assert, the machine goes to control = "crashed";   *)
(* Defined lists those cases.  So is running a cell that is no opcode: the   *)
(* default build jumps through the table of labels of threaded_go, whose     *)
(* index nothing checks.                                                   *)
(***************************************************************************)
EXTENDS Common, FiniteSets

CONSTANTS
  Programs,        \* compiled programs: [code : Seq(Cell), pool : Seq(Seq(Nat))]
  STACK_MAX,       \* slots of each stack, frame array and frame offset array
  HEAP_MAX,        \* cells the heap may hold; reached by doubling HEAP_INIT
  COUNT_LIMIT,     \* largest object count set_count accepts
  INT_MAX,         \* largest integer; the smallest is -INT_MAX - 1
  ForeignResults,  \* integers a foreign function may return
  FloatInts        \* integers a nonzero double may truncate to

Loaded == Programs      \* TLC evaluates this definition once, the constant at every use

ASSUME VMAssumption ==
  /\ STACK_MAX \in Nat \ {0} /\ HEAP_MAX \in Nat /\ COUNT_LIMIT \in Nat /\ INT_MAX \in Nat
  /\ ForeignResults \subseteq Int /\ FloatInts \subseteq Int
  /\ \A p \in DOMAIN Loaded :
       /\ Loaded[p].code \in Seq(Cell)
       /\ \A i \in 1 .. Len(Loaded[p].code) :
            Loaded[p].code[i].tag \notin PtrTags      \* no pointer in the code
       /\ Loaded[p].pool \in Seq(Seq(Nat))

VARIABLES
  prog,     \* the program the VM was initialised with
  ip,
  stacks,   \* stack and stack_obj: sequences of cells, top last
  frames,   \* sfs and sfs_obj: [index, values, offsets]
  heap,     \* location l is heap[l + 1]
  status,
  control,  \* "host": vm_execute is not running; "running"; "crashed"
  out       \* what was printed: [type, vals], vals by offset (one value: <<value>>)

vars == <<prog, ip, stacks, frames, heap, status, control, out>>

Kinds == {"val", "obj"}
Slots == 0 .. STACK_MAX - 1

code == Loaded[prog].code
pool == Loaded[prog].pool
-----------------------------------------------------------------------------
(* Opcodes, operands and the stacks.                                         *)

Binary == {"AND", "OR", "ADD", "SUB", "MUL", "DIV", "MOD", "EQ", "NEQ", "LT", "LTE", "GT", "GTE"}
FloatBinary == {"FLOAT_ADD", "FLOAT_SUB", "FLOAT_MUL", "FLOAT_DIV", "FLOAT_EQ", "FLOAT_NEQ",
                "FLOAT_LT", "FLOAT_LTE", "FLOAT_GT", "FLOAT_GTE"}
Unary == {"UNARY_MINUS", "NOT", "FLOAT_UNARY_MINUS", "CAST_INT", "CAST_FLOAT"}
OneOperand == {"PUSH", "PUSH_OBJ", "GET_LOCAL", "GET_LOCAL_OBJ", "SET_LOCAL", "SET_LOCAL_OBJ",
               "GET_HEAP", "GET_HEAP_OBJ", "SET_HEAP", "SET_HEAP_OBJ", "JNE", "JMP"}
NoOperand == Binary \cup FloatBinary \cup Unary \cup
             {"DUP", "DUP_OBJ", "PUSH_ARRAY", "LEN_ARRAY", "EQ_OBJ", "NEQ_OBJ", "RET", "POP", "POP_OBJ",
              "EXIT", "YIELD", "DEFINE", "DEFINE_OBJ", "GET_ARRAY", "GET_ARRAY_OBJ", "SET_ARRAY",
              "SET_ARRAY_OBJ", "CAST_BYTE_ARRAY", "SWAP", "SWAP_OBJ", "PUSH_SCOPE", "POP_SCOPE", "PRINT"}
(* JE and READ only assert false; there is no other instruction.             *)
Opcodes == NoOperand \cup OneOperand \cup {"PUSH_HEAP", "CALL"}
Operands(op) == CASE op \in OneOperand -> 1 [] op = "PUSH_HEAP" -> 2 [] op = "CALL" -> 3 [] OTHER -> 0

Of(s, op, op_obj) == IF s = "val" THEN op ELSE op_obj

IsOpcodeAt(i) == i \in 0 .. Len(code) - 1 /\ code[i + 1].tag = "op"
Instr == IF IsOpcodeAt(ip) THEN code[ip + 1].op ELSE "none"
Immediate == code[ip + 2]
Operand(k) == IntOf(code[ip + k + 1])

Depth(s) == Len(stacks[s])
Peek(s, k) == stacks[s][Depth(s) - k]            \* k = 0 is the top
Drop(s, n) == SubSeq(stacks[s], 1, Depth(s) - n)

(* Mutant: the limit is tested one push too late.                             *)
FullTooLate(s) == Depth(s) > STACK_MAX

(* check_push: one slot is kept in reserve.                                  *)
Full(s) == Depth(s) >= STACK_MAX - 1

(* Pop n cells of stack s, then push cells.                                  *)
On(s, n, cells) == [stacks EXCEPT ![s] = Drop(s, n) \o cells]
Both(n, vals, m, objs) ==
  [s \in Kinds |-> IF s = "val" THEN Drop("val", n) \o vals ELSE Drop("obj", m) \o objs]
-----------------------------------------------------------------------------
(* Heap references and what is printed.                                      *)

InHeap(location) == location \in 0 .. Len(heap) - 1
At(location) == heap[location + 1]

(* print_primitive has a format for the cell.                                *)
Printable(type, c) ==
  \/ type \in {TYPE_NULL, TYPE_BYTE, TYPE_INT, TYPE_FLOAT, TYPE_BOOL}
  \/ type = TYPE_STRING /\ c.tag \in ScalarTags /\ c.val \in 0 .. Len(pool) - 1

(* Objects interleave one types word with the four fields it describes.      *)
FieldType(ref, i) == At(ref.val + i - (i % 5)).types[i % 5]
Fields(ref) == {i \in 0 .. ref.count - 1 : i % 5 # 0}

PrintableObject(ref) ==
  \A i \in 0 .. ref.count - 1 :
    /\ InHeap(ref.val + i)
    /\ IF i % 5 = 0 THEN At(ref.val + i).tag = "types"
       ELSE is_object_or_null(FieldType(ref, i)) \/ Printable(FieldType(ref, i), At(ref.val + i))

PrintableArray(type, ref) ==
  \A l \in ref.val .. ref.val + ref.count - 1 :
    /\ InHeap(l)
    /\ is_object(type) \/ type = TYPE_BYTE \/ Printable(type, At(l))

(* The bits print shows of a cell (of a reference, the location), and of a   *)
(* referenced object or array, by offset: an object's types words are hidden. *)
Shown(c) == IF IsRef(c) THEN c.val ELSE IntOf(c)
Contents(type, ref) ==
  LET shown == IF is_array(type) THEN 0 .. ref.count - 1 ELSE Fields(ref)
  IN  [i \in shown |-> Shown(At(ref.val + i))]
-----------------------------------------------------------------------------
(* Integers of a fixed width, with C's truncating division.                  *)

Wrap(n) == ((n + INT_MAX + 1) % (2 * (INT_MAX + 1))) - (INT_MAX + 1)
Magnitude(n) == IF n < 0 THEN -n ELSE n
Quotient(a, b) == LET q == Magnitude(a) \div Magnitude(b) IN IF (a < 0) = (b < 0) THEN q ELSE -q
Remainder(a, b) == a - b * Quotient(a, b)
Bool(b) == IF b THEN 1 ELSE 0

Eval(op, a, b) ==
  CASE op = "AND" -> Bool(a # 0 /\ b # 0)
    [] op = "OR"  -> Bool(a # 0 \/ b # 0)
    [] op = "ADD" -> Wrap(a + b)
    [] op = "SUB" -> Wrap(a - b)
    [] op = "MUL" -> Wrap(a * b)
    [] op = "DIV" -> Quotient(a, b)
    [] op = "MOD" -> Remainder(a, b)
    [] op = "EQ"  -> Bool(a = b)
    [] op = "NEQ" -> Bool(a # b)
    [] op = "LT"  -> Bool(a < b)
    [] op = "LTE" -> Bool(a <= b)
    [] op = "GT"  -> Bool(a > b)
    [] op = "GTE" -> Bool(a >= b)
-----------------------------------------------------------------------------
(* PUSH_HEAP pops one cell after the other: a types word first and after     *)
(* every four fields, and each field from the stack its type names.  A       *)
(* layout says which stack each popped cell comes from.                      *)

Taken(k, s, i) == Cardinality({j \in 0 .. i - 1 : k[j] = s})
Popped(k, i) == Peek(k[i], Taken(k, k[i], i))

IsLayout(k, n) ==
  /\ \A s \in Kinds : Taken(k, s, n) <= Depth(s)
  /\ \A i \in 0 .. n - 1 :
       IF i % 5 = 0
       THEN k[i] = "val" /\ Popped(k, i).tag = "types"
       ELSE k[i] = IF is_object_or_null(Popped(k, i - (i % 5)).types[i % 5]) THEN "obj" ELSE "val"

Layouts(n) == {k \in [0 .. n - 1 -> Kinds] : IsLayout(k, n)}

Fits(n) == n <= COUNT_LIMIT /\ Len(heap) + n <= HEAP_MAX

(* The stack slot a local variable instruction addresses.                    *)
Slot(s) == frames[s].offsets[Len(frames[s].offsets)] + Operand(1)
-----------------------------------------------------------------------------
(* What no C program may rely on.  The operands an instruction pops are      *)
(* required even where one of its checks would stop it before the pop.       *)

ValPops(op) ==
  CASE op \in Binary \cup FloatBinary \cup {"SWAP", "PUSH_ARRAY", "SET_ARRAY"} -> 2
    [] op \in Unary \cup {"DUP", "JNE", "RET", "POP", "SET_LOCAL", "SET_HEAP", "GET_ARRAY",
                          "GET_ARRAY_OBJ", "SET_ARRAY_OBJ", "CAST_BYTE_ARRAY", "PRINT"} -> 1
    [] op = "CALL" -> Operand(1)
    [] OTHER -> 0
ObjPops(op) ==
  CASE op \in {"EQ_OBJ", "NEQ_OBJ", "SET_HEAP_OBJ", "SET_ARRAY_OBJ", "SWAP_OBJ"} -> 2
    [] op \in {"DUP_OBJ", "POP_OBJ", "SET_LOCAL_OBJ", "LEN_ARRAY", "GET_HEAP", "GET_HEAP_OBJ",
               "SET_HEAP", "GET_ARRAY", "GET_ARRAY_OBJ", "SET_ARRAY"} -> 1
    [] OTHER -> 0

BadInstruction ==
  \/ Instr \notin Opcodes \/ ip + Operands(Instr) >= Len(code)
  \/ Instr \notin {"PUSH", "PUSH_OBJ"} /\ \E k \in 1 .. Operands(Instr) : Operand(k) \notin Nat
Underflow == Depth("val") < ValPops(Instr) \/ Depth("obj") < ObjPops(Instr)

(* A push without check_push on the other stack than the pops.               *)
Overrun ==
  /\ Depth("val") >= STACK_MAX
  /\ \/ Instr = "GET_HEAP" /\ Peek("obj", 0) # Zero
     \/ Instr \in {"EQ_OBJ", "NEQ_OBJ"}
     \/ Instr = "CALL" /\ Operand(1) = 0

HeapAccess == {"GET_HEAP", "GET_HEAP_OBJ", "SET_HEAP", "SET_HEAP_OBJ"}
ArrayAccess == {"GET_ARRAY", "GET_ARRAY_OBJ", "SET_ARRAY", "SET_ARRAY_OBJ"}
InBounds(ref, index) == index \in 0 .. ref.count - 1

(* The asserts of vector_get and vector_set, and bits that are no reference. *)
BadReference ==
  LET ref == Peek("obj", 0)
  IN  \/ Instr \in HeapAccess \cup ArrayAccess \cup {"LEN_ARRAY"} /\ ~IsRef(ref)
      \/ /\ Instr \in HeapAccess
         /\ ref = Zero => Instr \in {"SET_HEAP", "SET_HEAP_OBJ"}
         /\ ~InHeap(ref.val + Operand(1))
      \/ /\ Instr \in ArrayAccess
         /\ InBounds(ref, IntOf(Peek("val", 0)))
         /\ ~InHeap(ref.val + IntOf(Peek("val", 0)))

LocalAccess(s) == {Of(s, "GET_LOCAL", "GET_LOCAL_OBJ"), Of(s, "SET_LOCAL", "SET_LOCAL_OBJ")}
BadFrame ==
  \/ \E s \in Kinds : Instr \in LocalAccess(s) /\ (frames[s].offsets = << >> \/ Slot(s) \notin Slots)
  \/ Instr = "POP_SCOPE" /\ \E s \in Kinds : frames[s].offsets = << >>

(* The processor traps when the quotient does not fit.                       *)
Trap == Instr \in {"DIV", "MOD"} /\ IntOf(Peek("val", 0)) = -1 /\ IntOf(Peek("val", 1)) = -INT_MAX - 1

PrintedType == IntOf(Peek("val", 0))
Unprintable ==
  /\ Instr = "PRINT"
  /\ IF ~is_object_or_null(PrintedType)
     THEN Depth("val") < 2 \/ ~Printable(PrintedType, Peek("val", 1))
     ELSE \/ Depth("obj") < 1
          \/ ~IsRef(Peek("obj", 0))
          \/ IF is_array(PrintedType)
             THEN ~PrintableArray(type_of_array(PrintedType), Peek("obj", 0))
             ELSE ~PrintableObject(Peek("obj", 0))

BadString == Instr = "CAST_BYTE_ARRAY" /\ ~Printable(TYPE_STRING, Peek("val", 0))

(* The compiler emits no other metadata than 0.                              *)
BadLayout ==
  /\ Instr = "PUSH_HEAP"
  /\ \/ Operand(2) # 0
     \/ ~Full("obj") /\ Fits(Operand(1)) /\ Layouts(Operand(1)) = {}

Defined == ~ \/ BadInstruction \/ Underflow \/ Overrun \/ BadReference \/ BadFrame
             \/ Trap \/ Unprintable \/ BadString \/ BadLayout
-----------------------------------------------------------------------------
(* How an instruction ends: by going on, or with a status for the host.      *)

Running(op) == control = "running" /\ Instr = op /\ Defined

Goto(address, s) ==
  /\ ip' = address /\ stacks' = s
  /\ UNCHANGED <<prog, status, control>>

Step(s) == Goto(ip + 1 + Operands(Instr), s)

Leave(st, address, s) ==
  /\ ip' = address /\ stacks' = s
  /\ status' = st /\ control' = "host"
  /\ UNCHANGED prog

(* ip stays on the last operand that was read.                               *)
Fail(s) == Leave("ERROR", ip + Operands(Instr), s)

(* check_push(s) before the cells are pushed on it.                          *)
PushChecked(s, n, cells) == IF Full(s) THEN Fail(stacks) ELSE Step(On(s, n, cells))
-----------------------------------------------------------------------------
(* Stack instructions.                                                       *)

Push(s) ==
  /\ Running(Of(s, "PUSH", "PUSH_OBJ"))
  /\ PushChecked(s, 0, <<Immediate>>)
  /\ UNCHANGED <<frames, heap, out>>

Dup(s) ==
  /\ Running(Of(s, "DUP", "DUP_OBJ"))
  /\ PushChecked(s, 0, <<Peek(s, 0)>>)
  /\ UNCHANGED <<frames, heap, out>>

Pop(s) ==
  /\ Running(Of(s, "POP", "POP_OBJ"))
  /\ Step(On(s, 1, << >>))
  /\ UNCHANGED <<frames, heap, out>>

Swap(s) ==
  /\ Running(Of(s, "SWAP", "SWAP_OBJ"))
  /\ Step(On(s, 2, <<Peek(s, 0), Peek(s, 1)>>))
  /\ UNCHANGED <<frames, heap, out>>

BinaryOp(op) ==
  /\ Running(op)
  /\ LET a == IntOf(Peek("val", 1))
         b == IntOf(Peek("val", 0))
     IN  IF op \in {"DIV", "MOD"} /\ b = 0
         THEN Fail(On("val", 2, << >>))
         ELSE Step(On("val", 2, <<Num(Eval(op, a, b))>>))
  /\ UNCHANGED <<frames, heap, out>>

(* Doubles are abstracted: any result, and a comparison pushes a double too. *)
FloatOp(op, n) ==
  /\ Running(op)
  /\ \E nonzero \in BOOLEAN : Step(On("val", n, <<Float(nonzero)>>))
  /\ UNCHANGED <<frames, heap, out>>

UnaryOp(op) ==
  /\ Running(op)
  /\ \E c \in LET a == IntOf(Peek("val", 0)) IN
             CASE op = "NOT"         -> {Num(Bool(a = 0))}
               [] op = "UNARY_MINUS" -> {Num(Wrap(-a))}
               [] op = "CAST_FLOAT"  -> {Float(a # 0)}
               [] op = "CAST_INT"    -> {Num(i) : i \in IF a = 0 THEN {0} ELSE FloatInts} :
       Step(On("val", 1, <<c>>))
  /\ UNCHANGED <<frames, heap, out>>

EqObj(op) ==
  /\ Running(op)
  /\ LET same == SameBits(Peek("obj", 0), Peek("obj", 1))
     IN  Step(Both(0, <<Num(Bool(same = (op = "EQ_OBJ")))>>, 2, << >>))
  /\ UNCHANGED <<frames, heap, out>>
-----------------------------------------------------------------------------
(* Objects and arrays.                                                       *)

PushHeap ==
  /\ Running("PUSH_HEAP")
  /\ LET n == Operand(1)
     IN  IF Full("obj") \/ ~Fits(n)
         THEN Fail(stacks) /\ UNCHANGED heap
         ELSE \E k \in Layouts(n) :
                /\ Step(Both(Taken(k, "val", n), << >>,
                             Taken(k, "obj", n), <<Ptr("obj", Len(heap), n)>>))
                /\ heap' = heap \o [i \in 1 .. n |-> Popped(k, i - 1)]
  /\ UNCHANGED <<frames, out>>

(* vector_grow; mutant: one element too few.                                  *)
ZeroesShort(n) == [i \in 1 .. n - 1 |-> Zero]
Zeroes(n) == [i \in 1 .. n |-> Zero]

ArrayTag(type) == IF is_object(type) THEN "arrobj" ELSE "arr"

PushArray ==
  /\ Running("PUSH_ARRAY")
  /\ LET n == IntOf(Peek("val", 1))
     IN  IF Full("obj")
         THEN Fail(stacks) /\ UNCHANGED heap
         ELSE IF n < 1 \/ ~Fits(n)
         THEN Fail(On("val", 2, << >>)) /\ UNCHANGED heap
         ELSE /\ Step(Both(2, << >>, 0, <<Ptr(ArrayTag(IntOf(Peek("val", 0))), Len(heap), n)>>))
              /\ heap' = heap \o Zeroes(n)
  /\ UNCHANGED <<frames, out>>

(* Pushes the length and the element type, then makes the array as above.    *)
CastByteArray ==
  /\ Running("CAST_BYTE_ARRAY")
  /\ LET str == pool[Peek("val", 0).val + 1]
         n == Len(str)
     IN  IF Full("val")
         THEN Fail(On("val", 1, <<Num(n)>>)) /\ UNCHANGED heap
         ELSE IF Full("obj")
         THEN Fail(On("val", 1, <<Num(n), Num(TYPE_BYTE)>>)) /\ UNCHANGED heap
         ELSE IF n < 1 \/ ~Fits(n)
         THEN Fail(On("val", 1, << >>)) /\ UNCHANGED heap
         ELSE /\ Step(Both(1, << >>, 0, <<Ptr("arr", Len(heap), n)>>))
              /\ heap' = heap \o [i \in 1 .. n |-> Num(str[i])]
  /\ UNCHANGED <<frames, out>>

LenArray ==
  /\ Running("LEN_ARRAY")
  /\ IF Full("val")
     THEN Fail(On("obj", 1, << >>))
     ELSE Step(Both(0, <<Num(Peek("obj", 0).count)>>, 1, << >>))
  /\ UNCHANGED <<frames, heap, out>>

(* Mutant: GET_HEAP_OBJ and GET_ARRAY_OBJ push on the other stack.            *)
FetchOnVal(s, m, location) == Step(Both(m, <<At(location)>>, 1, << >>))

(* Pop a reference (and m values), push the cell it leads to on stack s.     *)
Fetch(s, m, location) ==
  LET c == <<At(location)>>
  IN  IF s = "val" THEN Step(Both(m, c, 1, << >>)) ELSE Step(Both(m, << >>, 1, c))

GetHeap(s) ==
  /\ Running(Of(s, "GET_HEAP", "GET_HEAP_OBJ"))
  /\ LET ref == Peek("obj", 0)
     IN  IF ref = Zero
         THEN Fail(On("obj", 1, << >>))
         ELSE Fetch(s, 0, ref.val + Operand(1))
  /\ UNCHANGED <<frames, heap, out>>

(* What SET_HEAP and SET_ARRAY store, under the reference, and the index.     *)
FieldValue(s) == IF s = "val" THEN Peek("val", 0) ELSE Peek("obj", 1)
ElementValue(s) == IF s = "val" THEN Peek("val", 1) ELSE Peek("obj", 1)

(* No null check: a null reference writes near location 0.                   *)
SetHeap(s) ==
  /\ Running(Of(s, "SET_HEAP", "SET_HEAP_OBJ"))
  /\ heap' = [heap EXCEPT ![Peek("obj", 0).val + Operand(1) + 1] = FieldValue(s)]
  /\ IF s = "val" THEN Step(Both(1, << >>, 1, << >>)) ELSE Step(On("obj", 2, << >>))
  /\ UNCHANGED <<frames, out>>

GetArray(s) ==
  /\ Running(Of(s, "GET_ARRAY", "GET_ARRAY_OBJ"))
  /\ LET ref == Peek("obj", 0)
         index == IntOf(Peek("val", 0))
     IN  IF ~InBounds(ref, index)                      \* null has no elements
         THEN Fail(Both(1, << >>, 1, << >>))
         ELSE Fetch(s, 1, ref.val + index)
  /\ UNCHANGED <<frames, heap, out>>

SetArray(s) ==
  /\ Running(Of(s, "SET_ARRAY", "SET_ARRAY_OBJ"))
  /\ LET ref == Peek("obj", 0)
         index == IntOf(Peek("val", 0))
     IN  IF ~InBounds(ref, index)
         THEN Fail(Both(1, << >>, 1, << >>)) /\ UNCHANGED heap
         ELSE /\ heap' = [heap EXCEPT ![ref.val + index + 1] = ElementValue(s)]
              /\ IF s = "val" THEN Step(Both(2, << >>, 1, << >>)) ELSE Step(Both(1, << >>, 2, << >>))
  /\ UNCHANGED <<frames, out>>
-----------------------------------------------------------------------------
(* Frames and locals.                                                        *)

PushScope ==
  /\ Running("PUSH_SCOPE")
  /\ IF \E s \in Kinds : \/ frames[s].index >= STACK_MAX - 1
                         \/ Len(frames[s].offsets) >= STACK_MAX - 1
     THEN Fail(stacks) /\ UNCHANGED frames
     ELSE /\ frames' = [s \in Kinds |-> [frames[s] EXCEPT !.offsets = Append(@, frames[s].index)]]
          /\ Step(stacks)
  /\ UNCHANGED <<heap, out>>

(* Mutant: POP_SCOPE forgets the frame of objects.                            *)
PopValScope ==
  /\ Running("POP_SCOPE")
  /\ LET f == frames["val"]
         n == Len(f.offsets)
     IN  frames' = [frames EXCEPT !["val"] =
           [f EXCEPT !.index = f.offsets[n], !.offsets = SubSeq(f.offsets, 1, n - 1)]]
  /\ Step(stacks)
  /\ UNCHANGED <<heap, out>>

PopScope ==
  /\ Running("POP_SCOPE")
  /\ frames' = [s \in Kinds |->
       LET f == frames[s]
           n == Len(f.offsets)
       IN  [f EXCEPT !.index = f.offsets[n], !.offsets = SubSeq(f.offsets, 1, n - 1)]]
  /\ Step(stacks)
  /\ UNCHANGED <<heap, out>>

(* Mutant: variables are counted down.                                        *)
DefineDown(s) ==
  /\ Running(Of(s, "DEFINE", "DEFINE_OBJ"))
  /\ frames' = [frames EXCEPT ![s].index = @ - 1]
  /\ Step(stacks)
  /\ UNCHANGED <<heap, out>>

Define(s) ==
  /\ Running(Of(s, "DEFINE", "DEFINE_OBJ"))
  /\ frames' = [frames EXCEPT ![s].index = @ + 1]
  /\ Step(stacks)
  /\ UNCHANGED <<heap, out>>

GetLocal(s) ==
  /\ Running(Of(s, "GET_LOCAL", "GET_LOCAL_OBJ"))
  /\ PushChecked(s, 0, <<frames[s].values[Slot(s)]>>)
  /\ UNCHANGED <<frames, heap, out>>

SetLocal(s) ==
  /\ Running(Of(s, "SET_LOCAL", "SET_LOCAL_OBJ"))
  /\ frames' = [frames EXCEPT ![s].values[Slot(s)] = Peek(s, 0)]
  /\ Step(On(s, 1, << >>))
  /\ UNCHANGED <<heap, out>>
-----------------------------------------------------------------------------
(* Control.                                                                  *)

Jump ==
  /\ Running("JMP")
  /\ Goto(Operand(1), stacks)
  /\ UNCHANGED <<frames, heap, out>>

JumpUnless ==
  /\ Running("JNE")
  /\ Goto(IF IntOf(Peek("val", 0)) = 0 THEN Operand(1) ELSE ip + 2, On("val", 1, << >>))
  /\ UNCHANGED <<frames, heap, out>>

Return ==
  /\ Running("RET")
  /\ Goto(IntOf(Peek("val", 0)), On("val", 1, << >>))
  /\ UNCHANGED <<frames, heap, out>>

(* The arguments are handed to the host's function, whatever it does.        *)
Call ==
  /\ Running("CALL")
  /\ \E r \in ForeignResults : Step(On("val", Operand(1), <<Num(r)>>))
  /\ UNCHANGED <<frames, heap, out>>

PrintValue ==
  /\ Running("PRINT")
  /\ LET type == PrintedType
         value == Peek("val", 1)
         ref == Peek("obj", 0)
     IN  IF ~is_object_or_null(type)
         THEN /\ out' = Append(out, [type |-> type, vals |-> <<Shown(value)>>])
              /\ Step(On("val", 2, << >>))
         ELSE /\ out' = Append(out, [type |-> type, vals |-> Contents(type, ref)])
              /\ Step(Both(1, << >>, 1, << >>))
  /\ UNCHANGED <<frames, heap>>

Exit ==
  /\ Running("EXIT")
  /\ Leave("COMPLETED", ip, stacks)
  /\ UNCHANGED <<frames, heap, out>>

(* Mutant: ip stays on the instruction, as for EXIT.                          *)
YieldAgain ==
  /\ Running("YIELD")
  /\ Leave("YIELD", ip, stacks)
  /\ UNCHANGED <<frames, heap, out>>

Yield ==
  /\ Running("YIELD")
  /\ Leave("YIELD", ip + 1, stacks)
  /\ UNCHANGED <<frames, heap, out>>

Crash ==
  /\ control = "running" /\ ~Defined
  /\ control' = "crashed"
  /\ UNCHANGED <<prog, ip, stacks, frames, heap, status, out>>
-----------------------------------------------------------------------------
(* vm_init, and the host: it calls vm_execute once, and again for each YIELD. *)

Init ==
  /\ prog \in DOMAIN Loaded
  /\ ip = 0
  /\ stacks = [s \in Kinds |-> << >>]
  /\ frames = [s \in Kinds |-> [index |-> 0, values |-> [i \in Slots |-> Zero], offsets |-> << >>]]
  /\ heap = << >>
  /\ status = "INITIALIZED" /\ control = "host" /\ out = << >>

Execute ==
  /\ control = "host" /\ status \in {"INITIALIZED", "YIELD"}
  /\ control' = "running"
  /\ UNCHANGED <<prog, ip, stacks, frames, heap, status, out>>

(* Nothing but vm_free follows.                                              *)
Halted == control = "crashed" \/ (control = "host" /\ status \in {"COMPLETED", "ERROR"})
Stop == Halted /\ UNCHANGED vars

ExecuteInstruction ==
  \/ \E s \in Kinds : \/ Push(s) \/ Dup(s) \/ Pop(s) \/ Swap(s)
                      \/ GetHeap(s) \/ SetHeap(s) \/ GetArray(s) \/ SetArray(s)
                      \/ Define(s) \/ GetLocal(s) \/ SetLocal(s)
  \/ \E op \in Binary : BinaryOp(op)
  \/ \E op \in FloatBinary : FloatOp(op, 2)
  \/ FloatOp("FLOAT_UNARY_MINUS", 1)
  \/ \E op \in Unary \ {"FLOAT_UNARY_MINUS"} : UnaryOp(op)
  \/ \E op \in {"EQ_OBJ", "NEQ_OBJ"} : EqObj(op)
  \/ PushHeap \/ PushArray \/ CastByteArray \/ LenArray
  \/ PushScope \/ PopScope
  \/ Jump \/ JumpUnless \/ Return \/ Call \/ PrintValue
  \/ Exit \/ Yield

Next == ExecuteInstruction \/ Crash \/ Execute \/ Stop

Spec == Init /\ [][Next]_vars

(* The processor runs what vm_execute starts, and the host resumes a VM that *)
(* yielded (the loop sketched in main.c).                                    *)
FairSpec == Spec /\ WF_vars(ExecuteInstruction \/ Crash \/ Execute)
-----------------------------------------------------------------------------
(* Properties of the machine, whatever code it runs.                         *)

(* The stacks and the heap hold cells, the frames have STACK_MAX slots and    *)
(* indexes that are no negative numbers (struct Stack and StackFrames, vm.h).  *)
TypeOK ==
  /\ prog \in DOMAIN Loaded /\ ip \in Int
  /\ stacks \in [Kinds -> Seq(Cell)]
  /\ frames \in [Kinds -> [index : Nat, values : [Slots -> Cell], offsets : Seq(Nat)]]
  /\ heap \in Seq(Cell)
  /\ status \in {"INITIALIZED", "COMPLETED", "ERROR", "YIELD"}
  /\ control \in {"host", "running", "crashed"}
  /\ \A i \in 1 .. Len(out) : \A k \in DOMAIN out[i].vals : out[i].vals[k] \in Int

(* The machine's own tests keep the limits wherever they are made: check_push  *)
(* before a push, PUSH_SCOPE for the frames, push_heap and push_array for the  *)
(* heap.  A push that no test precedes is the case Overrun, and crashes.      *)
StaysWithinLimits ==
  /\ \A s \in Kinds : Len(stacks[s]) <= STACK_MAX /\ Len(frames[s].offsets) < STACK_MAX
  /\ Len(heap) <= HEAP_MAX

(* Every reference, on a stack, in a frame (dead slots included) or in the    *)
(* heap, designates cells that were allocated: PUSH_HEAP and PUSH_ARRAY store  *)
(* as many cells as the pointer they push says, and nothing forges a pointer. *)
InRange(c) == IsPtr(c) => c.val + c.count <= Len(heap)
PointersInRange ==
  /\ \A s \in Kinds : /\ \A i \in 1 .. Len(stacks[s]) : InRange(stacks[s][i])
                      /\ \A i \in Slots : InRange(frames[s].values[i])
  /\ \A l \in 1 .. Len(heap) : InRange(heap[l])

(* The objects and arrays that are referred to, from anywhere, share no cell:  *)
(* push_heap and push_array append to a heap from which nothing is removed,    *)
(* and a program cannot alter a pointer.                                      *)
CellsOf(s) == {stacks[s][i] : i \in 1 .. Len(stacks[s])} \cup {frames[s].values[i] : i \in Slots}
Pointers == {c \in CellsOf("val") \cup CellsOf("obj") \cup {heap[l] : l \in 1 .. Len(heap)} : IsPtr(c)}
Apart(p, q) == p = q \/ p.val + p.count <= q.val \/ q.val + q.count <= p.val
BlocksApart == \A p, q \in Pointers : Apart(p, q)

(* Frames nest: both kinds have as many, a frame starts at or above its       *)
(* caller's start, and the next free slot is above them all, so that callee    *)
(* and caller never share a slot and POP_SCOPE gives the caller its own back.  *)
Nested(f) ==
  \A i \in 1 .. Len(f.offsets) :
    /\ f.offsets[i] <= f.index
    /\ \A j \in 1 .. i : f.offsets[j] <= f.offsets[i]
FramesNest ==
  /\ Len(frames["val"].offsets) = Len(frames["obj"].offsets)
  /\ \A s \in Kinds : Nested(frames[s])
-----------------------------------------------------------------------------
(* Properties of the machine on code the compiler made of accepted programs. *)

(* Type checking is enough: no assert fails, no stack underflows and nothing  *)
(* outside the arrays is touched, on any path of an accepted program.         *)
NeverUndefined == control # "crashed"

(* References live on the object stack and in object slots, and nothing else  *)
(* does: the compiler picks the opcode of the right stack for every value.     *)
KindsSeparated ==
  \A s \in Kinds :
    LET belongs(c) == IF s = "obj" THEN IsRef(c) ELSE ~IsPtr(c)
    IN  /\ \A i \in 1 .. Len(stacks[s]) : belongs(stacks[s][i])
        /\ \A i \in Slots : belongs(frames[s].values[i])

(* A pointer's target has the shape its metadata and its types words announce *)
(* (what print_object and a collector rely on): a types word, then up to four  *)
(* fields of these types, and so on; an array of objects holds references.     *)
OfType(type, c) ==
  CASE is_object_or_null(type) -> IsRef(c)
    [] type = TYPE_STRING -> c.tag = "str"
    [] OTHER -> c.tag \in {"num", "float", "zero"}
WellShaped(p) ==
  \A i \in 0 .. p.count - 1 :
    CASE p.tag = "arrobj" -> IsRef(At(p.val + i))
      [] p.tag = "arr" -> ~IsPtr(At(p.val + i))
      [] p.tag = "obj" ->
           IF i % 5 = 0 THEN At(p.val + i).tag = "types"
           ELSE FieldType(p, i) # TYPE_UNDEFINED /\ OfType(FieldType(p, i), At(p.val + i))
HeapShaped ==
  /\ \A i \in 1 .. Len(stacks["obj"]) : IsPtr(stacks["obj"][i]) => WellShaped(stacks["obj"][i])
  /\ \A l \in 1 .. Len(heap) : IsPtr(heap[l]) => WellShaped(heap[l])

(* What the machine does not check at an access of the heap, and the compiler  *)
(* has to get right: the instruction is for the kind of cell that is there,    *)
(* a property lies in its object and is no types word, and what is stored has  *)
(* the type that its types word says.                                        *)
IsField(s, ref, i) ==
  /\ ref.tag = "obj" /\ i < ref.count /\ i % 5 # 0
  /\ FieldType(ref, i) # TYPE_UNDEFINED /\ (is_object_or_null(FieldType(ref, i)) <=> s = "obj")
FieldsTyped(k, n) ==
  \A i \in 0 .. n - 1 :
    i % 5 # 0 => LET type == Popped(k, i - (i % 5)).types[i % 5]
                 IN  type # TYPE_UNDEFINED /\ OfType(type, Popped(k, i))
AccessesTyped ==
  control # "host" /\ ~BadInstruction /\ ~Underflow =>
    /\ Instr = "PUSH_OBJ" => IsRef(Immediate)
    /\ Instr = "PUSH_HEAP" /\ ~Full("obj") /\ Fits(Operand(1)) =>
         \A k \in Layouts(Operand(1)) : FieldsTyped(k, Operand(1))
    /\ \A s \in Kinds :
         LET ref == Peek("obj", 0)
         IN  /\ Instr = Of(s, "GET_HEAP", "GET_HEAP_OBJ") /\ ref # Zero => IsField(s, ref, Operand(1))
             /\ Instr = Of(s, "SET_HEAP", "SET_HEAP_OBJ") =>
                  IsField(s, ref, Operand(1)) /\ OfType(FieldType(ref, Operand(1)), FieldValue(s))
             /\ Instr \in {Of(s, "GET_ARRAY", "GET_ARRAY_OBJ"), Of(s, "SET_ARRAY", "SET_ARRAY_OBJ")}
                /\ InBounds(ref, IntOf(Peek("val", 0))) =>
                  /\ ref.tag = Of(s, "arr", "arrobj")
                  /\ Instr = "SET_ARRAY" => ElementValue(s).tag # "types"

(* A program reads only variables that are defined by then: the slots that the *)
(* type checker numbers agree with what the DEFINE instructions have counted   *)
(* at run time, in every branch, loop and call (get_local has no check).       *)
LocalsDefined ==
  control = "running" =>
    \A s \in Kinds : Instr = Of(s, "GET_LOCAL", "GET_LOCAL_OBJ") => Slot(s) < frames[s].index

(* RET finds a return address on top of the stack, under whatever its function *)
(* left there, and goes back to the POP_SCOPE that follows the call.          *)
ReturnsToCaller ==
  control = "running" /\ Instr = "RET" =>
    LET a == Peek("val", 0)
    IN  a.tag = "addr" /\ IsOpcodeAt(a.val) /\ code[a.val + 1].op = "POP_SCOPE"

(* A completed program leaves nothing behind: every call has popped its frame, *)
(* and every statement the values it did not use.                             *)
CompletedClean ==
  status = "COMPLETED" =>
    \A s \in Kinds : Len(stacks[s]) = 0 /\ frames[s].index = 0 /\ Len(frames[s].offsets) = 0

(* A step writes an allocated cell only through the reference on top of the    *)
(* object stack, within that object, and never over a types word.             *)
WritesStayInObject ==
  [][\A l \in 0 .. Len(heap) - 1 :
       heap'[l + 1] # At(l) =>
         /\ At(l).tag # "types"
         /\ LET p == Peek("obj", 0) IN IsPtr(p) /\ l \in p.val .. p.val + p.count - 1]_vars

(* Every sample program ends, COMPLETED or in ERROR: jumps, loops, calls and   *)
(* resumption after a YIELD lead somewhere.                                  *)
Terminates == <>Halted
=============================================================================
