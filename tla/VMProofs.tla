------------------------------ MODULE VMProofs ------------------------------
(***************************************************************************)
(* Machine-checked facts about VM, for every set of programs without       *)
(* pointers in their code, compiled or not, and every size of the stacks   *)
(* and the heap: type correctness, the stack and heap limits, the range of  *)
(* every reference, the nesting of frames, and that blocks of the heap     *)
(* share no cell; and for code whose accesses of the heap are typed, which  *)
(* stack a cell may be on, the shape of the heap and where stores go.       *)
(*                                                                         *)
(* The inductive invariant IInv says of each variable what it may hold      *)
(* while the heap has n cells; Good(n) are the cells that refer to nothing   *)
(* beyond them.  DInv and TInv, in the second half, add a history: there is *)
(* a set B of the pointers that were made, and S[s] are the cells that may   *)
(* be on the stacks and in the frames of kind s.                           *)
(***************************************************************************)
EXTENDS VM, SequenceTheorems, FiniteSetTheorems, TLAPS

Good(n) == {c \in Cell : IsPtr(c) => c.val + c.count <= n}
Frame(n) == [index : Nat, values : [Slots -> Good(n)], offsets : Seq(Nat)]
Printed == [type : Int, vals : UNION {[D -> Int] : D \in SUBSET Int}]
Statuses == {"INITIALIZED", "COMPLETED", "ERROR", "YIELD"}

GoodStacks(st, n) ==
  st \in [Kinds -> Seq(Good(n))] /\ \A s \in Kinds : Len(st[s]) <= STACK_MAX
GoodFrames(f, n) ==
  /\ f \in [Kinds -> Frame(n)]
  /\ Len(f["val"].offsets) = Len(f["obj"].offsets)
  /\ \A s \in Kinds : Nested(f[s]) /\ Len(f[s].offsets) < STACK_MAX
GoodHeap(h) == h \in Seq(Good(Len(h))) /\ Len(h) <= HEAP_MAX

IInv ==
  /\ prog \in DOMAIN Loaded /\ ip \in Int
  /\ GoodStacks(stacks, Len(heap)) /\ GoodFrames(frames, Len(heap)) /\ GoodHeap(heap)
  /\ status \in Statuses /\ control \in {"host", "running", "crashed"}
  /\ out \in Seq(Printed)
-----------------------------------------------------------------------------
(* Cells.                                                                    *)

LEMMA CellFacts ==
  ASSUME NEW c \in Cell
  PROVE  /\ IntOf(c) \in Int /\ Shown(c) \in Int
         /\ IsRef(c) => c.val \in Int /\ c.count \in Nat
         /\ IsPtr(c) => c.val \in Nat /\ c.count \in Nat
         /\ c.tag \in ScalarTags => c.val \in Int
<1>1. NONZERO_BITS \in Int
  BY DEF NONZERO_BITS
<1> QED
  BY <1>1 DEF Cell, Pointer, Scalar, TypesWord, Instruction, IntOf, Shown, IsRef, IsPtr, PtrTags, ScalarTags

(* Numbers, doubles and zero are good in any heap.                           *)
LEMMA PlainCells ==
  ASSUME NEW n \in Nat
  PROVE  /\ \A i \in Int : Num(i) \in Good(n)
         /\ \A b \in BOOLEAN : Float(b) \in Good(n)
         /\ Zero \in Good(n)
<1>1. NONZERO_BITS \in Int
  BY DEF NONZERO_BITS
<1> QED
  BY <1>1 DEF Good, Cell, Scalar, Num, Float, Zero, IsPtr, PtrTags, ScalarTags

LEMMA NewPointer ==
  ASSUME NEW tag \in PtrTags, NEW location \in Nat, NEW count \in Nat
  PROVE  Ptr(tag, location, count) \in Good(location + count)
BY DEF Good, Cell, Pointer, Ptr, IsPtr

(* What was good stays good while the heap grows.                            *)
LEMMA Growing ==
  ASSUME NEW n \in Nat, NEW m \in Nat, n <= m
  PROVE  /\ Good(n) \subseteq Good(m)
         /\ \A st : GoodStacks(st, n) => GoodStacks(st, m)
         /\ \A f : GoodFrames(f, n) => GoodFrames(f, m)
         /\ \A q \in Seq(Good(n)) : q \in Seq(Good(m))
<1>1. Good(n) \subseteq Good(m)
  BY CellFacts DEF Good
<1>2. \A q \in Seq(Good(n)) : q \in Seq(Good(m))
  BY <1>1, SeqMonotonic
<1>3. Seq(Good(n)) \subseteq Seq(Good(m))
  BY <1>2
<1>4. \A st : GoodStacks(st, n) => GoodStacks(st, m)
  BY <1>3 DEF GoodStacks
<1>5. Frame(n) \subseteq Frame(m)
  BY <1>1 DEF Frame
<1>6. \A f : GoodFrames(f, n) => GoodFrames(f, m)
  BY <1>5 DEF GoodFrames
<1> QED BY <1>1, <1>2, <1>4, <1>6

LEMMA Singleton ==
  ASSUME NEW S, NEW c \in S
  PROVE  <<c>> \in Seq(S) /\ Len(<<c>>) = 1
OBVIOUS

LEMMA Pair ==
  ASSUME NEW S, NEW c \in S, NEW d \in S
  PROVE  <<c, d>> \in Seq(S) /\ Len(<<c, d>>) = 2
OBVIOUS
-----------------------------------------------------------------------------
(* Stacks.                                                                   *)

LEMMA DropGood ==
  ASSUME NEW n \in Nat, GoodStacks(stacks, n), NEW s \in Kinds, NEW m \in Nat, m <= Depth(s)
  PROVE  Drop(s, m) \in Seq(Good(n)) /\ Len(Drop(s, m)) = Depth(s) - m
<1>1. stacks[s] \in Seq(Good(n)) /\ Depth(s) \in Nat
  BY DEF GoodStacks, Depth
<1>2. \A i \in 1 .. Depth(s) - m : stacks[s][i] \in Good(n)
  BY <1>1, ElementOfSeq DEF Depth
<1>3. Depth(s) - m \in Int /\ 1 \in Int
  BY <1>1
<1>4. /\ SubSeq(stacks[s], 1, Depth(s) - m) \in Seq(Good(n))
      /\ Len(SubSeq(stacks[s], 1, Depth(s) - m)) =
           IF 1 <= Depth(s) - m THEN Depth(s) - m - 1 + 1 ELSE 0
  BY <1>2, <1>3, SubSeqProperties
<1> QED BY <1>1, <1>4 DEF Drop

LEMMA PeekGood ==
  ASSUME NEW n \in Nat, GoodStacks(stacks, n), NEW s \in Kinds, NEW k \in Nat, k < Depth(s)
  PROVE  Peek(s, k) \in Good(n) /\ Peek(s, k) \in Cell
<1>1. stacks[s] \in Seq(Good(n)) /\ Depth(s) - k \in 1 .. Len(stacks[s])
  BY DEF GoodStacks, Depth
<1>2. Peek(s, k) \in Good(n)
  BY <1>1, ElementOfSeq DEF Peek
<1> QED BY <1>2 DEF Good

LEMMA OnGood ==
  ASSUME NEW n \in Nat, GoodStacks(stacks, n), NEW s \in Kinds, NEW m \in Nat, m <= Depth(s),
         NEW cells \in Seq(Good(n)), Depth(s) - m + Len(cells) <= STACK_MAX
  PROVE  GoodStacks(On(s, m, cells), n)
<1>1. Drop(s, m) \in Seq(Good(n)) /\ Len(Drop(s, m)) = Depth(s) - m
  BY DropGood
<1>2. Drop(s, m) \o cells \in Seq(Good(n)) /\ Len(Drop(s, m) \o cells) = Depth(s) - m + Len(cells)
  BY <1>1, ConcatProperties
<1> QED BY <1>2 DEF GoodStacks, On

LEMMA BothGood ==
  ASSUME NEW n \in Nat, GoodStacks(stacks, n),
         NEW i \in Nat, i <= Depth("val"), NEW vals \in Seq(Good(n)),
         NEW j \in Nat, j <= Depth("obj"), NEW objs \in Seq(Good(n)),
         Depth("val") - i + Len(vals) <= STACK_MAX,
         Depth("obj") - j + Len(objs) <= STACK_MAX
  PROVE  GoodStacks(Both(i, vals, j, objs), n)
<1>1. /\ Drop("val", i) \in Seq(Good(n)) /\ Len(Drop("val", i)) = Depth("val") - i
      /\ Drop("obj", j) \in Seq(Good(n)) /\ Len(Drop("obj", j)) = Depth("obj") - j
  BY DropGood DEF Kinds
<1>2. /\ Drop("val", i) \o vals \in Seq(Good(n))
      /\ Len(Drop("val", i) \o vals) = Depth("val") - i + Len(vals)
  BY <1>1, ConcatProperties
<1>3. /\ Drop("obj", j) \o objs \in Seq(Good(n))
      /\ Len(Drop("obj", j) \o objs) = Depth("obj") - j + Len(objs)
  BY <1>1, ConcatProperties
<1> QED BY <1>2, <1>3 DEF GoodStacks, Both, Kinds

(* A stack's height, below the limit unless it is Full.                      *)
LEMMA Heights ==
  ASSUME NEW n \in Nat, GoodStacks(stacks, n), NEW s \in Kinds
  PROVE  /\ Depth(s) \in Nat /\ Depth(s) <= STACK_MAX
         /\ ~Full(s) => Depth(s) + 1 <= STACK_MAX
BY VMAssumption DEF GoodStacks, Depth, Full
-----------------------------------------------------------------------------
(* Instructions.                                                             *)

(* A step or a failure changes the stacks and ip, and maybe the status.       *)
LEMMA Ends ==
  ASSUME IInv, NEW st, Step(st) \/ Fail(st),
         GoodStacks(st, Len(heap')), GoodFrames(frames', Len(heap')), GoodHeap(heap'),
         out' \in Seq(Printed)
  PROVE  IInv'
<1>1. Operands(Instr) \in Nat
  BY DEF Operands
<1>2. ip' \in Int
  BY <1>1 DEF IInv, Step, Fail, Goto, Leave
<1>3. stacks' = st /\ prog' = prog
  BY DEF Step, Fail, Goto, Leave
<1>4. status' \in Statuses /\ control' \in {"host", "running", "crashed"}
  BY DEF IInv, Step, Fail, Goto, Leave, Statuses
<1> QED BY <1>2, <1>3, <1>4, Zenon DEF IInv, GoodStacks, GoodFrames, GoodHeap

LEMMA StacksOnly ==
  ASSUME IInv, NEW st, Step(st) \/ Fail(st), GoodStacks(st, Len(heap)),
         UNCHANGED <<frames, heap, out>>
  PROVE  IInv'
BY Ends DEF IInv

LEMMA RunningFacts ==
  ASSUME IInv, NEW op, Running(op)
  PROVE  /\ Instr = op /\ control = "running" /\ op \in Opcodes
         /\ ip \in Nat /\ ip + Operands(op) < Len(code)
         /\ op \notin {"PUSH", "PUSH_OBJ"} => \A k \in 1 .. Operands(op) : Operand(k) \in Nat
         /\ ~ Depth("val") < ValPops(op) /\ ~ Depth("obj") < ObjPops(op)
         /\ ~Overrun /\ ~BadReference /\ ~BadFrame /\ ~Unprintable /\ ~BadString /\ ~BadLayout
<1>1. Instr = op /\ control = "running" /\ ~BadInstruction /\ ~Underflow
  BY DEF Running, Defined
<1>2. op \in Opcodes /\ ~ ip + Operands(op) >= Len(code)
  BY <1>1 DEF BadInstruction
<1>3. ip \in Nat
  <2>1. "none" \notin Opcodes
    BY DEF Opcodes, NoOperand, OneOperand, Binary, FloatBinary, Unary
  <2>2. IsOpcodeAt(ip)
    BY <1>1, <1>2, <2>1 DEF Instr
  <2> QED BY <2>2 DEF IsOpcodeAt, IInv
<1>4. Operands(op) \in Nat /\ Len(code) \in Nat
  BY VMAssumption DEF Operands, code, IInv
<1>5. ip + Operands(op) < Len(code)
  BY <1>2, <1>3, <1>4
<1>6. op \notin {"PUSH", "PUSH_OBJ"} => \A k \in 1 .. Operands(op) : Operand(k) \in Nat
  BY <1>1 DEF BadInstruction
<1>7. ~ Depth("val") < ValPops(op) /\ ~ Depth("obj") < ObjPops(op)
  BY <1>1 DEF Underflow
<1> QED BY <1>1, <1>2, <1>3, <1>5, <1>6, <1>7 DEF Running, Defined

(* What an instruction has in the code after it is good in any heap.          *)
LEMMA Immediates ==
  ASSUME IInv, NEW op, Running(op), op \in {"PUSH", "PUSH_OBJ"}
  PROVE  Immediate \in Good(Len(heap))
<1>1. ip \in Nat /\ ip + 1 < Len(code)
  BY RunningFacts DEF Operands, OneOperand
<1>2. code \in Seq(Cell) /\ \A i \in 1 .. Len(code) : code[i].tag \notin PtrTags
  BY VMAssumption DEF code, IInv
<1>3. ip + 2 \in 1 .. Len(code)
  BY <1>1, <1>2
<1>4. code[ip + 2] \in Cell
  BY <1>2, <1>3, ElementOfSeq
<1> QED BY <1>2, <1>3, <1>4 DEF Immediate, Good, IsPtr

LEMMA CheckedPush ==
  ASSUME IInv, NEW s \in Kinds, NEW c \in Good(Len(heap)), PushChecked(s, 0, <<c>>),
         UNCHANGED <<frames, heap, out>>
  PROVE  IInv'
<1>1. GoodStacks(stacks, Len(heap)) /\ Len(heap) \in Nat
  BY DEF IInv, GoodHeap
<1>2. CASE Full(s)
  BY <1>1, <1>2, StacksOnly DEF PushChecked
<1>3. CASE ~Full(s)
  <2>1. Depth(s) \in Nat /\ Depth(s) + 1 <= STACK_MAX
    BY <1>1, <1>3, Heights
  <2>2. <<c>> \in Seq(Good(Len(heap))) /\ Len(<<c>>) = 1
    BY Singleton
  <2>4. 0 \in Nat /\ 0 <= Depth(s) /\ Depth(s) - 0 + Len(<<c>>) <= STACK_MAX
    BY <2>1, <2>2
  <2>3. GoodStacks(On(s, 0, <<c>>), Len(heap))
    BY <1>1, <2>2, <2>4, OnGood, Zenon
  <2> QED BY <1>3, <2>3, StacksOnly DEF PushChecked
<1> QED BY <1>2, <1>3

(* Pops, and pops followed by one push on a stack that was popped.            *)
LEMMA Pops ==
  ASSUME IInv, NEW s \in Kinds, NEW m \in Nat, m <= Depth(s)
  PROVE  /\ GoodStacks(On(s, m, << >>), Len(heap))
         /\ m > 0 => \A c \in Good(Len(heap)) : GoodStacks(On(s, m, <<c>>), Len(heap))
<1>1. GoodStacks(stacks, Len(heap)) /\ Len(heap) \in Nat
  BY DEF IInv, GoodHeap
<1>2. Depth(s) \in Nat /\ Depth(s) <= STACK_MAX /\ STACK_MAX \in Nat
  BY <1>1, Heights, VMAssumption
<1>3. << >> \in Seq(Good(Len(heap))) /\ Len(<< >>) = 0
  BY EmptySeq
<1>4. GoodStacks(On(s, m, << >>), Len(heap))
  <2>1. Depth(s) - m + Len(<< >>) <= STACK_MAX
    BY <1>2, <1>3
  <2> QED BY <1>1, <1>3, <2>1, OnGood, Zenon
<1>5. ASSUME m > 0, NEW c \in Good(Len(heap))
      PROVE  GoodStacks(On(s, m, <<c>>), Len(heap))
  <2>1. <<c>> \in Seq(Good(Len(heap))) /\ Len(<<c>>) = 1
    BY Singleton
  <2>2. Depth(s) - m + Len(<<c>>) <= STACK_MAX
    BY <1>2, <1>5, <2>1
  <2> QED BY <1>1, <2>1, <2>2, OnGood, Zenon
<1> QED BY <1>4, <1>5

(* The same on both stacks, with a push on the one that has room.             *)
LEMMA PopsBoth ==
  ASSUME IInv, NEW i \in Nat, i <= Depth("val"), NEW j \in Nat, j <= Depth("obj"),
         NEW c \in Good(Len(heap))
  PROVE  /\ GoodStacks(Both(i, << >>, j, << >>), Len(heap))
         /\ Depth("val") - i < STACK_MAX => GoodStacks(Both(i, <<c>>, j, << >>), Len(heap))
         /\ Depth("obj") - j < STACK_MAX => GoodStacks(Both(i, << >>, j, <<c>>), Len(heap))
<1>1. GoodStacks(stacks, Len(heap)) /\ Len(heap) \in Nat
  BY DEF IInv, GoodHeap
<1>2. /\ Depth("val") \in Nat /\ Depth("val") <= STACK_MAX
      /\ Depth("obj") \in Nat /\ Depth("obj") <= STACK_MAX
      /\ STACK_MAX \in Nat
  BY <1>1, Heights, VMAssumption DEF Kinds
<1>3. << >> \in Seq(Good(Len(heap))) /\ Len(<< >>) = 0
  BY EmptySeq
<1>4. <<c>> \in Seq(Good(Len(heap))) /\ Len(<<c>>) = 1
  BY Singleton
<1>5. /\ Depth("val") - i + Len(<< >>) <= STACK_MAX
      /\ Depth("obj") - j + Len(<< >>) <= STACK_MAX
      /\ Depth("val") - i < STACK_MAX => Depth("val") - i + Len(<<c>>) <= STACK_MAX
      /\ Depth("obj") - j < STACK_MAX => Depth("obj") - j + Len(<<c>>) <= STACK_MAX
  BY <1>2, <1>3, <1>4
<1>6. GoodStacks(Both(i, << >>, j, << >>), Len(heap))
  BY <1>1, <1>3, <1>5, BothGood, Zenon
<1>7. Depth("val") - i < STACK_MAX => GoodStacks(Both(i, <<c>>, j, << >>), Len(heap))
  BY <1>1, <1>3, <1>4, <1>5, BothGood, Zenon
<1>8. Depth("obj") - j < STACK_MAX => GoodStacks(Both(i, << >>, j, <<c>>), Len(heap))
  BY <1>1, <1>3, <1>4, <1>5, BothGood, Zenon
<1> QED BY <1>6, <1>7, <1>8
-----------------------------------------------------------------------------
(* One step per action: stack instructions and arithmetic.                   *)

LEMMA Available ==
  ASSUME IInv, NEW op, Running(op)
  PROVE  /\ Depth("val") \in Nat /\ Depth("obj") \in Nat
         /\ op \in Binary \cup FloatBinary \cup {"SWAP", "PUSH_ARRAY", "SET_ARRAY"} => Depth("val") >= 2
         /\ op \in Unary \cup {"DUP", "JNE", "RET", "POP", "SET_LOCAL", "SET_HEAP", "GET_ARRAY",
                               "GET_ARRAY_OBJ", "SET_ARRAY_OBJ", "CAST_BYTE_ARRAY", "PRINT"}
              => Depth("val") >= 1
         /\ op \in {"EQ_OBJ", "NEQ_OBJ", "SET_HEAP_OBJ", "SET_ARRAY_OBJ", "SWAP_OBJ"} => Depth("obj") >= 2
         /\ op \in {"DUP_OBJ", "POP_OBJ", "SET_LOCAL_OBJ", "LEN_ARRAY", "GET_HEAP", "GET_HEAP_OBJ",
                    "SET_HEAP", "GET_ARRAY", "GET_ARRAY_OBJ", "SET_ARRAY"} => Depth("obj") >= 1
<1>1. Depth("val") \in Nat /\ Depth("obj") \in Nat
  BY Heights DEF IInv, GoodHeap, Kinds
<1>2. ~ Depth("val") < ValPops(op) /\ ~ Depth("obj") < ObjPops(op)
  BY RunningFacts
<1>3. op \in Binary \cup FloatBinary \cup {"SWAP", "PUSH_ARRAY", "SET_ARRAY"} => ValPops(op) = 2
  BY DEF ValPops, Unary, Binary, FloatBinary
<1>4. op \in Unary \cup {"DUP", "JNE", "RET", "POP", "SET_LOCAL", "SET_HEAP", "GET_ARRAY",
                         "GET_ARRAY_OBJ", "SET_ARRAY_OBJ", "CAST_BYTE_ARRAY", "PRINT"}
        => ValPops(op) = 1
  BY DEF ValPops, Unary, Binary, FloatBinary
<1>5. op \in {"EQ_OBJ", "NEQ_OBJ", "SET_HEAP_OBJ", "SET_ARRAY_OBJ", "SWAP_OBJ"} => ObjPops(op) = 2
  BY DEF ObjPops
<1>6. op \in {"DUP_OBJ", "POP_OBJ", "SET_LOCAL_OBJ", "LEN_ARRAY", "GET_HEAP", "GET_HEAP_OBJ",
              "SET_HEAP", "GET_ARRAY", "GET_ARRAY_OBJ", "SET_ARRAY"} => ObjPops(op) = 1
  BY DEF ObjPops
<1> QED BY <1>1, <1>2, <1>3, <1>4, <1>5, <1>6

(* PUSH, DUP, POP and SWAP, on either stack, preserve the invariant.            *)
LEMMA StackInstructions ==
  ASSUME IInv, NEW s \in Kinds, Push(s) \/ Dup(s) \/ Pop(s) \/ Swap(s)
  PROVE  IInv'
<1>1. s = "val" \/ s = "obj"
  BY DEF Kinds
<1>2. GoodStacks(stacks, Len(heap)) /\ Len(heap) \in Nat
  BY DEF IInv, GoodHeap
<1>3. CASE Push(s)
  <2>1. Immediate \in Good(Len(heap))
    BY <1>3, Immediates DEF Push, Of
  <2> QED BY <1>3, <2>1, CheckedPush DEF Push
<1>4. CASE Dup(s)
  <2>1. Depth(s) \in Nat /\ Depth(s) >= 1
    BY <1>1, <1>4, Available DEF Dup, Of
  <2>2. Peek(s, 0) \in Good(Len(heap))
    BY <1>2, <2>1, PeekGood
  <2> QED BY <1>4, <2>2, CheckedPush DEF Dup
<1>5. CASE Pop(s)
  <2>1. Depth(s) \in Nat /\ 1 <= Depth(s)
    BY <1>1, <1>5, Available DEF Pop, Of
  <2>2. GoodStacks(On(s, 1, << >>), Len(heap))
    BY <2>1, Pops
  <2> QED BY <1>5, <2>2, StacksOnly DEF Pop
<1>6. CASE Swap(s)
  <2>1. Depth(s) \in Nat /\ 2 <= Depth(s) /\ Depth(s) <= STACK_MAX
    BY <1>1, <1>2, <1>6, Available, Heights DEF Swap, Of
  <2>2. Peek(s, 0) \in Good(Len(heap)) /\ Peek(s, 1) \in Good(Len(heap))
    BY <1>2, <2>1, PeekGood
  <2>3. /\ <<Peek(s, 0), Peek(s, 1)>> \in Seq(Good(Len(heap)))
        /\ Len(<<Peek(s, 0), Peek(s, 1)>>) = 2
    BY <2>2, Pair
  <2>4. 2 \in Nat /\ Depth(s) - 2 + Len(<<Peek(s, 0), Peek(s, 1)>>) <= STACK_MAX
    BY <2>1, <2>3
  <2>5. GoodStacks(On(s, 2, <<Peek(s, 0), Peek(s, 1)>>), Len(heap))
    BY <1>2, <2>1, <2>3, <2>4, OnGood, Zenon
  <2> QED BY <1>6, <2>5, StacksOnly DEF Swap
<1> QED BY <1>3, <1>4, <1>5, <1>6

(* Arithmetic gives integers; DIV and MOD only where the divisor is not 0.     *)
LEMMA Results ==
  ASSUME NEW op \in Binary, NEW a \in Int, NEW b \in Int, ~(op \in {"DIV", "MOD"} /\ b = 0)
  PROVE  Eval(op, a, b) \in Int
<1>1. \A n \in Int : Wrap(n) \in Int
  BY VMAssumption DEF Wrap
<1>2. \A p \in BOOLEAN : Bool(p) \in Int
  BY DEF Bool
<1>3. op \in {"DIV", "MOD"} => Quotient(a, b) \in Int
  <2>1. op \in {"DIV", "MOD"} => Magnitude(a) \in Nat /\ Magnitude(b) \in Nat \ {0}
    BY DEF Magnitude
  <2>2. op \in {"DIV", "MOD"} => Magnitude(a) \div Magnitude(b) \in Int
    BY <2>1
  <2> QED BY <2>2 DEF Quotient
<1>4. op \in {"DIV", "MOD"} => Remainder(a, b) \in Int
  BY <1>3 DEF Remainder
<1>5. a + b \in Int /\ a - b \in Int /\ a * b \in Int
  OBVIOUS
<1> QED BY <1>1, <1>2, <1>3, <1>4, <1>5 DEF Eval, Binary, Bool

(* The operands of an arithmetic instruction are some bits, read as integers.  *)
LEMMA TopOperands ==
  ASSUME IInv, NEW s \in Kinds, NEW k \in Nat, k < Depth(s)
  PROVE  IntOf(Peek(s, k)) \in Int /\ Peek(s, k) \in Cell /\ Peek(s, k) \in Good(Len(heap))
<1>1. GoodStacks(stacks, Len(heap)) /\ Len(heap) \in Nat
  BY DEF IInv, GoodHeap
<1>2. Peek(s, k) \in Cell /\ Peek(s, k) \in Good(Len(heap))
  BY <1>1, PeekGood
<1> QED BY <1>2, CellFacts

LEMMA Arithmetic ==
  ASSUME IInv,
         \/ \E op \in Binary : BinaryOp(op)
         \/ \E op \in FloatBinary : FloatOp(op, 2)
         \/ FloatOp("FLOAT_UNARY_MINUS", 1)
         \/ \E op \in Unary \ {"FLOAT_UNARY_MINUS"} : UnaryOp(op)
         \/ \E op \in {"EQ_OBJ", "NEQ_OBJ"} : EqObj(op)
  PROVE  IInv'
<1> DEFINE n == Len(heap)
<1>1. n \in Nat /\ GoodStacks(stacks, n)
  BY DEF IInv, GoodHeap
<1>2. /\ \A i \in Int : Num(i) \in Good(n)
      /\ \A b \in BOOLEAN : Float(b) \in Good(n)
  BY <1>1, PlainCells
<1>3. ASSUME NEW op \in Binary, BinaryOp(op)
      PROVE  IInv'
  <2> DEFINE a == IntOf(Peek("val", 1))
             b == IntOf(Peek("val", 0))
  <2>1. Depth("val") \in Nat /\ 2 <= Depth("val") /\ "val" \in Kinds
    BY <1>3, Available DEF BinaryOp, Kinds
  <2>2. a \in Int /\ b \in Int
    BY <2>1, TopOperands
  <2>3. /\ GoodStacks(On("val", 2, << >>), n)
        /\ \A c \in Good(n) : GoodStacks(On("val", 2, <<c>>), n)
    BY <2>1, Pops
  <2>4. CASE op \in {"DIV", "MOD"} /\ b = 0
    BY <1>3, <2>3, <2>4, StacksOnly DEF BinaryOp
  <2>5. CASE ~(op \in {"DIV", "MOD"} /\ b = 0)
    <3>1. Num(Eval(op, a, b)) \in Good(n)
      BY <1>2, <2>2, <2>5, Results
    <3>2. GoodStacks(On("val", 2, <<Num(Eval(op, a, b))>>), n)
      BY <2>3, <3>1
    <3> QED BY <1>3, <2>5, <3>2, StacksOnly DEF BinaryOp
  <2> QED BY <2>4, <2>5
<1>4. ASSUME NEW op, NEW m \in {1, 2}, FloatOp(op, m),
             (op \in FloatBinary /\ m = 2) \/ (op = "FLOAT_UNARY_MINUS" /\ m = 1)
      PROVE  IInv'
  <2>1. Depth("val") \in Nat /\ m <= Depth("val") /\ "val" \in Kinds /\ m \in Nat /\ m > 0
    BY <1>4, Available DEF FloatOp, Kinds, Unary
  <2>2. \A c \in Good(n) : GoodStacks(On("val", m, <<c>>), n)
    BY <2>1, Pops, Zenon
  <2>3. PICK nonzero \in BOOLEAN : Step(On("val", m, <<Float(nonzero)>>))
    BY <1>4 DEF FloatOp
  <2> QED BY <1>2, <1>4, <2>2, <2>3, StacksOnly DEF FloatOp
<1>5. ASSUME NEW op \in Unary \ {"FLOAT_UNARY_MINUS"}, UnaryOp(op)
      PROVE  IInv'
  <2>1. Depth("val") \in Nat /\ 1 <= Depth("val") /\ "val" \in Kinds /\ 1 \in Nat /\ 1 > 0
    BY <1>5, Available DEF UnaryOp, Kinds
  <2>2. \A c \in Good(n) : GoodStacks(On("val", 1, <<c>>), n)
    BY <2>1, Pops, Zenon
  <2>3. IntOf(Peek("val", 0)) \in Int
    BY <2>1, TopOperands
  <2> DEFINE a == IntOf(Peek("val", 0))
             results == CASE op = "NOT"         -> {Num(Bool(a = 0))}
                          [] op = "UNARY_MINUS" -> {Num(Wrap(-a))}
                          [] op = "CAST_FLOAT"  -> {Float(a # 0)}
                          [] op = "CAST_INT"    -> {Num(i) : i \in IF a = 0 THEN {0} ELSE FloatInts}
  <2>4. PICK c \in results : Step(On("val", 1, <<c>>))
    BY <1>5 DEF UnaryOp
  <2>5. c \in Good(n)
    <3>1. Bool(a = 0) \in Int /\ Wrap(-a) \in Int
      BY <2>3, VMAssumption DEF Bool, Wrap
    <3>2. CASE op = "CAST_INT"
      <4>1. PICK i \in IF a = 0 THEN {0} ELSE FloatInts : c = Num(i)
        BY <2>4, <3>2
      <4>2. i \in Int
        BY VMAssumption
      <4> QED BY <1>2, <4>1, <4>2
    <3>3. CASE op # "CAST_INT"
      BY <1>2, <2>4, <3>1, <3>3 DEF Unary
    <3> QED BY <3>2, <3>3
  <2> QED BY <1>5, <2>2, <2>4, <2>5, StacksOnly DEF UnaryOp
<1>6. ASSUME NEW op \in {"EQ_OBJ", "NEQ_OBJ"}, EqObj(op)
      PROVE  IInv'
  <2> DEFINE same == SameBits(Peek("obj", 0), Peek("obj", 1))
             c == Num(Bool(same = (op = "EQ_OBJ")))
  <2>1. /\ Depth("obj") \in Nat /\ 2 <= Depth("obj") /\ Depth("val") \in Nat
    BY <1>6, Available DEF EqObj
  <2>2. Depth("val") < STACK_MAX
    BY <1>6, <2>1, RunningFacts, VMAssumption DEF EqObj, Overrun
  <2>3. c \in Good(n)
    BY <1>2 DEF Bool
  <2>4. 0 \in Nat /\ 0 <= Depth("val") /\ 2 \in Nat /\ Depth("val") - 0 < STACK_MAX
    BY <2>1, <2>2
  <2>5. GoodStacks(Both(0, <<c>>, 2, << >>), n)
    BY <2>1, <2>3, <2>4, PopsBoth, Zenon
  <2> QED BY <1>6, <2>5, StacksOnly DEF EqObj
<1>7. ASSUME \E op \in FloatBinary : FloatOp(op, 2)
      PROVE  IInv'
  <2>1. PICK op \in FloatBinary : FloatOp(op, 2)
    BY <1>7
  <2>2. 2 \in {1, 2} /\ (\/ (op \in FloatBinary /\ 2 = 2) \/ (op = "FLOAT_UNARY_MINUS" /\ 2 = 1))
    BY <2>1
  <2> QED BY <1>4, <2>1, <2>2, Zenon
<1>8. ASSUME FloatOp("FLOAT_UNARY_MINUS", 1)
      PROVE  IInv'
  <2>1. 1 \in {1, 2}
    OBVIOUS
  <2> QED BY <1>4, <1>8, <2>1
<1> QED BY <1>3, <1>5, <1>6, <1>7, <1>8
-----------------------------------------------------------------------------
(* Instructions of the heap.                                                 *)

LEMMA FunctionSeq ==
  ASSUME NEW S, NEW n \in Nat, NEW f \in [1 .. n -> S]
  PROVE  f \in Seq(S) /\ Len(f) = n
<1>1. f \in Seq(S)
  BY SeqDef
<1>2. Len(f) \in Nat /\ DOMAIN f = 1 .. Len(f)
  BY <1>1, LenProperties
<1>3. 1 .. Len(f) = 1 .. n
  BY <1>2
<1> QED BY <1>1, <1>2, <1>3

(* New cells at the end of the heap, and a pointer to them.                   *)
LEMMA Allocation ==
  ASSUME IInv, NEW n \in Nat, NEW cells \in [1 .. n -> Good(Len(heap))], NEW tag \in PtrTags,
         NEW i \in Nat, i <= Depth("val"), NEW j \in Nat, j <= Depth("obj"),
         ~Full("obj"), Len(heap) + n <= HEAP_MAX,
         Step(Both(i, << >>, j, <<Ptr(tag, Len(heap), n)>>)),
         heap' = heap \o cells, UNCHANGED <<frames, out>>
  PROVE  IInv'
<1> DEFINE L == Len(heap)
           p == Ptr(tag, L, n)
<1>1. L \in Nat /\ L + n \in Nat /\ L <= L + n
  BY DEF IInv, GoodHeap
<1>2. heap \in Seq(Good(L + n)) /\ cells \in Seq(Good(L + n)) /\ Len(cells) = n
  <2>1. cells \in Seq(Good(L)) /\ Len(cells) = n
    BY FunctionSeq
  <2> QED BY <1>1, <2>1, Growing DEF IInv, GoodHeap
<1>3. heap' \in Seq(Good(L + n)) /\ Len(heap') = L + n
  BY <1>2, ConcatProperties
<1>4. GoodHeap(heap')
  BY <1>3 DEF GoodHeap
<1>5. GoodFrames(frames', L + n) /\ GoodStacks(stacks, L + n)
  BY <1>1, Growing DEF IInv
<1>6. p \in Good(L + n)
  BY <1>1, NewPointer
<1>7. <<p>> \in Seq(Good(L + n)) /\ Len(<<p>>) = 1 /\ << >> \in Seq(Good(L + n)) /\ Len(<< >>) = 0
  BY <1>6, Singleton, EmptySeq
<1>8. /\ Depth("val") \in Nat /\ Depth("val") <= STACK_MAX
      /\ Depth("obj") \in Nat /\ Depth("obj") + 1 <= STACK_MAX /\ STACK_MAX \in Nat
  BY <1>1, <1>5, Heights, VMAssumption DEF Kinds
<1>9. /\ Depth("val") - i + Len(<< >>) <= STACK_MAX
      /\ Depth("obj") - j + Len(<<p>>) <= STACK_MAX
  BY <1>7, <1>8
<1>10. GoodStacks(Both(i, << >>, j, <<p>>), L + n)
  BY <1>1, <1>5, <1>7, <1>9, BothGood, Zenon
<1>11. GoodStacks(Both(i, << >>, j, <<p>>), Len(heap')) /\ GoodFrames(frames', Len(heap'))
  BY <1>3, <1>5, <1>10
<1>12. out' \in Seq(Printed)
  BY DEF IInv
<1> QED BY <1>4, <1>11, <1>12, Ends, Zenon

(* The cells that PUSH_HEAP pops are there, and good.                         *)
LEMMA LayoutFacts ==
  ASSUME IInv, NEW n \in Nat, NEW k \in Layouts(n)
  PROVE  /\ \A s \in Kinds : Taken(k, s, n) \in Nat /\ Taken(k, s, n) <= Depth(s)
         /\ \A i \in 0 .. n - 1 : /\ k[i] \in Kinds /\ Taken(k, k[i], i) \in Nat
                                  /\ Taken(k, k[i], i) < Depth(k[i])
         /\ \A i \in 0 .. n - 1 : Popped(k, i) \in Good(Len(heap))
<1> DEFINE T(s, i) == {j \in 0 .. i - 1 : k[j] = s}
<1>1. IsLayout(k, n) /\ k \in [0 .. n - 1 -> Kinds]
  BY DEF Layouts
<1>2. ASSUME NEW s \in Kinds, NEW i \in Nat
      PROVE  IsFiniteSet(T(s, i)) /\ Taken(k, s, i) \in Nat
  <2>1. IsFiniteSet(0 .. i - 1)
    BY FS_Interval
  <2>2. T(s, i) \in SUBSET (0 .. i - 1)
    OBVIOUS
  <2>3. IsFiniteSet(T(s, i))
    BY <2>1, <2>2, FS_Subset
  <2> QED BY <2>3, FS_CardinalityType DEF Taken
<1>3. \A s \in Kinds : Taken(k, s, n) <= Depth(s)
  BY <1>1 DEF IsLayout
<1>4. ASSUME NEW i \in 0 .. n - 1
      PROVE  /\ k[i] \in Kinds /\ Taken(k, k[i], i) \in Nat /\ Taken(k, k[i], i) < Depth(k[i])
             /\ Popped(k, i) \in Good(Len(heap))
  <2> DEFINE s == k[i]
  <2>1. s \in Kinds /\ i \in Nat
    BY <1>1
  <2>2. T(s, i) \in SUBSET T(s, n) /\ i \in T(s, n) /\ i \notin T(s, i)
    BY <2>1
  <2>3. Cardinality(T(s, i)) <= Cardinality(T(s, n)) /\ Cardinality(T(s, i)) # Cardinality(T(s, n))
    BY <1>2, <2>1, <2>2, FS_Subset
  <2>4. Taken(k, s, i) <= Taken(k, s, n) /\ Taken(k, s, i) # Taken(k, s, n)
    BY <2>3 DEF Taken
  <2>5. Depth(s) \in Nat
    BY <2>1, Heights DEF IInv, GoodHeap
  <2>6. Taken(k, s, i) \in Nat /\ Taken(k, s, n) \in Nat
    BY <1>2, <2>1, Zenon
  <2>7. Taken(k, s, n) <= Depth(s)
    BY <1>3, <2>1
  <2>8. Taken(k, s, i) < Depth(s)
    BY <2>4, <2>5, <2>6, <2>7
  <2> QED BY <2>1, <2>6, <2>8, TopOperands DEF Popped
<1> QED BY <1>2, <1>3, <1>4

LEMMA ObjectConstruction ==
  ASSUME IInv, PushHeap
  PROVE  IInv'
<1> DEFINE n == Operand(1)
<1>1. n \in Nat
  BY RunningFacts DEF PushHeap, Operands, OneOperand
<1>2. CASE Full("obj") \/ ~Fits(n)
  BY <1>2, StacksOnly DEF PushHeap, IInv
<1>3. CASE ~(Full("obj") \/ ~Fits(n))
  <2>1. PICK k \in Layouts(n) :
          /\ Step(Both(Taken(k, "val", n), << >>,
                       Taken(k, "obj", n), <<Ptr("obj", Len(heap), n)>>))
          /\ heap' = heap \o [i \in 1 .. n |-> Popped(k, i - 1)]
    BY <1>3 DEF PushHeap
  <2>2. /\ Taken(k, "val", n) \in Nat /\ Taken(k, "val", n) <= Depth("val")
        /\ Taken(k, "obj", n) \in Nat /\ Taken(k, "obj", n) <= Depth("obj")
        /\ \A i \in 0 .. n - 1 : Popped(k, i) \in Good(Len(heap))
    BY <1>1, LayoutFacts DEF Kinds
  <2>3. [i \in 1 .. n |-> Popped(k, i - 1)] \in [1 .. n -> Good(Len(heap))]
    BY <1>1, <2>2
  <2>4. "obj" \in PtrTags /\ Len(heap) + n <= HEAP_MAX /\ UNCHANGED <<frames, out>>
    BY <1>3 DEF PtrTags, Fits, PushHeap
  <2> QED BY <1>1, <1>3, <2>1, <2>2, <2>3, <2>4, Allocation, Zenon
<1> QED BY <1>2, <1>3

LEMMA Lengths ==
  ASSUME IInv, LenArray
  PROVE  IInv'
<1> DEFINE ref == Peek("obj", 0)
<1>1. /\ Depth("val") \in Nat /\ Depth("obj") \in Nat /\ 1 <= Depth("obj")
      /\ Instr = "LEN_ARRAY" /\ ~BadReference
  BY Available, RunningFacts DEF LenArray
<1>2. CASE Full("val")
  <2>1. GoodStacks(On("obj", 1, << >>), Len(heap))
    BY <1>1, Pops DEF Kinds
  <2> QED BY <1>2, <2>1, StacksOnly DEF LenArray
<1>3. CASE ~Full("val")
  <2>1. IsRef(ref) /\ ref \in Cell
    BY <1>1, TopOperands DEF BadReference, Kinds
  <2>2. Num(ref.count) \in Good(Len(heap))
    BY <2>1, CellFacts, PlainCells DEF IInv, GoodHeap
  <2>3. Depth("val") < STACK_MAX
    BY <1>1, <1>3, VMAssumption DEF Full
  <2>4. 0 \in Nat /\ 1 \in Nat /\ 0 <= Depth("val") /\ Depth("val") - 0 < STACK_MAX
    BY <1>1, <2>3
  <2>5. GoodStacks(Both(0, <<Num(ref.count)>>, 1, << >>), Len(heap))
    BY <1>1, <2>2, <2>4, PopsBoth, Zenon
  <2> QED BY <1>3, <2>5, StacksOnly DEF LenArray
<1> QED BY <1>2, <1>3

LEMMA ArrayConstruction ==
  ASSUME IInv, PushArray \/ CastByteArray
  PROVE  IInv'
<1> DEFINE L == Len(heap)
<1>1. L \in Nat /\ GoodStacks(stacks, L)
  BY DEF IInv, GoodHeap
<1>2. (\A i \in Int : Num(i) \in Good(L)) /\ Zero \in Good(L)
  BY <1>1, PlainCells
<1>3. ASSUME PushArray
      PROVE  IInv'
  <2> DEFINE n == IntOf(Peek("val", 1))
  <2>1. /\ Depth("val") \in Nat /\ 2 <= Depth("val") /\ Depth("obj") \in Nat
    BY <1>3, Available DEF PushArray
  <2>2. n \in Int
    BY <2>1, TopOperands DEF Kinds
  <2>3. CASE Full("obj")
    BY <1>1, <1>3, <2>3, StacksOnly DEF PushArray
  <2>4. CASE ~Full("obj") /\ (n < 1 \/ ~Fits(n))
    <3>1. GoodStacks(On("val", 2, << >>), L)
      BY <2>1, Pops DEF Kinds
    <3> QED BY <1>3, <2>4, <3>1, StacksOnly DEF PushArray
  <2>5. CASE ~Full("obj") /\ ~(n < 1 \/ ~Fits(n))
    <3> DEFINE tag == ArrayTag(IntOf(Peek("val", 0)))
    <3>1. n \in Nat /\ L + n <= HEAP_MAX
      BY <2>2, <2>5 DEF Fits
    <3>2. tag \in PtrTags
      BY DEF ArrayTag, PtrTags
    <3>3. Zeroes(n) \in [1 .. n -> Good(L)]
      BY <1>2 DEF Zeroes
    <3>4. /\ Step(Both(2, << >>, 0, <<Ptr(tag, L, n)>>))
          /\ heap' = heap \o Zeroes(n) /\ UNCHANGED <<frames, out>>
      BY <1>3, <2>5 DEF PushArray
    <3>5. 2 \in Nat /\ 0 \in Nat /\ 0 <= Depth("obj")
      BY <2>1
    <3> QED BY <2>1, <2>5, <3>1, <3>2, <3>3, <3>4, <3>5, Allocation, Zenon
  <2> QED BY <2>3, <2>4, <2>5
<1>4. ASSUME CastByteArray
      PROVE  IInv'
  <2> DEFINE str == pool[Peek("val", 0).val + 1]
             n == Len(str)
  <2>1. /\ Depth("val") \in Nat /\ 1 <= Depth("val") /\ Depth("obj") \in Nat /\ "val" \in Kinds
        /\ Depth("val") <= STACK_MAX
    BY <1>1, <1>4, Available, Heights DEF CastByteArray, Kinds
  <2>2. str \in Seq(Nat) /\ n \in Nat
    <3>1. Instr = "CAST_BYTE_ARRAY" /\ ~BadString
      BY <1>4, RunningFacts DEF CastByteArray
    <3>2. Printable(TYPE_STRING, Peek("val", 0))
      BY <3>1 DEF BadString
    <3>3. Peek("val", 0).val \in 0 .. Len(pool) - 1
      BY <3>2 DEF Printable, TYPE_STRING, TYPE_NULL, TYPE_BYTE, TYPE_INT, TYPE_FLOAT, TYPE_BOOL
    <3>4. pool \in Seq(Seq(Nat))
      BY VMAssumption DEF pool, IInv
    <3>5. Peek("val", 0).val + 1 \in 1 .. Len(pool)
      BY <3>3, <3>4
    <3>6. str \in Seq(Nat)
      BY <3>4, <3>5, ElementOfSeq
    <3> QED BY <3>6
  <2>3. CASE Full("val")
    <3>1. Num(n) \in Good(L) /\ 1 \in Nat /\ 1 > 0
      BY <1>2, <2>2
    <3>2. GoodStacks(On("val", 1, <<Num(n)>>), L)
      BY <2>1, <3>1, Pops, Zenon
    <3> QED BY <1>4, <2>3, <3>2, StacksOnly DEF CastByteArray
  <2>4. CASE ~Full("val") /\ Full("obj")
    <3> DEFINE cells == <<Num(n), Num(TYPE_BYTE)>>
    <3>1. cells \in Seq(Good(L)) /\ Len(cells) = 2
      BY <1>2, <2>2 DEF TYPE_BYTE
    <3>2. 1 \in Nat /\ Depth("val") - 1 + Len(cells) <= STACK_MAX
      BY <1>1, <2>1, <2>4, <3>1, Heights
    <3>3. GoodStacks(On("val", 1, cells), L)
      BY <1>1, <2>1, <3>1, <3>2, OnGood, Zenon
    <3> QED BY <1>4, <2>4, <3>3, StacksOnly DEF CastByteArray
  <2>5. CASE ~Full("val") /\ ~Full("obj") /\ (n < 1 \/ ~Fits(n))
    <3>1. GoodStacks(On("val", 1, << >>), L)
      BY <2>1, Pops
    <3> QED BY <1>4, <2>5, <3>1, StacksOnly DEF CastByteArray
  <2>6. CASE ~Full("val") /\ ~Full("obj") /\ ~(n < 1 \/ ~Fits(n))
    <3> DEFINE cells == [i \in 1 .. n |-> Num(str[i])]
    <3>1. "arr" \in PtrTags /\ L + n <= HEAP_MAX
      BY <2>6 DEF PtrTags, Fits
    <3>2. cells \in [1 .. n -> Good(L)]
      BY <1>2, <2>2, ElementOfSeq
    <3>3. /\ Step(Both(1, << >>, 0, <<Ptr("arr", L, n)>>))
          /\ heap' = heap \o cells /\ UNCHANGED <<frames, out>>
      BY <1>4, <2>6 DEF CastByteArray
    <3>4. 1 \in Nat /\ 0 \in Nat /\ 0 <= Depth("obj")
      BY <2>1
    <3> QED BY <2>1, <2>2, <2>6, <3>1, <3>2, <3>3, <3>4, Allocation, Zenon
  <2> QED BY <2>3, <2>4, <2>5, <2>6
<1> QED BY <1>3, <1>4
-----------------------------------------------------------------------------
(* Fields and elements.                                                      *)

(* A cell of the heap is replaced.                                           *)
LEMMA Stored ==
  ASSUME IInv, NEW l, InHeap(l), NEW c \in Good(Len(heap)), heap' = [heap EXCEPT ![l + 1] = c],
         NEW st, GoodStacks(st, Len(heap)), Step(st), UNCHANGED <<frames, out>>
  PROVE  IInv'
<1>1. heap \in Seq(Good(Len(heap))) /\ Len(heap) \in Nat
  BY DEF IInv, GoodHeap
<1>2. l + 1 \in 1 .. Len(heap)
  BY <1>1 DEF InHeap
<1>3. heap' \in Seq(Good(Len(heap))) /\ Len(heap') = Len(heap)
  BY <1>1, <1>2, ExceptSeq
<1>4. GoodHeap(heap') /\ GoodStacks(st, Len(heap')) /\ GoodFrames(frames', Len(heap'))
  BY <1>3 DEF GoodHeap, IInv
<1>5. out' \in Seq(Printed)
  BY DEF IInv
<1> QED BY <1>4, <1>5, Ends

LEMMA Loads ==
  ASSUME IInv, NEW l, InHeap(l)
  PROVE  At(l) \in Good(Len(heap))
<1>1. heap \in Seq(Good(Len(heap))) /\ l + 1 \in 1 .. Len(heap)
  BY DEF IInv, GoodHeap, InHeap
<1> QED BY <1>1, ElementOfSeq DEF At

(* A fetched cell is pushed in the place of the reference, or checked for.    *)
LEMMA Fetches ==
  ASSUME IInv, NEW s \in Kinds, NEW m \in Nat, m <= Depth("val"), 1 <= Depth("obj"),
         s = "val" => Depth("val") - m < STACK_MAX,
         NEW l, InHeap(l), Fetch(s, m, l), UNCHANGED <<frames, heap, out>>
  PROVE  IInv'
<1>1. At(l) \in Good(Len(heap))
  BY Loads
<1>2. Depth("obj") \in Nat /\ Depth("obj") <= STACK_MAX /\ STACK_MAX \in Nat
  BY Heights, VMAssumption DEF IInv, GoodHeap, Kinds
<1>3. 1 \in Nat /\ Depth("obj") - 1 < STACK_MAX
  BY <1>2
<1>4. CASE s = "val"
  <2>1. GoodStacks(Both(m, <<At(l)>>, 1, << >>), Len(heap))
    BY <1>1, <1>3, <1>4, PopsBoth, Zenon
  <2> QED BY <1>4, <2>1, StacksOnly DEF Fetch
<1>5. CASE s # "val"
  <2>1. GoodStacks(Both(m, << >>, 1, <<At(l)>>), Len(heap))
    BY <1>1, <1>3, PopsBoth, Zenon
  <2> QED BY <1>5, <2>1, StacksOnly DEF Fetch
<1> QED BY <1>4, <1>5

LEMMA FieldAccess ==
  ASSUME IInv, NEW s \in Kinds, GetHeap(s) \/ SetHeap(s)
  PROVE  IInv'
<1> DEFINE ref == Peek("obj", 0)
           l == ref.val + Operand(1)
<1>1. s = "val" \/ s = "obj"
  BY DEF Kinds
<1>2. CASE GetHeap(s)
  <2> DEFINE op == Of(s, "GET_HEAP", "GET_HEAP_OBJ")
  <2>1. Running(op) /\ op \in {"GET_HEAP", "GET_HEAP_OBJ"} /\ (s = "val" => op = "GET_HEAP")
    BY <1>2 DEF GetHeap, Of
  <2>2. /\ Depth("val") \in Nat /\ Depth("obj") \in Nat /\ 1 <= Depth("obj")
    BY <2>1, Available
  <2>3. Instr = op /\ ~Overrun /\ ~BadReference
    BY <2>1, RunningFacts
  <2>4. CASE ref = Zero
    <3>1. GoodStacks(On("obj", 1, << >>), Len(heap))
      BY <2>2, Pops DEF Kinds
    <3> QED BY <1>2, <2>4, <3>1, StacksOnly DEF GetHeap
  <2>5. CASE ref # Zero
    <3>1. InHeap(l)
      BY <2>1, <2>3, <2>5 DEF BadReference, HeapAccess
    <3>2. s = "val" => Depth("val") < STACK_MAX
      BY <2>1, <2>2, <2>3, <2>5, VMAssumption DEF Overrun
    <3>3. 0 \in Nat /\ 0 <= Depth("val") /\ (s = "val" => Depth("val") - 0 < STACK_MAX)
      BY <2>2, <3>2
    <3>4. Fetch(s, 0, l) /\ UNCHANGED <<frames, heap, out>>
      BY <1>2, <2>5 DEF GetHeap
    <3> QED BY <2>2, <3>1, <3>3, <3>4, Fetches, Zenon
  <2> QED BY <2>4, <2>5
<1>3. CASE SetHeap(s)
  <2> DEFINE op == Of(s, "SET_HEAP", "SET_HEAP_OBJ")
             value == FieldValue(s)
             st == IF s = "val" THEN Both(1, << >>, 1, << >>) ELSE On("obj", 2, << >>)
  <2>1. /\ Running(op) /\ op \in {"SET_HEAP", "SET_HEAP_OBJ"}
        /\ s = "val" => op = "SET_HEAP"
        /\ s = "obj" => op = "SET_HEAP_OBJ"
    BY <1>3 DEF SetHeap, Of
  <2>2. /\ Depth("val") \in Nat /\ Depth("obj") \in Nat /\ 1 <= Depth("obj")
        /\ s = "val" => 1 <= Depth("val")
        /\ s = "obj" => 2 <= Depth("obj")
    BY <2>1, Available
  <2>3. Instr = op /\ ~BadReference
    BY <2>1, RunningFacts
  <2>4. InHeap(l)
    BY <2>1, <2>3 DEF BadReference, HeapAccess
  <2>5. value \in Good(Len(heap))
    BY <1>1, <2>2, TopOperands DEF Kinds, FieldValue
  <2>6. Zero \in Good(Len(heap)) /\ 1 \in Nat
    BY PlainCells DEF IInv, GoodHeap
  <2>7. s = "val" => GoodStacks(Both(1, << >>, 1, << >>), Len(heap))
    BY <2>2, <2>6, PopsBoth, Zenon
  <2>8. s = "obj" => GoodStacks(On("obj", 2, << >>), Len(heap))
    BY <2>2, Pops DEF Kinds
  <2>9. GoodStacks(st, Len(heap))
    BY <1>1, <2>7, <2>8
  <2>10. heap' = [heap EXCEPT ![l + 1] = value] /\ Step(st) /\ UNCHANGED <<frames, out>>
    BY <1>3 DEF SetHeap
  <2> HIDE DEF st, value, l
  <2> QED BY <2>4, <2>5, <2>9, <2>10, Stored
<1> QED BY <1>2, <1>3

LEMMA ElementAccess ==
  ASSUME IInv, NEW s \in Kinds, GetArray(s) \/ SetArray(s)
  PROVE  IInv'
<1> DEFINE ref == Peek("obj", 0)
           index == IntOf(Peek("val", 0))
           l == ref.val + index
<1>1. s = "val" \/ s = "obj"
  BY DEF Kinds
<1>2. Zero \in Good(Len(heap)) /\ 1 \in Nat /\ 2 \in Nat
  BY PlainCells DEF IInv, GoodHeap
<1>3. CASE GetArray(s)
  <2> DEFINE op == Of(s, "GET_ARRAY", "GET_ARRAY_OBJ")
  <2>1. Running(op) /\ op \in {"GET_ARRAY", "GET_ARRAY_OBJ"}
    BY <1>3 DEF GetArray, Of
  <2>2. /\ Depth("val") \in Nat /\ Depth("obj") \in Nat /\ 1 <= Depth("val") /\ 1 <= Depth("obj")
        /\ Depth("val") <= STACK_MAX
    BY <2>1, Available, Heights DEF IInv, GoodHeap, Kinds
  <2>3. Instr = op /\ ~BadReference
    BY <2>1, RunningFacts
  <2>4. CASE ~InBounds(ref, index)
    <3>1. GoodStacks(Both(1, << >>, 1, << >>), Len(heap))
      BY <1>2, <2>2, PopsBoth, Zenon
    <3> QED BY <1>3, <2>4, <3>1, StacksOnly DEF GetArray
  <2>5. CASE InBounds(ref, index)
    <3>1. InHeap(l)
      BY <2>1, <2>3, <2>5 DEF BadReference, ArrayAccess
    <3>2. s = "val" => Depth("val") - 1 < STACK_MAX
      BY <2>2, VMAssumption
    <3>3. Fetch(s, 1, l) /\ UNCHANGED <<frames, heap, out>>
      BY <1>3, <2>5 DEF GetArray
    <3> QED BY <1>2, <2>2, <3>1, <3>2, <3>3, Fetches, Zenon
  <2> QED BY <2>4, <2>5
<1>4. CASE SetArray(s)
  <2> DEFINE op == Of(s, "SET_ARRAY", "SET_ARRAY_OBJ")
             value == ElementValue(s)
             st == IF s = "val" THEN Both(2, << >>, 1, << >>) ELSE Both(1, << >>, 2, << >>)
  <2>1. /\ Running(op) /\ op \in {"SET_ARRAY", "SET_ARRAY_OBJ"}
        /\ s = "val" => op = "SET_ARRAY"
        /\ s = "obj" => op = "SET_ARRAY_OBJ"
    BY <1>4 DEF SetArray, Of
  <2>2. /\ Depth("val") \in Nat /\ Depth("obj") \in Nat
        /\ 1 <= Depth("val") /\ 1 <= Depth("obj")
        /\ s = "val" => 2 <= Depth("val")
        /\ s = "obj" => 2 <= Depth("obj")
    BY <2>1, Available
  <2>3. Instr = op /\ ~BadReference
    BY <2>1, RunningFacts
  <2>4. CASE ~InBounds(ref, index)
    <3>1. GoodStacks(Both(1, << >>, 1, << >>), Len(heap))
      BY <1>2, <2>2, PopsBoth, Zenon
    <3> QED BY <1>4, <2>4, <3>1, StacksOnly DEF SetArray
  <2>5. CASE InBounds(ref, index)
    <3>1. InHeap(l)
      BY <2>1, <2>3, <2>5 DEF BadReference, ArrayAccess
    <3>2. value \in Good(Len(heap))
      BY <1>1, <2>2, TopOperands DEF Kinds, ElementValue
    <3>3. s = "val" => GoodStacks(Both(2, << >>, 1, << >>), Len(heap))
      BY <1>2, <2>2, PopsBoth, Zenon
    <3>4. s = "obj" => GoodStacks(Both(1, << >>, 2, << >>), Len(heap))
      BY <1>2, <2>2, PopsBoth, Zenon
    <3>5. GoodStacks(st, Len(heap))
      BY <1>1, <3>3, <3>4
    <3>6. heap' = [heap EXCEPT ![l + 1] = value] /\ Step(st) /\ UNCHANGED <<frames, out>>
      BY <1>4, <2>5 DEF SetArray
    <3> HIDE DEF st, value, l
    <3> QED BY <3>1, <3>2, <3>5, <3>6, Stored
  <2> QED BY <2>4, <2>5
<1> QED BY <1>3, <1>4
-----------------------------------------------------------------------------
(* Frames and locals.                                                        *)

LEMMA FrameFacts ==
  ASSUME IInv, NEW s \in Kinds
  PROVE  /\ frames[s] \in Frame(Len(heap)) /\ Nested(frames[s]) /\ frames \in [Kinds -> Frame(Len(heap))]
         /\ Len(frames[s].offsets) \in Nat /\ Len(frames[s].offsets) < STACK_MAX
         /\ frames[s].offsets \in Seq(Nat) /\ frames[s].index \in Nat
         /\ frames[s].values \in [Slots -> Good(Len(heap))]
BY DEF IInv, GoodFrames, Frame

(* A new frame starts at the next free slot, above all that are there.        *)
LEMMA FramePushed ==
  ASSUME NEW n, NEW f \in Frame(n), Nested(f), NEW g,
         g = [f EXCEPT !.offsets = Append(f.offsets, f.index)]
  PROVE  g \in Frame(n) /\ Nested(g) /\ Len(g.offsets) = Len(f.offsets) + 1
<1>1. f.offsets \in Seq(Nat) /\ f.index \in Nat /\ Len(f.offsets) \in Nat
  BY DEF Frame
<1>2. /\ g.offsets \in Seq(Nat) /\ Len(g.offsets) = Len(f.offsets) + 1
      /\ \A i \in 1 .. Len(f.offsets) : g.offsets[i] = f.offsets[i]
      /\ g.offsets[Len(f.offsets) + 1] = f.index
  BY <1>1, AppendProperties DEF Frame
<1>3. g \in Frame(n) /\ g.index = f.index
  BY <1>1, <1>2 DEF Frame
<1>4. ASSUME NEW i \in 1 .. Len(g.offsets)
      PROVE  /\ g.offsets[i] <= g.index
             /\ \A j \in 1 .. i : g.offsets[j] <= g.offsets[i]
  <2>1. CASE i \in 1 .. Len(f.offsets)
    BY <1>1, <1>2, <1>3, <2>1 DEF Nested
  <2>2. CASE i = Len(f.offsets) + 1
    BY <1>1, <1>2, <1>3, <2>2 DEF Nested
  <2> QED BY <1>1, <1>2, <2>1, <2>2
<1> QED BY <1>2, <1>3, <1>4 DEF Nested

(* The frame that is popped gives the slots above its start back.             *)
LEMMA FramePopped ==
  ASSUME NEW n, NEW f \in Frame(n), Nested(f), f.offsets # << >>, NEW g,
         g = [f EXCEPT !.index = f.offsets[Len(f.offsets)],
                       !.offsets = SubSeq(f.offsets, 1, Len(f.offsets) - 1)]
  PROVE  g \in Frame(n) /\ Nested(g) /\ Len(g.offsets) = Len(f.offsets) - 1
<1> DEFINE q == f.offsets
           m == Len(q)
           r == SubSeq(q, 1, m - 1)
<1>1. q \in Seq(Nat) /\ m \in Nat \ {0}
  BY EmptySeq DEF Frame
<1>2. \A i \in 1 .. m : q[i] \in Nat
  BY <1>1, ElementOfSeq
<1>3. \A i \in 1 .. m : \A j \in 1 .. i : q[j] <= q[i]
  BY DEF Nested
<1>4. g = [f EXCEPT !.index = q[m], !.offsets = r]
  OBVIOUS
<1> HIDE DEF q, m
<1>5. 1 \in Int /\ m - 1 \in Int /\ m \in 1 .. m /\ q[m] \in Nat /\ \A i \in 1 .. m - 1 : q[i] \in Nat
  BY <1>1, <1>2
<1>6. r \in Seq(Nat) /\ Len(r) = m - 1 /\ \A i \in 1 .. m - 1 : r[i] = q[i]
  BY <1>1, <1>5, SubSeqProperties
<1> HIDE DEF r
<1>7. g.offsets = r /\ g.index = q[m] /\ g \in Frame(n)
  BY <1>4, <1>5, <1>6 DEF Frame
<1>8. \A i \in 1 .. m - 1 : q[i] <= q[m]
  BY <1>1, <1>3, <1>5, SMTT(30)
<1>9. ASSUME NEW i \in 1 .. Len(g.offsets)
      PROVE  /\ g.offsets[i] <= g.index
             /\ \A j \in 1 .. i : g.offsets[j] <= g.offsets[i]
  <2>1. i \in 1 .. m - 1 /\ i \in 1 .. m /\ \A j \in 1 .. i : j \in 1 .. m - 1
    BY <1>1, <1>6, <1>7, SMTT(30)
  <2>2. g.offsets[i] = q[i] /\ \A j \in 1 .. i : g.offsets[j] = q[j]
    BY <1>6, <1>7, <2>1
  <2> QED BY <1>3, <1>7, <1>8, <2>1, <2>2
<1>10. Nested(g)
  BY <1>9 DEF Nested
<1> QED BY <1>6, <1>7, <1>10 DEF m, q

(* Frames change, and the stacks may lose a cell.                            *)
LEMMA FramesOnly ==
  ASSUME IInv, NEW st, Step(st), GoodStacks(st, Len(heap)),
         GoodFrames(frames', Len(heap)), UNCHANGED <<heap, out>>
  PROVE  IInv'
BY Ends DEF IInv

LEMMA Scopes ==
  ASSUME IInv, PushScope \/ PopScope
  PROVE  IInv'
<1> DEFINE n == Len(heap)
<1>1. GoodStacks(stacks, n) /\ "val" \in Kinds /\ "obj" \in Kinds /\ STACK_MAX \in Nat \ {0}
  BY VMAssumption DEF IInv, Kinds
<1>2. Len(frames["val"].offsets) = Len(frames["obj"].offsets)
  BY DEF IInv, GoodFrames
<1>3. ASSUME PushScope
      PROVE  IInv'
  <2> DEFINE full == \E s \in Kinds : \/ frames[s].index >= STACK_MAX - 1
                                      \/ Len(frames[s].offsets) >= STACK_MAX - 1
  <2>1. CASE full
    BY <1>1, <1>3, <2>1, StacksOnly DEF PushScope
  <2>2. CASE ~full
    <3>1. /\ frames' = [s \in Kinds |-> [frames[s] EXCEPT !.offsets = Append(@, frames[s].index)]]
          /\ Step(stacks) /\ UNCHANGED <<heap, out>>
      BY <1>3, <2>2 DEF PushScope
    <3>2. ASSUME NEW s \in Kinds
          PROVE  /\ frames'[s] \in Frame(n) /\ Nested(frames'[s])
                 /\ Len(frames'[s].offsets) = Len(frames[s].offsets) + 1
      <4>1. frames'[s] = [frames[s] EXCEPT !.offsets = Append(frames[s].offsets, frames[s].index)]
        BY <3>1
      <4> QED BY <4>1, FrameFacts, FramePushed
    <3>3. \A s \in Kinds : Len(frames'[s].offsets) < STACK_MAX
      BY <1>1, <2>2, <3>2, FrameFacts
    <3>4. frames' \in [Kinds -> Frame(n)]
      BY <3>1, <3>2
    <3>5. GoodFrames(frames', n)
      BY <1>1, <1>2, <3>2, <3>3, <3>4 DEF GoodFrames
    <3> QED BY <1>1, <3>1, <3>5, FramesOnly
  <2> QED BY <2>1, <2>2
<1>4. ASSUME PopScope
      PROVE  IInv'
  <2>1. Instr = "POP_SCOPE" /\ ~BadFrame
    BY <1>4, RunningFacts DEF PopScope
  <2>2. \A s \in Kinds : frames[s].offsets # << >>
    BY <2>1 DEF BadFrame
  <2>3. /\ \A s \in Kinds : frames'[s] =
             [frames[s] EXCEPT !.index = frames[s].offsets[Len(frames[s].offsets)],
                               !.offsets = SubSeq(frames[s].offsets, 1, Len(frames[s].offsets) - 1)]
        /\ DOMAIN frames' = Kinds /\ frames' = [s \in Kinds |-> frames'[s]]
        /\ Step(stacks) /\ UNCHANGED <<heap, out>>
    BY <1>4 DEF PopScope
  <2>4. ASSUME NEW s \in Kinds
        PROVE  /\ frames'[s] \in Frame(n) /\ Nested(frames'[s])
               /\ Len(frames'[s].offsets) = Len(frames[s].offsets) - 1
    BY <2>2, <2>3, FrameFacts, FramePopped
  <2>5. \A s \in Kinds : Len(frames'[s].offsets) < STACK_MAX
    BY <1>1, <2>4, FrameFacts
  <2>6. frames' \in [Kinds -> Frame(n)]
    BY <2>3, <2>4
  <2>7. GoodFrames(frames', n)
    BY <1>1, <1>2, <2>4, <2>5, <2>6 DEF GoodFrames
  <2> QED BY <1>1, <2>3, <2>7, FramesOnly
<1> QED BY <1>3, <1>4

LEMMA Locals ==
  ASSUME IInv, NEW s \in Kinds, Define(s) \/ GetLocal(s) \/ SetLocal(s)
  PROVE  IInv'
<1> DEFINE n == Len(heap)
           f == frames[s]
<1>1. GoodStacks(stacks, n)
  BY DEF IInv
<1>2. s = "val" \/ s = "obj"
  BY DEF Kinds
<1>3. ASSUME Running(Of(s, "GET_LOCAL", "GET_LOCAL_OBJ")) \/ Running(Of(s, "SET_LOCAL", "SET_LOCAL_OBJ"))
      PROVE  Slot(s) \in Slots
  BY <1>3, RunningFacts DEF BadFrame, LocalAccess
<1>4. CASE Define(s)
  <2>1. frames' = [frames EXCEPT ![s].index = @ + 1] /\ Step(stacks) /\ UNCHANGED <<heap, out>>
    BY <1>4 DEF Define
  <2> DEFINE g == [f EXCEPT !.index = f.index + 1]
  <2>2. g \in Frame(n) /\ g.offsets = f.offsets /\ g.index = f.index + 1 /\ f.index \in Nat
    <3>1. f \in Frame(n)
      BY FrameFacts
    <3> QED BY <3>1 DEF Frame
  <2>3. frames' = [frames EXCEPT ![s] = g]
    BY <2>1
  <2> HIDE DEF g
  <2>4. /\ frames' \in [Kinds -> Frame(n)]
        /\ \A t \in Kinds : /\ frames'[t].offsets = frames[t].offsets
                            /\ frames'[t].index >= frames[t].index
    <3>1. \A t \in Kinds : frames'[t] = IF t = s THEN g ELSE frames[t]
      BY <2>3, FrameFacts
    <3>2. \A t \in Kinds : frames[t].index \in Nat /\ frames[t] \in Frame(n)
      BY FrameFacts
    <3>3. frames' \in [Kinds -> Frame(n)]
      BY <2>2, <2>3, FrameFacts
    <3> QED BY <2>2, <3>1, <3>2, <3>3
  <2>5. ASSUME NEW t \in Kinds
        PROVE  Nested(frames'[t])
    <3>1. /\ frames'[t].offsets = frames[t].offsets /\ frames'[t].index >= frames[t].index
          /\ frames'[t].index \in Nat /\ frames[t].index \in Nat
          /\ Nested(frames[t])
      BY <2>4, FrameFacts DEF Frame
    <3>2. \A i \in 1 .. Len(frames[t].offsets) : frames[t].offsets[i] \in Nat
      BY FrameFacts, ElementOfSeq
    <3> QED BY <3>1, <3>2 DEF Nested
  <2>6. GoodFrames(frames', n)
    BY <2>4, <2>5 DEF GoodFrames, IInv, Kinds
  <2> QED BY <1>1, <2>1, <2>6, FramesOnly
<1>5. CASE GetLocal(s)
  <2>1. Slot(s) \in Slots
    BY <1>3, <1>5 DEF GetLocal
  <2>2. f.values[Slot(s)] \in Good(n)
    BY <2>1, FrameFacts
  <2> QED BY <1>5, <2>2, CheckedPush DEF GetLocal
<1>6. CASE SetLocal(s)
  <2>1. Slot(s) \in Slots
    BY <1>3, <1>6 DEF SetLocal
  <2>2. Depth(s) \in Nat /\ 1 <= Depth(s)
    BY <1>2, <1>6, Available DEF SetLocal, Of
  <2>3. Peek(s, 0) \in Good(n)
    BY <2>2, TopOperands
  <2>4. /\ frames' = [frames EXCEPT ![s].values[Slot(s)] = Peek(s, 0)]
        /\ Step(On(s, 1, << >>)) /\ UNCHANGED <<heap, out>>
    BY <1>6 DEF SetLocal
  <2>5. GoodStacks(On(s, 1, << >>), n)
    BY <2>2, Pops
  <2>6. [f.values EXCEPT ![Slot(s)] = Peek(s, 0)] \in [Slots -> Good(n)]
    BY <2>1, <2>3, FrameFacts
  <2>7. /\ frames' \in [Kinds -> Frame(n)]
        /\ \A t \in Kinds : frames'[t].offsets = frames[t].offsets /\ frames'[t].index = frames[t].index
    BY <2>4, <2>6, FrameFacts DEF Frame
  <2>8. \A t \in Kinds : Nested(frames'[t])
    BY <2>7, FrameFacts DEF Nested
  <2>9. GoodFrames(frames', n)
    BY <2>7, <2>8 DEF GoodFrames, IInv, Kinds
  <2> QED BY <2>4, <2>5, <2>9, FramesOnly
<1> QED BY <1>4, <1>5, <1>6
-----------------------------------------------------------------------------
(* Control, printing and the host.                                           *)

LEMMA Jumps ==
  ASSUME IInv, NEW st, GoodStacks(st, Len(heap)), UNCHANGED <<frames, heap, out>>, NEW a \in Int,
         Goto(a, st) \/ \E t \in Statuses : Leave(t, a, st)
  PROVE  IInv'
<1>1. /\ ip' = a /\ stacks' = st /\ prog' = prog
      /\ status' \in Statuses /\ control' \in {"host", "running", "crashed"}
  BY DEF Goto, Leave, IInv
<1> QED BY <1>1 DEF IInv

LEMMA ControlFlow ==
  ASSUME IInv, Jump \/ JumpUnless \/ Return \/ Call \/ Exit \/ Yield
  PROVE  IInv'
<1> DEFINE n == Len(heap)
           top == IntOf(Peek("val", 0))
<1>1. n \in Nat /\ GoodStacks(stacks, n) /\ ip \in Int /\ "val" \in Kinds
  BY DEF IInv, GoodHeap, Kinds
<1>2. ASSUME JumpUnless \/ Return
      PROVE  top \in Int /\ GoodStacks(On("val", 1, << >>), n)
  <2>1. Depth("val") \in Nat /\ 1 <= Depth("val")
    BY <1>2, Available DEF JumpUnless, Return
  <2> QED BY <1>1, <2>1, TopOperands, Pops
<1>3. CASE Jump
  <2>1. Operand(1) \in Int
    BY <1>3, RunningFacts DEF Jump, Operands, OneOperand
  <2> QED BY <1>1, <1>3, <2>1, Jumps DEF Jump
<1>4. CASE JumpUnless
  <2>1. Operand(1) \in Int
    BY <1>4, RunningFacts DEF JumpUnless, Operands, OneOperand
  <2> DEFINE a == IF top = 0 THEN Operand(1) ELSE ip + 2
  <2>2. a \in Int /\ Goto(a, On("val", 1, << >>)) /\ UNCHANGED <<frames, heap, out>>
    BY <1>1, <1>4, <2>1 DEF JumpUnless
  <2> QED BY <1>2, <1>4, <2>2, Jumps
<1>5. CASE Return
  BY <1>2, <1>5, Jumps DEF Return
<1>6. CASE Call
  <2> DEFINE m == Operand(1)
  <2>1. Instr = "CALL" /\ ~Overrun /\ m \in Nat /\ ~ Depth("val") < ValPops("CALL")
    BY <1>6, RunningFacts DEF Call, Operands, OneOperand
  <2>2. ValPops("CALL") = m
    BY DEF ValPops, Unary, Binary, FloatBinary
  <2>3. Depth("val") \in Nat /\ Depth("val") <= STACK_MAX /\ STACK_MAX \in Nat
    BY <1>1, Heights, VMAssumption
  <2>4. m <= Depth("val") /\ (m = 0 => Depth("val") < STACK_MAX)
    BY <2>1, <2>2, <2>3 DEF Overrun
  <2>5. PICK r \in ForeignResults : Step(On("val", m, <<Num(r)>>))
    BY <1>6 DEF Call
  <2>6. Num(r) \in Good(n)
    BY <1>1, PlainCells, VMAssumption
  <2>7. <<Num(r)>> \in Seq(Good(n)) /\ Len(<<Num(r)>>) = 1
    BY <2>6, Singleton
  <2>8. Depth("val") - m + Len(<<Num(r)>>) <= STACK_MAX
    BY <2>1, <2>3, <2>4, <2>7
  <2>9. GoodStacks(On("val", m, <<Num(r)>>), n)
    BY <1>1, <2>1, <2>4, <2>7, <2>8, OnGood, Zenon
  <2> QED BY <1>6, <2>5, <2>9, StacksOnly DEF Call
<1>7. CASE Exit
  BY <1>1, <1>7, Jumps DEF Exit, Statuses
<1>8. CASE Yield
  <2>1. ip + 1 \in Int
    BY <1>1
  <2> QED BY <1>1, <1>8, <2>1, Jumps DEF Yield, Statuses
<1> QED BY <1>3, <1>4, <1>5, <1>6, <1>7, <1>8

(* What is printed of an object or an array whose cells are in the heap.      *)
LEMMA ContentsPrinted ==
  ASSUME IInv, NEW type \in Int, NEW ref \in Cell, IsRef(ref),
         \A i \in 0 .. ref.count - 1 : InHeap(ref.val + i)
  PROVE  [type |-> type, vals |-> Contents(type, ref)] \in Printed
<1> DEFINE shown == IF is_array(type) THEN 0 .. ref.count - 1 ELSE Fields(ref)
<1>1. ref.val \in Int /\ ref.count \in Nat
  BY CellFacts
<1>2. shown \in SUBSET Int /\ \A i \in shown : InHeap(ref.val + i)
  BY <1>1 DEF Fields
<1>3. \A i \in shown : At(ref.val + i) \in Cell
  BY <1>2, Loads DEF Good
<1>4. \A i \in shown : Shown(At(ref.val + i)) \in Int
  BY <1>3, CellFacts
<1>5. Contents(type, ref) = [i \in shown |-> Shown(At(ref.val + i))]
  BY DEF Contents
<1> HIDE DEF shown
<1>6. Contents(type, ref) \in [shown -> Int]
  BY <1>4, <1>5
<1>7. Contents(type, ref) \in UNION {[D -> Int] : D \in SUBSET Int}
  BY <1>2, <1>6
<1> QED BY <1>7 DEF Printed

LEMMA Printing ==
  ASSUME IInv, PrintValue
  PROVE  IInv'
<1> DEFINE n == Len(heap)
           type == PrintedType
           value == Peek("val", 1)
           ref == Peek("obj", 0)
<1>1. n \in Nat /\ GoodStacks(stacks, n) /\ out \in Seq(Printed) /\ "val" \in Kinds /\ "obj" \in Kinds
  BY DEF IInv, GoodHeap, Kinds
<1>2. Instr = "PRINT" /\ ~Unprintable
  BY RunningFacts DEF PrintValue
<1>3. Depth("val") \in Nat /\ 1 <= Depth("val") /\ Depth("obj") \in Nat
  BY Available DEF PrintValue
<1>4. type \in Int
  BY <1>1, <1>3, TopOperands DEF PrintedType
<1>5. ASSUME NEW item \in Printed, out' = Append(out, item), NEW st, GoodStacks(st, n), Step(st),
             UNCHANGED <<frames, heap>>
      PROVE  IInv'
  <2>1. out' \in Seq(Printed)
    BY <1>1, <1>5, AppendProperties
  <2> QED BY <1>5, <2>1, Ends DEF IInv
<1>6. CASE ~is_object_or_null(type)
  <2>1. 2 <= Depth("val")
    BY <1>2, <1>3, <1>6 DEF Unprintable
  <2>2. Shown(value) \in Int
    BY <1>1, <1>3, <2>1, TopOperands, CellFacts
  <2> DEFINE item == [type |-> type, vals |-> <<Shown(value)>>]
  <2>3. <<Shown(value)>> \in [1 .. 1 -> Int] /\ 1 .. 1 \in SUBSET Int
    BY <2>2
  <2>4. <<Shown(value)>> \in UNION {[D -> Int] : D \in SUBSET Int}
    BY <2>3
  <2>5. item \in Printed
    BY <1>4, <2>4 DEF Printed
  <2>6. GoodStacks(On("val", 2, << >>), n)
    BY <1>1, <1>3, <2>1, Pops
  <2>7. /\ out' = Append(out, item) /\ Step(On("val", 2, << >>)) /\ UNCHANGED <<frames, heap>>
    BY <1>6 DEF PrintValue
  <2> HIDE DEF item
  <2> QED BY <1>5, <2>5, <2>6, <2>7
<1>7. CASE is_object_or_null(type)
  <2>1. 1 <= Depth("obj") /\ IsRef(ref)
    BY <1>2, <1>3, <1>7 DEF Unprintable
  <2>2. ref \in Cell /\ ref \in Good(n)
    BY <1>1, <1>3, <2>1, TopOperands
  <2>3. ref.val \in Int /\ ref.count \in Nat
    BY <2>1, <2>2, CellFacts
  <2>4. \A i \in 0 .. ref.count - 1 : InHeap(ref.val + i)
    <3>1. CASE is_array(type)
      <4>1. PrintableArray(type_of_array(type), ref)
        BY <1>2, <1>7, <3>1 DEF Unprintable
      <4>2. \A l \in ref.val .. ref.val + ref.count - 1 : InHeap(l)
        BY <4>1 DEF PrintableArray
      <4> QED BY <2>3, <4>2
    <3>2. CASE ~is_array(type)
      <4>1. PrintableObject(ref)
        BY <1>2, <1>7, <3>2 DEF Unprintable
      <4> QED BY <4>1 DEF PrintableObject
    <3> QED BY <3>1, <3>2
  <2> DEFINE item == [type |-> type, vals |-> Contents(type, ref)]
  <2>5. item \in Printed
    BY <1>4, <2>1, <2>2, <2>4, ContentsPrinted
  <2>6. 1 \in Nat
    OBVIOUS
  <2>7. GoodStacks(Both(1, << >>, 1, << >>), n)
    BY <1>3, <2>1, <2>2, <2>6, PopsBoth, Zenon
  <2>8. /\ out' = Append(out, item) /\ Step(Both(1, << >>, 1, << >>)) /\ UNCHANGED <<frames, heap>>
    BY <1>7 DEF PrintValue
  <2> HIDE DEF item
  <2> QED BY <1>5, <2>5, <2>7, <2>8
<1> QED BY <1>6, <1>7
-----------------------------------------------------------------------------
(* The invariant, and what follows from it.                                  *)

LEMMA Initially ==
  ASSUME Init
  PROVE  IInv
<1>1. << >> \in Seq(Good(0)) /\ << >> \in Seq(Nat) /\ << >> \in Seq(Printed) /\ Len(<< >>) = 0
  BY EmptySeq
<1>2. Zero \in Good(0)
  BY PlainCells
<1>3. Len(heap) = 0 /\ GoodHeap(heap)
  BY <1>1, VMAssumption DEF Init, GoodHeap
<1>4. GoodStacks(stacks, 0)
  BY <1>1, VMAssumption DEF Init, GoodStacks
<1>5. /\ frames = [s \in Kinds |-> [index |-> 0, values |-> [i \in Slots |-> Zero], offsets |-> << >>]]
      /\ [index |-> 0, values |-> [i \in Slots |-> Zero], offsets |-> << >>] \in Frame(0)
  BY <1>1, <1>2 DEF Init, Frame
<1>6. GoodFrames(frames, 0)
  BY <1>1, <1>5, VMAssumption DEF GoodFrames, Nested, Kinds
<1> QED BY <1>1, <1>3, <1>4, <1>6 DEF IInv, Init, Statuses

LEMMA Inductive ==
  ASSUME IInv, [Next]_vars
  PROVE  IInv'
<1>1. CASE UNCHANGED vars
  BY <1>1 DEF IInv, vars
<1>2. CASE ExecuteInstruction
  BY <1>2, StackInstructions, Arithmetic, ObjectConstruction, ArrayConstruction, FieldAccess,
     ElementAccess, Scopes, Locals, ControlFlow, Printing, Lengths DEF ExecuteInstruction
<1>3. CASE Crash
  BY <1>3 DEF Crash, IInv
<1>4. CASE Execute
  BY <1>4 DEF Execute, IInv
<1>5. CASE Stop
  BY <1>1, <1>5 DEF Stop
<1> QED BY <1>1, <1>2, <1>3, <1>4, <1>5 DEF Next

(* The inductive invariant holds in every reachable state of the machine,       *)
(* whatever its code: every instruction of vm_execute preserves it.           *)
THEOREM Invariance == Spec => []IInv
BY Initially, Inductive, PTL DEF Spec

(* The stacks, frames and heap hold cells and the frame indexes are no          *)
(* negative numbers, whatever code the machine runs.                          *)
THEOREM TypeCorrect == Spec => []TypeOK
<1>1. IInv => TypeOK
  <2> SUFFICES ASSUME IInv PROVE TypeOK
    OBVIOUS
  <2>1. Good(Len(heap)) \subseteq Cell
    BY DEF Good
  <2>2. stacks \in [Kinds -> Seq(Cell)]
    <3>1. \A s \in Kinds : stacks[s] \in Seq(Cell)
      BY <2>1, SeqMonotonic DEF IInv, GoodStacks
    <3> QED BY <3>1 DEF IInv, GoodStacks
  <2>3. heap \in Seq(Cell)
    BY <2>1, SeqMonotonic DEF IInv, GoodHeap
  <2>4. frames \in [Kinds -> [index : Nat, values : [Slots -> Cell], offsets : Seq(Nat)]]
    BY <2>1 DEF IInv, GoodFrames, Frame
  <2>5. \A i \in 1 .. Len(out) : \A k \in DOMAIN out[i].vals : out[i].vals[k] \in Int
    <3>1. \A i \in 1 .. Len(out) : out[i] \in Printed
      BY ElementOfSeq DEF IInv
    <3>2. ASSUME NEW x \in Printed
          PROVE  \A k \in DOMAIN x.vals : x.vals[k] \in Int
      <4>1. PICK D \in SUBSET Int : x.vals \in [D -> Int]
        BY DEF Printed
      <4> QED BY <4>1
    <3> QED BY <3>1, <3>2
  <2> QED BY <2>2, <2>3, <2>4, <2>5 DEF TypeOK, IInv, Statuses
<1> QED BY <1>1, Invariance, PTL

(* No instruction writes behind a stack, fills a frame array or lets the heap   *)
(* grow past its limit, whatever the code and the limits.                     *)
THEOREM LimitsKept == Spec => []StaysWithinLimits
<1>1. IInv => StaysWithinLimits
  BY DEF IInv, StaysWithinLimits, GoodStacks, GoodFrames, GoodHeap
<1> QED BY <1>1, Invariance, PTL

(* Every reference the machine holds designates cells it has allocated.        *)
THEOREM ReferencesValid == Spec => []PointersInRange
<1>1. IInv => PointersInRange
  <2> SUFFICES ASSUME IInv PROVE PointersInRange
    OBVIOUS
  <2>1. \A c \in Good(Len(heap)) : InRange(c)
    BY DEF Good, InRange
  <2>2. \A s \in Kinds : \A i \in 1 .. Len(stacks[s]) : stacks[s][i] \in Good(Len(heap))
    BY ElementOfSeq DEF IInv, GoodStacks
  <2>3. \A s \in Kinds : \A i \in Slots : frames[s].values[i] \in Good(Len(heap))
    BY FrameFacts
  <2>4. \A l \in 1 .. Len(heap) : heap[l] \in Good(Len(heap))
    BY ElementOfSeq DEF IInv, GoodHeap
  <2> QED BY <2>1, <2>2, <2>3, <2>4 DEF PointersInRange
<1> QED BY <1>1, Invariance, PTL

(* The frames of plain values and of references stay in step, and no frame     *)
(* starts below its caller's.                                                *)
THEOREM FramesNested == Spec => []FramesNest
<1>1. IInv => FramesNest
  BY DEF IInv, GoodFrames, FramesNest
<1> QED BY <1>1, Invariance, PTL
-----------------------------------------------------------------------------
(* The cells that instructions move, whatever set they belong to.              *)

(* Which cells the two kinds of stacks and frames hold.                      *)
StacksHold(st, S) == \A s \in Kinds : st[s] \in Seq(S[s])
FramesHold(fr, S) == \A s \in Kinds : fr[s].values \in [Slots -> S[s]]

(* What the machine makes itself: numbers, doubles and zeroes.                *)
Computed(S) ==
  /\ \A i \in Int : Num(i) \in S["val"]
  /\ \A b \in BOOLEAN : Float(b) \in S["val"]
  /\ Zero \in S["val"] /\ Zero \in S["obj"]

(* What it takes from the code and from the heap.                            *)
Sourced(S) ==
  LET ref == Peek("obj", 0)
      index == IntOf(Peek("val", 0))
  IN  \A s \in Kinds :
        /\ Instr = Of(s, "PUSH", "PUSH_OBJ") => Immediate \in S[s]
        /\ Instr = Of(s, "GET_HEAP", "GET_HEAP_OBJ") /\ ref # Zero => At(ref.val + Operand(1)) \in S[s]
        /\ Instr = Of(s, "GET_ARRAY", "GET_ARRAY_OBJ") /\ InBounds(ref, index) => At(ref.val + index) \in S[s]

LEMMA HeldDrop ==
  ASSUME IInv, NEW S, StacksHold(stacks, S), NEW s \in Kinds, NEW m \in Nat, m <= Depth(s)
  PROVE  Drop(s, m) \in Seq(S[s])
<1>1. stacks[s] \in Seq(S[s]) /\ Depth(s) \in Nat
  BY DEF StacksHold, Depth
<1>2. \A i \in 1 .. Depth(s) - m : stacks[s][i] \in S[s]
  BY <1>1, ElementOfSeq DEF Depth
<1>3. Depth(s) - m \in Int /\ 1 \in Int
  BY <1>1
<1> QED BY <1>1, <1>2, <1>3, SubSeqProperties DEF Drop

LEMMA HeldPeek ==
  ASSUME IInv, NEW S, StacksHold(stacks, S), NEW s \in Kinds, NEW k \in Nat, k < Depth(s)
  PROVE  Peek(s, k) \in S[s]
<1>1. stacks[s] \in Seq(S[s]) /\ Depth(s) - k \in 1 .. Len(stacks[s])
  BY DEF StacksHold, Depth
<1> QED BY <1>1, ElementOfSeq DEF Peek

LEMMA HeldOn ==
  ASSUME IInv, NEW S, StacksHold(stacks, S), NEW s \in Kinds, NEW m \in Nat, m <= Depth(s),
         NEW cells \in Seq(S[s])
  PROVE  StacksHold(On(s, m, cells), S)
<1>1. Drop(s, m) \o cells \in Seq(S[s])
  BY HeldDrop, ConcatProperties
<1>2. DOMAIN stacks = Kinds
  BY DEF IInv, GoodStacks
<1> QED BY <1>1, <1>2 DEF StacksHold, On

LEMMA HeldBoth ==
  ASSUME IInv, NEW S, StacksHold(stacks, S),
         NEW i \in Nat, i <= Depth("val"), NEW vals \in Seq(S["val"]),
         NEW j \in Nat, j <= Depth("obj"), NEW objs \in Seq(S["obj"])
  PROVE  StacksHold(Both(i, vals, j, objs), S)
<1>1. Drop("val", i) \o vals \in Seq(S["val"])
  BY HeldDrop, ConcatProperties DEF Kinds
<1>2. Drop("obj", j) \o objs \in Seq(S["obj"])
  BY HeldDrop, ConcatProperties DEF Kinds
<1> QED BY <1>1, <1>2 DEF StacksHold, Both, Kinds

LEMMA NoCells ==
  ASSUME NEW S
  PROVE  << >> \in Seq(S)
BY EmptySeq

(* Pops, with or without a push on a stack of the kind of the pushed cell.    *)
LEMMA HeldPops ==
  ASSUME IInv, NEW S, StacksHold(stacks, S)
  PROVE  /\ \A s \in Kinds : \A m \in Nat : m <= Depth(s) =>
              /\ StacksHold(On(s, m, << >>), S)
              /\ \A c \in S[s] : StacksHold(On(s, m, <<c>>), S)
         /\ \A i \in Nat : \A j \in Nat : i <= Depth("val") /\ j <= Depth("obj") =>
              /\ StacksHold(Both(i, << >>, j, << >>), S)
              /\ \A c \in S["val"] : StacksHold(Both(i, <<c>>, j, << >>), S)
              /\ \A c \in S["obj"] : StacksHold(Both(i, << >>, j, <<c>>), S)
<1>1. ASSUME NEW s \in Kinds, NEW m \in Nat, m <= Depth(s)
      PROVE  /\ StacksHold(On(s, m, << >>), S)
             /\ \A c \in S[s] : StacksHold(On(s, m, <<c>>), S)
  <2>1. StacksHold(On(s, m, << >>), S)
    BY <1>1, NoCells, HeldOn, Zenon
  <2>2. ASSUME NEW c \in S[s] PROVE StacksHold(On(s, m, <<c>>), S)
    <3>1. <<c>> \in Seq(S[s])
      BY Singleton
    <3> QED BY <1>1, <3>1, HeldOn, Zenon
  <2> QED BY <2>1, <2>2
<1>2. ASSUME NEW i \in Nat, NEW j \in Nat, i <= Depth("val"), j <= Depth("obj")
      PROVE  /\ StacksHold(Both(i, << >>, j, << >>), S)
             /\ \A c \in S["val"] : StacksHold(Both(i, <<c>>, j, << >>), S)
             /\ \A c \in S["obj"] : StacksHold(Both(i, << >>, j, <<c>>), S)
  <2>1. << >> \in Seq(S["val"]) /\ << >> \in Seq(S["obj"])
    BY NoCells
  <2>2. StacksHold(Both(i, << >>, j, << >>), S)
    BY <1>2, <2>1, HeldBoth, Zenon
  <2>3. ASSUME NEW c \in S["val"] PROVE StacksHold(Both(i, <<c>>, j, << >>), S)
    <3>1. <<c>> \in Seq(S["val"])
      BY Singleton
    <3> QED BY <1>2, <2>1, <3>1, HeldBoth, Zenon
  <2>4. ASSUME NEW c \in S["obj"] PROVE StacksHold(Both(i, << >>, j, <<c>>), S)
    <3>1. <<c>> \in Seq(S["obj"])
      BY Singleton
    <3> QED BY <1>2, <2>1, <3>1, HeldBoth, Zenon
  <2> QED BY <2>2, <2>3, <2>4
<1> QED BY <1>1, <1>2

LEMMA NewStacks ==
  ASSUME NEW st, Step(st) \/ Fail(st) \/ (\E a : Goto(a, st)) \/ \E t, a : Leave(t, a, st)
  PROVE  stacks' = st
BY DEF Step, Fail, Goto, Leave

LEMMA HeldPushes ==
  ASSUME IInv, NEW S, StacksHold(stacks, S), NEW s \in Kinds, NEW c \in S[s], PushChecked(s, 0, <<c>>)
  PROVE  StacksHold(stacks', S)
<1>1. Depth(s) \in Nat /\ 0 \in Nat /\ 0 <= Depth(s)
  BY Heights DEF IInv, GoodHeap
<1>2. StacksHold(On(s, 0, <<c>>), S)
  BY <1>1, HeldPops, Zenon
<1> QED BY <1>2, NewStacks DEF PushChecked
-----------------------------------------------------------------------------
LEMMA StackCells ==
  ASSUME IInv, NEW S, StacksHold(stacks, S), Sourced(S),
         NEW s \in Kinds, Push(s) \/ Dup(s) \/ Pop(s) \/ Swap(s)
  PROVE  StacksHold(stacks', S) /\ UNCHANGED <<frames, heap>>
<1>1. s = "val" \/ s = "obj"
  BY DEF Kinds
<1>2. CASE Push(s)
  <2>1. Immediate \in S[s]
    BY <1>2 DEF Push, Running, Sourced
  <2> QED BY <1>2, <2>1, HeldPushes DEF Push
<1>3. CASE Dup(s)
  <2>1. Depth(s) \in Nat /\ Depth(s) >= 1
    BY <1>1, <1>3, Available DEF Dup, Of
  <2>2. Peek(s, 0) \in S[s]
    BY <2>1, HeldPeek
  <2> QED BY <1>3, <2>2, HeldPushes DEF Dup
<1>4. CASE Pop(s)
  <2>1. Depth(s) \in Nat /\ 1 <= Depth(s)
    BY <1>1, <1>4, Available DEF Pop, Of
  <2>2. StacksHold(On(s, 1, << >>), S)
    BY <2>1, HeldPops
  <2> QED BY <1>4, <2>2, NewStacks DEF Pop
<1>5. CASE Swap(s)
  <2>1. Depth(s) \in Nat /\ 2 <= Depth(s)
    BY <1>1, <1>5, Available DEF Swap, Of
  <2>2. Peek(s, 0) \in S[s] /\ Peek(s, 1) \in S[s]
    BY <2>1, HeldPeek
  <2>3. <<Peek(s, 0), Peek(s, 1)>> \in Seq(S[s])
    BY <2>2, Pair
  <2>4. StacksHold(On(s, 2, <<Peek(s, 0), Peek(s, 1)>>), S)
    BY <2>1, <2>3, HeldOn, Zenon
  <2> QED BY <1>5, <2>4, NewStacks DEF Swap
<1> QED BY <1>2, <1>3, <1>4, <1>5

LEMMA Kept ==
  ASSUME NEW S, FramesHold(frames, S), UNCHANGED frames
  PROVE  FramesHold(frames', S)
OBVIOUS

(* Numbers and doubles go where plain values go.                             *)
LEMMA ComputedCells ==
  ASSUME IInv, NEW S, StacksHold(stacks, S), Computed(S),
         \/ \E op \in Binary : BinaryOp(op)
         \/ \E op \in FloatBinary : FloatOp(op, 2)
         \/ FloatOp("FLOAT_UNARY_MINUS", 1)
         \/ \E op \in Unary \ {"FLOAT_UNARY_MINUS"} : UnaryOp(op)
         \/ \E op \in {"EQ_OBJ", "NEQ_OBJ"} : EqObj(op)
         \/ LenArray \/ Call
  PROVE  StacksHold(stacks', S) /\ UNCHANGED <<frames, heap>>
<1>1. /\ \A i \in Int : Num(i) \in S["val"]
      /\ \A b \in BOOLEAN : Float(b) \in S["val"]
  BY DEF Computed
<1>3. ASSUME NEW op \in Binary, BinaryOp(op)
      PROVE  StacksHold(stacks', S)
  <2> DEFINE a == IntOf(Peek("val", 1))
             b == IntOf(Peek("val", 0))
  <2>1. Depth("val") \in Nat /\ 2 <= Depth("val") /\ "val" \in Kinds
    BY <1>3, Available DEF BinaryOp, Kinds
  <2>2. a \in Int /\ b \in Int
    BY <2>1, TopOperands
  <2>3. /\ StacksHold(On("val", 2, << >>), S)
        /\ \A c \in S["val"] : StacksHold(On("val", 2, <<c>>), S)
    BY <2>1, HeldPops
  <2>4. CASE op \in {"DIV", "MOD"} /\ b = 0
    BY <1>3, <2>3, <2>4, NewStacks DEF BinaryOp
  <2>5. CASE ~(op \in {"DIV", "MOD"} /\ b = 0)
    <3>1. Num(Eval(op, a, b)) \in S["val"]
      BY <1>1, <2>2, <2>5, Results
    <3>2. StacksHold(On("val", 2, <<Num(Eval(op, a, b))>>), S)
      BY <2>3, <3>1
    <3> QED BY <1>3, <2>5, <3>2, NewStacks DEF BinaryOp
  <2> QED BY <2>4, <2>5
<1>4. ASSUME NEW op, NEW m \in {1, 2}, FloatOp(op, m),
             (op \in FloatBinary /\ m = 2) \/ (op = "FLOAT_UNARY_MINUS" /\ m = 1)
      PROVE  StacksHold(stacks', S)
  <2>1. m \in Nat /\ m <= Depth("val") /\ "val" \in Kinds
    BY <1>4, Available DEF FloatOp, Kinds, Unary
  <2>2. PICK nonzero \in BOOLEAN : Step(On("val", m, <<Float(nonzero)>>))
    BY <1>4 DEF FloatOp
  <2> QED BY <1>1, <2>1, <2>2, HeldPops, NewStacks
<1>5. ASSUME NEW op \in Unary \ {"FLOAT_UNARY_MINUS"}, UnaryOp(op)
      PROVE  StacksHold(stacks', S)
  <2>1. Depth("val") \in Nat /\ 1 <= Depth("val") /\ "val" \in Kinds
    BY <1>5, Available DEF UnaryOp, Kinds
  <2>2. IntOf(Peek("val", 0)) \in Int
    BY <2>1, TopOperands
  <2> DEFINE a == IntOf(Peek("val", 0))
             results == CASE op = "NOT"         -> {Num(Bool(a = 0))}
                          [] op = "UNARY_MINUS" -> {Num(Wrap(-a))}
                          [] op = "CAST_FLOAT"  -> {Float(a # 0)}
                          [] op = "CAST_INT"    -> {Num(i) : i \in IF a = 0 THEN {0} ELSE FloatInts}
  <2>3. PICK c \in results : Step(On("val", 1, <<c>>))
    BY <1>5 DEF UnaryOp
  <2>4. c \in S["val"]
    <3>1. Bool(a = 0) \in Int /\ Wrap(-a) \in Int /\ FloatInts \subseteq Int
      BY <2>2, VMAssumption DEF Bool, Wrap
    <3>2. CASE op = "CAST_INT"
      BY <1>1, <2>3, <3>1, <3>2
    <3>3. CASE op # "CAST_INT"
      BY <1>1, <2>3, <3>1, <3>3 DEF Unary
    <3> QED BY <3>2, <3>3
  <2> QED BY <2>1, <2>3, <2>4, HeldPops, NewStacks
<1>6. ASSUME NEW op \in {"EQ_OBJ", "NEQ_OBJ"}, EqObj(op)
      PROVE  StacksHold(stacks', S)
  <2> DEFINE same == SameBits(Peek("obj", 0), Peek("obj", 1))
             c == Num(Bool(same = (op = "EQ_OBJ")))
  <2>1. 2 <= Depth("obj") /\ 0 <= Depth("val")
    BY <1>6, Available DEF EqObj
  <2>2. c \in S["val"]
    BY <1>1 DEF Bool
  <2>3. StacksHold(Both(0, <<c>>, 2, << >>), S)
    BY <2>1, <2>2, HeldPops
  <2> QED BY <1>6, <2>3, NewStacks DEF EqObj
<1>7. CASE LenArray
  <2> DEFINE ref == Peek("obj", 0)
  <2>1. 1 <= Depth("obj") /\ 0 <= Depth("val") /\ Depth("obj") \in Nat /\ Instr = "LEN_ARRAY" /\ ~BadReference
    BY <1>7, Available, RunningFacts DEF LenArray
  <2>2. IsRef(ref) /\ ref \in Cell
    BY <2>1, TopOperands DEF BadReference, Kinds
  <2>3. Num(ref.count) \in S["val"]
    BY <1>1, <2>2, CellFacts
  <2>4. StacksHold(Both(0, <<Num(ref.count)>>, 1, << >>), S) /\ StacksHold(On("obj", 1, << >>), S)
    BY <2>1, <2>3, HeldPops DEF Kinds
  <2> QED BY <1>7, <2>4, NewStacks DEF LenArray
<1>8. CASE Call
  <2> DEFINE m == Operand(1)
  <2>1. m \in Nat /\ ~ Depth("val") < ValPops("CALL")
    BY <1>8, RunningFacts DEF Call, Operands, OneOperand
  <2>2. Instr = "CALL"
    BY <1>8 DEF Call, Running
  <2>3. m <= Depth("val") /\ "val" \in Kinds
    BY <2>1, <2>2, Heights DEF ValPops, Unary, Binary, FloatBinary, IInv, GoodHeap, Kinds
  <2>4. PICK r \in ForeignResults : Step(On("val", m, <<Num(r)>>))
    BY <1>8 DEF Call
  <2>5. Num(r) \in S["val"]
    BY <1>1, VMAssumption
  <2> QED BY <1>8, <2>1, <2>3, <2>4, <2>5, HeldPops, NewStacks DEF Call
<1>9. StacksHold(stacks', S)
  <2>1. 2 \in {1, 2} /\ 1 \in {1, 2} /\ 2 = 2 /\ 1 = 1
    OBVIOUS
  <2> QED BY <1>3, <1>4, <1>5, <1>6, <1>7, <1>8, <2>1, Zenon
<1>10. UNCHANGED <<frames, heap>>
  BY DEF BinaryOp, FloatOp, UnaryOp, EqObj, LenArray, Call
<1> QED BY <1>9, <1>10

(* A fetched cell goes to the stack of the instruction's kind.                *)
LEMMA FetchedCells ==
  ASSUME IInv, NEW S, StacksHold(stacks, S), Sourced(S),
         NEW s \in Kinds, GetHeap(s) \/ GetArray(s)
  PROVE  StacksHold(stacks', S) /\ UNCHANGED <<frames, heap>>
<1> DEFINE ref == Peek("obj", 0)
           index == IntOf(Peek("val", 0))
<1>1. s = "val" \/ s = "obj"
  BY DEF Kinds
<1>2. ASSUME NEW l, At(l) \in S[s], NEW m \in Nat, m <= Depth("val"), 1 <= Depth("obj"), Fetch(s, m, l)
      PROVE  StacksHold(stacks', S)
  <2>1. CASE s = "val"
    BY <1>2, <2>1, HeldPops, NewStacks DEF Fetch
  <2>2. CASE s = "obj"
    BY <1>2, <2>2, HeldPops, NewStacks DEF Fetch
  <2> QED BY <1>1, <2>1, <2>2
<1>3. CASE GetHeap(s)
  <2>1. Running(Of(s, "GET_HEAP", "GET_HEAP_OBJ")) /\ Instr = Of(s, "GET_HEAP", "GET_HEAP_OBJ")
    BY <1>3 DEF GetHeap, Running
  <2>2. 0 <= Depth("val") /\ 1 <= Depth("obj") /\ "obj" \in Kinds
    BY <2>1, Available DEF Of, Kinds
  <2>3. CASE ref = Zero
    BY <1>3, <2>2, <2>3, HeldPops, NewStacks DEF GetHeap
  <2>4. CASE ref # Zero
    <3>1. At(ref.val + Operand(1)) \in S[s] /\ Fetch(s, 0, ref.val + Operand(1))
      BY <1>3, <2>1, <2>4 DEF Sourced, GetHeap
    <3> QED BY <1>2, <1>3, <2>2, <3>1 DEF GetHeap
  <2> QED BY <1>3, <2>3, <2>4 DEF GetHeap
<1>4. CASE GetArray(s)
  <2>1. Running(Of(s, "GET_ARRAY", "GET_ARRAY_OBJ")) /\ Instr = Of(s, "GET_ARRAY", "GET_ARRAY_OBJ")
    BY <1>4 DEF GetArray, Running
  <2>2. 1 <= Depth("val") /\ 1 <= Depth("obj")
    BY <2>1, Available DEF Of
  <2>3. CASE ~InBounds(ref, index)
    BY <1>4, <2>2, <2>3, HeldPops, NewStacks DEF GetArray
  <2>4. CASE InBounds(ref, index)
    <3>1. At(ref.val + index) \in S[s] /\ Fetch(s, 1, ref.val + index)
      BY <1>4, <2>1, <2>4 DEF Sourced, GetArray
    <3> QED BY <1>2, <1>4, <2>2, <3>1 DEF GetArray
  <2> QED BY <1>4, <2>3, <2>4 DEF GetArray
<1> QED BY <1>3, <1>4 DEF GetHeap, GetArray

(* Frames are pushed and popped with their slots; SET_LOCAL stores what was on  *)
(* the stack of its kind.                                                    *)
LEMMA FrameCells ==
  ASSUME IInv, NEW S, StacksHold(stacks, S), FramesHold(frames, S),
         \/ PushScope \/ PopScope
         \/ \E s \in Kinds : Define(s) \/ GetLocal(s) \/ SetLocal(s)
  PROVE  StacksHold(stacks', S) /\ FramesHold(frames', S) /\ UNCHANGED heap
<1>1. UNCHANGED heap
  BY DEF PushScope, PopScope, Define, GetLocal, SetLocal
<1>2. \A s \in Kinds : frames[s] \in Frame(Len(heap)) /\ frames \in [Kinds -> Frame(Len(heap))]
  BY FrameFacts
<1>3. CASE PushScope
  <2>1. stacks' = stacks
    BY <1>3, NewStacks DEF PushScope
  <2>2. \A s \in Kinds : frames'[s].values = frames[s].values
    BY <1>2, <1>3 DEF PushScope, Frame
  <2> QED BY <1>1, <2>1, <2>2 DEF FramesHold
<1>4. CASE PopScope
  <2>1. stacks' = stacks
    BY <1>4, NewStacks DEF PopScope
  <2>2. \A s \in Kinds : frames'[s].values = frames[s].values
    BY <1>2, <1>4 DEF PopScope, Frame
  <2> QED BY <1>1, <2>1, <2>2 DEF FramesHold
<1>5. ASSUME NEW s \in Kinds, Define(s)
      PROVE  StacksHold(stacks', S) /\ FramesHold(frames', S)
  <2>1. stacks' = stacks
    BY <1>5, NewStacks DEF Define
  <2>2. \A t \in Kinds : frames'[t].values = frames[t].values
    BY <1>2, <1>5 DEF Define, Frame
  <2> QED BY <2>1, <2>2 DEF FramesHold
<1>6. ASSUME NEW s \in Kinds, Running(Of(s, "GET_LOCAL", "GET_LOCAL_OBJ")) \/ Running(Of(s, "SET_LOCAL", "SET_LOCAL_OBJ"))
      PROVE  Slot(s) \in Slots
  BY <1>6, RunningFacts DEF BadFrame, LocalAccess
<1>7. ASSUME NEW s \in Kinds, GetLocal(s)
      PROVE  StacksHold(stacks', S) /\ FramesHold(frames', S)
  <2>1. frames[s].values[Slot(s)] \in S[s]
    BY <1>6, <1>7 DEF GetLocal, FramesHold
  <2> QED BY <1>7, <2>1, HeldPushes DEF GetLocal
<1>8. ASSUME NEW s \in Kinds, SetLocal(s)
      PROVE  StacksHold(stacks', S) /\ FramesHold(frames', S)
  <2>1. s = "val" \/ s = "obj"
    BY DEF Kinds
  <2>2. Depth(s) \in Nat /\ 1 <= Depth(s)
    BY <1>8, <2>1, Available DEF SetLocal, Of
  <2>3. Peek(s, 0) \in S[s] /\ Slot(s) \in Slots
    BY <1>6, <1>8, <2>2, HeldPeek DEF SetLocal
  <2>4. StacksHold(stacks', S)
    BY <1>8, <2>2, HeldPops, NewStacks DEF SetLocal
  <2>5. frames' = [frames EXCEPT ![s].values[Slot(s)] = Peek(s, 0)]
    BY <1>8 DEF SetLocal
  <2>6. \A t \in Kinds : frames'[t].values = IF t = s THEN [frames[s].values EXCEPT ![Slot(s)] = Peek(s, 0)]
                                             ELSE frames[t].values
    BY <1>2, <2>5 DEF Frame
  <2>7. [frames[s].values EXCEPT ![Slot(s)] = Peek(s, 0)] \in [Slots -> S[s]]
    BY <2>3 DEF FramesHold
  <2> QED BY <2>4, <2>6, <2>7 DEF FramesHold
<1> QED BY <1>1, <1>3, <1>4, <1>5, <1>7, <1>8

(* Jumps, returns and printing pop at most.                                  *)
LEMMA ControlCells ==
  ASSUME IInv, NEW S, StacksHold(stacks, S),
         Jump \/ JumpUnless \/ Return \/ PrintValue \/ Exit \/ Yield
  PROVE  StacksHold(stacks', S) /\ UNCHANGED <<frames, heap>>
<1>1. UNCHANGED <<frames, heap>>
  BY DEF Jump, JumpUnless, Return, PrintValue, Exit, Yield
<1>2. CASE Jump \/ Exit \/ Yield
  BY <1>1, <1>2, NewStacks DEF Jump, Exit, Yield
<1>3. CASE JumpUnless \/ Return
  <2>1. 1 <= Depth("val") /\ "val" \in Kinds
    BY <1>3, Available DEF JumpUnless, Return, Kinds
  <2> QED BY <1>1, <1>3, <2>1, HeldPops, NewStacks DEF JumpUnless, Return
<1>4. CASE PrintValue
  <2>1. 1 <= Depth("val") /\ Depth("val") \in Nat /\ Instr = "PRINT" /\ ~Unprintable
    BY <1>4, Available, RunningFacts DEF PrintValue
  <2>2. CASE ~is_object_or_null(PrintedType)
    <3>1. 2 <= Depth("val") /\ "val" \in Kinds
      BY <2>1, <2>2 DEF Unprintable, Kinds
    <3> QED BY <1>1, <1>4, <2>2, <3>1, HeldPops, NewStacks DEF PrintValue
  <2>3. CASE is_object_or_null(PrintedType)
    <3>1. Depth("obj") \in Nat
      BY Heights DEF IInv, GoodHeap, Kinds
    <3>2. 1 <= Depth("obj")
      BY <2>1, <2>3, <3>1 DEF Unprintable
    <3> QED BY <1>1, <1>4, <2>1, <2>3, <3>2, HeldPops, NewStacks DEF PrintValue
  <2> QED BY <2>2, <2>3
<1> QED BY <1>2, <1>3, <1>4
-----------------------------------------------------------------------------
(* The heap: B are the pointers that were made, whose blocks share no cell.    *)

NonPtr == {c \in Cell : ~IsPtr(c)}
Blocks(B, h) ==
  /\ \A p \in B : p.val + p.count <= Len(h)
  /\ \A p, q \in B : Apart(p, q)
  /\ h \in Seq(NonPtr \cup B)

Overwritten(l, c) == InHeap(l) /\ heap' = [heap EXCEPT ![l + 1] = c]
Added(tag, n, cells) ==
  /\ heap' = heap \o cells
  /\ \E i \in 0 .. Depth("val"), j \in 0 .. Depth("obj") :
       stacks' = Both(i, << >>, j, <<Ptr(tag, Len(heap), n)>>)

(* What a new block holds.                                                   *)
Filled(tag, n, cells) ==
  /\ tag = "arrobj" => \A i \in 1 .. n : cells[i] = Zero
  /\ tag = "arr" => \A i \in 1 .. n : cells[i].tag \in {"num", "zero"}
  /\ tag = "obj" => /\ Instr = "PUSH_HEAP" /\ n = Operand(1) /\ ~Full("obj") /\ Fits(n)
                    /\ \E k \in Layouts(n) : cells = [i \in 1 .. n |-> Popped(k, i - 1)]

LEMMA BlocksReplaced ==
  ASSUME NEW B \in SUBSET Pointer, Blocks(B, heap), NEW l, NEW c \in NonPtr \cup B, Overwritten(l, c)
  PROVE  Blocks(B, heap')
<1>1. heap \in Seq(NonPtr \cup B) /\ Len(heap) \in Nat
  BY DEF Blocks
<1>2. l + 1 \in 1 .. Len(heap)
  BY <1>1 DEF Overwritten, InHeap
<1>3. heap' \in Seq(NonPtr \cup B) /\ Len(heap') = Len(heap)
  BY <1>1, <1>2, ExceptSeq DEF Overwritten
<1> QED BY <1>3 DEF Blocks

LEMMA BlocksAdded ==
  ASSUME NEW B \in SUBSET Pointer, Blocks(B, heap), NEW tag \in PtrTags, NEW n \in Nat,
         NEW cells \in [1 .. n -> NonPtr \cup B], heap' = heap \o cells,
         NEW C, C = B \cup {Ptr(tag, Len(heap), n)}
  PROVE  C \in SUBSET Pointer /\ Blocks(C, heap')
<1> DEFINE L == Len(heap)
           new == Ptr(tag, L, n)
<1>1. heap \in Seq(NonPtr \cup B) /\ L \in Nat
  BY DEF Blocks
<1>2. cells \in Seq(NonPtr \cup B) /\ Len(cells) = n
  BY FunctionSeq
<1>3. heap' \in Seq(NonPtr \cup B) /\ Len(heap') = L + n
  BY <1>1, <1>2, ConcatProperties
<1>4. heap' \in Seq(NonPtr \cup C)
  <2>1. NonPtr \cup B \subseteq NonPtr \cup C
    OBVIOUS
  <2> QED BY <1>3, <2>1, SeqMonotonic
<1>5. new \in Pointer /\ new.val = L /\ new.count = n
  BY <1>1 DEF Ptr, Pointer
<1>6. \A p \in B : p.val \in Nat /\ p.count \in Nat /\ p.val + p.count <= L
  BY DEF Pointer, Blocks
<1>7. \A p \in C : p.val + p.count <= Len(heap')
  BY <1>1, <1>3, <1>5, <1>6
<1>8. ASSUME NEW p \in C, NEW q \in C
      PROVE  Apart(p, q)
  <2>1. CASE p \in B /\ q \in B
    BY <2>1 DEF Blocks
  <2>2. CASE p = new /\ q \in B
    BY <1>5, <1>6, <2>2 DEF Apart
  <2>3. CASE p \in B /\ q = new
    BY <1>5, <1>6, <2>3 DEF Apart
  <2>4. CASE p = new /\ q = new
    BY <2>4 DEF Apart
  <2> QED BY <2>1, <2>2, <2>3, <2>4
<1> HIDE DEF new, L
<1>9. C \in SUBSET Pointer
  BY <1>5 DEF new, L
<1> QED BY <1>4, <1>7, <1>8, <1>9 DEF Blocks

LEMMA HeldInMore ==
  ASSUME NEW S, NEW T, \A s \in Kinds : S[s] \subseteq T[s], NEW st, NEW fr
  PROVE  (StacksHold(st, S) => StacksHold(st, T)) /\ (FramesHold(fr, S) => FramesHold(fr, T))
<1>1. \A s \in Kinds : \A q \in Seq(S[s]) : q \in Seq(T[s])
  BY SeqMonotonic
<1> QED BY <1>1 DEF StacksHold, FramesHold

LEMMA HeldAdded ==
  ASSUME IInv, NEW S, StacksHold(stacks, S), FramesHold(frames, S), NEW tag, NEW n, NEW cells,
         Added(tag, n, cells), UNCHANGED frames,
         NEW T, \A s \in Kinds : S[s] \subseteq T[s], Ptr(tag, Len(heap), n) \in T["obj"]
  PROVE  StacksHold(stacks', T) /\ FramesHold(frames', T)
<1>1. StacksHold(stacks, T) /\ FramesHold(frames, T)
  BY HeldInMore
<1>2. PICK i \in 0 .. Depth("val") : \E j \in 0 .. Depth("obj") :
           stacks' = Both(i, << >>, j, <<Ptr(tag, Len(heap), n)>>)
  BY DEF Added
<1>3. PICK j \in 0 .. Depth("obj") : stacks' = Both(i, << >>, j, <<Ptr(tag, Len(heap), n)>>)
  BY <1>2
<1>4. i \in Nat /\ j \in Nat /\ i <= Depth("val") /\ j <= Depth("obj")
  BY Heights DEF IInv, GoodHeap, Kinds
<1> QED BY <1>1, <1>3, <1>4, HeldPops

(* A store replaces a cell by one of the kind of the instruction.             *)
LEMMA StoredCells ==
  ASSUME IInv, NEW S, StacksHold(stacks, S), NEW s \in Kinds, SetHeap(s) \/ SetArray(s)
  PROVE  LET ref == Peek("obj", 0)
             index == IntOf(Peek("val", 0))
         IN  /\ StacksHold(stacks', S) /\ UNCHANGED frames
             /\ \/ UNCHANGED heap
                \/ /\ Instr = Of(s, "SET_HEAP", "SET_HEAP_OBJ") /\ FieldValue(s) \in S[s]
                   /\ Overwritten(ref.val + Operand(1), FieldValue(s))
                \/ /\ Instr = Of(s, "SET_ARRAY", "SET_ARRAY_OBJ") /\ ElementValue(s) \in S[s]
                   /\ InBounds(ref, index)
                   /\ Overwritten(ref.val + index, ElementValue(s))
<1> DEFINE ref == Peek("obj", 0)
           index == IntOf(Peek("val", 0))
<1>1. s = "val" \/ s = "obj"
  BY DEF Kinds
<1>2. CASE SetHeap(s)
  <2>1. Running(Of(s, "SET_HEAP", "SET_HEAP_OBJ")) /\ Instr = Of(s, "SET_HEAP", "SET_HEAP_OBJ") /\ ~BadReference
    BY <1>2, RunningFacts DEF SetHeap
  <2>2. /\ Depth("val") \in Nat /\ Depth("obj") \in Nat /\ 1 <= Depth("obj")
        /\ s = "val" => 1 <= Depth("val")
        /\ s = "obj" => 2 <= Depth("obj")
    BY <1>1, <2>1, Available DEF Of
  <2>3. FieldValue(s) \in S[s]
    BY <1>1, <2>2, HeldPeek DEF FieldValue, Kinds
  <2>4. InHeap(ref.val + Operand(1))
    BY <1>1, <2>1 DEF BadReference, HeapAccess, Of
  <2>5. StacksHold(stacks', S)
    BY <1>1, <1>2, <2>2, HeldPops, NewStacks DEF SetHeap, Kinds
  <2> QED BY <1>2, <2>1, <2>3, <2>4, <2>5 DEF SetHeap, Overwritten
<1>3. CASE SetArray(s)
  <2>1. Running(Of(s, "SET_ARRAY", "SET_ARRAY_OBJ")) /\ Instr = Of(s, "SET_ARRAY", "SET_ARRAY_OBJ") /\ ~BadReference
    BY <1>3, RunningFacts DEF SetArray
  <2>2. /\ Depth("val") \in Nat /\ Depth("obj") \in Nat /\ 1 <= Depth("val") /\ 1 <= Depth("obj")
        /\ s = "val" => 2 <= Depth("val")
        /\ s = "obj" => 2 <= Depth("obj")
    BY <1>1, <2>1, Available DEF Of
  <2>3. ElementValue(s) \in S[s]
    BY <1>1, <2>2, HeldPeek DEF ElementValue, Kinds
  <2>4. InBounds(ref, index) => InHeap(ref.val + index)
    BY <1>1, <2>1 DEF BadReference, ArrayAccess, Of
  <2>5. StacksHold(stacks', S)
    BY <1>1, <1>3, <2>2, HeldPops, NewStacks DEF SetArray, Kinds
  <2> QED BY <1>3, <2>1, <2>3, <2>4, <2>5 DEF SetArray, Overwritten
<1> QED BY <1>2, <1>3

(* An allocation appends cells that were on the stacks, or that it makes.      *)
LEMMA AllocatedCells ==
  ASSUME IInv, NEW S, StacksHold(stacks, S), Computed(S), PushHeap \/ PushArray \/ CastByteArray
  PROVE  /\ UNCHANGED frames
         /\ \/ StacksHold(stacks', S) /\ UNCHANGED heap
            \/ \E tag \in PtrTags, n \in Nat : \E cells \in [1 .. n -> S["val"] \cup S["obj"]] :
                 Added(tag, n, cells) /\ Filled(tag, n, cells)
<1>1. UNCHANGED frames
  BY DEF PushHeap, PushArray, CastByteArray
<1>2. Depth("val") \in Nat /\ Depth("obj") \in Nat /\ "val" \in Kinds /\ "obj" \in Kinds
  BY Heights DEF IInv, GoodHeap, Kinds
<1> DEFINE Appended == \E tag \in PtrTags, n \in Nat : \E cells \in [1 .. n -> S["val"] \cup S["obj"]] :
                          Added(tag, n, cells) /\ Filled(tag, n, cells)
<1>3. CASE PushHeap
  <2> DEFINE n == Operand(1)
  <2>1. n \in Nat /\ Instr = "PUSH_HEAP"
    BY <1>3, RunningFacts DEF PushHeap, Operands, OneOperand
  <2>2. CASE Full("obj") \/ ~Fits(n)
    BY <1>3, <2>2, NewStacks DEF PushHeap
  <2>3. CASE ~(Full("obj") \/ ~Fits(n))
    <3>1. PICK k \in Layouts(n) :
            /\ Step(Both(Taken(k, "val", n), << >>,
                         Taken(k, "obj", n), <<Ptr("obj", Len(heap), n)>>))
            /\ heap' = heap \o [i \in 1 .. n |-> Popped(k, i - 1)]
      BY <1>3, <2>3 DEF PushHeap
    <3> DEFINE cells == [i \in 1 .. n |-> Popped(k, i - 1)]
    <3>2. Taken(k, "val", n) \in 0 .. Depth("val") /\ Taken(k, "obj", n) \in 0 .. Depth("obj")
      BY <1>2, <2>1, LayoutFacts
    <3>3. stacks' = Both(Taken(k, "val", n), << >>, Taken(k, "obj", n), <<Ptr("obj", Len(heap), n)>>)
      BY <3>1, NewStacks
    <3>4. Added("obj", n, cells)
      BY <3>1, <3>2, <3>3 DEF Added
    <3>5. \A i \in 0 .. n - 1 : Popped(k, i) \in S["val"] \cup S["obj"]
      <4> SUFFICES ASSUME NEW i \in 0 .. n - 1 PROVE Popped(k, i) \in S["val"] \cup S["obj"]
        OBVIOUS
      <4>1. k[i] \in Kinds /\ Taken(k, k[i], i) \in Nat /\ Taken(k, k[i], i) < Depth(k[i])
        BY <2>1, LayoutFacts
      <4>2. Popped(k, i) \in S[k[i]]
        BY <4>1, HeldPeek DEF Popped
      <4> QED BY <4>1, <4>2 DEF Kinds
    <3>6. cells \in [1 .. n -> S["val"] \cup S["obj"]]
      BY <2>1, <3>5
    <3>7. Filled("obj", n, cells)
      BY <2>1, <2>3 DEF Filled
    <3>8. "obj" \in PtrTags
      BY DEF PtrTags
    <3> HIDE DEF cells
    <3>9. Appended
      BY <2>1, <3>4, <3>6, <3>7, <3>8
    <3> QED BY <1>1, <3>9
  <2> QED BY <1>1, <2>2, <2>3
<1>4. CASE PushArray
  <2> DEFINE n == IntOf(Peek("val", 1))
             tag == ArrayTag(IntOf(Peek("val", 0)))
  <2>1. 2 <= Depth("val")
    BY <1>4, Available DEF PushArray
  <2>2. n \in Int
    BY <1>2, <2>1, TopOperands
  <2>3. CASE Full("obj")
    BY <1>4, <2>3, NewStacks DEF PushArray
  <2>4. CASE ~Full("obj") /\ (n < 1 \/ ~Fits(n))
    <3>1. StacksHold(On("val", 2, << >>), S)
      BY <1>2, <2>1, HeldPops
    <3> QED BY <1>4, <2>4, <3>1, NewStacks DEF PushArray
  <2>5. CASE ~Full("obj") /\ ~(n < 1 \/ ~Fits(n))
    <3>1. n \in Nat /\ 2 \in 0 .. Depth("val") /\ 0 \in 0 .. Depth("obj")
      BY <1>2, <2>1, <2>2, <2>5
    <3>2. heap' = heap \o Zeroes(n) /\ stacks' = Both(2, << >>, 0, <<Ptr(tag, Len(heap), n)>>)
      BY <1>4, <2>5, NewStacks DEF PushArray
    <3>3. Added(tag, n, Zeroes(n))
      BY <3>1, <3>2 DEF Added
    <3>4. Zeroes(n) \in [1 .. n -> S["val"] \cup S["obj"]]
      BY DEF Zeroes, Computed
    <3>5. tag \in {"arr", "arrobj"} /\ tag \in PtrTags
      BY DEF ArrayTag, PtrTags
    <3>6. Filled(tag, n, Zeroes(n))
      <4>1. tag # "obj" /\ \A i \in 1 .. n : Zeroes(n)[i] = Zero
        BY <3>5 DEF Zeroes
      <4>2. Zero.tag = "zero"
        BY DEF Zero
      <4> QED BY <4>1, <4>2 DEF Filled
    <3>7. Appended
      BY <3>1, <3>3, <3>4, <3>5, <3>6
    <3> QED BY <1>1, <3>7
  <2> QED BY <1>1, <2>3, <2>4, <2>5
<1>5. CASE CastByteArray
  <2> DEFINE str == pool[Peek("val", 0).val + 1]
             n == Len(str)
  <2>1. 1 <= Depth("val")
    BY <1>5, Available DEF CastByteArray
  <2>2. str \in Seq(Nat) /\ n \in Nat
    <3>1. Instr = "CAST_BYTE_ARRAY" /\ ~BadString
      BY <1>5, RunningFacts DEF CastByteArray
    <3>2. Printable(TYPE_STRING, Peek("val", 0))
      BY <3>1 DEF BadString
    <3>3. Peek("val", 0).val \in 0 .. Len(pool) - 1
      BY <3>2 DEF Printable, TYPE_STRING, TYPE_NULL, TYPE_BYTE, TYPE_INT, TYPE_FLOAT, TYPE_BOOL
    <3>4. pool \in Seq(Seq(Nat))
      BY VMAssumption DEF pool, IInv
    <3>5. Peek("val", 0).val + 1 \in 1 .. Len(pool)
      BY <3>3, <3>4
    <3>6. str \in Seq(Nat)
      BY <3>4, <3>5, ElementOfSeq
    <3> QED BY <3>6
  <2>3. \A i \in Int : Num(i) \in S["val"]
    BY DEF Computed
  <2>4. CASE Full("val")
    <3>1. StacksHold(On("val", 1, <<Num(n)>>), S)
      BY <1>2, <2>1, <2>2, <2>3, HeldPops
    <3> QED BY <1>1, <1>5, <2>4, <3>1, NewStacks DEF CastByteArray
  <2>5. CASE ~Full("val") /\ Full("obj")
    <3> DEFINE pushed == <<Num(n), Num(TYPE_BYTE)>>
    <3>1. Num(n) \in S["val"] /\ Num(TYPE_BYTE) \in S["val"]
      BY <2>2, <2>3 DEF TYPE_BYTE
    <3>2. pushed \in Seq(S["val"]) /\ 1 \in Nat
      BY <3>1, Pair
    <3>3. StacksHold(On("val", 1, pushed), S)
      BY <1>2, <2>1, <3>2, HeldOn, Zenon
    <3> QED BY <1>1, <1>5, <2>5, <3>3, NewStacks DEF CastByteArray
  <2>6. CASE ~Full("val") /\ ~Full("obj") /\ (n < 1 \/ ~Fits(n))
    <3>1. StacksHold(On("val", 1, << >>), S)
      BY <1>2, <2>1, HeldPops
    <3> QED BY <1>1, <1>5, <2>6, <3>1, NewStacks DEF CastByteArray
  <2>7. CASE ~Full("val") /\ ~Full("obj") /\ ~(n < 1 \/ ~Fits(n))
    <3> DEFINE cells == [i \in 1 .. n |-> Num(str[i])]
    <3>1. 1 \in 0 .. Depth("val") /\ 0 \in 0 .. Depth("obj") /\ "arr" \in PtrTags
      BY <1>2, <2>1 DEF PtrTags
    <3>2. heap' = heap \o cells /\ stacks' = Both(1, << >>, 0, <<Ptr("arr", Len(heap), n)>>)
      BY <1>5, <2>7, NewStacks DEF CastByteArray
    <3>3. Added("arr", n, cells)
      BY <3>1, <3>2 DEF Added
    <3>4. \A i \in 1 .. n : str[i] \in Nat
      BY <2>2, ElementOfSeq
    <3>5. cells \in [1 .. n -> S["val"] \cup S["obj"]]
      BY <2>3, <3>4
    <3>6. \A i \in 1 .. n : cells[i].tag = "num"
      BY DEF Num
    <3>7. Filled("arr", n, cells)
      BY <3>6 DEF Filled
    <3> HIDE DEF cells
    <3>8. Appended
      BY <2>2, <3>1, <3>3, <3>5, <3>7
    <3> QED BY <1>1, <3>8
  <2> QED BY <2>4, <2>5, <2>6, <2>7
<1> QED BY <1>3, <1>4, <1>5
-----------------------------------------------------------------------------
(* Every step of the machine, seen by the cells it moves.                     *)

LEMMA Executing ==
  ASSUME ExecuteInstruction
  PROVE  Running(Instr)
<1>1. \E op : Running(op)
  BY DEF ExecuteInstruction, Push, Dup, Pop, Swap, GetHeap, SetHeap, GetArray, SetArray, Define, GetLocal,
     SetLocal, BinaryOp, FloatOp, UnaryOp, EqObj, PushHeap, PushArray, CastByteArray, LenArray, PushScope,
     PopScope, Jump, JumpUnless, Return, Call, PrintValue, Exit, Yield
<1> QED BY <1>1 DEF Running

LEMMA InstructionCells ==
  ASSUME IInv, NEW S, StacksHold(stacks, S), FramesHold(frames, S), Computed(S), Sourced(S),
         ExecuteInstruction
  PROVE  \/ StacksHold(stacks', S) /\ FramesHold(frames', S) /\ UNCHANGED heap
         \/ \E s \in Kinds : SetHeap(s) \/ SetArray(s)
         \/ PushHeap \/ PushArray \/ CastByteArray
<1> DEFINE Held == StacksHold(stacks', S) /\ FramesHold(frames', S) /\ UNCHANGED heap
<1>1. ASSUME NEW s \in Kinds, Push(s) \/ Dup(s) \/ Pop(s) \/ Swap(s)
      PROVE  Held
  BY <1>1, StackCells, Kept
<1>2. ASSUME NEW s \in Kinds, GetHeap(s) \/ GetArray(s)
      PROVE  Held
  BY <1>2, FetchedCells, Kept
<1>3. CASE \/ \E op \in Binary : BinaryOp(op)
           \/ \E op \in FloatBinary : FloatOp(op, 2)
           \/ FloatOp("FLOAT_UNARY_MINUS", 1)
           \/ \E op \in Unary \ {"FLOAT_UNARY_MINUS"} : UnaryOp(op)
           \/ \E op \in {"EQ_OBJ", "NEQ_OBJ"} : EqObj(op)
           \/ LenArray \/ Call
  BY <1>3, ComputedCells, Kept
<1>4. CASE \/ PushScope \/ PopScope
           \/ \E s \in Kinds : Define(s) \/ GetLocal(s) \/ SetLocal(s)
  BY <1>4, FrameCells
<1>5. CASE Jump \/ JumpUnless \/ Return \/ PrintValue \/ Exit \/ Yield
  BY <1>5, ControlCells, Kept
<1> HIDE DEF Held
<1>6. CASE \E s \in Kinds : \/ Push(s) \/ Dup(s) \/ Pop(s) \/ Swap(s)
                            \/ GetHeap(s) \/ SetHeap(s) \/ GetArray(s) \/ SetArray(s)
                            \/ Define(s) \/ GetLocal(s) \/ SetLocal(s)
  BY <1>1, <1>2, <1>4, <1>6 DEF Held
<1> QED BY <1>3, <1>4, <1>5, <1>6 DEF ExecuteInstruction, Held

(* Every cell that is pushed from the code or the heap is there.              *)
LEMMA Sources ==
  ASSUME IInv, Running(Instr), NEW s \in Kinds
  PROVE  LET ref == Peek("obj", 0)
             index == IntOf(Peek("val", 0))
         IN  /\ Instr = Of(s, "PUSH", "PUSH_OBJ") => Immediate \in NonPtr
             /\ Instr = Of(s, "GET_HEAP", "GET_HEAP_OBJ") /\ ref # Zero => InHeap(ref.val + Operand(1))
             /\ Instr = Of(s, "GET_ARRAY", "GET_ARRAY_OBJ") /\ InBounds(ref, index) => InHeap(ref.val + index)
<1>1. s = "val" \/ s = "obj"
  BY DEF Kinds
<1>2. ~BadReference
  BY RunningFacts
<1>3. ASSUME Instr \in {"PUSH", "PUSH_OBJ"}
      PROVE  Immediate \in NonPtr
  <2>1. Running(Instr) /\ ip \in Nat /\ ip + 1 < Len(code)
    BY <1>3, RunningFacts DEF Operands, OneOperand
  <2>2. code \in Seq(Cell) /\ \A i \in 1 .. Len(code) : code[i].tag \notin PtrTags
    BY VMAssumption DEF code, IInv
  <2>3. ip + 2 \in 1 .. Len(code)
    BY <2>1, <2>2
  <2>4. code[ip + 2] \in Cell
    BY <2>2, <2>3, ElementOfSeq
  <2> QED BY <2>2, <2>3, <2>4 DEF Immediate, NonPtr, IsPtr
<1> QED BY <1>1, <1>2, <1>3 DEF Of, BadReference, HeapAccess, ArrayAccess

LEMMA HeapCell ==
  ASSUME NEW B, Blocks(B, heap), NEW l, InHeap(l)
  PROVE  At(l) \in NonPtr \cup B
<1>1. heap \in Seq(NonPtr \cup B) /\ l + 1 \in 1 .. Len(heap)
  BY DEF Blocks, InHeap
<1> QED BY <1>1, ElementOfSeq DEF At

LEMMA PlainValues ==
  /\ \A i \in Int : Num(i) \in NonPtr
  /\ \A b \in BOOLEAN : Float(b) \in NonPtr
  /\ Zero \in NonPtr
<1>1. NONZERO_BITS \in Int
  BY DEF NONZERO_BITS
<1> QED
  BY <1>1 DEF NonPtr, Cell, Scalar, Num, Float, Zero, IsPtr, PtrTags, ScalarTags
-----------------------------------------------------------------------------
(* The blocks of all the pointers that were made stay apart, wherever the code  *)
(* puts the pointers.                                                        *)

Roaming(B) == [s \in Kinds |-> NonPtr \cup B]
Held(B) == Blocks(B, heap) /\ StacksHold(stacks, Roaming(B)) /\ FramesHold(frames, Roaming(B))
DInv == \E B \in SUBSET Pointer : Held(B)

LEMMA RoamingSources ==
  ASSUME IInv, NEW B \in SUBSET Pointer, Held(B), ExecuteInstruction
  PROVE  Computed(Roaming(B)) /\ Sourced(Roaming(B))
<1>1. Running(Instr)
  BY Executing
<1>2. \A s \in Kinds : Roaming(B)[s] = NonPtr \cup B
  BY DEF Roaming
<1>3. Computed(Roaming(B))
  BY <1>2, PlainValues DEF Computed, Kinds
<1>4. \A l : InHeap(l) => At(l) \in NonPtr \cup B
  BY HeapCell DEF Held
<1>5. Sourced(Roaming(B))
  BY <1>1, <1>2, <1>4, Sources DEF Sourced
<1> QED BY <1>3, <1>5

LEMMA DInitially ==
  ASSUME Init
  PROVE  DInv
<1>1. << >> \in Seq(NonPtr \cup {}) /\ Zero \in NonPtr \cup {}
  BY EmptySeq, PlainValues
<1>2. Blocks({}, heap)
  BY <1>1 DEF Init, Blocks
<1>3. StacksHold(stacks, Roaming({}))
  BY <1>1 DEF Init, StacksHold, Roaming
<1>4. FramesHold(frames, Roaming({}))
  BY <1>1 DEF Init, FramesHold, Roaming
<1> QED BY <1>2, <1>3, <1>4 DEF DInv, Held

LEMMA DInductive ==
  ASSUME IInv, DInv, [Next]_vars
  PROVE  DInv'
<1>1. PICK B \in SUBSET Pointer : Held(B)
  BY DEF DInv
<1> DEFINE S == Roaming(B)
<1>2. StacksHold(stacks, S) /\ FramesHold(frames, S) /\ Blocks(B, heap)
  BY <1>1 DEF Held
<1>3. \A s \in Kinds : S[s] = NonPtr \cup B
  BY DEF Roaming
<1> HIDE DEF S
<1>4. CASE UNCHANGED <<stacks, frames, heap>>
  BY <1>2, <1>4 DEF DInv, Held, S
<1>5. CASE ExecuteInstruction
  <2>1. Computed(S) /\ Sourced(S)
    BY <1>1, <1>5, RoamingSources DEF S
  <2>2. CASE StacksHold(stacks', S) /\ FramesHold(frames', S) /\ UNCHANGED heap
    BY <1>2, <2>2 DEF DInv, Held, S
  <2>3. ASSUME NEW s \in Kinds, SetHeap(s) \/ SetArray(s)
        PROVE  DInv'
    <3>1. StacksHold(stacks', S) /\ FramesHold(frames', S)
      BY <1>2, <2>3, StoredCells, Kept
    <3>2. UNCHANGED heap \/ \E l : \E c \in NonPtr \cup B : Overwritten(l, c)
      BY <1>2, <1>3, <2>3, StoredCells
    <3>3. Blocks(B, heap')
      BY <1>2, <3>2, BlocksReplaced
    <3> QED BY <3>1, <3>3 DEF DInv, Held, S
  <2>4. CASE PushHeap \/ PushArray \/ CastByteArray
    <3>1. CASE StacksHold(stacks', S) /\ UNCHANGED <<frames, heap>>
      BY <1>2, <3>1 DEF DInv, Held, S
    <3>2. ASSUME NEW tag \in PtrTags, NEW n \in Nat, NEW cells \in [1 .. n -> S["val"] \cup S["obj"]],
                 Added(tag, n, cells), UNCHANGED frames
          PROVE  DInv'
      <4> DEFINE C == B \cup {Ptr(tag, Len(heap), n)}
      <4>1. cells \in [1 .. n -> NonPtr \cup B]
        BY <1>3, <3>2 DEF Kinds
      <4>2. C \in SUBSET Pointer /\ Blocks(C, heap')
        BY <1>2, <3>2, <4>1, BlocksAdded DEF Added
      <4>3. (\A s \in Kinds : S[s] \subseteq Roaming(C)[s]) /\ Ptr(tag, Len(heap), n) \in Roaming(C)["obj"]
        BY <1>3 DEF Roaming, Kinds
      <4> HIDE DEF C
      <4>4. StacksHold(stacks', Roaming(C)) /\ FramesHold(frames', Roaming(C))
        BY <1>2, <3>2, <4>3, HeldAdded, Zenon
      <4> QED BY <4>2, <4>4 DEF DInv, Held
    <3>3. \/ StacksHold(stacks', S) /\ UNCHANGED <<frames, heap>>
          \/ \E tag \in PtrTags, n \in Nat : \E cells \in [1 .. n -> S["val"] \cup S["obj"]] :
               Added(tag, n, cells) /\ UNCHANGED frames
      BY <1>2, <2>1, <2>4, AllocatedCells
    <3> QED BY <3>1, <3>2, <3>3, Zenon
  <2> QED BY <1>2, <1>5, <2>1, <2>2, <2>3, <2>4, InstructionCells
<1>6. CASE Crash \/ Execute \/ Stop
  BY <1>4, <1>6 DEF Crash, Execute, Stop, vars
<1> QED BY <1>4, <1>5, <1>6 DEF Next, vars

(* The cells of two references, held anywhere, are the same or apart, whatever  *)
(* code the machine runs: every allocation takes new cells, no instruction     *)
(* forges a pointer and nothing gives a cell back.                            *)
THEOREM NoBlocksOverlap == Spec => []BlocksApart
<1>1. IInv /\ DInv => BlocksApart
  <2> SUFFICES ASSUME IInv, DInv PROVE BlocksApart
    OBVIOUS
  <2>1. PICK B \in SUBSET Pointer : Held(B)
    BY DEF DInv
  <2>2. \A s \in Kinds : CellsOf(s) \subseteq NonPtr \cup B
    <3> SUFFICES ASSUME NEW s \in Kinds PROVE CellsOf(s) \subseteq NonPtr \cup B
      OBVIOUS
    <3>1. Roaming(B)[s] = NonPtr \cup B
      BY DEF Roaming
    <3>2. stacks[s] \in Seq(NonPtr \cup B) /\ frames[s].values \in [Slots -> NonPtr \cup B]
      BY <2>1, <3>1 DEF Held, StacksHold, FramesHold
    <3> QED BY <3>2, ElementOfSeq DEF CellsOf
  <2>3. \A l \in 1 .. Len(heap) : heap[l] \in NonPtr \cup B
    BY <2>1, ElementOfSeq DEF Held, Blocks
  <2>4. Pointers \subseteq B
    BY <2>2, <2>3 DEF Pointers, NonPtr, Kinds
  <2> QED BY <2>1, <2>4 DEF BlocksApart, Held, Blocks
<1> QED BY <1>1, DInitially, DInductive, Initially, Inductive, PTL DEF Spec
-----------------------------------------------------------------------------
(* References on the stacks and in the frames of objects only, and what they    *)
(* refer to has its shape, as long as every access is typed.                  *)

Null == {c \in NonPtr : IsRef(c)}
Separated(B) == [s \in Kinds |-> IF s = "val" THEN NonPtr ELSE Null \cup B]

Element(h, p, i) == h[p.val + i + 1]
TypeIn(h, p, i) == Element(h, p, i - (i % 5)).types[i % 5]
ElementShaped(h, p, i) ==
  /\ p.tag = "arrobj" => IsRef(Element(h, p, i))
  /\ p.tag = "arr" => ~IsPtr(Element(h, p, i)) /\ Element(h, p, i).tag # "types"
  /\ p.tag = "obj" /\ i % 5 = 0 => Element(h, p, i).tag = "types"
  /\ p.tag = "obj" /\ i % 5 # 0 => TypeIn(h, p, i) # TYPE_UNDEFINED /\ OfType(TypeIn(h, p, i), Element(h, p, i))
Shaped(h, p) == \A i \in 0 .. p.count - 1 : ElementShaped(h, p, i)

HeldTyped(B) ==
  /\ Blocks(B, heap) /\ StacksHold(stacks, Separated(B)) /\ FramesHold(frames, Separated(B))
  /\ \A p \in B : Shaped(heap, p)
TInv == \E B \in SUBSET Pointer : HeldTyped(B)

LEMMA WordOf ==
  ASSUME NEW i \in Nat
  PROVE  i - (i % 5) \in 0 .. i /\ (i - (i % 5)) % 5 = 0
OBVIOUS

LEMMA OfTypes ==
  ASSUME NEW type, NEW c, OfType(type, c)
  PROVE  /\ is_object_or_null(type) => IsRef(c)
         /\ ~is_object_or_null(type) => ~IsPtr(c)
         /\ c.tag # "types"
BY DEF OfType, IsRef, IsPtr, PtrTags, is_object_or_null, is_object, TYPE_STRING, TYPE_NULL, BUILTIN_LAST

(* The model's words for what is in a block.                                 *)
LEMMA InBlock ==
  ASSUME NEW p \in Pointer, NEW i \in Nat
  PROVE  At(p.val + i) = Element(heap, p, i) /\ FieldType(p, i) = TypeIn(heap, p, i)
<1>1. p.val \in Nat /\ i - (i % 5) \in Nat
  BY WordOf DEF Pointer
<1>2. p.val + i - (i % 5) + 1 = p.val + (i - (i % 5)) + 1
  BY <1>1
<1> QED BY <1>2 DEF At, Element, FieldType, TypeIn

LEMMA ShapeKept ==
  ASSUME NEW p \in Pointer, NEW h, NEW g, Shaped(h, p),
         \A i \in 0 .. p.count - 1 : Element(g, p, i) = Element(h, p, i)
  PROVE  Shaped(g, p)
<1>1. \A i \in 0 .. p.count - 1 : i - (i % 5) \in 0 .. p.count - 1
  BY WordOf DEF Pointer
<1>2. \A i \in 0 .. p.count - 1 : TypeIn(g, p, i) = TypeIn(h, p, i)
  BY <1>1 DEF TypeIn
<1> QED BY <1>2 DEF Shaped, ElementShaped

(* An instruction's operands are there, in the code and on the stacks.        *)
Reached == control # "host" /\ ~BadInstruction /\ ~Underflow

LEMMA ReferenceOnTop ==
  ASSUME IInv, NEW B \in SUBSET Pointer, HeldTyped(B), ~Underflow,
         Instr \in HeapAccess \cup ArrayAccess \cup {"LEN_ARRAY"}
  PROVE  Peek("obj", 0) \in Null \cup B
<1>1. Depth("obj") \in Nat /\ ~ Depth("obj") < ObjPops(Instr)
  BY Heights DEF IInv, GoodHeap, Kinds, Underflow
<1>2. ObjPops(Instr) = 1 \/ ObjPops(Instr) = 2
  BY DEF ObjPops, HeapAccess, ArrayAccess
<1>3. StacksHold(stacks, Separated(B)) /\ "obj" \in Kinds /\ Separated(B)["obj"] = Null \cup B
  BY DEF HeldTyped, Separated, Kinds
<1>4. Peek("obj", 0) \in Separated(B)["obj"]
  BY <1>1, <1>2, <1>3, HeldPeek
<1> QED BY <1>3, <1>4

(* The reference of an access is one that was made, and the access is inside.  *)
LEMMA Accessed ==
  ASSUME IInv, NEW B \in SUBSET Pointer, HeldTyped(B), AccessesTyped, Reached, NEW s \in Kinds
  PROVE  LET ref == Peek("obj", 0)
             index == IntOf(Peek("val", 0))
         IN  /\ \/ Instr = Of(s, "GET_HEAP", "GET_HEAP_OBJ") /\ ref # Zero
                \/ Instr = Of(s, "SET_HEAP", "SET_HEAP_OBJ")
                => /\ ref \in B /\ ref.tag = "obj" /\ Operand(1) \in Nat /\ Operand(1) < ref.count
                   /\ Operand(1) % 5 # 0 /\ TypeIn(heap, ref, Operand(1)) # TYPE_UNDEFINED
                   /\ is_object_or_null(TypeIn(heap, ref, Operand(1))) <=> s = "obj"
             /\ Instr = Of(s, "SET_HEAP", "SET_HEAP_OBJ")
                => OfType(TypeIn(heap, ref, Operand(1)), FieldValue(s))
             /\ \/ Instr = Of(s, "GET_ARRAY", "GET_ARRAY_OBJ") /\ InBounds(ref, index)
                \/ Instr = Of(s, "SET_ARRAY", "SET_ARRAY_OBJ") /\ InBounds(ref, index)
                => /\ ref \in B /\ index \in Nat /\ index < ref.count
                   /\ ref.tag = Of(s, "arr", "arrobj")
                   /\ Instr = "SET_ARRAY" => ElementValue(s).tag # "types"
<1> DEFINE ref == Peek("obj", 0)
           index == IntOf(Peek("val", 0))
           n == Operand(1)
<1>1. control # "host" /\ ~BadInstruction /\ ~Underflow
  BY DEF Reached
<1>2. s = "val" \/ s = "obj"
  BY DEF Kinds
<1>3. ASSUME Instr \in HeapAccess \cup ArrayAccess
      PROVE  ref \in Null \cup B
  BY <1>1, <1>3, ReferenceOnTop
<1>4. ASSUME ref \in Null \cup B, IsPtr(ref)
      PROVE  ref \in B
  BY <1>4 DEF Null, NonPtr
<1>5. ASSUME Instr \in HeapAccess
      PROVE  n \in Nat
  BY <1>1, <1>5 DEF BadInstruction, HeapAccess, Operands, OneOperand
<1>6. ASSUME Instr \in HeapAccess, IsField(s, ref, n)
      PROVE  /\ ref \in B /\ ref.tag = "obj" /\ n \in Nat /\ n < ref.count
             /\ n % 5 # 0 /\ TypeIn(heap, ref, n) # TYPE_UNDEFINED
             /\ is_object_or_null(TypeIn(heap, ref, n)) <=> s = "obj"
             /\ FieldType(ref, n) = TypeIn(heap, ref, n)
  <2>1. ref \in B
    BY <1>3, <1>4, <1>6 DEF IsField, IsPtr, PtrTags
  <2>2. FieldType(ref, n) = TypeIn(heap, ref, n)
    BY <1>5, <1>6, <2>1, InBlock
  <2> QED BY <1>5, <1>6, <2>1, <2>2 DEF IsField
<1>7. ASSUME Instr \in ArrayAccess, InBounds(ref, index), ref.tag = Of(s, "arr", "arrobj")
      PROVE  ref \in B /\ index \in Nat /\ index < ref.count
  <2>1. ref \in B
    BY <1>3, <1>4, <1>7 DEF Of, IsPtr, PtrTags
  <2> QED BY <1>7, <2>1 DEF InBounds, Pointer
<1>8. \/ Instr = Of(s, "GET_HEAP", "GET_HEAP_OBJ") /\ ref # Zero
      \/ Instr = Of(s, "SET_HEAP", "SET_HEAP_OBJ")
      => Instr \in HeapAccess /\ IsField(s, ref, n)
  BY <1>1, <1>2 DEF AccessesTyped, HeapAccess, Of
<1>9. Instr = Of(s, "SET_HEAP", "SET_HEAP_OBJ") => OfType(FieldType(ref, n), FieldValue(s))
  BY <1>1 DEF AccessesTyped
<1>10. \/ Instr = Of(s, "GET_ARRAY", "GET_ARRAY_OBJ") /\ InBounds(ref, index)
       \/ Instr = Of(s, "SET_ARRAY", "SET_ARRAY_OBJ") /\ InBounds(ref, index)
       => /\ Instr \in ArrayAccess /\ ref.tag = Of(s, "arr", "arrobj")
          /\ Instr = "SET_ARRAY" => ElementValue(s).tag # "types"
  BY <1>1, <1>2 DEF AccessesTyped, ArrayAccess, Of
<1> HIDE DEF ref, index, n
<1> QED BY <1>6, <1>7, <1>8, <1>9, <1>10 DEF ref, index, n, InBounds

(* So no access that is typed meets a bad reference.                         *)
LEMMA NoBadReference ==
  ASSUME IInv, TInv, AccessesTyped, Reached
  PROVE  ~BadReference
<1> DEFINE ref == Peek("obj", 0)
           index == IntOf(Peek("val", 0))
           n == Operand(1)
<1>1. PICK B \in SUBSET Pointer : HeldTyped(B)
  BY DEF TInv
<1>3. \A p \in B : IsRef(p) /\ p.val \in Nat /\ p.count \in Nat /\ p.val + p.count <= Len(heap)
  BY <1>1 DEF HeldTyped, Blocks, Pointer, IsRef
<1>4. ASSUME Instr \in HeapAccess \cup ArrayAccess \cup {"LEN_ARRAY"}
      PROVE  IsRef(ref)
  BY <1>1, <1>3, <1>4, ReferenceOnTop DEF Null, Reached
<1>5. ASSUME ref \in B, NEW k \in Nat, k < ref.count
      PROVE  InHeap(ref.val + k)
  <2>1. PICK v \in Nat, c \in Nat : v = ref.val /\ c = ref.count
    BY <1>3, <1>5
  <2>2. v + c <= Len(heap) /\ k < c /\ Len(heap) \in Nat
    BY <1>3, <1>5, <2>1 DEF IInv, GoodHeap
  <2>3. v + k \in 0 .. Len(heap) - 1
    BY <1>5, <2>2
  <2> QED BY <2>1, <2>3 DEF InHeap
<1>6. ASSUME Instr \in HeapAccess, ref = Zero => Instr \in {"SET_HEAP", "SET_HEAP_OBJ"}
      PROVE  InHeap(ref.val + n)
  <2>1. PICK s \in Kinds : \/ Instr = Of(s, "GET_HEAP", "GET_HEAP_OBJ") /\ ref # Zero
                           \/ Instr = Of(s, "SET_HEAP", "SET_HEAP_OBJ")
    BY <1>6 DEF HeapAccess, Of, Kinds
  <2>2. ref \in B /\ n \in Nat /\ n < ref.count
    BY <1>1, <2>1, Accessed
  <2> QED BY <1>5, <2>2
<1>7. ASSUME Instr \in ArrayAccess, InBounds(ref, index)
      PROVE  InHeap(ref.val + index)
  <2>1. PICK s \in Kinds : \/ Instr = Of(s, "GET_ARRAY", "GET_ARRAY_OBJ")
                           \/ Instr = Of(s, "SET_ARRAY", "SET_ARRAY_OBJ")
    BY <1>7 DEF ArrayAccess, Of, Kinds
  <2>2. ref \in B /\ index \in Nat /\ index < ref.count
    BY <1>1, <1>7, <2>1, Accessed
  <2> QED BY <1>5, <2>2
<1> HIDE DEF ref, index, n
<1> QED BY <1>4, <1>6, <1>7 DEF BadReference, ref, index, n

LEMMA TypedSets ==
  ASSUME NEW B \in SUBSET Pointer
  PROVE  /\ Separated(B)["val"] = NonPtr /\ Separated(B)["obj"] = Null \cup B
         /\ \A s \in Kinds : Separated(B)[s] \subseteq NonPtr \cup B
         /\ \A c \in NonPtr \cup B : (IsRef(c) => c \in Null \cup B) /\ (~IsPtr(c) => c \in NonPtr)
         /\ \A c \in Null \cup B : IsRef(c)
         /\ \A c \in NonPtr : ~IsPtr(c)
<1>1. \A p \in B : IsPtr(p) /\ IsRef(p)
  BY DEF Pointer, IsPtr, IsRef
<1>2. Null \subseteq NonPtr
  BY DEF Null
<1>3. \A s \in Kinds : s = "val" \/ s = "obj"
  BY DEF Kinds
<1>4. Separated(B)["val"] = NonPtr /\ Separated(B)["obj"] = Null \cup B
  BY DEF Separated, Kinds
<1> QED BY <1>1, <1>2, <1>3, <1>4 DEF Null, NonPtr

LEMMA TypedSources ==
  ASSUME IInv, NEW B \in SUBSET Pointer, HeldTyped(B), AccessesTyped, ExecuteInstruction
  PROVE  Computed(Separated(B)) /\ Sourced(Separated(B))
<1> DEFINE S == Separated(B)
           ref == Peek("obj", 0)
           index == IntOf(Peek("val", 0))
<1>1. Running(Instr) /\ Reached
  BY Executing DEF Running, Defined, Reached
<1>2. S["val"] = NonPtr /\ S["obj"] = Null \cup B
  BY TypedSets
<1>3. Computed(S)
  BY <1>2, PlainValues DEF Computed, Null, IsRef, Zero
<1>4. ASSUME NEW s \in Kinds, Instr = Of(s, "PUSH", "PUSH_OBJ")
      PROVE  Immediate \in S[s]
  <2>1. Immediate \in NonPtr
    BY <1>1, <1>4, Sources
  <2>2. CASE s = "val"
    BY <1>2, <2>1, <2>2
  <2>3. CASE s # "val"
    <3>1. IsRef(Immediate) /\ s = "obj"
      BY <1>1, <1>4, <2>3 DEF AccessesTyped, Reached, Of, Kinds
    <3> QED BY <1>2, <2>1, <3>1 DEF Null
  <2> QED BY <2>2, <2>3
<1>5. ASSUME NEW s \in Kinds, Instr = Of(s, "GET_HEAP", "GET_HEAP_OBJ"), ref # Zero
      PROVE  At(ref.val + Operand(1)) \in S[s]
  <2> DEFINE n == Operand(1)
  <2>1. /\ ref \in B /\ ref.tag = "obj" /\ n \in Nat /\ n < ref.count
        /\ n % 5 # 0 /\ (is_object_or_null(TypeIn(heap, ref, n)) <=> s = "obj")
    BY <1>1, <1>5, Accessed
  <2>2. ref.count \in Nat /\ n \in 0 .. ref.count - 1
    BY <2>1 DEF Pointer
  <2>3. OfType(TypeIn(heap, ref, n), Element(heap, ref, n))
    BY <2>1, <2>2 DEF HeldTyped, Shaped, ElementShaped
  <2>4. At(ref.val + n) = Element(heap, ref, n)
    BY <2>1, InBlock
  <2>5. At(ref.val + n) \in NonPtr \cup B
    BY <1>1, <1>5, Sources, HeapCell DEF HeldTyped
  <2>6. (s = "obj" => IsRef(At(ref.val + n))) /\ (s # "obj" => ~IsPtr(At(ref.val + n)))
    BY <2>1, <2>3, <2>4, OfTypes
  <2> QED BY <1>2, <2>5, <2>6, TypedSets DEF Kinds
<1>6. ASSUME NEW s \in Kinds, Instr = Of(s, "GET_ARRAY", "GET_ARRAY_OBJ"), InBounds(ref, index)
      PROVE  At(ref.val + index) \in S[s]
  <2>1. ref \in B /\ index \in Nat /\ index < ref.count /\ ref.tag = Of(s, "arr", "arrobj")
    BY <1>1, <1>6, Accessed
  <2>2. ref.count \in Nat /\ index \in 0 .. ref.count - 1
    BY <2>1 DEF Pointer
  <2>3. ElementShaped(heap, ref, index)
    BY <2>1, <2>2 DEF HeldTyped, Shaped
  <2>4. At(ref.val + index) = Element(heap, ref, index)
    BY <2>1, InBlock
  <2>5. At(ref.val + index) \in NonPtr \cup B
    BY <1>1, <1>6, Sources, HeapCell DEF HeldTyped
  <2>6. (s = "obj" => IsRef(At(ref.val + index))) /\ (s = "val" => ~IsPtr(At(ref.val + index)))
    BY <2>1, <2>3, <2>4 DEF ElementShaped, Of
  <2> QED BY <1>2, <2>5, <2>6, TypedSets DEF Kinds
<1>7. Sourced(S)
  BY <1>4, <1>5, <1>6 DEF Sourced
<1> QED BY <1>3, <1>7

LEMMA Elsewhere ==
  ASSUME NEW a \in Nat, NEW m \in Nat, NEW b \in Nat, NEW k \in Nat, a + m <= b \/ b + k <= a,
         NEW n \in Nat, n < k
  PROVE  \A i \in 0 .. m - 1 : a + i + 1 # b + n + 1
OBVIOUS

(* A store inside one block leaves the others their shape.                    *)
LEMMA ShapesStored ==
  ASSUME NEW B \in SUBSET Pointer, Blocks(B, heap), \A p \in B : Shaped(heap, p),
         NEW ref \in B, NEW n \in Nat, n < ref.count, NEW c, Overwritten(ref.val + n, c),
         ref.tag = "arrobj" => IsRef(c),
         ref.tag = "arr" => ~IsPtr(c) /\ c.tag # "types",
         ref.tag = "obj" => n % 5 # 0 /\ OfType(TypeIn(heap, ref, n), c)
  PROVE  \A p \in B : Shaped(heap', p)
<1>1. heap \in Seq(NonPtr \cup B) /\ ref.val \in Nat /\ ref.count \in Nat
  BY DEF Blocks, Pointer
<1>2. /\ heap' = [heap EXCEPT ![ref.val + n + 1] = c]
      /\ ref.val + n + 1 \in 1 .. Len(heap) /\ DOMAIN heap = 1 .. Len(heap)
  BY <1>1 DEF Overwritten, InHeap
<1>3. \A j \in 1 .. Len(heap) : heap'[j] = IF j = ref.val + n + 1 THEN c ELSE heap[j]
  BY <1>2
<1>4. \A p \in B : \A i \in 0 .. p.count - 1 : p.val \in Nat /\ p.count \in Nat /\ p.val + i + 1 \in 1 .. Len(heap)
  BY <1>1 DEF Blocks, Pointer
<1>5. ASSUME NEW p \in B, p # ref
      PROVE  Shaped(heap', p)
  <2>1. p.val + p.count <= ref.val \/ ref.val + ref.count <= p.val
    BY <1>5 DEF Blocks, Apart
  <2>2. p.val \in Nat /\ p.count \in Nat
    BY DEF Pointer
  <2>3. \A i \in 0 .. p.count - 1 : p.val + i + 1 # ref.val + n + 1
    BY <1>1, <2>1, <2>2, Elsewhere
  <2>4. \A i \in 0 .. p.count - 1 : Element(heap', p, i) = Element(heap, p, i)
    BY <1>3, <1>4, <2>3 DEF Element
  <2> QED BY <2>4, ShapeKept
<1>6. Shaped(heap', ref)
  <2>1. ASSUME NEW i \in 0 .. ref.count - 1, i # n
        PROVE  Element(heap', ref, i) = Element(heap, ref, i)
    <3>1. ref.val + i + 1 # ref.val + n + 1
      BY <1>1, <2>1
    <3>2. ref.val + i + 1 \in 1 .. Len(heap)
      BY <1>4
    <3> QED BY <1>3, <3>1, <3>2 DEF Element
  <2>2. Element(heap', ref, n) = c
    BY <1>1, <1>2, <1>3 DEF Element
  <2>3. ASSUME NEW i \in 0 .. ref.count - 1, ref.tag = "obj"
        PROVE  TypeIn(heap', ref, i) = TypeIn(heap, ref, i)
    <3>1. i - (i % 5) \in 0 .. ref.count - 1 /\ (i - (i % 5)) % 5 = 0
      BY <1>1, WordOf
    <3>2. i - (i % 5) # n
      BY <2>3, <3>1
    <3> QED BY <2>1, <3>1, <3>2 DEF TypeIn
  <2>4. ASSUME NEW i \in 0 .. ref.count - 1
        PROVE  ElementShaped(heap', ref, i)
    <3>1. ElementShaped(heap, ref, i)
      BY DEF Shaped
    <3>2. CASE i = n
      BY <2>2, <2>3, <3>1, <3>2 DEF ElementShaped
    <3>3. CASE i # n
      BY <2>1, <2>3, <3>1, <3>3 DEF ElementShaped
    <3> QED BY <3>2, <3>3
  <2> QED BY <2>4 DEF Shaped
<1> QED BY <1>5, <1>6

(* A new block has the shape of what fills it, and the old ones keep theirs.   *)
LEMMA ShapesAdded ==
  ASSUME IInv, NEW B \in SUBSET Pointer, Blocks(B, heap), \A p \in B : Shaped(heap, p),
         AccessesTyped, Running(Instr),
         NEW tag \in PtrTags, NEW n \in Nat, NEW cells \in [1 .. n -> NonPtr \cup B],
         heap' = heap \o cells, Filled(tag, n, cells)
  PROVE  /\ \A p \in B : Shaped(heap', p)
         /\ Shaped(heap', Ptr(tag, Len(heap), n))
<1> DEFINE L == Len(heap)
           new == Ptr(tag, L, n)
<1>1. heap \in Seq(NonPtr \cup B) /\ L \in Nat
  BY DEF Blocks
<1>2. cells \in Seq(NonPtr \cup B) /\ Len(cells) = n
  BY FunctionSeq
<1>3. /\ \A j \in 1 .. L : heap'[j] = heap[j]
      /\ \A j \in 1 .. n : heap'[L + j] = cells[j]
  <2>1. \A j \in 1 .. L + n : heap'[j] = IF j <= L THEN heap[j] ELSE cells[j - L]
    BY <1>1, <1>2, ConcatProperties
  <2> QED BY <1>1, <2>1
<1>4. ASSUME NEW p \in B
      PROVE  Shaped(heap', p)
  <2>1. \A i \in 0 .. p.count - 1 : p.val + i + 1 \in 1 .. L
    BY <1>1 DEF Blocks, Pointer
  <2>2. \A i \in 0 .. p.count - 1 : Element(heap', p, i) = Element(heap, p, i)
    BY <1>3, <2>1 DEF Element
  <2> QED BY <2>2, ShapeKept
<1>5. new.tag = tag /\ new.val = L /\ new.count = n
  BY DEF Ptr
<1>6. ASSUME NEW i \in 0 .. n - 1
      PROVE  ElementShaped(heap', new, i)
  <2>1. \A j \in 0 .. n - 1 : Element(heap', new, j) = cells[j + 1]
    <3> SUFFICES ASSUME NEW j \in 0 .. n - 1 PROVE Element(heap', new, j) = cells[j + 1]
      OBVIOUS
    <3>1. new.val + j + 1 = L + (j + 1) /\ j + 1 \in 1 .. n
      BY <1>1, <1>5
    <3> QED BY <1>3, <3>1 DEF Element
  <2>2. CASE tag = "arrobj"
    <3>1. Element(heap', new, i) = Zero
      BY <2>1, <2>2 DEF Filled
    <3> QED BY <1>5, <2>2, <3>1 DEF ElementShaped, IsRef, Zero
  <2>3. CASE tag = "arr"
    <3>1. Element(heap', new, i).tag \in {"num", "zero"}
      BY <2>1, <2>3 DEF Filled
    <3> QED BY <1>5, <2>3, <3>1 DEF ElementShaped, IsPtr, PtrTags
  <2>4. CASE tag = "obj"
    <3>1. PICK k \in Layouts(n) : cells = [j \in 1 .. n |-> Popped(k, j - 1)]
      BY <2>4 DEF Filled
    <3>2. \A j \in 0 .. n - 1 : Element(heap', new, j) = Popped(k, j)
      <4> SUFFICES ASSUME NEW j \in 0 .. n - 1 PROVE Element(heap', new, j) = Popped(k, j)
        OBVIOUS
      <4>1. j + 1 \in 1 .. n /\ (j + 1) - 1 = j
        OBVIOUS
      <4>2. cells[j + 1] = Popped(k, (j + 1) - 1)
        BY <3>1, <4>1
      <4> QED BY <2>1, <4>1, <4>2
    <3>3. i % 5 = 0 => Popped(k, i).tag = "types"
      BY DEF Layouts, IsLayout
    <3>4. FieldsTyped(k, n)
      BY <2>4 DEF Filled, AccessesTyped, Running, Defined
    <3>5. i % 5 # 0 => LET type == Popped(k, i - (i % 5)).types[i % 5]
                       IN  type # TYPE_UNDEFINED /\ OfType(type, Popped(k, i))
      BY <3>4 DEF FieldsTyped
    <3>6. i - (i % 5) \in 0 .. n - 1
      BY WordOf
    <3>7. TypeIn(heap', new, i) = Popped(k, i - (i % 5)).types[i % 5]
      BY <3>2, <3>6 DEF TypeIn
    <3> QED BY <1>5, <2>4, <3>2, <3>3, <3>5, <3>7 DEF ElementShaped
  <2> QED BY <2>2, <2>3, <2>4 DEF PtrTags
<1>7. Shaped(heap', new)
  BY <1>5, <1>6 DEF Shaped
<1> QED BY <1>4, <1>7

LEMMA TInitially ==
  ASSUME Init
  PROVE  TInv
<1>1. << >> \in Seq(NonPtr) /\ << >> \in Seq(Null \cup {}) /\ << >> \in Seq(NonPtr \cup {})
  BY EmptySeq
<1>2. Zero \in NonPtr /\ Zero \in Null
  BY PlainValues DEF Null, Zero, IsRef
<1>3. Blocks({}, heap)
  BY <1>1 DEF Init, Blocks
<1>4. StacksHold(stacks, Separated({}))
  BY <1>1 DEF Init, StacksHold, Separated
<1>5. FramesHold(frames, Separated({}))
  BY <1>2 DEF Init, FramesHold, Separated
<1>6. \A p \in {} : Shaped(heap, p)
  OBVIOUS
<1> QED BY <1>3, <1>4, <1>5, <1>6 DEF TInv, HeldTyped

(* What a store does, of a typed access.                                     *)
LEMMA TypedStore ==
  ASSUME IInv, NEW B \in SUBSET Pointer, HeldTyped(B), AccessesTyped, Running(Instr),
         NEW s \in Kinds, SetHeap(s) \/ SetArray(s)
  PROVE  \/ UNCHANGED heap
         \/ LET ref == Peek("obj", 0)
            IN  /\ ref \in B
                /\ \E n \in Nat : \E c \in NonPtr \cup B :
                     /\ n < ref.count /\ Overwritten(ref.val + n, c)
                     /\ ref.tag = "arrobj" => IsRef(c)
                     /\ ref.tag = "arr" => ~IsPtr(c) /\ c.tag # "types"
                     /\ ref.tag = "obj" => n % 5 # 0 /\ OfType(TypeIn(heap, ref, n), c)
<1> DEFINE ref == Peek("obj", 0)
           index == IntOf(Peek("val", 0))
<1>1. StacksHold(stacks, Separated(B)) /\ Reached
  BY DEF HeldTyped, Reached, Running, Defined
<1>2. s = "val" \/ s = "obj"
  BY DEF Kinds
<1>3. CASE /\ Instr = Of(s, "SET_HEAP", "SET_HEAP_OBJ") /\ FieldValue(s) \in Separated(B)[s]
           /\ Overwritten(ref.val + Operand(1), FieldValue(s))
  <2>1. /\ ref \in B /\ ref.tag = "obj" /\ Operand(1) \in Nat /\ Operand(1) < ref.count
        /\ Operand(1) % 5 # 0 /\ OfType(TypeIn(heap, ref, Operand(1)), FieldValue(s))
    BY <1>1, <1>3, Accessed
  <2>2. FieldValue(s) \in NonPtr \cup B
    BY <1>3, TypedSets
  <2> QED BY <1>3, <2>1, <2>2
<1>4. CASE /\ Instr = Of(s, "SET_ARRAY", "SET_ARRAY_OBJ") /\ ElementValue(s) \in Separated(B)[s]
           /\ InBounds(ref, index) /\ Overwritten(ref.val + index, ElementValue(s))
  <2>1. /\ ref \in B /\ index \in Nat /\ index < ref.count /\ ref.tag = Of(s, "arr", "arrobj")
        /\ Instr = "SET_ARRAY" => ElementValue(s).tag # "types"
    BY <1>1, <1>4, Accessed
  <2>2. ElementValue(s) \in NonPtr \cup B
    BY <1>4, TypedSets
  <2>3. /\ ref.tag = "arrobj" => IsRef(ElementValue(s))
        /\ ref.tag = "arr" => ~IsPtr(ElementValue(s)) /\ ElementValue(s).tag # "types"
        /\ ref.tag # "obj"
    BY <1>2, <1>4, <2>1, TypedSets DEF Of
  <2> QED BY <1>4, <2>1, <2>2, <2>3
<1> HIDE DEF ref, index
<1> QED BY <1>1, <1>3, <1>4, StoredCells DEF ref, index

LEMMA TInductive ==
  ASSUME IInv, TInv, AccessesTyped, [Next]_vars
  PROVE  TInv'
<1>1. PICK B \in SUBSET Pointer : HeldTyped(B)
  BY DEF TInv
<1> DEFINE S == Separated(B)
<1>2. /\ StacksHold(stacks, S) /\ FramesHold(frames, S) /\ Blocks(B, heap)
      /\ \A p \in B : Shaped(heap, p)
  BY <1>1 DEF HeldTyped
<1>3. \A s \in Kinds : S[s] \subseteq NonPtr \cup B
  BY TypedSets
<1> HIDE DEF S
<1>4. CASE UNCHANGED <<stacks, frames, heap>>
  BY <1>2, <1>4 DEF TInv, HeldTyped, S
<1>5. CASE ExecuteInstruction
  <2>1. Computed(S) /\ Sourced(S) /\ Running(Instr)
    BY <1>1, <1>5, TypedSources, Executing DEF S
  <2>2. CASE StacksHold(stacks', S) /\ FramesHold(frames', S) /\ UNCHANGED heap
    BY <1>2, <2>2 DEF TInv, HeldTyped, S
  <2>3. ASSUME NEW s \in Kinds, SetHeap(s) \/ SetArray(s)
        PROVE  TInv'
    <3>1. StacksHold(stacks', S) /\ FramesHold(frames', S)
      BY <1>2, <2>3, StoredCells, Kept
    <3>2. CASE UNCHANGED heap
      BY <1>2, <3>1, <3>2 DEF TInv, HeldTyped, S
    <3>3. CASE ~UNCHANGED heap
      <4> DEFINE ref == Peek("obj", 0)
      <4>1. PICK n \in Nat : /\ ref \in B
                             /\ \E c \in NonPtr \cup B :
                                  /\ n < ref.count /\ Overwritten(ref.val + n, c)
                                  /\ ref.tag = "arrobj" => IsRef(c)
                                  /\ ref.tag = "arr" => ~IsPtr(c) /\ c.tag # "types"
                                  /\ ref.tag = "obj" => n % 5 # 0 /\ OfType(TypeIn(heap, ref, n), c)
        BY <1>1, <2>1, <2>3, <3>3, TypedStore
      <4>2. PICK c \in NonPtr \cup B :
                                  /\ n < ref.count /\ Overwritten(ref.val + n, c)
                                  /\ ref.tag = "arrobj" => IsRef(c)
                                  /\ ref.tag = "arr" => ~IsPtr(c) /\ c.tag # "types"
                                  /\ ref.tag = "obj" => n % 5 # 0 /\ OfType(TypeIn(heap, ref, n), c)
        BY <4>1
      <4> HIDE DEF ref
      <4>3. Blocks(B, heap')
        BY <1>2, <4>2, BlocksReplaced
      <4>4. \A p \in B : Shaped(heap', p)
        BY <1>2, <4>1, <4>2, ShapesStored, Zenon
      <4> QED BY <3>1, <4>3, <4>4 DEF TInv, HeldTyped, S
    <3> QED BY <3>2, <3>3
  <2>4. CASE PushHeap \/ PushArray \/ CastByteArray
    <3>1. CASE StacksHold(stacks', S) /\ UNCHANGED <<frames, heap>>
      BY <1>2, <3>1 DEF TInv, HeldTyped, S
    <3>2. ASSUME NEW tag \in PtrTags, NEW n \in Nat, NEW cells \in [1 .. n -> S["val"] \cup S["obj"]],
                 Added(tag, n, cells), Filled(tag, n, cells), UNCHANGED frames
          PROVE  TInv'
      <4> DEFINE new == Ptr(tag, Len(heap), n)
                 C == B \cup {new}
      <4>1. cells \in [1 .. n -> NonPtr \cup B]
        BY <1>3, <3>2 DEF Kinds
      <4>2. C \in SUBSET Pointer /\ Blocks(C, heap')
        BY <1>2, <3>2, <4>1, BlocksAdded DEF Added
      <4>3. (\A s \in Kinds : S[s] \subseteq Separated(C)[s]) /\ new \in Separated(C)["obj"]
        BY DEF Separated, Kinds, S
      <4>4. (\A p \in B : Shaped(heap', p)) /\ Shaped(heap', new)
        BY <1>2, <2>1, <3>2, <4>1, ShapesAdded DEF Added
      <4>5. \A p \in C : Shaped(heap', p)
        BY <4>4
      <4>6. StacksHold(stacks', Separated(C)) /\ FramesHold(frames', Separated(C))
        <5> HIDE DEF C
        <5> QED BY <1>2, <3>2, <4>3, HeldAdded, Zenon
      <4> HIDE DEF C
      <4> QED BY <4>2, <4>5, <4>6 DEF TInv, HeldTyped
    <3>3. \/ StacksHold(stacks', S) /\ UNCHANGED <<frames, heap>>
          \/ \E tag \in PtrTags, n \in Nat : \E cells \in [1 .. n -> S["val"] \cup S["obj"]] :
               Added(tag, n, cells) /\ Filled(tag, n, cells) /\ UNCHANGED frames
      BY <1>2, <2>1, <2>4, AllocatedCells
    <3> QED BY <3>1, <3>2, <3>3, Zenon
  <2> QED BY <1>2, <1>5, <2>1, <2>2, <2>3, <2>4, InstructionCells
<1>6. CASE Crash \/ Execute \/ Stop
  BY <1>4, <1>6 DEF Crash, Execute, Stop, vars
<1> QED BY <1>4, <1>5, <1>6 DEF Next, vars

(* The invariant of a machine whose accesses are typed.                       *)
THEOREM TypedInvariance == Spec /\ []AccessesTyped => [](IInv /\ TInv)
BY Initially, Inductive, TInitially, TInductive, PTL DEF Spec

(* Code whose accesses are typed keeps references on the object stack and in    *)
(* the object slots, and everything else off them.                           *)
THEOREM KindsStaySeparated == Spec /\ []AccessesTyped => []KindsSeparated
<1>1. IInv /\ TInv => KindsSeparated
  <2> SUFFICES ASSUME IInv, TInv PROVE KindsSeparated
    OBVIOUS
  <2>1. PICK B \in SUBSET Pointer : HeldTyped(B)
    BY DEF TInv
  <2>2. \A s \in Kinds : \A c \in Separated(B)[s] : IF s = "obj" THEN IsRef(c) ELSE ~IsPtr(c)
    BY TypedSets DEF Kinds
  <2>3. \A s \in Kinds : stacks[s] \in Seq(Separated(B)[s]) /\ frames[s].values \in [Slots -> Separated(B)[s]]
    BY <2>1 DEF HeldTyped, StacksHold, FramesHold
  <2> QED BY <2>2, <2>3, ElementOfSeq DEF KindsSeparated
<1> QED BY <1>1, TypedInvariance, PTL

(* What a reference leads to has the shape that its metadata bits and its types *)
(* words announce, whatever is stored in it through other references to it.    *)
THEOREM HeapStaysShaped == Spec /\ []AccessesTyped => []HeapShaped
<1>1. IInv /\ TInv => HeapShaped
  <2> SUFFICES ASSUME IInv, TInv PROVE HeapShaped
    OBVIOUS
  <2>1. PICK B \in SUBSET Pointer : HeldTyped(B)
    BY DEF TInv
  <2>2. ASSUME NEW p \in B
        PROVE  WellShaped(p)
    <3>1. p \in Pointer /\ p.count \in Nat /\ p.tag \in {"obj", "arr", "arrobj"}
      BY DEF Pointer, PtrTags
    <3>2. ASSUME NEW i \in 0 .. p.count - 1
          PROVE  /\ At(p.val + i) = Element(heap, p, i) /\ FieldType(p, i) = TypeIn(heap, p, i)
                 /\ ElementShaped(heap, p, i)
      BY <2>1, <3>1, InBlock DEF HeldTyped, Shaped
    <3>3. CASE p.tag = "arrobj"
      BY <3>2, <3>3 DEF WellShaped, ElementShaped
    <3>4. CASE p.tag = "arr"
      BY <3>2, <3>4 DEF WellShaped, ElementShaped
    <3>5. CASE p.tag = "obj"
      BY <3>2, <3>5 DEF WellShaped, ElementShaped
    <3> QED BY <3>1, <3>3, <3>4, <3>5
  <2>3. \A c \in NonPtr \cup B : IsPtr(c) => c \in B
    BY DEF NonPtr
  <2>4. \A i \in 1 .. Len(stacks["obj"]) : stacks["obj"][i] \in NonPtr \cup B
    <3>1. stacks["obj"] \in Seq(Null \cup B) /\ Null \subseteq NonPtr
      BY <2>1, TypedSets DEF HeldTyped, StacksHold, Kinds, Null
    <3> QED BY <3>1, ElementOfSeq
  <2>5. \A l \in 1 .. Len(heap) : heap[l] \in NonPtr \cup B
    BY <2>1, ElementOfSeq DEF HeldTyped, Blocks
  <2> QED BY <2>2, <2>3, <2>4, <2>5 DEF HeapShaped
<1> QED BY <1>1, TypedInvariance, PTL

(* No step alters an allocated cell but a store through the reference on top of  *)
(* the object stack, in that object and over no types word.                   *)
THEOREM WritesStay == Spec /\ []AccessesTyped => WritesStayInObject
<1> DEFINE Confined(l) ==
             heap'[l + 1] # At(l) =>
               /\ At(l).tag # "types"
               /\ LET p == Peek("obj", 0) IN IsPtr(p) /\ l \in p.val .. p.val + p.count - 1
<1>1. IInv /\ TInv /\ AccessesTyped /\ [Next]_vars => [\A l \in 0 .. Len(heap) - 1 : Confined(l)]_vars
  <2> SUFFICES ASSUME IInv, TInv, AccessesTyped, [Next]_vars, NEW l \in 0 .. Len(heap) - 1, ~UNCHANGED vars
               PROVE  Confined(l)
    OBVIOUS
  <2>1. PICK B \in SUBSET Pointer : HeldTyped(B)
    BY DEF TInv
  <2>2. heap \in Seq(NonPtr \cup B) /\ l + 1 \in 1 .. Len(heap)
    BY <2>1 DEF HeldTyped, Blocks
  <2>3. CASE UNCHANGED heap
    BY <2>3 DEF At
  <2>4. ASSUME ExecuteInstruction
        PROVE  Confined(l)
    <3> DEFINE S == Separated(B)
    <3>1. /\ StacksHold(stacks, S) /\ FramesHold(frames, S)
          /\ Computed(S) /\ Sourced(S) /\ Running(Instr)
      BY <2>1, <2>4, TypedSources, Executing DEF HeldTyped
    <3> HIDE DEF S
    <3>2. ASSUME NEW s \in Kinds, SetHeap(s) \/ SetArray(s), ~UNCHANGED heap
          PROVE  Confined(l)
      <4> DEFINE ref == Peek("obj", 0)
      <4>1. PICK n \in Nat : /\ ref \in B /\ n < ref.count /\ (ref.tag = "obj" => n % 5 # 0)
                             /\ \E c : Overwritten(ref.val + n, c)
        BY <2>1, <3>1, <3>2, TypedStore
      <4>2. PICK c : Overwritten(ref.val + n, c)
        BY <4>1
      <4>3. ref.val \in Nat /\ ref.count \in Nat /\ IsPtr(ref) /\ ref.tag \in PtrTags /\ ref \in Pointer
        BY <4>1 DEF Pointer, IsPtr
      <4>4. ElementShaped(heap, ref, n)
        BY <2>1, <4>1, <4>3 DEF HeldTyped, Shaped
      <4>5. l # ref.val + n => heap'[l + 1] = At(l)
        BY <2>2, <4>2, <4>3 DEF Overwritten, InHeap, At
      <4>6. l = ref.val + n => l \in ref.val .. ref.val + ref.count - 1
        BY <4>1, <4>3
      <4>7. At(ref.val + n) = Element(heap, ref, n)
        BY <4>3, InBlock
      <4>8. Element(heap, ref, n).tag # "types"
        BY <4>1, <4>3, <4>4, OfTypes DEF ElementShaped, IsRef, PtrTags
      <4> QED BY <4>3, <4>5, <4>6, <4>7, <4>8
    <3>3. ASSUME NEW n \in Nat, NEW cells \in [1 .. n -> S["val"] \cup S["obj"]], heap' = heap \o cells
          PROVE  Confined(l)
      <4>1. cells \in [1 .. n -> NonPtr \cup B]
        BY <3>3, TypedSets DEF Kinds, S
      <4>2. cells \in Seq(NonPtr \cup B)
        BY <4>1, FunctionSeq
      <4>3. heap'[l + 1] = heap[l + 1]
        BY <2>2, <3>3, <4>2, ConcatProperties
      <4> QED BY <4>3 DEF At
    <3>4. CASE PushHeap \/ PushArray \/ CastByteArray
      BY <2>3, <3>1, <3>3, <3>4, AllocatedCells DEF Added
    <3> QED BY <2>3, <2>4, <3>1, <3>2, <3>4, InstructionCells
  <2>5. CASE Crash \/ Execute \/ Stop
    BY <2>3, <2>5 DEF Crash, Execute, Stop, vars
  <2> QED BY <2>4, <2>5 DEF Next, vars
<1> HIDE DEF Confined
<1>2. Spec /\ []AccessesTyped => [][\A l \in 0 .. Len(heap) - 1 : Confined(l)]_vars
  BY <1>1, TypedInvariance, PTL DEF Spec
<1> QED BY <1>2 DEF WritesStayInObject, Confined

(* No instruction whose operands are there follows a null or foreign reference  *)
(* or leaves the heap, not even at a store, which checks nothing, if the code's *)
(* accesses are typed.                                                       *)
THEOREM ReferencesGood == Spec /\ []AccessesTyped => [](Reached => ~BadReference)
<1>1. IInv /\ TInv /\ AccessesTyped => (Reached => ~BadReference)
  BY NoBadReference
<1> QED BY <1>1, TypedInvariance, PTL
=============================================================================
