------------------------------- MODULE Common -------------------------------
(***************************************************************************)
(* The types of common.h and the cells (DelValue) that the compiler emits  *)
(* and the virtual machine moves around.                                   *)
(*                                                                         *)
(* A DelValue is 64 raw bits.  A cell keeps what those bits stand for: val  *)
(* and count are the bits (count is the middle field of a heap pointer, 0   *)
(* otherwise) and tag records what the code meant them to be.  The machine  *)
(* acts on the bits; tags are what the properties talk about.  An opcode and  *)
(* the word with the types of four fields are cells of their own kind.      *)
(***************************************************************************)
EXTENDS Integers, Sequences

(* Types: a uint16_t, the top bit marks arrays, classes follow BUILTIN_LAST. *)
TYPE_ARRAY     == 32768
TYPE_UNDEFINED == 0
TYPE_NULL      == 1
TYPE_BOOL      == 2
TYPE_INT       == 3
TYPE_FLOAT     == 4
TYPE_BYTE      == 5
TYPE_STRING    == 6
BUILTIN_ARRAY  == 11
BUILTIN_LAST   == 14

is_array(t)          == t >= TYPE_ARRAY
is_object(t)         == t > BUILTIN_LAST
is_object_or_null(t) == is_object(t) \/ t = TYPE_NULL
type_of_array(t)     == t % TYPE_ARRAY
array_of(t)          == TYPE_ARRAY + type_of_array(t)
-----------------------------------------------------------------------------
(* Pointers carry the metadata bits in their tag: an object, an array of    *)
(* plain values, an array of objects.                                       *)
PtrTags    == {"obj", "arr", "arrobj"}
ScalarTags == {"num", "float", "str", "addr", "zero"}

Pointer   == [tag : PtrTags, val : Nat, count : Nat]
Scalar    == [tag : ScalarTags, val : Int, count : {0}]
TypesWord == [tag : {"types"}, types : [1 .. 4 -> Nat]]
Instruction == [tag : {"op"}, op : STRING]
Cell      == Pointer \cup Scalar \cup TypesWord \cup Instruction

Num(n)    == [tag |-> "num", val |-> n, count |-> 0]      \* int, bool, byte, type, address operand
Str(i)    == [tag |-> "str", val |-> i, count |-> 0]      \* index in the string pool
Addr(a)   == [tag |-> "addr", val |-> a, count |-> 0]     \* return address
Opcode(o) == [tag |-> "op", op |-> o]
Types(ts) == [tag |-> "types", types |-> ts]              \* four field types in one word
Ptr(tag, location, count) == [tag |-> tag, val |-> location, count |-> count]

(* All bits zero: the null literal, a calloc'ed slot, a fresh array element. *)
Zero == [tag |-> "zero", val |-> 0, count |-> 0]

(* A double is abstracted to whether its bits are zero; any other double is  *)
(* a bit pattern that no small integer has.                                  *)
NONZERO_BITS == 2 ^ 30
Float(nonzero) == [tag |-> "float", val |-> IF nonzero THEN NONZERO_BITS ELSE 0, count |-> 0]

IsPtr(c) == c.tag \in PtrTags
IsRef(c) == c.tag \in PtrTags \cup {"zero"}               \* a heap reference or null

(* The bits read as an int64_t.  No int that a small program computes has    *)
(* the bits of a pointer, a types word or an opcode.                         *)
IntOf(c) == IF c.tag \in ScalarTags THEN c.val ELSE NONZERO_BITS

SameBits(a, b) ==
  IF {a.tag, b.tag} \subseteq PtrTags \cup ScalarTags
  THEN a.val = b.val /\ a.count = b.count /\ (IsPtr(a) \/ IsPtr(b) => a.tag = b.tag)
  ELSE a = b
=============================================================================
