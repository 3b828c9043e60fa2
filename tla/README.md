# del: a verification development

`del` is a small statically typed language to embed in C programs. A source text
goes through a lexer, a parser and a type checker; a compiler turns the tree into
64-bit cells of bytecode; a virtual machine with two operand stacks, two stacks of
frames and a heap executes them. These modules model that system in TLA+. TLC
checks small instances, TLAPS proves the theorems listed below. `PROJECT.json`
holds the same information for tools: components, runs, the lines of source that
every definition stands for, findings, hazards, theorems.

All of `src/` is single threaded. What makes it hard is not interleaving but
*agreement*: the type checker numbers variables, the compiler picks opcodes and
operand orders, and the machine trusts both without a check. The only
re-entrance is a foreign function that yields: `vm_execute` returns to the host in
the middle of a program and is called again later.

## 1. Inventory

| Component (source) | State | Operations | What makes it correct |
|---|---|---|---|
| Virtual machine (`vm.c`, `vm.h`, `bytecode.h`, `threading.h`) | `stack`, `stack_obj`, `sfs`, `sfs_obj`, `heap`, `ip`, `status` | `vm_init`, `vm_execute` (one case per opcode), `vm_free` | stacks and frames stay within their arrays, every reference designates allocated cells, an instruction finds the operands it needs, the frames of both kinds nest, calls return |
| Values, types (`common.h`, `compiler.h`, `heap_ptr.h`) | `DelValue`, 64 bits | type predicates, `set_count`, packing of heap pointers | a reference and a number are never mistaken for each other; fields of a heap pointer do not overlap |
| Compiler (`compiler.c`) | `instructions`, `string_pool`, `breakpoints`, `continues`, `funcall_table` | one function per kind of node; patching of jumps and calls | pushes and pops balance on every path; both branches of every patch are right |
| Function call table (`functiontable.c`) | unbalanced binary tree by name; a location and a list of call sites in each node | `add_ft_node`, `add_callsite`, the walk that patches | one node a name whatever the order of calls and definitions; every call site jumps to its own function |
| Type checker (`typecheck.c`) | class, function and property tables, `scope` stack with slot numbers | one function per kind of node; scope push and pop | slots agree with what `DEFINE` counts at run time; an accepted program needs no run-time type checks |
| Syntax tree (`ast.c`) | nodes and lists | constructors, property lookup | – |
| Vector (`vector.c`) | `length`, `capacity`, `min_capacity`, `max_capacity`, `values` | new, append, pop, grow, shrink, free | keeps what was appended, in order, whatever reallocations happen |
| Host interface (`del.c`, `main.c`) | handles of compilers, programs, VMs; tree and counters of all texts so far | allocate, compile, execute, status, free | what a machine reads outlives the compiler; every compilation ends; nothing leaks |
| Foreign functions (`ffi.c`) | list of registered functions | register, call, yield | one result, on the right stack; the same function table as the text's own |
| Symbol table (`common.c`) | list of names | `add_symbol`, lookup | one number per name |
| Lexer (`lexer.c`) | offset, line, column, tokens | `tokenize` | every character is in one token, a space or a comment; tokens are as long as possible; positions are right |
| Parser (`parser.c`) | token cursor, tree | recursive descent | precedence and associativity; what is accepted is what is written; a text that is written correctly is accepted |
| Error positions (`error.c`) | reported line and column | `error_parser` | every refusal names the token where the parser stopped |
| Linked list (`linkedlist.c`) | nodes with two links | append, prepend, pop, reverse | both directions see one sequence |
| Allocator (`allocator.c`) | chain of chunks | bump allocation, free all | allocations live until the compiler is freed |
| Garbage collector (`gc.c`) | remembered roots | compiled out | would rely on the shape of stacks and heap |
| `readfile.c`, `printers.c`, tests, build files | – | I/O, listings, drivers | not modelled |

Interactions: the lexer interns names in the symbol table; the parser builds trees
from tokens; `typecheck` annotates the same trees (types, slots, casts, the newline
of `println`); `compile` reads the annotations and appends to a vector of
instructions and a pool of strings; `vm_init` borrows both; `vm_execute` appends to
a second vector, the heap, and calls foreign functions back; `del.c` owns the
handles. Registered foreign functions reach the type checker as definitions, once more
with every text, and so do the declarations of all earlier texts: tree, counters and
symbols stay in the compiler, also when the text was refused.

### Hard behaviours

The list, with a line for each, is `hazards` in `PROJECT.json`. The main ones:

- **The calling convention** (`compiler.c:436`): return address, arguments on two
  stacks, `PUSH_SCOPE`, the callee's `SET_LOCAL`s, `SWAP`, `RET`, `POP_SCOPE`. An
  imbalance shows several calls later.
- **Two numberings of variables**: slots are assigned at compile time per scope, the
  next free slot is counted at run time by `DEFINE`, and only `POP_SCOPE` takes a
  count back. A loop body therefore counts its variables once per iteration.
- **Unchecked pushes**: `check_push` is skipped where an instruction pops first, but
  some pop from the other stack.
- **No check at all** for slots, references that are stored through, or operands.
- **Tables sized by counters**: the function table has one slot for every function that was
  counted while parsing, and its search for a free slot has no other end than finding one; the
  string pool has room for the strings that were counted, some of which the type checker adds.
- **Failed alternatives**: the parser tries one alternative after the other and does not
  always give back the tokens of one that failed.
- **Doubling with a limit**: `vector_append` answers NULL and no caller looks.
- **Yield**: the registers are saved and execution resumes behind the `YIELD`.

## 2. The modules

```
BoundedList <--refines-- Vector <- MCVector      VectorProofs (theorems on Vector)

Common <- Ast <- Typecheck <- Compiler <- Samples --+
   ^                                                +--> MCVM <- MCMeaning
   +--------- VM <- Convention <- Inference --------+                |
   |                                                                 |
   +----------------------- Semantics <------------------------------+

VMProofs (theorems on VM) <- ConventionProofs (theorems on VM with Convention)

               ^ LexerProofs (theorems on Lexer)
SymbolTable <- Lexer ----+
SymbolTable <- Canonical-+- FrontEnd <- MCFront (texts made with Samples)
SymbolTable <- Parser ---+

Sequence <--refines-- LinkedList           HashTable --+
                          |                            |
                     LinkedNodes <- CallTable <--------+- Linking <- Host <- MCHost

and the proofs about each of these, by name of the module:

LinkedListProofs -> LinkedNodesProofs <- LinkingProofs <- HostProofs
```

Three models meet at what they have in common: the front end ends with the trees of module
`Ast`, the trees are what `Typecheck` and `Compiler` translate for the machine, and `Host` runs
one text after the other through the tables that link calls to functions.


- **Common**: type numbers, and *cells*. A `DelValue` is 64 raw bits; a cell keeps the
  bits (`val`, and `count` for the middle field of a heap pointer) and a `tag`
  with what the code meant by them. The machine acts on bits only; tags are for the
  properties and for telling when it dereferences what is no reference.
- **Ast**, **Typecheck**, **Compiler**: pure operators. `typecheck(program)` is
  the program as the type checker leaves it, which it `Accepts` or not, and `Compiled` of that
  the code and string pool of `compile`. The C functions mutate contexts; the operators thread them
  through (`ctx`, `cc`). A failing compiler assert sets `aborted`.
- **VM**: the state machine. One action is one instruction with all its checks, in the
  C order. `stacks[s]`, `frames[s]` with `s` in `{"val", "obj"}` are the two
  operand stacks and `sfs` / `sfs_obj`, so that an opcode and its `_OBJ` twin are
  one action with a parameter. A failed check ends in `Fail`: status `ERROR` and
  return to the host. `Execute` is the host calling `vm_execute`. `Defined` names
  every case in which the C code would leave an array, fail an assert or use bits as
  what they are not (`BadInstruction`, `Underflow`, `Overrun`, `BadReference`,
  `BadFrame`, `Trap`, `Unprintable`, `BadString`, `BadLayout`); `Crash` then
  stops the machine, so that a crash is a state a property can speak of.
- **Convention**: what code must be like for the machine to be used as `compiler.c` means it. A *shape*
  is what is known before an instruction: what the running function has on `stack` (of each cell
  nothing, its value, or that it is the function's own return address), how much it has on `stack_obj`,
  whether the instruction is between a `PUSH_SCOPE` and a `POP_SCOPE`, how many variables of each
  kind are counted at least, what the function leaves when it returns. `Disciplined(p)` has one
  rule for every kind of instruction (`Follows`): the operands are in the shape and the shapes of
  what may run next are what the instruction makes of this one. `CallRule` and `ReturnRule` are the
  two ends of the calling convention. It is a condition on code, one instruction at a time; nothing
  in it executes anything.
- **Inference**: finds the shapes of compiled code by running it abstractly. It needs no trust:
  `Disciplined` judges what it finds.
- **Samples**: trees. A prologue defines an int, a node and an int array; about thirty
  statement templates over them are combined into all sequences of a given length;
  the type checker drops sequences that use a variable before its definition. The
  programs take what they call from a library of six functions: a plain one, a recursion
  inside an expression, one with arguments on both stacks, one that returns from
  both branches, one without a result, and a foreign function that yields.
  `Hazards` are accepted programs that reach what the machine does not check.
- **Semantics**: the abstract specification of compiler and machine together. An interpreter
  of checked trees, with variables by name, recursive calls and objects as lists of values,
  that answers with all runs of a program: what is printed, and whether an error ends it. It
  shares the trees and their types with the compiler and nothing else: no slots, stacks,
  jumps, bytecode or arithmetic.
- **MCVM**, **MCMeaning**: the sample programs compiled for the machine, and
  the same programs interpreted.
- **BoundedList**, **Vector**: a vector with its capacities, and the list it implements.
- **SymbolTable**: interning, with the builtin names in front.
- **Lexer**: `tokenize`. One round of its loop is one step: `Space`, `Comment`, `Number`,
  `String`, `Byte`, `Simple` (operators and keywords), `Symbol`, `Illegal`, each with its ways
  to end in a message (`Refuse`). Texts are strings that are read, and matched with the fixed
  tokens, character by character.
- **Parser**: the grammar as mutually recursive operators from a record of tokens, cursor,
  symbols and error to the same record and a tree, a failure or the place where
  the C code has no meaning (`crashed`, with the reason). A failed alternative leaves the cursor where the code
  leaves it. `error_parser` is an operator too, with what it looks up in the text. The six
  levels of binary operators are one operator with a table of levels, as in
  `parse_binexp_help`.
- **Canonical**: the abstract specification of the parser, written from the trees instead of
  from the tokens: which tokens spell a tree, with parentheses exactly where the levels
  of the operators ask for them.
- **FrontEnd**: lexer and parser as `parse_and_compile` composes them: `Tokenize`,
  `EndTokenize`, `ParseTld` (one top-level declaration).
- **Sequence**, **LinkedNodes**, **LinkedList**: a sequence of values; the operations of
  `linkedlist.c` on nodes in a memory; one list under all orders of operations, shown to
  implement the sequence. `LinkedNodes` takes the memory as a parameter, so that the many lists
  of the call table share one.
- **HashTable**, **CallTable**: the open-addressing table of `typecheck.c` and the binary tree
  of `functiontable.c`, both as operators.
- **Linking**: `typecheck` and `compile` reduced to what links a call to a function: collect
  every declaration (`AddFunction`), check the calls (`CheckFunction`, which also appends the
  newline of `println`), emit (`StartCompile`, `CompileTld`), patch (`Resolve`, a node of the
  tree per step). Statements are calls and prints; frames, types and expressions are in
  `Typecheck` and `Compiler`.
- **Host**: the interface of `del.h`: registration with its asserts, compilation of a text with
  every outcome, and handles of programs and machines with the blocks they own.
  `Compile` takes a text from `Texts` and adds what was parsed before an error
  to what the compiler keeps.

### Abstractions

- A double is zero or not zero. `FloatInts` are the integers a nonzero double may be
  truncated to; arithmetic and comparison of doubles have every result.
- A heap pointer is a record of location, count and kind instead of three packed bit
  fields; `COUNT_LIMIT` is the bound `set_count` tests.
- Integers wrap at `INT_MAX` instead of 2^63 - 1.
- A foreign function returns any element of `ForeignResults`, of the type it was
  registered with, and does not touch the machine otherwise.
- Printed text is the value and its type; wording and layout are left out. So are
  comments in the code listing, error messages and memory management of the tree.
- In trees names are strings; classes are named by their type number, as after interning. In
  `Linking` a name is its symbol, a number, since hashing and the order of the tree depend on it.
- An integer literal is refused beyond `INT64_MAX`. A float literal is zero or not. The message
  of a lexical error is a short name, that of a parse error its position; `ERROR_MESSAGE_MAX` is the buffer it is printed to.
- The strings of a text are numbers in `Linking`, of which only equality matters.
- A machine in `Host` is its status: every answer of `vm_execute` is possible. A block is
  what one call of `malloc` returns; what the arena holds is one block.
- The host frees a program only after the machines that use it and does not execute a machine
  that has ended, as `main.c` does. Nothing in `del.c` would stop it.
- The heap's own reallocation is module `Vector`; `VM` uses it as a sequence that a push
  extends if `HEAP_MAX` allows.
- In the default build, executing a cell that is no opcode jumps through an unchecked table
  (`threading.h`); the model counts that as a crash.

## 3. Runs

| Run | Checks | Bounds |
|---|---|---|
| `MCVM` | `NeverUndefined`, `KindsSeparated`, `HeapShaped`, `LocalsDefined`, `ReturnsToCaller`, `CompletedClean`, `MeansWhatItSays`, `CodeDisciplined`, `AccessesTyped`, `WritesStayInObject`, `Terminates` | all 531 accepted programs of two templates after the prologue; 16 slots, 32 heap cells; about 36,000 states |
| `MCVMLimits` | `TypeOK`, `StaysWithinLimits`, `PointersInRange`, `BlocksApart`, `FramesNest`, `CrashesAreKnown` | one template, or one of the hazard programs; 8 slots, 12 cells; about 1,400 states |
| `MCVector` | `TypeOK`, `CapacityInv`, `RefusedOnlyFull`, `ImplementsBoundedList` | initial capacities 1, 2, 3, maxima 4, 5, 8, `vector_grow` by up to 3 |
| `MCFront` | `TypeOK`, `PositionsAgree`, `TokensTile`, `LexemesMaximal`, `RoundTrip`, `RefusalNamesToken`, `CrashesHaveCause`, `Terminates` | canonical texts of about 45 trees, five texts with a token missing, doubled or all behind it cut off, fifteen with failed calls and other places where the parser goes wrong, all sequences of three out of 17 fragments; integers up to 98 |
| `LinkedList` | `DoublyLinked`, `ImplementsSequence` | two values, four nodes; 5,411 states |
| `MCHost` | `TypeOK`, `LookupFindsFirst`, `CallsIndexed`, `CallsResolved`, `PoolFits`, `Owned`, `CompilationEnds` | two compilations, four declarations, one machine, two names to register; 508,697 states |
| `MCVectorUnbounded`, `MCVMUnsetInt`, `MCVMDeepFetch`, `MCVMUnaryPlus`, `MCVMNullStore`, `MCFrontStacked` | one documented or asserted statement each, which the code violates | one program, maxima 0 and 4, or nine texts |

`MCVM` asks whether a program that the type checker accepts and the compiler translates
runs as meant: no crash, no value on the wrong stack or in the wrong cell, no
variable read before it is counted, every call back at its call site, both
stacks empty at the end, and an end. 16 slots are enough for the recursions of the
library (`down(2)` inside an expression, `depth` on a list that the other statements
lengthen) and few enough that `down(7)` runs into `Stack overflow`; 32 cells hold
what two statements allocate, and the loops of arrays and nodes run out of them. Two
statements are needed because the first leaves what the second trips over: null in a
variable, a longer list, a shorter array, a larger or negative int. Runs of
`MCVM` end in `COMPLETED`, after a yield or without, and in `ERROR` for a null reference,
a bad index, a division by zero, an empty array, exhausted memory and an overflow of the
operand stack.

`MeansWhatItSays` compares, for every run of every program, all that was printed with what the
interpreter of `Semantics` prints, and the final status with how the interpretation ends. It is
what the compiler and the machine promise together; a swapped operand or argument, a wrong
field, a lost iteration or a value of another variable shows here and in no invariant of the machine.
An `ERROR` that the interpreter does not have is allowed only when a stack is full or the heap might
be too full for one more object, and then what was printed is the beginning of what should be. Two
things are left out on purpose: doubles are zero or not zero on both sides, and
references are compared as null or not null. The prologue allocates an array before the first
object, because the object at location 0 prints as `null` inside others (`vm.c:417`);
with the order reversed the property is violated.

`CodeDisciplined` asks of each of the 531 programs, before it starts, whether its code follows the
rules of `Convention`: every call site, every return in every branch, every loop, break and
`continue`. It is the condition of the theorems of `ConventionProofs`, which then speak of these programs
on stacks and heaps of any size; and, unlike the properties of an execution, it looks at code
that no execution of the samples reaches through an untaken branch.

`AccessesTyped` is the other half of what the machine takes on trust from the compiler: at a property or
element access, that the reference, the cell and the instruction are of the same kind, and that what is
stored has the type of its types word. The machine checks none of it. It is the condition of the theorems about
the heap in `VMProofs`; since it speaks of the instruction that is about to run, TLC checks it in every
state of `MCVM`.

`MCVMLimits` asks about the machine itself, so it includes programs that do crash. With
8 slots and 12 cells the remaining errors occur too: no room for an object or its reference,
and no room for a frame, the last one after a loop whose body counted its variable on every
iteration. `CrashesAreKnown` says of the programs whose code is disciplined that they crash for a reason
on a short list only. Five of the hazard programs do crash and are disciplined (too deep an expression, too many variables,
an unset string, a store through null, `INT64_MIN / -1`); the unary plus is not.

`MCVector` has maxima that doubling meets exactly (1 and 2 to 4 or 8) and maxima it
misses (3 to 4, 5 or 8; 1, 2 to 5), so both ways of refusing an append occur.
`RefusedOnlyFull` states what holds in general and the exact case.

`MCFront` asks whether the text says what the tree says. `RoundTrip` compares two independent
descriptions, the parser of the code and the printer of `Canonical`: every pair of binary
operators is nested to the left and to the right, and under and above each unary and postfix
form, and every kind of statement and declaration occurs. Every text is also tried as if
read from a file, which changes how an error is reported. The broken texts end the parser at
each of its tokens. Three fragments are enough for the lexer: every rule of it looks
at one token, the character behind it and whether a token of one more
character would match; the fragments contain the pairs that could be joined, a comment, an
escape, a string and a byte that do not end, and a number that overflows (`99` with a limit of 98).
`RoundTrip` speaks of parses that met no error, and of texts that have parentheses only where
precedence asks for them: `(a)` is accepted as `a`, and no text that the run accepts has such a pair. The parser
can report an error and still go on: that is `MCFrontStacked`, and also how `x = f(new .p;` is accepted,
with NULL in its tree.

A text may also end in `crashed`, where the C code has no meaning; this is a state of the model, which keeps
the reason, the cursor and the last error at that place (`crash`). `RefusalNamesToken` speaks of the
refusals that are reported, and `Terminates` counts a crash as an end. `CrashesHaveCause` is about the crashes: it
says of each reason what must be so in the text, the tokens and the errors reported before, and all of its cases occur. An error behind
the last token is reported only for a text that stops inside a declaration; one on a last line
without a newline, in a line of 62 characters or more or in a text without a file name is not reported
but read or written out of bounds; and the NULL of a failed call is called only after an error has been
reported that the parser went past. That it lists them does not make them right: the code has
these flaws, and the property says that it has no others of the kind.

`LinkedList` has lists of up to four nodes, so that reverse and pop meet empty, one-element,
two-element and inner cases in all orders.

`MCHost` has symbols 15, 16 and 18, which share or miss each other's slots in tables of
two, three and four, and tables that are full to the last slot. Texts call functions before, after
and without a definition, define a name twice, define `main` in the host and in the text, and print
the same string twice; a second compilation repeats all of them on what the first left
behind, accepted or refused. Deadlock is not checked in these two runs: a compilation ends, and a
host may stop.

### Fairness

`FairSpec` adds weak fairness of `ExecuteInstruction \/ Crash \/ Execute`, the steps of
the processor that runs `vm_execute` and of the host that calls it: `main.c`
executes a program once and, in the loop it sketches at lines 106-109, again as long
as the status is `YIELD`. No fairness is assumed between instructions; there is
nothing to choose. `Terminates` is a property of the sample programs, all of which end:
it would fail if a jump, a return address or the resumption after a yield went wrong.

`parse_and_compile` runs alone and waits for nothing, so each of its steps is weakly fair in
`FairFront`, and each step of a compilation in `FairHost`. No fairness is assumed of the host: it
may never call again. Weak fairness of `ParseTld` and of `CompileStep` is written out
(`[]<>` of not being enabled, or `[]<>` of a step) with the condition under which the action is
enabled, because TLC would evaluate the whole parser or compiler again for every `ENABLED`. For
`CompileStep` that condition, `CanStep`, excludes one case: the search for a free slot in
a full table, a loop of the C code that never ends. `CompilationEnds` therefore says that this
never happens. `SearchAlwaysEnds` proves that it does not, and a mutant that forgets to count
some functions violates it.

Deadlock is checked in the VM and list runs; a stopped machine takes `Stop`. The vector run with a
maximum of 0 stops at the failed assert and has deadlock checking off.

## 4. Findings

Each is a run that TLC finds violated.

1. `vector.h:10` promises an unbounded vector for a maximum of 0; `vector_new`
   asserts that the maximum is at least the initial capacity and aborts
   (`MCVectorUnbounded`).
2. `README.md:51` says that unset variables default to 0. A `let` without a value emits
   only `DEFINE`, and the slot still holds what an earlier callee left in it
   (`MCVMUnsetInt`).
3. `vm.c:130` says that a push not preceded by as many pops checks for overflow.
   `GET_HEAP`, `EQ_OBJ`, `NEQ_OBJ` pop from the other stack and do not check
   (`MCVMDeepFetch`).
4. The compiler emits nothing for a unary plus, not even the operand; the statement around
   it takes what lies below on the stack. After `let x = +1;` at the beginning of `main`, `x` holds the
   address that `main` returns to, and two instructions later the `RET` of `main` pops an empty stack
   (`MCVMUnaryPlus`).
5. Storing to a property of a null reference is not tested as reading is, and indexes the
   heap at the property's own offset (`MCVMNullStore`).

6. A unary operator whose operand does not parse does not give its token back: the parser tries the
   next operator behind it and drops the first, so `-!a` is accepted as `!a` and `+-1` as `-1`, with
   an error position that nobody reads. `parser.c:379` says that "something like `!!!blah`" is not
   supported (`MCFrontStacked`). `!!!blah` itself is indeed refused, because after the `!` no
   operator is left to try; stacks of different operators in the order `+`, `-`, `!` are accepted.

Met while modelling, without a statement in the repository that they contradict, and so part of the
model only: `del_compile_file` leaves the file open after a read error (`Owned` allows for it);
what a refused text declared takes part in the next compilation; a host function
registered as `main` is found first, and a text with its own `main` then enters the
program by calling the host function; an error at the end of a text without a newline looks for
that newline beyond the end.

Statements 2-5 are why `NeverUndefined`, `KindsSeparated` and the others of `MCVM` are claims
about the templates and not about every accepted program: the templates contain no
unset variable that is read, no unary plus, no store through a variable that may be null
without a test before it, no `let` as an increment, and no bare `null` as an initial value.

## 5. Proofs

`VMProofs` proves, for every set of programs whatever their code, every stack size, heap
limit, integer width and set of foreign results:

- `TypeCorrect`: `Spec => []TypeOK`
- `LimitsKept`: `Spec => []StaysWithinLimits`
- `ReferencesValid`: `Spec => []PointersInRange`
- `FramesNested`: `Spec => []FramesNest`
- `NoBlocksOverlap`: `Spec => []BlocksApart`

The first four come from `Invariance`, `Spec => []IInv`. None of the four is inductive by itself: that `PUSH`
keeps references in range needs to know that cells of the code are none; that a
`GET_HEAP_OBJ` does needs it of the whole heap, that a `GET_LOCAL_OBJ` does of every slot,
dead ones included, since nothing clears them; that `POP_SCOPE` leaves frames nested needs
their order. `IInv` puts these together: every cell on a stack, in a slot or in
the heap is in `Good(n)`, the cells that refer to nothing at or beyond cell `n`, with `n`
the length of the heap; stacks, frame offsets and heap are within their limits; frames of
both kinds have the same depth and increasing offsets at or below the index. `Growing`
says that what is good stays good when the heap grows. Each group of actions has a lemma
(`StackInstructions`, `Arithmetic`, `ObjectConstruction`, `ArrayConstruction`,
`FieldAccess`, `ElementAccess`, `Scopes`, `Locals`, `ControlFlow`, `Printing`, `Lengths`)
and `Inductive` joins them.

The assumption is `VMAssumption`: a positive number of stack slots, and programs whose code is
a sequence of cells without a heap pointer (the compiler emits none: a pointer
is made by `PUSH_HEAP`, `PUSH_ARRAY` and `CAST_BYTE_ARRAY` only) and whose pool holds
sequences of bytes. TLC evaluates it in every VM run. What the theorems do not say is that a
program never crashes: a push with no room and no test is `Overrun` and goes to
`crashed`, and finding 3 is such a program.

`NoBlocksOverlap` is not a property of one state's heap: that a new block is apart from the others needs that
no reference anywhere leads behind the heap's end, and that a reference which is loaded, copied or stored
is one that was made before. `DInv` says so with a set `B` of the pointers that were made: their blocks
are within the heap and pairwise apart, and every cell anywhere is in `B` or no pointer
(`BlocksAdded`, `BlocksReplaced`). The lemmas about instructions are stated once, for any assignment `S` of sets of cells to the two
kinds of stacks: what an instruction moves from code, stacks, slots or the heap stays in `S` (`StackCells`,
`ComputedCells`, `FetchedCells`, `FrameCells`, `ControlCells`, `StoredCells`,
`AllocatedCells`, joined in `InstructionCells`). `DInv` takes the same set for both kinds.

For code whose accesses are typed, `VMProofs` proves further:

- `KindsStaySeparated`: `Spec /\ []AccessesTyped => []KindsSeparated`
- `HeapStaysShaped`: `Spec /\ []AccessesTyped => []HeapShaped`
- `WritesStay`: `Spec /\ []AccessesTyped => WritesStayInObject`
- `ReferencesGood`: `Spec /\ []AccessesTyped => [](Reached => ~BadReference)`

from `TypedInvariance`. `TInv` takes the plain cells for one kind of stack and null with `B` for the other, and says
that each block of `B` has the shape that its tag and its types words announce. The three properties need each
other and the disjoint blocks: a fetch puts a cell on the right stack only if the heap has its shape; a store keeps the shape
of *its* block because the cell has the right type, and of every other block only because blocks are apart
(`ShapesStored`); and a program may hold any number of references to one object, on stacks, in slots and in
other objects. `AccessesTyped` says nothing of the state beyond the instruction about to run. It is not vacuous: it holds in every state of
`MCVM`, allocations, loads and stores included, and an off-by-one in the cell of a property violates it.

`ConventionProofs` proves, for the same constants and for every program with `Disciplined(prog)`:

- `CallersAreFound`: `Spec => [](Disciplined(prog) => ReturnsToCaller)`
- `LocalsAreDefined`: `Spec => [](Disciplined(prog) => LocalsDefined)`
- `CompletionIsClean`: `Spec => [](Disciplined(prog) => CompletedClean)`
- `OnlyKnownCrashes`: `Spec => []CrashesAreKnown`
- `OnlyUncheckedLimits`: with `[]AccessesTyped`, a crash is one of `Overrun`, `Trap`, `Unprintable`, `BadString` or
  a slot beyond the frame array

The rules look at one instruction at a time, while the properties speak of calls that are nested to any
depth. What joins them is a structure that the machine keeps only implicitly. `CInv` says that the two
stacks are divided into consecutive parts, one for each call that has not returned
(an *activation*: where its parts begin, and the address that it returns to). The top part is as the
shape at `ip` says (`Top`). Every part below is as the shape at the return address of the one above says, but
that what the callee took is gone and what it will give is not there yet (`Waits`). Frames correspond to
activations, and each is at least as long as the variables its shape has counted
(`FramesStand`). `Advance` is the lemma for an instruction that works within one part, whatever it pops
and pushes; `Called` adds a part, `Returned` takes the top one away and shows that what is left
is what the caller's shape says; `Entered` and `Left` are `PUSH_SCOPE` and
`POP_SCOPE`. For `PUSH_HEAP`, `LayoutUnique` and `LayoutKnown` show that the types words, which are known
constants, determine which stack each cell comes from. `ConventionKept` joins the groups of instructions. None
of this holds of a single instruction's effect on `Len(stacks)` alone: that `RET` finds its address
needs the exact height of its part, and this needs it of every caller's.

`OnlyKnownCrashes` rests on `NeverUnderflows`, `AlwaysInstructions` and `FramesAreThere`. It shows what the rules
rule out, and that the remaining undefined cases are the ones that findings 2, 3 and 5 and the hazards are
about: an unchecked push, a reference that is null or not one, a slot beyond the frame array, a
division that traps, a value that cannot be printed.

`Disciplined` is no assumption: whether a program satisfies it is decided by its code and shapes alone, TLC finds
that all 531 programs of `MCVM` do, and a compiler that forgets the `SWAP` before a `RET` violates it.

`VectorProofs` proves `TypeCorrect`, `CapacitySafe`, `RefusalJustified`, `ShrinkSafe` and `Refinement` (every step of a vector is a step of the bounded list or a
stutter), for every choice of capacities and values (`ShrinkSafe` states `ShrinkKeepsRoom`,
which no run repeats). The invariant joins `TypeOK`, `CapacityInv`, `PastHalf` (the
first half of `RefusedOnlyFull`) and `GrowOnlyLive` (iterations of `vector_grow` are outstanding only for a usable vector), without
which a `GrowStep` could meet an empty array. The second half needs more:
that the capacity is always the initial one doubled some number of times, through growths and
halvings. "Doubled" is defined as membership in every set that is closed under doubling, so the
proof needs no powers; `DoubledChain` shows that of two such capacities one is the other
doubled, and so a capacity below a maximum that is one still has room for a doubling.

`LinkedNodesProofs` says what the operations of `linkedlist.c` do to links and contents, for every
memory; `LinkedListProofs` proves from it `StaysLinked` (`DoublyLinked`) and
`ListImplementsSequence`, for every set of values and any number of nodes. The invariant
`ListInv` says that there is a one-to-one
chain of addresses of which the links in both directions, the ends and the length are those
of the list. Each operation has a lemma that names the new chain: longer by one at an end,
shorter by one, or turned round. For reverse one must know that the loop, which follows links
that it is rewriting, reaches exactly the chain's nodes: the chain is closed under the
links, and by induction on the distance from the tail, as a least counterexample, every
closed set contains it. `OneChain` shows that a list has one chain only, which gives
the contents that the refinement speaks of. The assumption is that 0 is no value. The frame
lemmas (`AppendShared`, `NewShared`) say that many lists in one memory stay apart, which the call
table relies on.

`LinkingProofs` begins with the call table, and shows that the call table is a map from names to a location and a set of call
sites, for any order of additions. `CallTableOK` says that children are newer than their parent
(so a walk ends), that the walk for the name of every node ends at that node, and that the lists
of call sites are disjoint chains in the one memory. `AddName`, `DefineName` and `CallName` say what
`add_ft_node` and `add_callsite` change and that all other names keep what they had.

It carries that through code generation. `Good` says of the code so far that every word is
well formed, every unpatched jump is listed under the name that it calls and nothing else is, and
the pool has no string twice and only strings of the program. `GoesOn` says that a statement only
adds words, none of them a `RET`, and moves no location. `Placed` says that every name is located
where its last definition so far begins. While the table is patched, `Reaching` and `PatchedTo`
say that the nodes that are done are patched and every other one is below one that waits: when
none waits, all are done.

`HostProofs` proves, for all symbols, texts, numbers of compilations and of machines:

- `FirstDeclarationFound`: `HostSpec => []LookupFindsFirst`. `TableInv` says that the table stores
  declarations 1 to `Collected`, each of them in one slot, a slot of its probe sequence before
  which the sequence passes only slots with earlier declarations, and that there are at most as many
  declarations as were counted (`Counts`). An insertion fills the first empty slot of the
  sequence, so that everything passed is earlier; a lookup ends at the least slot with the
  name, which is the first declaration's. The least slot exists by well-foundedness of `<`.
- `SearchAlwaysEnds`: `HostSpec => []SearchEnds`, the insertion's search ends. The probe sequence
  of a name visits as many different slots as the table has (`ProbesDiffer`); were all of them
  taken, there would be as many declarations stored as slots, and one is still to be added.
- `CallsAreIndexed` and `CallsAreResolved`: `CallsIndexed`, `CallsResolved`, from `LinkInv`.
- `PoolNeverOverrun`: `PoolFits`, from `StringsCounted`: the counter is at least the number of places
  at which a string occurs in the tree, and the pool has no string twice. That the type checker's
  newlines are counted where they are added is what keeps this inductive.
- `HostTyped`: `TypeOK` of `Host`.
- `ProgramsStayWhole`: `HostSpec => []ProgramsWhole`. `ProgramsInv` adds to it the blocks of a
  program that is still being compiled, and that machines refer to programs.
- `EverythingOwned`: `Owned`, from `OwnedInv`: every allocated block is accounted for by someone who can
  still free it, or is a file that was left open.

The assumption is `HostAssumption`: names to register and declarations are of their
types.

`LexerProofs` proves, for every text and every largest integer:

- `PositionsRight`: `LexSpec => []PositionsAgree`
- `NothingLost`: `LexSpec => []TokensTile`
- `TokensLongest`: `LexSpec => []LexemesMaximal`
- `LexTyped`: `LexSpec => []LexTypeOK`

Their conjunction, with what the types say of the lists, is inductive (`LexInv`). Each action is shown to be one
of three things that a round may do (`Round`): skip blank text (`Skips`), refuse within a line
(`Refuses`), or append a token that lies within a line, begins at the cursor and cannot be longer
(`Emits`); each of the three keeps the invariant. That a scanning loop stops, at the first
character that it looks for, is `UntilStops` and `PastStops`; a text ends in NUL, so there is one.
The assumptions are that texts have a length and `SpellingAssumption`, three facts about how
the fixed tokens are spelled (provers take strings for atoms): none is empty, none contains a space
or NUL, and `//` is two slashes. TLC evaluates them in `MCFront`. A step of `FrontSpec` is a step of the lexer
or leaves its variables alone, so the four properties hold of `FrontEnd` too, where TLC checks them;
`FrontEnd` has no theorems of its own, because it reaches the recursive parser.

Recursive functions of the model (the walk of a tree, the loops over strings and statements) are
proved about without the induction theorems of the library: a least counterexample shows that the
recursion has a solution on the whole domain (`WalkExists`, `StringRoundsExist`,
`StatementRoundsExist`), and a second one what the solution satisfies.

Only model-checked:

- that the compiler's code is disciplined, for programs other than the samples (`CodeDisciplined`), and
  `MeansWhatItSays`: type checker, compiler and interpreter are recursive over trees, which is out of
  reach of the provers used here;
- `AccessesTyped`, the condition of four theorems: it needs the types of what is on the stacks and
  in the slots, which shapes do not have, and does not follow from any condition on one instruction at a time, since
  whether a store is through null depends on values;
- `NeverUndefined` of `MCVM`, of which `OnlyUncheckedLimits` leaves the cases that depend on limits and values;
- `RoundTrip`, `RefusalNamesToken`, `CrashesHaveCause` and the parser's part of `FrontEnd`'s `TypeOK`, for the same reason;
- liveness: both `Terminates` and `CompilationEnds` (its safety part is `SearchAlwaysEnds`), and
  that `CanStep` is when `CompileStep` is enabled.

## 6. Plan

Done: the virtual machine with what feeds it, its reference semantics, the vector, the front end from characters to
trees, the linked list, the linking of calls, the host interface, and the proofs above.

Next, in order of importance:

1. **Accepted but not compiled**: a run on programs that the type checker accepts and
   the compiler aborts on (`x++` on a byte, assignment to `length`).
2. **HeapPtr**: the bit layout with small widths; packing and reading back, the locations
   and counts at which fields spill.
3. **Typed bytecode**: a condition on code, that every instruction has a consistent typing of stacks and
   slots, from which `AccessesTyped` follows but for stores through null; TLC would check that
   the compiled samples meet it.
4. **End to end**: the texts of `MCFront` through `Typecheck`, `Compiler` and `VM`; today the
   trees of `Samples` are the common point of both.

### Not modelled

- `gc.c`: compiled out, with every call of it commented out. `HeapShaped` and `PointersInRange` state
  what it could rely on.
- The chain of chunks in `allocator.c`: address arithmetic. `LinkedNodes` and `Host` use what it
  provides, memory that is not reused before the arena is freed.
- The bytes of a heap pointer (`heap_ptr.h`), see 2 above.
- `readfile.c` beyond its outcomes: I/O. `printers.c`: debug listings, off by default.
- The test and benchmark drivers, generators and build scripts.
