------------------------------- MODULE Linking -------------------------------
(***************************************************************************)
(* How a call finds its function: typecheck collects every declaration in   *)
(* the function table and looks callees up there, compile emits the code and *)
(* records where functions begin and where they are called, and the calls    *)
(* are patched at the end.  Of a declaration only the strings that it prints *)
(* and the functions that it calls are kept, of its code the words for those. *)
(***************************************************************************)
EXTENDS HashTable, CallTable, SequencesExt

CONSTANT ENTRYPOINT     \* globals->entrypoint: the symbol of "main"

VARIABLES
  ast,              \* globals->ast: the declarations, of all compilations so far
  function_count,   \* globals->function_count
  string_count,     \* globals->string_count
  phase,            \* "idle", "collect", "check", "emit", "resolve", "linked"
  next,             \* the declaration that the phase is at
  table,            \* cc->fundef_table
  ft,               \* cc->funcall_table, with its lists' nodes in memory
  memory,
  code,             \* cc->instructions; offset i is code[i + 1]
  pool,             \* cc->string_pool
  todo              \* the subtrees that resolve_function_declarations has before it

globals == <<ast, function_count, string_count>>
cc == <<table, ft, memory, code, pool, todo>>
linkvars == <<globals, phase, next, cc>>

(* Symbols are at least 1.  A statement calls the function callee, or prints   *)
(* args when callee is 0 (println when newline holds).  Strings are numbers.     *)
NONE == 0
Newline == 0
Call(f) == [callee |-> f, args |-> << >>, newline |-> FALSE]
PrintOf(strings, newline) == [callee |-> NONE, args |-> strings, newline |-> newline]
Function(name, stmts) == [name |-> name, is_foreign |-> FALSE, stmts |-> stmts]
Foreign(name) == [name |-> name, is_foreign |-> TRUE, stmts |-> << >>]

Stmt == [callee : Nat, args : Seq(Nat), newline : BOOLEAN]
Decl == [name : Nat \ {NONE}, is_foreign : BOOLEAN, stmts : Seq(Stmt)]

Word(op, arg, target) == [op |-> op, arg |-> arg, target |-> target]
-----------------------------------------------------------------------------
LinkInit ==
  /\ ast = << >> /\ function_count = 0 /\ string_count = 0
  /\ phase = "idle" /\ next = 1
  /\ table = EmptyTable(0) /\ ft = new_ft(0) /\ memory = << >> /\ code = << >> /\ pool = << >>
  /\ todo = << >>

Enter(p) == phase' = p /\ next' = 1

(* init_typechecker, after parsing has added to the globals.                  *)
StartTypecheck(newast, newcount, newstrings) ==
  /\ ast' = newast /\ function_count' = newcount /\ string_count' = newstrings
  /\ table' = EmptyTable(newcount)
  /\ Enter("collect") /\ UNCHANGED <<ft, memory, code, pool, todo>>

(* add_types: a declaration into the table.                                  *)
AddFunction ==
  /\ phase = "collect" /\ next <= Len(ast)
  /\ table' \in AddTo(table, function_count, ast[next].name, [name |-> ast[next].name, decl |-> next])
  /\ next' = next + 1
  /\ UNCHANGED <<globals, phase, ft, memory, code, pool, todo>>

EndCollect ==
  phase = "collect" /\ next > Len(ast) /\ Enter("check") /\ UNCHANGED <<globals, cc>>

known(f) == function_count > 0 /\ IsKnown(table, function_count, f)
lookup_fun(f) == table_lookup(table, function_count, f).decl

(* The places of the strings that declarations print.                         *)
StringsOf(decls) ==
  UNION {UNION {{<<i, j, k>> : k \in 1 .. Len(decls[i].stmts[j].args)} : j \in 1 .. Len(decls[i].stmts)} :
         i \in 1 .. Len(decls)}

(* typecheck_statement: println with arguments gets one more, a new string.    *)
ChecksOK(stmt) == stmt.callee = NONE \/ known(stmt.callee)
AddsNewline(stmt) == stmt.newline /\ stmt.args # << >>
Checked(stmt) == IF AddsNewline(stmt) THEN [stmt EXCEPT !.args = Append(@, Newline)] ELSE stmt

(* Mutant: the string is made without new_string.                             *)
NoNewStrings(stmts) == 0
NewStrings(stmts) == Cardinality({i \in 1 .. Len(stmts) : AddsNewline(stmts[i])})

(* typecheck_fundef: the statements up to the first that is refused.          *)
CheckFunction ==
  /\ phase = "check" /\ next <= Len(ast)
  /\ LET stmts == ast[next].stmts
         bad == {i \in 1 .. Len(stmts) : ~ChecksOK(stmts[i])}
         reached == {i \in 1 .. Len(stmts) : \A b \in bad : i < b}
         visited == SubSeq(stmts, 1, Cardinality(reached))
     IN  /\ ast' = [ast EXCEPT ![next].stmts =
                      [i \in 1 .. Len(stmts) |-> IF i \in reached THEN Checked(stmts[i]) ELSE stmts[i]]]
         /\ string_count' = string_count + NewStrings(visited)
         /\ IF bad = {} THEN next' = next + 1 /\ UNCHANGED phase ELSE Enter("idle")
  /\ UNCHANGED <<function_count, cc>>
-----------------------------------------------------------------------------
(* Code generation.  c holds the code, the call table, its memory, the pool.   *)
Emit(c, word) == [c EXCEPT !.code = Append(@, word)]

(* compile_string, add_to_pool                                               *)
compile_string(c, s) ==
  LET pooled == IF Contains(c.pool, s) THEN c ELSE [c EXCEPT !.pool = Append(@, s)]
      places == {i \in 1 .. Len(pooled.pool) : pooled.pool[i] = s}
      first == CHOOSE i \in places : \A j \in places : i <= j
  IN  Emit(pooled, Word("PUSH", first - 1, NONE))

compile_funcall(c, f) ==
  IF ast[lookup_fun(f)].is_foreign THEN Emit(c, Word("CALL", f, lookup_fun(f)))
  ELSE LET r == add_callsite(c.ft, c.memory, f, Len(c.code))
       IN  Emit([c EXCEPT !.ft = r.ft, !.memory = r.mem], Word("JMP", f, 0))

(* The strings of a statement, and the statements of a function, in order.     *)
compile_strings(c, args) ==
  LET after[n \in 0 .. Len(args)] == IF n = 0 THEN c ELSE compile_string(after[n - 1], args[n])
  IN  after[Len(args)]

compile_statement(c, stmt) ==
  IF stmt.callee = NONE THEN compile_strings(c, stmt.args) ELSE compile_funcall(c, stmt.callee)

compile_statements(c, stmts) ==
  LET after[n \in 0 .. Len(stmts)] == IF n = 0 THEN c ELSE compile_statement(after[n - 1], stmts[n])
  IN  after[Len(stmts)]

(* Mutant: a later definition of a name does not change its location.         *)
KeepLocation(c, decl) ==
  IF decl.is_foreign THEN c
  ELSE LET begun == IF IsIn(c.ft, decl.name) /\ c.ft[Descend(c.ft, decl.name)].location # 0 THEN c
                    ELSE [c EXCEPT !.ft = add_ft_node(@, decl.name, Len(c.code))]
       IN  Emit(compile_statements(begun, decl.stmts), Word("RET", decl.name, 0))
compile_fundef(c, decl) ==
  IF decl.is_foreign THEN c
  ELSE LET begun == [c EXCEPT !.ft = add_ft_node(@, decl.name, Len(c.code))]
       IN  Emit(compile_statements(begun, decl.stmts), Word("RET", decl.name, 0))

Generated == [code |-> code, ft |-> ft, memory |-> memory, pool |-> pool]
Becomes(c) == code' = c.code /\ ft' = c.ft /\ memory' = c.memory /\ pool' = c.pool

(* The end of typecheck and the begin of compile: the code enters main.        *)
HasEntrypoint == \E i \in 1 .. Len(ast) : ast[i].name = ENTRYPOINT /\ ~ast[i].is_foreign
StartCompile ==
  /\ phase = "check" /\ next > Len(ast)
  /\ IF HasEntrypoint
     THEN /\ Becomes(Emit(compile_funcall([code |-> << >>, ft |-> new_ft(0), memory |-> << >>, pool |-> << >>],
                                          ENTRYPOINT),
                          Word("EXIT", NONE, 0)))
          /\ Enter("emit") /\ UNCHANGED <<table, todo>>
     ELSE Enter("idle") /\ UNCHANGED cc
  /\ UNCHANGED globals

CompileTld ==
  /\ phase = "emit" /\ next <= Len(ast)
  /\ Becomes(compile_fundef(Generated, ast[next]))
  /\ next' = next + 1
  /\ UNCHANGED <<globals, phase, table, todo>>

EndCompile ==
  phase = "emit" /\ next > Len(ast) /\ Enter("resolve") /\ todo' = <<1>>
  /\ UNCHANGED <<globals, table, ft, memory, code, pool>>

(* resolve_function_declarations: a node, then what is left and right of it.   *)
Subtree(a) == IF a = NULL THEN << >> ELSE <<a>>
Resolve ==
  /\ phase = "resolve" /\ todo # << >>
  /\ LET node == ft[Head(todo)]
         sites == ToSet(ContentsOf(memory, node.callsites))
     IN  /\ code' = [i \in 1 .. Len(code) |->
                       IF i - 1 \in sites THEN [code[i] EXCEPT !.target = node.location] ELSE code[i]]
         /\ todo' = Subtree(node.left) \o Subtree(node.right) \o Tail(todo)
  /\ UNCHANGED <<globals, phase, next, table, ft, memory, pool>>

EndResolve ==
  phase = "resolve" /\ todo = << >> /\ Enter("linked") /\ UNCHANGED <<globals, cc>>

Link == AddFunction \/ EndCollect \/ CheckFunction \/ StartCompile \/ CompileTld \/ EndCompile \/ Resolve \/ EndResolve
-----------------------------------------------------------------------------
(* The function table answers with the first declaration of a name among those *)
(* collected, whatever the collisions, and with none only if there is none.    *)
Collected == IF phase = "collect" THEN next - 1 ELSE Len(ast)
FirstOf(f, n) == {i \in 1 .. n : ast[i].name = f /\ \A j \in 1 .. i - 1 : ast[j].name # f}
LookupFindsFirst ==
  phase # "idle" =>
    \A f \in {ast[i].name : i \in 1 .. Len(ast)} :
      IF known(f) THEN lookup_fun(f) \in FirstOf(f, Collected) ELSE FirstOf(f, Collected) = {}

(* While code is generated the call table is a search tree with one node a     *)
(* name, and the lists of its nodes name exactly the unresolved calls.         *)
CallsIndexed ==
  phase \in {"emit", "resolve", "linked"} =>
    /\ \A a \in 1 .. Len(ft) :
         /\ Descend(ft, ft[a].function) = a
         /\ Chains(memory, ft[a].callsites) # {}
         /\ ToSet(ContentsOf(memory, ft[a].callsites))
              = {i - 1 : i \in {j \in 1 .. Len(code) : code[j].op = "JMP" /\ code[j].arg = ft[a].function}}
    /\ \A i \in 1 .. Len(code) : code[i].op = "JMP" => IsIn(ft, code[i].arg)

(* A call of which the first declaration is foreign calls that one; any other  *)
(* jumps to where the last definition of the name begins: behind the entry, or *)
(* behind the RET of the definition before it.                               *)
Definitions(f) == {i \in 1 .. Len(ast) : ast[i].name = f /\ ~ast[i].is_foreign}
DefinedBefore(i) == {j \in 1 .. i - 1 : ~ast[j].is_foreign}
Returns(program, loc) == {k \in 1 .. loc : program[k].op = "RET"}
BeginsAt(program, i, loc) ==
  /\ loc \in 2 .. Len(program)
  /\ loc = 2 \/ program[loc].op = "RET"
  /\ Cardinality(Returns(program, loc)) = Cardinality(DefinedBefore(i))
CallsResolved ==
  phase = "linked" =>
    \A k \in 1 .. Len(code) :
      LET f == code[k].arg
      IN  /\ code[k].op = "CALL" => ast[code[k].target].is_foreign /\ code[k].target \in FirstOf(f, Len(ast))
          /\ code[k].op = "JMP" =>
               /\ \A i \in FirstOf(f, Len(ast)) : ~ast[i].is_foreign
               /\ \E i \in Definitions(f) :
                    (\A j \in Definitions(f) : j <= i) /\ code[k].target < Len(code) /\ BeginsAt(code, i, code[k].target)

(* The string pool, allocated for the strings that were counted, is not        *)
(* overrun: not by the newlines of println, nor by trees of earlier texts that *)
(* are compiled again.                                                       *)
PoolFits == phase \in {"emit", "resolve", "linked"} => Len(pool) <= string_count
=============================================================================
