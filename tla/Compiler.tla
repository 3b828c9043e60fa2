------------------------------ MODULE Compiler ------------------------------
(***************************************************************************)
(* compiler.c: the instructions and the string pool made of a type-checked  *)
(* program.  The compiler context cc is threaded through; a location is the *)
(* 0-based index of an instruction cell.  Comments are left out, and so is  *)
(* the growth of the instruction vector, which has no bound in the build.   *)
(***************************************************************************)
EXTENDS Typecheck

Start(tlds) ==
  [tlds |-> tlds,
   code |-> << >>, pool |-> << >>,
   breaks |-> << >>, continues |-> << >>,     \* operand locations to patch
   locations |-> << >>, callsites |-> << >>,  \* funcall_table, function by function
   aborted |-> FALSE]                         \* an assert of the compiler failed: it stops

Here(cc) == Len(cc.code)
Emit(cc, cells) == [cc EXCEPT !.code = @ \o cells]
load_opcode(cc, op) == Emit(cc, <<Opcode(op)>>)
EmitPush(cc, c) == Emit(cc, <<Opcode("PUSH"), c>>)
Patch(cc, location, target) == [cc EXCEPT !.code[location + 1] = Num(target)]
Abort(cc) == [cc EXCEPT !.aborted = TRUE]

RECURSIVE PatchAll(_, _, _)
PatchAll(cc, locations, target) ==
  IF locations = << >> THEN cc ELSE PatchAll(Patch(cc, Head(locations), target), Tail(locations), target)

(* An operand to be patched later: next().                                   *)
Hole(cc) == Emit(cc, <<Num(0)>>)

For(type, op, op_obj) == IF is_object(type) THEN op_obj ELSE op

compile_get_local(cc, v) == Emit(cc, <<Opcode(For(v.type, "GET_LOCAL", "GET_LOCAL_OBJ")), Num(v.offset)>>)
compile_set_local(cc, def) == Emit(cc, <<Opcode(For(def.type, "SET_LOCAL", "SET_LOCAL_OBJ")), Num(def.offset)>>)
(* Mutant: a variable is set but not counted.                                 *)
EmitNoDefine(cc, def) == cc
EmitDefine(cc, def) == load_opcode(cc, For(def.type, "DEFINE", "DEFINE_OBJ"))

(* compile_string: an equal string already in the pool is shared.            *)
compile_string(cc, bytes) ==
  LET same == {i \in 1 .. Len(cc.pool) : cc.pool[i] = bytes}
  IN  IF same # {}
      THEN EmitPush(cc, Str((CHOOSE i \in same : \A j \in same : i <= j) - 1))
      ELSE EmitPush([cc EXCEPT !.pool = Append(@, bytes)], Str(Len(cc.pool)))

compile_literal(cc, v) ==
  CASE v.type = TYPE_STRING -> compile_string(cc, v.v)
    [] v.type = TYPE_FLOAT -> EmitPush(cc, Float(v.v))
    [] v.type = TYPE_NULL -> Emit(cc, <<Opcode("PUSH_OBJ"), Zero>>)
    [] OTHER -> EmitPush(cc, Num(v.v))
-----------------------------------------------------------------------------
(* The opcode of an operator at its operands' type (that of the left one);   *)
(* "" where the switch emits nothing.                                        *)
Mnemonic ==
  [t \in BinaryTokens |->
     CASE t = "||" -> "OR" [] t = "&&" -> "AND" [] t = "==" -> "EQ" [] t = "!=" -> "NEQ"
       [] t = ">=" -> "GTE" [] t = ">" -> "GT" [] t = "<=" -> "LTE" [] t = "<" -> "LT"
       [] t = "+" -> "ADD" [] t = "-" -> "SUB" [] t = "*" -> "MUL" [] t = "/" -> "DIV" [] t = "%" -> "MOD"]
FloatMnemonic ==
  [t \in BinaryTokens \ {"||", "&&", "%"} |->
     CASE t = "==" -> "FLOAT_EQ" [] t = "!=" -> "FLOAT_NEQ"
       [] t = ">=" -> "FLOAT_GTE" [] t = ">" -> "FLOAT_GT" [] t = "<=" -> "FLOAT_LTE" [] t = "<" -> "FLOAT_LT"
       [] t = "+" -> "FLOAT_ADD" [] t = "-" -> "FLOAT_SUB" [] t = "*" -> "FLOAT_MUL" [] t = "/" -> "FLOAT_DIV"]

BinaryOpcode(token, type) ==
  CASE type = TYPE_FLOAT -> FloatMnemonic[token]
    [] is_object_or_null(type) -> IF token = "==" THEN "EQ_OBJ" ELSE "NEQ_OBJ"
    [] OTHER -> Mnemonic[token]

UnaryOpcode(token, type) ==
  CASE token = "-" -> IF type = TYPE_FLOAT THEN "FLOAT_UNARY_MINUS" ELSE "UNARY_MINUS"
    [] token = "!" -> "NOT"

IntTypes == {TYPE_INT, TYPE_BYTE, TYPE_BOOL}
CastOpcodes(from, to) ==
  CASE to \in IntTypes /\ from = TYPE_FLOAT -> <<Opcode("CAST_INT")>>
    [] to = TYPE_FLOAT /\ from \in IntTypes -> <<Opcode("CAST_FLOAT")>>
    [] to \in IntTypes /\ from \in IntTypes -> << >>
    [] from = TYPE_STRING -> <<Opcode("CAST_BYTE_ARRAY")>>
-----------------------------------------------------------------------------
RECURSIVE compile_value(_, _)
RECURSIVE CompileAll(_, _)
RECURSIVE CompileFields(_, _, _)
RECURSIVE CompileElements(_, _, _, _)

(* Values from the first to the last.                                        *)
CompileAll(cc, vals) ==
  IF vals = << >> \/ cc.aborted THEN cc ELSE CompileAll(compile_value(cc, Head(vals)), Tail(vals))

Reversed(vals) == [i \in 1 .. Len(vals) |-> vals[Len(vals) + 1 - i]]

(* compile_constructor: from the last field back to the first, each group of *)
(* four (the last one may be short) followed by the word with its types.     *)
(* Mutant: the types of the next four fields.                                 *)
FieldTypesLate(args, first) ==
  LET type(i) == IF i <= Len(args) THEN args[i].type ELSE TYPE_UNDEFINED
  IN  Types(<<type(first + 1), type(first + 2), type(first + 3), type(first + 4)>>)
FieldTypes(args, first) ==
  LET type(i) == IF i <= Len(args) THEN args[i].type ELSE TYPE_UNDEFINED
  IN  Types(<<type(first), type(first + 1), type(first + 2), type(first + 3)>>)
CompileFields(cc, args, i) ==
  IF i = 0 \/ cc.aborted THEN cc
  ELSE LET field == compile_value(cc, args[i])
       IN  CompileFields(IF i % 4 = 1 THEN EmitPush(field, FieldTypes(args, i)) ELSE field, args, i - 1)
compile_constructor(cc, args) ==
  LET groups == (Len(args) + 3) \div 4
  IN  Emit(CompileFields(cc, args, Len(args)), <<Opcode("PUSH_HEAP"), Num(Len(args) + groups), Num(0)>>)

(* compile_array_literal                                                     *)
CompileElements(cc, type, vals, i) ==
  IF i = Len(vals) \/ cc.aborted THEN cc
  ELSE LET value == compile_value(load_opcode(cc, "DUP_OBJ"), vals[i + 1])
           objects == is_object_or_null(type)
           ordered == IF objects THEN load_opcode(value, "SWAP_OBJ") ELSE value
       IN  CompileElements(load_opcode(EmitPush(ordered, Num(i)), IF objects THEN "SET_ARRAY_OBJ" ELSE "SET_ARRAY"),
                           type, vals, i + 1)
compile_array_literal(cc, type, vals) ==
  CompileElements(load_opcode(EmitPush(EmitPush(cc, Num(Len(vals))), Num(type)), "PUSH_ARRAY"), type, vals, 0)

(* compile_xet_property: the object, the opcode, the property's cell, which   *)
(* comes after one types word for every four properties (mutant: no such word). *)
PropertyCellFlat(index) == index
PropertyCell(index) == 1 + (5 * index) \div 4
compile_xet_property(cc, get, op) ==
  LET object == compile_value(cc, get.a)
      index == lookup_property_index(Lookup(cc.tlds.classes, get.a.type), get.p)
  IN  IF ~Has(cc.tlds.classes, get.a.type) THEN Abort(object)
      ELSE Emit(object, <<Opcode(op), Num(PropertyCell(index))>>)

(* compile_foreign_funcall: arguments last to first, the call pushes one     *)
(* result whatever its type.                                                 *)
compile_foreign_funcall(cc, fundef, args, is_stmt) ==
  LET call == Emit(CompileAll(cc, Reversed(args)),
                   <<Opcode("CALL"), Num(Len(args)), Num(0), Num(0)>>)
      popped == IF is_stmt THEN load_opcode(call, "POP") ELSE call
  IN  IF fundef.is_yielding THEN load_opcode(popped, "YIELD") ELSE popped

(* The address a call returns to, and what a call statement drops.  Mutants:  *)
(* return behind the POP_SCOPE, drop nothing.                                 *)
ReturnTooFar(cc, bookmark) == [cc EXCEPT !.code[bookmark + 1] = Addr(Here(cc) + 1)]
ReturnHere(cc, bookmark) == [cc EXCEPT !.code[bookmark + 1] = Addr(Here(cc))]
DropNothing(cc, rettype) == cc
DropResult(cc, rettype) ==
  IF rettype = TYPE_UNDEFINED THEN cc ELSE load_opcode(cc, For(rettype, "POP", "POP_OBJ"))

(* compile_del_funcall: return address, arguments, new frame, jump.          *)
compile_del_funcall(cc, fundef, args, is_stmt) ==
  LET bookmark == Here(cc) + 1
      entered == Emit(CompileAll(EmitPush(cc, Addr(0)), args), <<Opcode("PUSH_SCOPE"), Opcode("JMP")>>)
      jumped == Hole([entered EXCEPT !.callsites = Append(@, [name |-> fundef.name, at |-> Here(entered)])])
      back == load_opcode(ReturnHere(jumped, bookmark), "POP_SCOPE")
  IN  IF is_stmt THEN DropResult(back, fundef.rettype) ELSE back

compile_funcall(cc, f, args, is_stmt) ==
  LET fundef == Lookup(cc.tlds.funs, f)
  IN  IF fundef.is_foreign THEN compile_foreign_funcall(cc, fundef, args, is_stmt)
      ELSE compile_del_funcall(cc, fundef, args, is_stmt)

compile_value(cc, v) ==
  CASE v.vtype = "literal" -> compile_literal(cc, v)
    [] v.vtype = "expr" ->
         load_opcode(compile_value(compile_value(cc, v.a), v.b), BinaryOpcode(v.op, v.a.type))
    [] v.vtype = "unary" ->                              \* unary plus drops its operand
         IF v.op = "+" THEN cc ELSE load_opcode(compile_value(cc, v.a), UnaryOpcode(v.op, v.a.type))
    [] v.vtype = "array" -> compile_array_literal(cc, type_of_array(v.type), v.args)
    [] v.vtype = "new array" ->
         load_opcode(EmitPush(compile_value(cc, v.args[1]), Num(type_of_array(v.type))), "PUSH_ARRAY")
    [] v.vtype = "constructor" -> compile_constructor(cc, v.args)
    [] v.vtype = "funcall" -> compile_funcall(cc, v.f, v.args, FALSE)
    [] v.vtype = "local" -> compile_get_local(cc, v)
    [] v.vtype = "property" ->
         IF is_array(v.a.type) THEN load_opcode(compile_value(cc, v.a), "LEN_ARRAY")
         ELSE compile_xet_property(cc, v, For(v.type, "GET_HEAP", "GET_HEAP_OBJ"))
    [] v.vtype = "index" ->
         load_opcode(compile_value(compile_value(cc, v.a), v.i), For(v.type, "GET_ARRAY", "GET_ARRAY_OBJ"))
    [] v.vtype = "cast" -> Emit(compile_value(cc, v.a), CastOpcodes(v.a.type, v.to))
-----------------------------------------------------------------------------
RECURSIVE compile_statement(_, _)
RECURSIVE compile_statements(_, _)
RECURSIVE compile_print(_, _)

compile_statements(cc, stmts) ==
  IF stmts = << >> \/ cc.aborted THEN cc ELSE compile_statements(compile_statement(cc, Head(stmts)), Tail(stmts))

compile_print(cc, args) ==
  IF args = << >> \/ cc.aborted THEN cc
  ELSE compile_print(load_opcode(EmitPush(compile_value(cc, Head(args)), Num(Head(args).type)), "PRINT"), Tail(args))

(* compile_return: the value goes below the return address (mutant: above).   *)
ReturnUnordered(cc, vals) ==
  load_opcode(IF vals = << >> THEN cc ELSE compile_value(cc, vals[1]), "RET")
compile_return(cc, vals) ==
  LET v == vals[1]
      value == IF vals = << >> THEN cc ELSE compile_value(cc, v)
      ordered == IF vals # << >> /\ ~is_object(v.type) THEN load_opcode(value, "SWAP") ELSE value
  IN  load_opcode(ordered, "RET")

compile_break(cc) ==
  LET jump == load_opcode(cc, "JMP") IN Hole([jump EXCEPT !.breaks = Append(@, Here(jump))])
compile_continue(cc) ==
  LET jump == load_opcode(cc, "JMP") IN Hole([jump EXCEPT !.continues = Append(@, Here(jump))])

compile_if(cc, s) ==
  LET test == load_opcode(compile_value(cc, s.c), "JNE")
      then == compile_statements(Hole(test), s.then)
      skip == load_opcode(then, "JMP")
      else == compile_statements(Patch(Hole(skip), Here(test), Here(skip) + 1), s.else)
  IN  IF s.has_else THEN Patch(else, Here(skip), Here(else)) ELSE Patch(then, Here(test), Here(then))

compile_loop(cc, c, body, increment) ==
  LET test == load_opcode(compile_value([cc EXCEPT !.breaks = << >>, !.continues = << >>], c), "JNE")
      inside == compile_statements(Hole(test), body)
      again == Emit(compile_statements(inside, increment), <<Opcode("JMP"), Num(Here(cc))>>)
      exits == Patch(again, Here(test), Here(again))
      patched == PatchAll(PatchAll(exits, exits.breaks, Here(again)), exits.continues, Here(inside))
  IN  [patched EXCEPT !.breaks = cc.breaks, !.continues = cc.continues]

(* compile_increment: locals of type int or float only, an assert otherwise. *)
compile_increment(cc, v, by) ==
  LET one == IF v.type = TYPE_FLOAT THEN Float(TRUE) ELSE Num(by)
      add == IF v.type = TYPE_FLOAT THEN "FLOAT_ADD" ELSE "ADD"
  IN  IF v.vtype # "local" \/ v.type \notin {TYPE_INT, TYPE_FLOAT} THEN Abort(cc)
      ELSE compile_set_local(load_opcode(EmitPush(compile_get_local(cc, v), one), add), v)

compile_statement(cc, s) ==
  CASE s.stype = "set local" ->
         LET set == compile_set_local(compile_value(cc, s.v), s.def)
         IN  IF s.is_define THEN EmitDefine(set, s.def) ELSE set
    [] s.stype = "set property" ->
         compile_xet_property(compile_value(cc, s.v), s.access, For(s.v.type, "SET_HEAP", "SET_HEAP_OBJ"))
    [] s.stype = "set index" ->
         load_opcode(compile_value(compile_value(compile_value(cc, s.v), s.access.a), s.access.i),
                     For(s.v.type, "SET_ARRAY", "SET_ARRAY_OBJ"))
    [] s.stype = "let" -> Emit(cc, [i \in 1 .. Len(s.defs) |-> Opcode(For(s.defs[i].type, "DEFINE", "DEFINE_OBJ"))])
    [] s.stype = "if" -> compile_if(cc, s)
    [] s.stype = "while" -> compile_loop(cc, s.c, s.body, << >>)
    [] s.stype = "for" -> compile_loop(compile_statement(cc, s.init), s.c, s.body, <<s.increment>>)
    [] s.stype \in {"print", "println"} -> compile_print(cc, s.args)
    [] s.stype = "funcall" -> compile_funcall(cc, s.f, s.args, TRUE)
    [] s.stype = "return" -> compile_return(cc, s.vals)
    [] s.stype = "break" -> compile_break(cc)
    [] s.stype = "continue" -> compile_continue(cc)
    [] s.stype = "increment" -> compile_increment(cc, s.v, s.by)
-----------------------------------------------------------------------------
(* compile_fundef: the arguments are taken from the stacks last to first      *)
(* (mutant: first to last).                                                  *)
RECURSIVE FunargsForward(_, _)
FunargsForward(cc, defs) ==
  IF defs = << >> \/ cc.aborted THEN cc
  ELSE FunargsForward(EmitDefine(compile_set_local(cc, Head(defs)), Head(defs)), Tail(defs))
RECURSIVE compile_funargs(_, _)
compile_funargs(cc, defs) ==
  IF defs = << >> \/ cc.aborted THEN cc
  ELSE LET def == defs[Len(defs)]
       IN  compile_funargs(EmitDefine(compile_set_local(cc, def), def), SubSeq(defs, 1, Len(defs) - 1))

compile_fundef(cc, f) ==
  IF f.is_foreign THEN cc
  ELSE LET entry == [cc EXCEPT !.locations = Append(@, [name |-> f.name, at |-> Here(cc)])]
       IN  compile_statements(compile_funargs(entry, f.args), f.stmts)

RECURSIVE compile_tlds(_, _)
compile_tlds(cc, funs) == IF funs = << >> \/ cc.aborted THEN cc ELSE compile_tlds(compile_fundef(cc, Head(funs)), Tail(funs))

compile_entrypoint(cc) == load_opcode(compile_funcall(cc, ENTRYPOINT, << >>, TRUE), "EXIT")

(* resolve_function_declarations: a function's last location wins.           *)
Location(cc, f) ==
  LET all == Named(cc.locations, f)
  IN  cc.locations[CHOOSE i \in all : \A j \in all : j <= i].at
RECURSIVE resolve_function_declarations(_, _)
resolve_function_declarations(cc, callsites) ==
  IF callsites = << >> THEN cc
  ELSE resolve_function_declarations(Patch(cc, Head(callsites).at, Location(cc, Head(callsites).name)),
                                     Tail(callsites))

(* compile, after typecheck has rewritten the tree.                          *)
compile(tlds) ==
  LET cc == compile_tlds(compile_entrypoint(Start(tlds)), tlds.funs)
  IN  resolve_function_declarations(cc, cc.callsites)

(* What del_compile_text hands to the host for a program that was checked.     *)
Accepts(checked) == checked.ok
Compiled(checked) == LET cc == compile(checked.tlds) IN [code |-> cc.code, pool |-> cc.pool]
=============================================================================
