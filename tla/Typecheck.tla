----------------------------- MODULE Typecheck -----------------------------
(***************************************************************************)
(* typecheck.c: which syntax trees are accepted, the type each value gets, *)
(* and the frame slot each variable gets.  A failing check is the type      *)
(* TYPE_UNDEFINED for a value and ok = FALSE for a statement, as in C; the  *)
(* error messages are left out.                                             *)
(***************************************************************************)
EXTENDS Ast, TLC

Numeric == {TYPE_INT, TYPE_BYTE, TYPE_FLOAT}

(* typecheck_expression: operand types to result type.                       *)
ExprType(op, l, r) ==
  LET same(types) == l = r /\ l \in types
      objects == is_object_or_null(l) /\ is_object_or_null(r)
  IN  CASE op \in {"||", "&&"} /\ same({TYPE_BOOL}) -> TYPE_BOOL
        [] op \in {"==", "!="} /\ (same(Numeric \cup {TYPE_BOOL, TYPE_STRING}) \/ objects) -> TYPE_BOOL
        [] op \in {">=", ">", "<=", "<"} /\ same(Numeric) -> TYPE_BOOL
        [] op \in {"+", "-", "*", "/"} /\ same(Numeric) -> l
        [] op = "%" /\ same({TYPE_INT, TYPE_BYTE}) -> l
        [] OTHER -> TYPE_UNDEFINED
UnaryType(op, t) ==
  CASE op \in {"+", "-"} /\ t \in {TYPE_INT, TYPE_FLOAT} -> t
    [] op = "!" /\ t = TYPE_BOOL -> TYPE_BOOL
    [] OTHER -> TYPE_UNDEFINED

(* typecheck_type                                                            *)
KnownType(tlds, t) ==
  LET e == IF is_array(t) THEN type_of_array(t) ELSE t
  IN  is_object(e) => Has(tlds.classes, e)

(* typecheck_cast                                                            *)
CastType(tlds, from, to) ==
  LET scalars == {TYPE_INT, TYPE_BOOL, TYPE_FLOAT, TYPE_BYTE}
      legal == \/ from \in scalars /\ to \in scalars
               \/ from = TYPE_STRING /\ to = array_of(TYPE_BYTE)
  IN  IF from # to /\ KnownType(tlds, to) /\ legal THEN to ELSE TYPE_UNDEFINED

(* The arguments of calls and constructors: null goes where an object is due. *)
ArgsAccepted(params, args) ==
  /\ Len(params) = Len(args)
  /\ \A i \in 1 .. Len(args) :
       /\ args[i].type # TYPE_UNDEFINED
       /\ args[i].type = params[i].type \/ (is_object(params[i].type) /\ args[i].type = TYPE_NULL)

(* typecheck_array_literal                                                   *)
ArrayLiteralType(args) ==
  LET t == args[1].type
  IN  IF t # TYPE_UNDEFINED /\ ~is_array(t) /\ \A i \in 1 .. Len(args) : args[i].type = t
      THEN array_of(t) ELSE TYPE_UNDEFINED

(* typecheck_get_property                                                    *)
PropertyType(tlds, t, p) ==
  CASE is_array(t) -> IF p = "length" THEN TYPE_INT ELSE TYPE_UNDEFINED
    [] Has(tlds.classes, t) /\ Has(Lookup(tlds.classes, t).definitions, p)
         -> Lookup(Lookup(tlds.classes, t).definitions, p).type
    [] OTHER -> TYPE_UNDEFINED

IndexType(array, index) ==
  IF is_array(array) /\ index = TYPE_INT THEN type_of_array(array) ELSE TYPE_UNDEFINED
-----------------------------------------------------------------------------
(* A context: the program, the enclosing function, the open scopes.          *)

Scope(isloop, varcount, objcount) ==
  [isloop |-> isloop, rettype |-> TYPE_UNDEFINED, varcount |-> varcount, objcount |-> objcount,
   definitions |-> << >>]
Inner(ctx) == ctx.scopes[Len(ctx.scopes)]

enter_scope(ctx, isloop) ==
  [ctx EXCEPT !.scopes = Append(@, Scope(isloop, Inner(ctx).varcount, Inner(ctx).objcount))]
exit_scope(ctx) == [ctx EXCEPT !.scopes = SubSeq(@, 1, Len(@) - 1)]
is_in_loop(ctx) == \E i \in 1 .. Len(ctx.scopes) : ctx.scopes[i].isloop

(* lookup_var: the innermost scope that defines x.                           *)
Defining(ctx, x) == {i \in 1 .. Len(ctx.scopes) : Has(ctx.scopes[i].definitions, x)}
lookup_var(ctx, x) ==
  LET i == CHOOSE i \in Defining(ctx, x) : \A j \in Defining(ctx, x) : j <= i
  IN  Lookup(ctx.scopes[i].definitions, x)

SetInner(ctx, scope) == [ctx EXCEPT !.scopes[Len(ctx.scopes)] = scope]

(* add_var: slots count up through nested scopes, apart for objects.         *)
add_var(ctx, x, type) ==
  LET s == Inner(ctx)
      offset == IF is_object(type) THEN s.objcount ELSE s.varcount
      defined == [s EXCEPT !.definitions = Append(@, [name |-> x, type |-> type, offset |-> offset])]
  IN  [ok |-> ~Has(s.definitions, x),
       def |-> [name |-> x, type |-> type, offset |-> offset],
       ctx |-> SetInner(ctx, IF is_object(type) THEN [defined EXCEPT !.objcount = @ + 1]
                                                ELSE [defined EXCEPT !.varcount = @ + 1])]
-----------------------------------------------------------------------------
(* typecheck_value: the value with its type and its children's.  A builtin    *)
(* constructor other than an array of a type and a length has none: an error  *)
(* message for an Array, a failing assert otherwise.                         *)
RECURSIVE Typed(_, _)
RECURSIVE TypedAll(_, _)
TypedAll(ctx, vals) ==
  IF vals = << >> THEN << >> ELSE <<Typed(ctx, Head(vals))>> \o TypedAll(ctx, Tail(vals))

Typed(ctx, v) ==
  LET a == Typed(ctx, v.a)
      b == Typed(ctx, v.b)
      i == Typed(ctx, v.i)
      args == TypedAll(ctx, v.args)
      tlds == ctx.tlds
      fundef == Lookup(tlds.funs, v.f)
      class == Lookup(tlds.classes, v.class)
  IN  CASE v.vtype = "literal" -> v
        [] v.vtype = "expr" -> [type |-> ExprType(v.op, a.type, b.type), a |-> a, b |-> b] @@ v
        [] v.vtype = "unary" -> [type |-> UnaryType(v.op, a.type), a |-> a] @@ v
        [] v.vtype = "cast" -> [type |-> CastType(tlds, a.type, v.to), a |-> a] @@ v
        [] v.vtype = "array" -> [type |-> ArrayLiteralType(args), args |-> args] @@ v
        [] v.vtype = "new array" ->
             [type |-> IF args[1].type = TYPE_INT THEN array_of(v.of) ELSE TYPE_UNDEFINED, args |-> args] @@ v
        [] v.vtype = "constructor" ->
             [type |-> IF Has(tlds.classes, v.class) /\ ArgsAccepted(class.definitions, args)
                       THEN v.class ELSE TYPE_UNDEFINED, args |-> args] @@ v
        [] v.vtype = "builtin constructor" -> [type |-> TYPE_UNDEFINED, args |-> args] @@ v
        [] v.vtype \in {"funcall", "builtin funcall"} ->
             [type |-> IF Has(tlds.funs, v.f) /\ ArgsAccepted(fundef.args, args)
                       THEN fundef.rettype ELSE TYPE_UNDEFINED, args |-> args] @@ v
        [] v.vtype = "local" ->
             IF Defining(ctx, v.x) = {} THEN [type |-> TYPE_UNDEFINED] @@ v
             ELSE [type |-> lookup_var(ctx, v.x).type, offset |-> lookup_var(ctx, v.x).offset] @@ v
        [] v.vtype = "property" -> [type |-> PropertyType(tlds, a.type, v.p), a |-> a] @@ v
        [] v.vtype = "index" -> [type |-> IndexType(a.type, i.type), a |-> a, i |-> i] @@ v

IsTyped(v) == v.type # TYPE_UNDEFINED
-----------------------------------------------------------------------------
(* Statements: [ok, ctx, stmt], the statement rewritten with what was found. *)

Reject(ctx, s) == [ok |-> FALSE, ctx |-> ctx, stmt |-> s]
Accept(ok, ctx, s) == [ok |-> ok, ctx |-> ctx, stmt |-> s]

SetLocalChecked(ctx, s) ==
  LET v == Typed(ctx, s.v)
      added == add_var(ctx, s.x, v.type)
  IN  IF ~IsTyped(v) THEN Reject(ctx, s)
      ELSE IF s.is_define
      THEN Accept(added.ok, added.ctx, [v |-> v, def |-> added.def] @@ s)
      ELSE IF Defining(ctx, s.x) = {} THEN Reject(ctx, s)
      ELSE LET def == lookup_var(ctx, s.x)
           IN  Accept(v.type = def.type, ctx, [v |-> v, def |-> def] @@ s)

(* scope_vars: the definitions one by one, then their types.                 *)
RECURSIVE scope_vars(_, _, _)
scope_vars(ctx, defs, done) ==
  IF defs = << >> THEN [ok |-> TRUE, ctx |-> ctx, defs |-> done]
  ELSE LET added == add_var(ctx, Head(defs).name, Head(defs).type)
       IN  IF ~added.ok THEN [ok |-> FALSE, ctx |-> ctx, defs |-> done]
           ELSE scope_vars(added.ctx, Tail(defs), Append(done, added.def))
TypesKnown(ctx, defs) == \A i \in 1 .. Len(defs) : KnownType(ctx.tlds, defs[i].type)

ReturnChecked(ctx, s) ==
  IF s.vals = << >> THEN Accept(ctx.fun.rettype = TYPE_UNDEFINED, ctx, s)
  ELSE LET v == Typed(ctx, s.vals[1])
       IN  Accept(IsTyped(v) /\ v.type = ctx.fun.rettype,
                  SetInner(ctx, [Inner(ctx) EXCEPT !.rettype = v.type]), [s EXCEPT !.vals = <<v>>])

PrintChecked(ctx, s, args) ==
  LET typed == TypedAll(ctx, args)
  IN  Accept(args # << >> /\ \A i \in 1 .. Len(args) : IsTyped(typed[i]), ctx, [s EXCEPT !.args = typed])

RECURSIVE Checked(_, _)
RECURSIVE CheckedList(_, _, _)

(* typecheck_statements                                                      *)
CheckedList(ctx, stmts, done) ==
  IF stmts = << >> THEN Accept(TRUE, ctx, done)
  ELSE LET c == Checked(ctx, Head(stmts))
       IN  IF c.ok THEN CheckedList(c.ctx, Tail(stmts), Append(done, c.stmt)) ELSE Reject(ctx, done)

IfChecked(ctx, s) ==
  LET c == Typed(ctx, s.c)
      then == CheckedList(enter_scope(ctx, FALSE), s.then, << >>)
      else == CheckedList(enter_scope(ctx, FALSE), s.else, << >>)
      returns == /\ s.has_else
                 /\ Inner(then.ctx).rettype # TYPE_UNDEFINED
                 /\ Inner(else.ctx).rettype # TYPE_UNDEFINED
  IN  IF c.type # TYPE_BOOL \/ ~then.ok \/ ~else.ok THEN Reject(ctx, s)
      ELSE Accept(TRUE,
                  IF returns THEN SetInner(ctx, [Inner(ctx) EXCEPT !.rettype = Inner(else.ctx).rettype]) ELSE ctx,
                  [s EXCEPT !.c = c, !.then = then.stmt, !.else = else.stmt])

WhileChecked(ctx, s) ==
  LET c == Typed(ctx, s.c)
      body == CheckedList(enter_scope(ctx, TRUE), s.body, << >>)
  IN  Accept(c.type = TYPE_BOOL /\ body.ok, ctx, [s EXCEPT !.c = c, !.body = body.stmt])

(* The increment is checked, and its variable numbered, before the body.     *)
ForChecked(ctx, s) ==
  LET init == Checked(enter_scope(ctx, TRUE), s.init)
      c == Typed(init.ctx, s.c)
      increment == Checked(init.ctx, s.increment)
      body == CheckedList(increment.ctx, s.body, << >>)
  IN  IF ~init.ok \/ c.type # TYPE_BOOL \/ ~increment.ok THEN Reject(ctx, s)
      ELSE Accept(body.ok, ctx,
                  [s EXCEPT !.init = init.stmt, !.c = c, !.increment = increment.stmt, !.body = body.stmt])

(* typecheck_statement                                                       *)
Checked(ctx, s) ==
  IF Inner(ctx).rettype # TYPE_UNDEFINED THEN Reject(ctx, s)     \* below a return
  ELSE CASE s.stype = "set local" -> SetLocalChecked(ctx, s)
         [] s.stype \in {"set property", "set index"} ->
              LET get == Typed(ctx, s.access)
                  v == Typed(ctx, s.v)
              IN  Accept(IsTyped(get) /\ get.type = v.type, ctx, [s EXCEPT !.access = get, !.v = v])
         [] s.stype = "let" ->
              LET scoped == scope_vars(ctx, s.defs, << >>)
              IN  Accept(scoped.ok /\ TypesKnown(ctx, s.defs), scoped.ctx, [s EXCEPT !.defs = scoped.defs])
         [] s.stype = "if" -> IfChecked(ctx, s)
         [] s.stype = "while" -> WhileChecked(ctx, s)
         [] s.stype = "for" -> ForChecked(ctx, s)
         [] s.stype = "print" -> PrintChecked(ctx, s, s.args)
         [] s.stype = "println" -> PrintChecked(ctx, s, IF s.args = << >> THEN << >> ELSE Append(s.args, new_string(<<10>>)))
         [] s.stype = "builtin funcall" -> Reject(ctx, s)                \* a failing assert
         [] s.stype = "funcall" ->
              LET args == TypedAll(ctx, s.args)
              IN  Accept(Has(ctx.tlds.funs, s.f) /\ ArgsAccepted(Lookup(ctx.tlds.funs, s.f).args, args),
                         ctx, [s EXCEPT !.args = args])
         [] s.stype = "return" -> ReturnChecked(ctx, s)
         [] s.stype \in {"break", "continue"} -> Accept(is_in_loop(ctx), ctx, s)
         [] s.stype = "increment" ->
              LET v == Typed(ctx, s.v) IN Accept(v.type \in Numeric, ctx, [s EXCEPT !.v = v])
-----------------------------------------------------------------------------
(* typecheck_fundef: [ok, fun], with the return that ends a void function.   *)
FunctionChecked(tlds, f) ==
  LET ctx == [tlds |-> tlds, fun |-> f, scopes |-> <<Scope(FALSE, 0, 0)>>]
      args == scope_vars(ctx, f.args, << >>)
      body == CheckedList(args.ctx, f.stmts, << >>)
      closed == IF f.rettype = TYPE_UNDEFINED /\ f.stmts[Len(f.stmts)].stype # "return"
                THEN Append(body.stmt, new_return(<< >>)) ELSE body.stmt
  IN  IF f.is_foreign THEN [ok |-> TRUE, fun |-> f]
      ELSE IF \/ f.name = ENTRYPOINT /\ (f.rettype # TYPE_UNDEFINED \/ f.args # << >>)
              \/ ~args.ok \/ ~TypesKnown(ctx, f.args) \/ ~KnownType(tlds, f.rettype)
              \/ ~body.ok
              \/ IF f.rettype = TYPE_UNDEFINED THEN f.stmts = << >> ELSE Inner(body.ctx).rettype = TYPE_UNDEFINED
      THEN [ok |-> FALSE, fun |-> f]
      ELSE [ok |-> TRUE, fun |-> [f EXCEPT !.args = args.defs, !.stmts = closed]]

(* typecheck_class                                                           *)
ClassAccepted(tlds, class) ==
  /\ class.definitions # << >>
  /\ TypesKnown([tlds |-> tlds], class.definitions)
  /\ \A i, j \in 1 .. Len(class.definitions) :
       class.definitions[i].name = class.definitions[j].name => i = j
  /\ \A i, j \in 1 .. Len(class.methods) :
       class.methods[i].name = class.methods[j].name => i = j
  /\ \A i \in 1 .. Len(class.definitions) : ~Has(class.methods, class.definitions[i].name)

RECURSIVE FunctionsChecked(_, _)
FunctionsChecked(tlds, funs) ==
  IF funs = << >> THEN [ok |-> TRUE, funs |-> << >>]
  ELSE LET first == FunctionChecked(tlds, Head(funs))
           rest == FunctionsChecked(tlds, Tail(funs))
       IN  [ok |-> first.ok /\ rest.ok, funs |-> <<first.fun>> \o rest.funs]

(* typecheck: [ok, tlds]                                                     *)
typecheck(tlds) ==
  LET checked == FunctionsChecked(tlds, tlds.funs)
  IN  [ok |-> /\ \A i \in 1 .. Len(tlds.classes) : ClassAccepted(tlds, tlds.classes[i])
              /\ checked.ok
              /\ \E i \in 1 .. Len(tlds.funs) : ~tlds.funs[i].is_foreign /\ tlds.funs[i].name = ENTRYPOINT,
       tlds |-> [tlds EXCEPT !.funs = checked.funs]]
=============================================================================
