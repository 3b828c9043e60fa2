------------------------------ MODULE Semantics ------------------------------
(***************************************************************************)
(* What a program means: an interpreter of checked trees that knows neither *)
(* slots nor stacks nor bytecode.  Variables are looked up by name, calls    *)
(* are recursive, objects are lists of values.  It answers with every run,   *)
(* since a function of the host and a double may have any result (doubles    *)
(* are abstracted as in module Common, to zero or not zero).                 *)
(***************************************************************************)
EXTENDS Ast, SequencesExt

CONSTANTS INT_MAX, COUNT_LIMIT, ForeignResults, FloatInts

(* A state: what was printed; how the last statement ended, "" if it fell      *)
(* through; the objects by address, from 1; the variables as pairs of name and *)
(* value, of which the last one of a name counts; what was returned.          *)
Begin == [out |-> << >>, end |-> "", objects |-> << >>, env |-> << >>, returned |-> 0]

Variable(c, x) == CHOOSE i \in 1 .. Len(c.env) : c.env[i][1] = x /\ \A j \in i + 1 .. Len(c.env) : c.env[j][1] # x
Define(c, x, v) == [c EXCEPT !.env = Append(@, <<x, v>>)]
Assign(c, x, v) == [c EXCEPT !.env[Variable(c, x)][2] = v]
Scoped(c, inner) == [inner EXCEPT !.env = SubSeq(@, 1, Len(c.env))]
Error(c) == [c EXCEPT !.end = "error"]

(* The results of an expression: states, each with a value.                   *)
Answers(c, values) ==
  IF values = {} THEN {[c |-> Error(c), v |-> 0]} ELSE {[c |-> c, v |-> v] : v \in values}
Allocate(c, vals) == Answers([c EXCEPT !.objects = Append(@, vals)], {Len(c.objects) + 1})
AllocateArray(c, length, vals) == IF length \in 1 .. COUNT_LIMIT THEN Allocate(c, vals) ELSE Answers(c, {})
Elements(c, ref) == c.objects[ref]
-----------------------------------------------------------------------------
(* Operators and casts: the possible values.                                  *)

Truth(b) == {IF b THEN 1 ELSE 0}
Bits(n) == {CHOOSE m \in -INT_MAX - 1 .. INT_MAX : (m - n) % (2 * (INT_MAX + 1)) = 0}
AnyTruth == {0, 1}
(* Division truncates: a = q * b + r with r smaller than b and of the sign of  *)
(* a.  There is no quotient by 0.                                            *)
Quotients(a, b) ==
  {q \in -INT_MAX - 1 .. INT_MAX + 1 :
    LET r == a - q * b IN r * a >= 0 /\ -r < (IF b < 0 THEN -b ELSE b) /\ r < (IF b < 0 THEN -b ELSE b)}

OfBinary(op, type, a, b) ==
  IF type = TYPE_FLOAT THEN AnyTruth
  ELSE CASE op = "+" -> Bits(a + b)  [] op = "-" -> Bits(a - b)  [] op = "*" -> Bits(a * b)
         [] op = "/" -> Quotients(a, b)
         [] op = "%" -> {a - q * b : q \in Quotients(a, b)}
         [] op = "<" -> Truth(a < b)   [] op = "<=" -> Truth(a <= b)
         [] op = ">" -> Truth(a > b)   [] op = ">=" -> Truth(a >= b)
         [] op = "==" -> Truth(a = b)  [] op = "!=" -> Truth(a # b)
         [] op = "&&" -> Truth(a # 0 /\ b # 0)
         [] op = "||" -> Truth(a # 0 \/ b # 0)
OfUnary(op, type, a) ==
  CASE op = "!" -> Truth(a = 0)
    [] type = TYPE_FLOAT -> AnyTruth
    [] op = "-" -> Bits(-a)
    [] op = "+" -> {a}
OfCast(from, to, a) ==
  CASE TYPE_FLOAT \notin {from, to} -> IF to = TYPE_BOOL THEN Truth(a # 0) ELSE {a}
    [] to = TYPE_FLOAT -> IF from = TYPE_FLOAT THEN {a} ELSE Truth(a # 0)
    [] OTHER -> IF a = 0 THEN {0} ELSE FloatInts

(* What is seen of a value when it is printed: of a reference whether it is   *)
(* null, of a truth value or a double whether it is zero.                     *)
Visible(type, v) == IF type \in {TYPE_BOOL, TYPE_FLOAT} \/ is_object_or_null(type) THEN IF v = 0 THEN 0 ELSE 1 ELSE v
FieldTypesOf(tlds, type, n) ==
  IF is_array(type) THEN [i \in 1 .. n |-> type_of_array(type)]
  ELSE [i \in 1 .. n |-> Lookup(tlds.classes, type).definitions[i].type]
Shown(tlds, c, type, v) ==
  CASE type = TYPE_STRING -> v
    [] is_object(type) -> IF v = 0 THEN << >>
                          ELSE LET vals == Elements(c, v)
                                   types == FieldTypesOf(tlds, type, Len(vals))
                               IN  [i \in 1 .. Len(vals) |-> Visible(types[i], vals[i])]
    [] OTHER -> <<Visible(type, v)>>
-----------------------------------------------------------------------------
RECURSIVE Val(_, _, _)
RECURSIVE Vals(_, _, _)
RECURSIVE Run(_, _, _)

(* The subexpressions, from the first to the last that is evaluated.          *)
Parts(e) ==
  CASE e.vtype = "expr" -> <<e.a, e.b>>
    [] e.vtype \in {"unary", "cast", "property"} -> <<e.a>>
    [] e.vtype = "index" -> <<e.a, e.i>>
    [] e.vtype \in {"literal", "local"} -> << >>
    [] OTHER -> e.args

Vals(tlds, c, es) ==
  IF es = << >> THEN {[c |-> c, v |-> << >>]}
  ELSE UNION {IF r.c.end = "error" THEN {r}
              ELSE {IF rest.c.end = "error" THEN rest ELSE [c |-> rest.c, v |-> <<r.v>> \o rest.v] :
                      rest \in Vals(tlds, r.c, Tail(es))} : r \in Val(tlds, c, Head(es))}

Call(tlds, c, f, args) ==
  LET fundef == Lookup(tlds.funs, f)
      called == [c EXCEPT !.env = [i \in 1 .. Len(args) |-> <<fundef.args[i].name, args[i]>>]]
  IN  IF fundef.is_foreign THEN Answers(c, ForeignResults)
      ELSE {[c |-> [r EXCEPT !.env = c.env, !.end = IF @ = "error" THEN @ ELSE ""], v |-> r.returned] :
              r \in Run(tlds, called, fundef.stmts)}

Apply(tlds, c, e, vs) ==
  CASE e.vtype = "literal" -> Answers(c, {IF e.type = TYPE_FLOAT THEN IF e.v THEN 1 ELSE 0 ELSE e.v})
    [] e.vtype = "local" -> Answers(c, {c.env[Variable(c, e.x)][2]})
    [] e.vtype = "expr" -> Answers(c, OfBinary(e.op, e.a.type, vs[1], vs[2]))
    [] e.vtype = "unary" -> Answers(c, OfUnary(e.op, e.a.type, vs[1]))
    [] e.vtype = "cast" ->
         IF e.a.type = TYPE_STRING THEN AllocateArray(c, Len(vs[1]), vs[1])
         ELSE Answers(c, OfCast(e.a.type, e.to, vs[1]))
    [] e.vtype = "array" -> AllocateArray(c, Len(vs), vs)
    [] e.vtype = "new array" -> AllocateArray(c, vs[1], [i \in 1 .. vs[1] |-> 0])
    [] e.vtype = "constructor" -> Allocate(c, vs)
    [] e.vtype = "funcall" -> Call(tlds, c, e.f, vs)
    [] e.vtype = "property" ->
         Answers(c, IF vs[1] = 0 THEN {}
                    ELSE IF is_array(e.a.type) THEN {Len(Elements(c, vs[1]))}
                    ELSE {Elements(c, vs[1])[FirstIndex(Lookup(tlds.classes, e.a.type).definitions, e.p)]})
    [] e.vtype = "index" ->
         Answers(c, {Elements(c, r)[i + 1] : <<r, i>> \in {p \in {<<vs[1], vs[2]>>} :
                                                  p[1] # 0 /\ p[2] \in 0 .. Len(Elements(c, p[1])) - 1}})

Val(tlds, c, e) ==
  UNION {IF r.c.end = "error" THEN {r} ELSE Apply(tlds, r.c, e, r.v) : r \in Vals(tlds, c, Parts(e))}
-----------------------------------------------------------------------------
RECURSIVE Loop(_, _, _)
RECURSIVE Printed(_, _, _)

(* next in every state in which a value was found.                            *)
With(results, next(_)) == UNION {IF r.c.end = "error" THEN {r.c} ELSE next(r) : r \in results}
Then(states, next(_)) == UNION {IF c.end = "" THEN next(c) ELSE {c} : c \in states}
Block(tlds, c, stmts) == {Scoped(c, inner) : inner \in Run(tlds, c, stmts)}

Loop(tlds, c, s) ==
  With(Val(tlds, c, s.c),
       LAMBDA r : IF r.v = 0 THEN {r.c}
                  ELSE UNION {CASE b.end = "break" -> {[b EXCEPT !.end = ""]}
                                [] b.end \in {"", "continue"} ->
                                     Then(Run(tlds, [b EXCEPT !.end = ""], s.increment),
                                          LAMBDA next : Loop(tlds, next, s))
                                [] OTHER -> {b} : b \in Block(tlds, r.c, s.body)})

Printed(tlds, c, args) ==
  IF args = << >> THEN {c}
  ELSE With(Val(tlds, c, Head(args)),
            LAMBDA r : Printed(tlds, [r.c EXCEPT !.out = Append(@, [type |-> Head(args).type,
                                                 shown |-> Shown(tlds, r.c, Head(args).type, r.v)])], Tail(args)))

Store(c, ref, i, v) ==
  IF ref # 0 /\ i \in 1 .. Len(Elements(c, ref)) THEN {[c EXCEPT !.objects[ref][i] = v]} ELSE {Error(c)}

Statement(tlds, c, s) ==
  CASE s.stype = "set local" ->
         With(Val(tlds, c, s.v), LAMBDA r : {IF s.is_define THEN Define(r.c, s.x, r.v) ELSE Assign(r.c, s.x, r.v)})
    [] s.stype = "set property" ->
         With(Vals(tlds, c, <<s.v, s.access.a>>), LAMBDA r :
           Store(r.c, r.v[2], FirstIndex(Lookup(tlds.classes, s.access.a.type).definitions, s.access.p), r.v[1]))
    [] s.stype = "set index" ->
         With(Vals(tlds, c, <<s.v, s.access.a, s.access.i>>), LAMBDA r : Store(r.c, r.v[2], r.v[3] + 1, r.v[1]))
    [] s.stype = "let" -> {FoldLeft(LAMBDA d, def : Define(d, def.name, 0), c, s.defs)}
    [] s.stype = "if" ->
         With(Val(tlds, c, s.c), LAMBDA r : Block(tlds, r.c, IF r.v # 0 THEN s.then ELSE s.else))
    [] s.stype = "while" -> Loop(tlds, c, [c |-> s.c, body |-> s.body, increment |-> << >>])
    [] s.stype = "for" ->
         {Scoped(c, inner) : inner \in
            Then(Run(tlds, c, <<s.init>>),
                 LAMBDA d : Loop(tlds, d, [c |-> s.c, body |-> s.body, increment |-> <<s.increment>>]))}
    [] s.stype \in {"print", "println"} -> Printed(tlds, c, s.args)
    [] s.stype = "funcall" -> With(Vals(tlds, c, s.args), LAMBDA r : {d.c : d \in Call(tlds, r.c, s.f, r.v)})
    [] s.stype = "return" ->
         With(Vals(tlds, c, s.vals),
              LAMBDA r : {[r.c EXCEPT !.end = "return", !.returned = IF r.v = << >> THEN 0 ELSE r.v[1]]})
    [] s.stype \in {"break", "continue"} -> {[c EXCEPT !.end = s.stype]}
    [] s.stype = "increment" ->
         With(Val(tlds, c, s.v), LAMBDA r :
           {Assign(r.c, s.v.x, v) : v \in OfBinary("+", s.v.type, r.v, s.by)})

Run(tlds, c, stmts) ==
  IF stmts = << >> THEN {c} ELSE Then(Statement(tlds, c, Head(stmts)), LAMBDA d : Run(tlds, d, Tail(stmts)))

(* The runs of a program: what is printed, and whether an error ends it.      *)
Meaning(tlds) ==
  {[out |-> r.c.out, error |-> r.c.end = "error"] : r \in Call(tlds, Begin, ENTRYPOINT, << >>)}
=============================================================================
