-------------------------------- MODULE Parser --------------------------------
(***************************************************************************)
(* The recursive descent of parser.c and the error positions of error.c, as *)
(* operators.  They thread the part of the globals that they read or        *)
(* change:                                                                  *)
(*   g.at      number of the next token (globals->parser; past the last one *)
(*             it is NULL)                                                  *)
(*   g.error   line and column of the last error_parser, << >> without one  *)
(*   g.crashed where and why the C code has no meaning from here on: the     *)
(*             cursor and the last error there, and the reason, "" without one *)
(*   g.tokens, g.symbols, g.text, g.filename: fixed during the parse        *)
(* A parse function returns [g, ok, v]: the globals, whether the C function  *)
(* returned something else than NULL, and the node.                         *)
(***************************************************************************)
EXTENDS Ast, SymbolTable, FiniteSets

CONSTANT ERROR_MESSAGE_MAX      \* size of the message buffer

Ok(g, v) == [g |-> g, ok |-> TRUE, v |-> v]
Null(g) == [g |-> g, ok |-> FALSE, v |-> [vtype |-> "NULL"]]
With(r, v) == Ok(r.g, v)
Then(r, next(_)) == IF r.ok THEN next(r) ELSE r

NoCrash == [why |-> "", at |-> 0, error |-> << >>]
HasCrashed(g) == g.crashed # NoCrash
Crashed(g, reason) ==
  IF HasCrashed(g) THEN g ELSE [g EXCEPT !.crashed = [why |-> reason, at |-> g.at, error |-> g.error]]
-----------------------------------------------------------------------------
(* Tokens.                                                                   *)

AtEnd(g) == g.at > Len(g.tokens)
parser_peek(g, type) == ~AtEnd(g) /\ g.tokens[g.at].type = type
Skip(g) == [g EXCEPT !.at = @ + 1]

(* The token that a successful match has just consumed.                      *)
LastVal(g) == g.tokens[g.at - 1].val
NameAt(g, i) == lookup_symbol(g.symbols, g.tokens[i].val)
LastName(g) == NameAt(g, g.at - 1)
-----------------------------------------------------------------------------
(* error_parser: the position of the next token, with a copy of its line.    *)
(* There is no meaning without a next token, if the line has no newline, if   *)
(* it does not fit in the copy, or in a text that is not from a file (then     *)
(* the arguments are one ahead of the format).                               *)

CharAt(text, i) == SubSeq(text, i, i)
Newlines(text) == {i \in 1 .. Len(text) : CharAt(text, i) = "\n"}
(* Mutant: lines are counted from 0, so that the line behind is taken.         *)
LineBehind(text, token) ==
  LET after == {i \in Newlines(text) : i > token.start}
      first == 1 + CHOOSE i \in after : \A j \in after : i <= j
      ends == {i \in after : i >= first}
  IN  IF ends = {} THEN [ends |-> FALSE]
      ELSE [ends |-> TRUE, length |-> (CHOOSE i \in ends : \A j \in ends : i <= j) - first]
BadLine(text, token) ==
  LET before == {i \in Newlines(text) : i <= token.start}
      after == Newlines(text) \ before
      first == IF before = {} THEN 1 ELSE 1 + CHOOSE i \in before : \A j \in before : j <= i
  IN  IF after = {} THEN [ends |-> FALSE]
      ELSE [ends |-> TRUE, length |-> (CHOOSE i \in after : \A j \in after : i <= j) - first]

(* Mutant: the position of the token that has been consumed.                  *)
ErrorBehind(g) ==
  IF AtEnd(g) THEN Crashed(g, "no token")
  ELSE [g EXCEPT !.error = LET token == g.tokens[IF g.at = 1 THEN 1 ELSE g.at - 1] IN <<token.line, token.column>>]
error_parser(g) ==
  IF AtEnd(g) THEN Crashed(g, "no token")
  ELSE LET token == g.tokens[g.at]
           bad == BadLine(g.text, token)
       IN  IF ~bad.ends THEN Crashed(g, "no newline")
           ELSE IF bad.length >= ERROR_MESSAGE_MAX \div 4 THEN Crashed(g, "long line")
           ELSE IF ~g.filename THEN Crashed(g, "no file name")
           ELSE [g EXCEPT !.error = <<token.line, token.column>>]

Refused(g) == Null(error_parser(g))

(* A match or an error; r with the token consumed.                            *)
Expect(r, type) == IF parser_peek(r.g, type) THEN [r EXCEPT !.g = Skip(r.g)] ELSE Refused(r.g)
-----------------------------------------------------------------------------
(* The functions that call one another, by name; n is the level of a binary   *)
(* expression.                                                               *)

RECURSIVE Parse(_, _, _)

parse_type(g) == Parse("type", g, 0)
parse_binexp(g, n) == Parse("binexp", g, n)
parse_expr(g) == parse_binexp(g, 1)
parse_subexpr(g) == Parse("subexpr", g, 0)
parse_statement(g) == Parse("statement", g, 0)
parse_if(g) == Parse("if", g, 0)
parse_tld(g) == Parse("tld", g, 0)
-----------------------------------------------------------------------------
(* Types.  A class is its symbol.                                            *)

BasicTypes == [int |-> TYPE_INT, float |-> TYPE_FLOAT, bool |-> TYPE_BOOL, string |-> TYPE_STRING, byte |-> TYPE_BYTE]

RECURSIVE parse_types(_, _)

(* The elements of a type list, none of them an array, up to the >.          *)
parse_types(g, types) ==
  Then(parse_type(g), LAMBDA r :
    IF is_array(r.v) THEN Refused(r.g)
    ELSE IF parser_peek(r.g, ",") THEN parse_types(Skip(r.g), Append(types, r.v))
    ELSE Expect(With(r, Append(types, r.v)), ">"))

parse_type_args(g) == IF parser_peek(g, ">") THEN Refused(Skip(g)) ELSE parse_types(g, << >>)

parse_object_type(g, symbol) ==
  IF symbol # BUILTIN_ARRAY THEN Ok(g, symbol)
  ELSE IF ~parser_peek(g, "<") THEN Refused(g)
  ELSE Then(parse_type_args(Skip(g)), LAMBDA r :
         IF Len(r.v) = 1 THEN With(r, array_of(r.v[1])) ELSE Refused(r.g))

Type(g) ==
  IF AtEnd(g) THEN Refused(g)
  ELSE IF g.tokens[g.at].type \in DOMAIN BasicTypes THEN Ok(Skip(g), BasicTypes[g.tokens[g.at].type])
  ELSE IF parser_peek(g, "T_SYMBOL") THEN parse_object_type(Skip(g), LastVal(Skip(g)))
  ELSE Refused(g)
-----------------------------------------------------------------------------
(* Values: one level for the operators of each precedence, lowest first.     *)

Levels == << {"||"}, {"&&"}, {"==", "!="}, {">", ">=", "<", "<="}, {"+", "-"}, {"*", "/", "%"} >>
AtOperator(g, n) == \E op \in Levels[n] : parser_peek(g, op)

RECURSIVE parse_operands(_, _), parse_unary(_, _), parse_property_access(_), parse_values(_, _, _)

BinaryExpression(g, n) ==
  IF n > Len(Levels) THEN parse_unary(g, <<"+", "-", "!">>)
  ELSE Then(parse_binexp(g, n + 1), LAMBDA left : parse_operands(left, n))

(* The loop of parse_binexp_help; mutant: its right operand takes the rest.   *)
GroupRight(left, n) ==
  IF ~AtOperator(left.g, n) THEN left
  ELSE Then(parse_binexp(Skip(left.g), n), LAMBDA right :
         With(right, new_expr(left.g.tokens[left.g.at].type, left.v, right.v)))
parse_operands(left, n) ==
  IF ~AtOperator(left.g, n) THEN left
  ELSE Then(parse_binexp(Skip(left.g), n + 1), LAMBDA right :
         parse_operands(With(right, new_expr(left.g.tokens[left.g.at].type, left.v, right.v)), n))

(* parse_unaryexpr tries the operators in this order.  When what follows one  *)
(* is no operand, it goes on behind it with the next one, and at last without. *)
UnaryOperand(r, ops) ==
  IF r.ok THEN With(r, new_unary(Head(ops), r.v)) ELSE parse_unary(r.g, Tail(ops))
parse_unary(g, ops) ==
  IF ops = << >> THEN parse_subexpr(g)
  ELSE IF parser_peek(g, Head(ops)) THEN UnaryOperand(parse_subexpr(Skip(g)), ops)
  ELSE parse_unary(g, Tail(ops))

(* One or more values, then the closing token.                               *)
parse_values(g, vals, close) ==
  Then(parse_expr(g), LAMBDA r :
    IF parser_peek(r.g, ",") THEN parse_values(Skip(r.g), Append(vals, r.v), close)
    ELSE Expect(With(r, Append(vals, r.v)), close))

(* The arguments behind an opening parenthesis.                              *)
parse_args(g) == IF parser_peek(g, ")") THEN Ok(Skip(g), << >>) ELSE parse_values(g, << >>, ")")

parse_array(g) ==
  IF parser_peek(g, "]") THEN Refused(Skip(g))
  ELSE Then(parse_values(g, << >>, "]"), LAMBDA r : With(r, new_array(r.v)))

parse_vfuncall(g, f) ==
  Then(parse_args(g), LAMBDA r :
    With(r, IF is_builtin(SymbolOf(g.symbols, f)) THEN new_builtin_vfuncall(f, r.v) ELSE new_vfuncall(f, r.v)))

(* Types are kept for builtin classes only: nothing reads them elsewhere.    *)
parse_constructor(g, symbol) ==
  LET args(types) == Then(Expect(types, "("), LAMBDA r : parse_args(r.g))
      node(types, r) == With(r, IF is_builtin(symbol) THEN new_builtin_constructor(symbol, types, r.v)
                                ELSE new_constructor(symbol, r.v))
  IN  Then(IF parser_peek(g, "<") THEN parse_type_args(Skip(g)) ELSE Ok(g, << >>),
           LAMBDA types : Then(args(types), LAMBDA r : node(types.v, r)))

(* What follows a value, until nothing does.  A call that failed leaves NULL   *)
(* as the value and the loop goes on.                                        *)
Call(r, g) ==
  IF ~r.ok THEN Null(Crashed(g, "no value"))
  ELSE IF r.v.vtype # "local" THEN Null(Crashed(g, "not implemented"))
  ELSE parse_property_access(parse_vfuncall(g, r.v.x))
Property(r, g) ==
  IF parser_peek(g, "T_SYMBOL") THEN parse_property_access(Ok(Skip(g), new_get_property(r.v, NameAt(g, g.at))))
  ELSE Refused(g)
Index(r, g) ==
  Then(parse_expr(g), LAMBDA i :
    Then(Expect(i, "]"), LAMBDA end : parse_property_access(Ok(end.g, new_get_indexed(r.v, i.v)))))
Cast(r, g) == Then(parse_type(g), LAMBDA type : parse_property_access(With(type, new_cast(r.v, type.v))))

parse_property_access(r) ==
  CASE parser_peek(r.g, "(") -> Call(r, Skip(r.g))
    [] parser_peek(r.g, ".") -> Property(r, Skip(r.g))
    [] parser_peek(r.g, "[") -> Index(r, Skip(r.g))
    [] parser_peek(r.g, "::") -> Cast(r, Skip(r.g))
    [] OTHER -> r

Operand_(g, h) ==
  CASE AtEnd(g) -> Refused(g)
    [] parser_peek(g, "T_INT") -> Ok(h, new_integer(LastVal(h)))
    [] parser_peek(g, "T_FLOAT") -> Ok(h, new_floating(LastVal(h)))
    [] parser_peek(g, "T_STRING") -> Ok(h, new_string(LastVal(h)))
    [] parser_peek(g, "T_BYTE") -> Ok(h, new_byte(LastVal(h)))
    [] parser_peek(g, "true") -> Ok(h, new_boolean(1))
    [] parser_peek(g, "false") -> Ok(h, new_boolean(0))
    [] parser_peek(g, "null") -> Ok(h, new_null)
    [] parser_peek(g, "[") -> parse_array(h)
    [] parser_peek(g, "(") -> Then(parse_expr(h), LAMBDA r : Expect(r, ")"))
    [] parser_peek(g, "T_SYMBOL") -> Ok(h, new_get_local(LastName(h)))
    [] parser_peek(g, "new") /\ parser_peek(h, "T_SYMBOL") -> parse_constructor(Skip(h), LastVal(Skip(h)))
    [] parser_peek(g, "new") -> Refused(h)
    [] OTHER -> Refused(g)
Subexpression(g) == Then(Operand_(g, Skip(g)), parse_property_access)
-----------------------------------------------------------------------------
(* Definitions: names with types, separated by commas.                       *)

RECURSIVE parse_typed_args(_, _)

parse_definition(g) ==
  IF ~parser_peek(g, "T_SYMBOL") THEN Refused(g)
  ELSE Then(Expect(Ok(Skip(g), << >>), ":"), LAMBDA r :
         Then(parse_type(r.g), LAMBDA type : With(type, new_define(NameAt(g, g.at), type.v))))

parse_typed_args(g, defs) ==
  Then(parse_definition(g), LAMBDA r :
    IF parser_peek(r.g, ",") THEN parse_typed_args(Skip(r.g), Append(defs, r.v))
    ELSE With(r, Append(defs, r.v)))
-----------------------------------------------------------------------------
(* Statements that end in a semicolon.                                       *)

Targets == {"local", "property", "index"}       \* what can be assigned or incremented

parse_let(g) ==
  IF parser_peek(g, "T_SYMBOL") /\ parser_peek(Skip(g), "=")
  THEN Then(parse_expr(Skip(Skip(g))), LAMBDA r : With(r, new_set_local(NameAt(g, g.at), r.v, TRUE)))
  ELSE Then(parse_typed_args(g, << >>), LAMBDA r : With(r, new_let(r.v)))

parse_return(g) ==
  IF parser_peek(g, ";") THEN Ok(g, new_return(<< >>))
  ELSE Then(parse_expr(g), LAMBDA r : With(r, new_return(<<r.v>>)))

Assignment(to, v) ==
  CASE to.vtype = "local" -> new_set_local(to.x, v, FALSE)
    [] to.vtype = "property" -> new_set_property(to.a, to.p, v)
    [] to.vtype = "index" -> new_set_indexed(to.a, to.i, v)

(* A statement that begins with a value.                                     *)
ValueStatement(val) ==
  CASE parser_peek(val.g, "++") \/ parser_peek(val.g, "--") ->
         IF val.v.vtype \in Targets
         THEN Ok(Skip(val.g), new_increment(val.v, IF parser_peek(val.g, "++") THEN 1 ELSE -1))
         ELSE Refused(Skip(val.g))
    [] val.v.vtype \in Targets ->
         Then(Expect(val, "="), LAMBDA eq : Then(parse_expr(eq.g), LAMBDA r : With(r, Assignment(val.v, r.v))))
    [] val.v.vtype = "funcall" -> With(val, new_sfuncall(val.v.f, val.v.args))
    [] val.v.vtype = "builtin funcall" -> With(val, new_builtin_sfuncall(val.v.f, val.v.args))
    [] OTHER -> Refused(val.g)

parse_line(g) ==
  CASE AtEnd(g) -> Refused(g)
    [] parser_peek(g, "let") -> parse_let(Skip(g))
    [] parser_peek(g, "break") -> Ok(Skip(g), new_break)
    [] parser_peek(g, "continue") -> Ok(Skip(g), new_continue)
    [] parser_peek(g, "return") -> parse_return(Skip(g))
    [] OTHER -> Then(parse_expr(g), ValueStatement)
-----------------------------------------------------------------------------
(* Statements with blocks.                                                   *)

RECURSIVE parse_statements(_, _)

parse_statements(g, stmts) ==
  IF parser_peek(g, "}") THEN Ok(Skip(g), stmts)
  ELSE Then(parse_statement(g), LAMBDA r : parse_statements(r.g, Append(stmts, r.v)))

parse_block(g) == IF parser_peek(g, "{") THEN parse_statements(Skip(g), << >>) ELSE Refused(g)

(* What follows a branch: an else if is an if in the else.                    *)
Else(stmt, g) ==
  CASE ~parser_peek(g, "else") -> Ok(g, stmt)
    [] parser_peek(Skip(g), "if") -> Then(parse_if(Skip(Skip(g))), LAMBDA r : With(r, add_else(stmt, <<r.v>>)))
    [] OTHER -> Then(parse_block(Skip(g)), LAMBDA r : With(r, add_else(stmt, r.v)))
If(g) ==
  Then(parse_expr(g), LAMBDA c : Then(parse_block(c.g), LAMBDA then : Else(new_if(c.v, then.v), then.g)))

parse_while(g) ==
  Then(parse_expr(g), LAMBDA c : Then(parse_block(c.g), LAMBDA body : With(body, new_while(c.v, body.v))))

(* Parentheses around the head: both or none.                                *)
CloseFor(r, paren) ==
  IF paren THEN Expect(r, ")") ELSE IF parser_peek(r.g, ")") THEN Refused(Skip(r.g)) ELSE r
ForHead(g, paren) ==
  Then(parse_line(g), LAMBDA init :
    Then(Expect(init, ";"), LAMBDA first :
      Then(parse_expr(first.g), LAMBDA c :
        Then(Expect(c, ";"), LAMBDA second :
          Then(parse_line(second.g), LAMBDA increment :
            CloseFor(With(increment, new_for(init.v, c.v, increment.v, << >>)), paren))))))
parse_for(g) ==
  Then(IF parser_peek(g, "(") THEN ForHead(Skip(g), TRUE) ELSE ForHead(g, FALSE), LAMBDA head :
    Then(parse_block(head.g), LAMBDA body : With(body, [head.v EXCEPT !.body = body.v])))

Statement(g) ==
  CASE parser_peek(g, "if") -> parse_if(Skip(g))
    [] parser_peek(g, "for") -> parse_for(Skip(g))
    [] parser_peek(g, "while") -> parse_while(Skip(g))
    [] OTHER -> Then(parse_line(g), LAMBDA r : Expect(r, ";"))
-----------------------------------------------------------------------------
(* Functions and classes.                                                    *)

RECURSIVE parse_class_definitions(_, _)

(* Arguments that do not parse are followed by a second look for the end.    *)
CloseArgs(r) == IF parser_peek(r.g, ")") THEN [r EXCEPT !.g = Skip(r.g)] ELSE Refused(r.g)
parse_fundef_args(g) ==
  CASE ~parser_peek(g, "(") -> Refused(g)
    [] parser_peek(Skip(g), ")") -> Ok(Skip(Skip(g)), << >>)
    [] OTHER -> CloseArgs(parse_typed_args(Skip(g), << >>))

parse_fundef(g) ==
  IF ~parser_peek(g, "T_SYMBOL") THEN Refused(g)
  ELSE IF is_builtin(g.tokens[g.at].val) THEN Refused(Skip(g))
  ELSE Then(parse_fundef_args(Skip(g)), LAMBDA args :
         Then(IF parser_peek(args.g, ":") THEN parse_type(Skip(args.g)) ELSE Ok(args.g, TYPE_UNDEFINED),
              LAMBDA rettype : Then(parse_block(rettype.g), LAMBDA body :
                With(body, new_tld_fundef(NameAt(g, g.at), args.v, rettype.v, body.v)))))

(* Properties and methods up to the closing brace.                           *)
parse_property(g) == Then(parse_definition(g), LAMBDA r : Expect(r, ";"))
MoreDefinitions(r, class) ==
  IF parser_peek(r.g, "}") THEN Ok(Skip(r.g), class) ELSE parse_class_definitions(r.g, class)
parse_class_definitions(g, class) ==
  CASE parser_peek(g, "function") ->
         Then(parse_fundef(Skip(g)), LAMBDA r : MoreDefinitions(r, [class EXCEPT !.methods = Append(@, r.v)]))
    [] \E type \in {"get", "set", "constructor"} : parser_peek(g, type) -> Null(Crashed(g, "not implemented"))
    [] OTHER -> Then(parse_property(g), LAMBDA r : MoreDefinitions(r, [class EXCEPT !.definitions = Append(@, r.v)]))

ClassBody(g, class) ==
  CASE ~parser_peek(g, "{") -> Refused(g)
    [] parser_peek(Skip(g), "}") -> Ok(Skip(Skip(g)), class)
    [] OTHER -> parse_class_definitions(Skip(g), class)
parse_class(g) ==
  IF parser_peek(g, "T_SYMBOL") THEN ClassBody(Skip(g), new_class(g.tokens[g.at].val, << >>)) ELSE Refused(g)

TopLevel(g) ==
  CASE parser_peek(g, "function") -> parse_fundef(Skip(g))
    [] parser_peek(g, "class") -> parse_class(Skip(g))
    [] OTHER -> Refused(g)

Parse(function, g, n) ==
  CASE function = "type" -> Type(g)
    [] function = "binexp" -> BinaryExpression(g, n)
    [] function = "subexpr" -> Subexpression(g)
    [] function = "statement" -> Statement(g)
    [] function = "if" -> If(g)
    [] function = "tld" -> TopLevel(g)
=============================================================================
