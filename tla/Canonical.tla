----------------------------- MODULE Canonical -----------------------------
(***************************************************************************)
(* The tokens of a syntax tree: what the grammar of parser.c means, written *)
(* from the tree's side.  An operand gets parentheses exactly when its       *)
(* operator binds less tightly than its place demands.  A token is its type *)
(* and its value; names are looked up in a symbol table.                    *)
(***************************************************************************)
EXTENDS Ast, SymbolTable, SequencesExt

Tok(type, val) == [type |-> type, val |-> val]
Fixed(types) == [i \in 1 .. Len(types) |-> Tok(types[i], 0)] \o << >>
Name(table, x) == <<Tok("T_SYMBOL", SymbolOf(table, x))>>
ClassName(class) == <<Tok("T_SYMBOL", class)>>

(* Sequences of tokens with commas between them.                             *)
Listed(parts) == FlattenSeq([i \in 1 .. Len(parts) |-> IF i = 1 THEN parts[i] ELSE Fixed(<<",">>) \o parts[i]])

TypeTokens(t) ==
  LET name(e) == CASE e = TYPE_INT -> Fixed(<<"int">>) [] e = TYPE_FLOAT -> Fixed(<<"float">>)
                   [] e = TYPE_BOOL -> Fixed(<<"bool">>) [] e = TYPE_STRING -> Fixed(<<"string">>)
                   [] e = TYPE_BYTE -> Fixed(<<"byte">>) [] OTHER -> ClassName(e)
  IN  IF is_array(t) THEN ClassName(BUILTIN_ARRAY) \o Fixed(<<"<">>) \o name(type_of_array(t)) \o Fixed(<<">">>)
      ELSE name(t)

TypeArguments(types) ==
  IF types = << >> THEN << >>
  ELSE Fixed(<<"<">>) \o Listed([i \in 1 .. Len(types) |-> TypeTokens(types[i])]) \o Fixed(<<">">>)

(* 1 binds least; a unary operator is 7, anything that a postfix may follow 8. *)
Precedence(v) ==
  CASE v.vtype = "unary" -> 7
    [] v.vtype # "expr" -> 8
    [] v.op = "||" -> 1
    [] v.op = "&&" -> 2
    [] v.op \in {"==", "!="} -> 3
    [] v.op \in {"<", "<=", ">", ">="} -> 4
    [] v.op \in {"+", "-"} -> 5
    [] v.op \in {"*", "/", "%"} -> 6

LiteralTokens(v) ==
  CASE v.type = TYPE_INT -> <<Tok("T_INT", v.v)>> [] v.type = TYPE_FLOAT -> <<Tok("T_FLOAT", v.v)>>
    [] v.type = TYPE_STRING -> <<Tok("T_STRING", v.v)>> [] v.type = TYPE_BYTE -> <<Tok("T_BYTE", v.v)>>
    [] v.type = TYPE_BOOL -> Fixed(<<IF v.v = 1 THEN "true" ELSE "false">>) [] v.type = TYPE_NULL -> Fixed(<<"null">>)

RECURSIVE ValueTokens(_, _), StatementTokens(_, _), BlockTokens(_, _)

Operand(s, v, precedence) ==
  IF Precedence(v) < precedence THEN Fixed(<<"(">>) \o ValueTokens(s, v) \o Fixed(<<")">>) ELSE ValueTokens(s, v)
Arguments(s, args) == Fixed(<<"(">>) \o Listed([i \in 1 .. Len(args) |-> ValueTokens(s, args[i])]) \o Fixed(<<")">>)

ValueTokens(s, v) ==
  CASE v.vtype = "literal" -> LiteralTokens(v)
    [] v.vtype = "expr" -> Operand(s, v.a, Precedence(v)) \o Fixed(<<v.op>>) \o Operand(s, v.b, Precedence(v) + 1)
    [] v.vtype = "unary" -> Fixed(<<v.op>>) \o Operand(s, v.a, 8)
    [] v.vtype = "array" -> Fixed(<<"[">>) \o Listed([i \in 1 .. Len(v.args) |-> ValueTokens(s, v.args[i])]) \o Fixed(<<"]">>)
    [] v.vtype \in {"funcall", "builtin funcall"} -> Name(s, v.f) \o Arguments(s, v.args)
    [] v.vtype = "constructor" -> Fixed(<<"new">>) \o ClassName(v.class) \o Arguments(s, v.args)
    [] v.vtype = "builtin constructor" ->
         Fixed(<<"new">>) \o ClassName(v.class) \o TypeArguments(v.types) \o Arguments(s, v.args)
    [] v.vtype = "new array" -> Fixed(<<"new">>) \o TypeTokens(array_of(v.of)) \o Arguments(s, v.args)
    [] v.vtype = "local" -> Name(s, v.x)
    [] v.vtype = "property" -> Operand(s, v.a, 8) \o Fixed(<<".">>) \o Name(s, v.p)
    [] v.vtype = "index" -> Operand(s, v.a, 8) \o Fixed(<<"[">>) \o ValueTokens(s, v.i) \o Fixed(<<"]">>)
    [] v.vtype = "cast" -> Operand(s, v.a, 8) \o Fixed(<<"::">>) \o TypeTokens(v.to)

DefinitionTokens(s, defs) ==
  Listed([i \in 1 .. Len(defs) |-> Name(s, defs[i].name) \o Fixed(<<":">>) \o TypeTokens(defs[i].type)])

(* A statement without its semicolon.                                        *)
LineTokens(s, t) ==
  CASE t.stype = "set local" ->
         (IF t.is_define THEN Fixed(<<"let">>) ELSE << >>) \o Name(s, t.x) \o Fixed(<<"=">>) \o ValueTokens(s, t.v)
    [] t.stype \in {"set property", "set index"} -> ValueTokens(s, t.access) \o Fixed(<<"=">>) \o ValueTokens(s, t.v)
    [] t.stype = "let" -> Fixed(<<"let">>) \o DefinitionTokens(s, t.defs)
    [] t.stype \in {"print", "println"} -> Name(s, t.stype) \o Arguments(s, t.args)
    [] t.stype \in {"funcall", "builtin funcall"} -> Name(s, t.f) \o Arguments(s, t.args)
    [] t.stype = "return" -> Fixed(<<"return">>) \o (IF t.vals = << >> THEN << >> ELSE ValueTokens(s, t.vals[1]))
    [] t.stype \in {"break", "continue"} -> Fixed(<<t.stype>>)
    [] t.stype = "increment" -> ValueTokens(s, t.v) \o Fixed(<<IF t.by = 1 THEN "++" ELSE "--">>)

ElseTokens(s, t) ==
  IF ~t.has_else THEN << >>
  ELSE IF Len(t.else) = 1 /\ t.else[1].stype = "if" THEN Fixed(<<"else">>) \o StatementTokens(s, t.else[1])
  ELSE Fixed(<<"else">>) \o BlockTokens(s, t.else)

StatementTokens(s, t) ==
  CASE t.stype = "if" -> Fixed(<<"if">>) \o ValueTokens(s, t.c) \o BlockTokens(s, t.then) \o ElseTokens(s, t)
    [] t.stype = "while" -> Fixed(<<"while">>) \o ValueTokens(s, t.c) \o BlockTokens(s, t.body)
    [] t.stype = "for" ->
         Fixed(<<"for">>) \o LineTokens(s, t.init) \o Fixed(<<";">>) \o ValueTokens(s, t.c) \o Fixed(<<";">>)
         \o LineTokens(s, t.increment) \o BlockTokens(s, t.body)
    [] OTHER -> LineTokens(s, t) \o Fixed(<<";">>)

BlockTokens(s, stmts) ==
  Fixed(<<"{">>) \o FlattenSeq([i \in 1 .. Len(stmts) |-> StatementTokens(s, stmts[i])]) \o Fixed(<<"}">>)

FunctionTokens(s, f) ==
  Fixed(<<"function">>) \o Name(s, f.name) \o Fixed(<<"(">>) \o DefinitionTokens(s, f.args) \o Fixed(<<")">>)
  \o (IF f.rettype = TYPE_UNDEFINED THEN << >> ELSE Fixed(<<":">>) \o TypeTokens(f.rettype)) \o BlockTokens(s, f.stmts)

ClassTokens(s, c) ==
  Fixed(<<"class">>) \o ClassName(c.name) \o Fixed(<<"{">>)
  \o FlattenSeq([i \in 1 .. Len(c.definitions) |-> DefinitionTokens(s, <<c.definitions[i]>>) \o Fixed(<<";">>)])
  \o FlattenSeq([i \in 1 .. Len(c.methods) |-> FunctionTokens(s, c.methods[i])]) \o Fixed(<<"}">>)

(* A program: its classes and then its functions, each in order.             *)
ProgramTokens(s, tlds) ==
  FlattenSeq([i \in 1 .. Len(tlds.classes) |-> ClassTokens(s, tlds.classes[i])])
  \o FlattenSeq([i \in 1 .. Len(tlds.funs) |-> FunctionTokens(s, tlds.funs[i])])
=============================================================================
