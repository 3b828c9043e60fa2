------------------------------ MODULE MCFront ------------------------------
(* The front end on the canonical texts of sample trees, on the same texts    *)
(* with a token missing, doubled or everything behind it cut off, and on       *)
(* sequences of fragments that matter to the lexer.                          *)
EXTENDS FrontEnd

Sample == INSTANCE Samples
Var(x) == new_get_local(x)
-----------------------------------------------------------------------------
(* From tokens to texts.  Lines end behind a semicolon or a brace.            *)
Names == init_symbol_table \o <<"Node", "Wide">>
Letter(code) == LET s == "abcdefghijklmnopqrstuvwxyz" IN SubSeq(s, code - 96, code - 96)
(* The texts of the elements in a row, by halves.                             *)
RECURSIVE Joined(_, _)
Joined(text(_), s) ==
  LET half == Len(s) \div 2
  IN  CASE s = << >> -> ""
        [] Len(s) = 1 -> text(s[1])
        [] OTHER -> Joined(text, SubSeq(s, 1, half)) \o Joined(text, SubSeq(s, half + 1, Len(s)))

Lexeme(names, t) ==
  CASE t.type = "T_INT" -> ToString(t.val)
    [] t.type = "T_FLOAT" -> IF t.val THEN "1.5" ELSE "0.0"
    [] t.type = "T_STRING" -> "\"" \o Joined(Letter, t.val) \o "\""
    [] t.type = "T_BYTE" -> IF t.val = 10 THEN "'\\n'" ELSE "'" \o Letter(t.val) \o "'"
    [] t.type = "T_SYMBOL" -> names[t.val + 1]
    [] OTHER -> t.type
Break(t) == IF t.type \in {";", "{", "}"} THEN "\n" ELSE " "
TextOf(names, toks) ==
  LET piece(t) == Lexeme(names, t) \o Break(t) IN Joined(piece, toks)

Words == <<"main", "add", "down", "wrap", "depth", "show", "tick", "a", "b", "c", "d", "e", "f", "h", "i", "j", "k", "l",
          "m", "n", "o", "p", "s", "t", "v", "w", "x", "y", "z", "next", "p", "q">>
AllNames == Names \o Words
Text(tlds) == TextOf(AllNames, ProgramTokens(AllNames, tlds))
Function(stmts) == Tlds(<< >>, <<new_tld_fundef("main", << >>, TYPE_UNDEFINED, stmts)>>)
-----------------------------------------------------------------------------
(* Expressions: every pair of operators grouped to the left and to the right,  *)
(* and under and above the unary and postfix operators.                      *)
Ops == <<"||", "&&", "==", "<", "+", "-", "*">>
Each(f(_)) == [i \in 1 .. Len(Ops) |-> f(Ops[i])] \o << >>
a_ == Var("a")
b_ == Var("b")
c_ == Var("c")
Grouped(op) ==
  Each(LAMBDA q : new_expr(op, new_expr(q, a_, b_), c_)) \o Each(LAMBDA q : new_expr(op, a_, new_expr(q, b_, c_)))
Mixed(op) == <<
  new_unary("-", new_expr(op, a_, b_)), new_expr(op, new_unary("!", a_), new_unary("+", b_)),
  new_unary("-", new_unary("!", new_expr(op, a_, b_))),
  new_get_property(new_expr(op, a_, b_), "p"), new_expr(op, a_, new_get_property(b_, "p")),
  new_get_indexed(new_vfuncall("f", <<new_expr(op, a_, b_), c_>>), new_expr(op, b_, c_)),
  new_cast(new_array(<<new_expr(op, a_, b_)>>), array_of(TYPE_BYTE)),
  new_expr(op, new_cast(a_, TYPE_INT), new_builtin_vfuncall("read", << >>)),
  new_constructor(BUILTIN_LAST + 1, <<new_expr(op, a_, new_null)>>),
  new_builtin_constructor(BUILTIN_ARRAY, <<TYPE_STRING, TYPE_BOOL>>, <<a_>>) >>
ExpressionTexts ==
  {Text(Function(<<new_println(Grouped(op))>>)) : op \in ToSet(Ops)}
  \cup {Text(Function([i \in 1 .. 10 |-> new_set_indexed(a_, Mixed(op)[i], Mixed(op)[i])])) : op \in ToSet(Ops)}

(* The sample statements, library and classes, and what they do not use.      *)
Rest == <<
  new_return(<<new_byte(10)>>), new_return(<<new_byte(97)>>), new_return(<< >>),
  add_else(new_if(a_, <<new_break>>), <<add_else(new_if(b_, << >>), <<new_continue>>)>>),
  new_increment(new_get_indexed(a_, b_), -1), new_println(<< >>) >>
StatementTexts ==
  {Text(Function(<<Sample!Statements[i].stmt>>)) : i \in 1 .. Len(Sample!Statements)}
  \cup {Text(Function(Rest)), Text(Tlds(<<Sample!NodeClass, Sample!WideClass>>, SubSeq(Sample!Library, 1, 5)))}

MCCanonicals == LET texts == ExpressionTexts \cup StatementTexts IN texts
-----------------------------------------------------------------------------
(* Broken texts.                                                             *)
Method == new_tld_fundef("f", <<new_define("a", TYPE_FLOAT), new_define("b", array_of(TYPE_INT))>>, TYPE_STRING,
                         <<new_return(<<new_string(<<104>>)>>)>>)
Bases == <<
  Tlds(<<[new_class(BUILTIN_LAST + 1, <<new_define("v", TYPE_BOOL)>>) EXCEPT !.methods = <<Method>>]>>, << >>),
  Function(<<new_let(<<new_define("x", TYPE_BYTE), new_define("y", BUILTIN_LAST + 1)>>),
             new_set_local("x", new_expr("&&", new_expr("||", a_, b_), new_unary("!", c_)), TRUE)>>),
  Function(<<new_while(a_, <<new_increment(Var("x"), 1)>>),
             new_for(new_set_local("i", a_, TRUE), b_, new_increment(Var("i"), 1), <<new_break>>)>>),
  Function(<<add_else(new_if(a_, <<new_continue>>), <<new_if(b_, <<new_return(<< >>)>>)>>),
             new_set_property(a_, "p", new_get_indexed(b_, c_))>>),
  Function(<<new_sfuncall("f", <<new_vfuncall("h", <<a_, b_>>), new_array(<<a_, b_>>)>>),
             new_set_local("x", new_array_of(TYPE_INT, new_cast(b_, TYPE_INT)), FALSE)>>) >>
BrokenTexts ==
  UNION {LET toks == ProgramTokens(AllNames, Bases[b])
             n == Len(toks)
         IN  UNION {{TextOf(AllNames, RemoveAt(toks, i)),
                     TextOf(AllNames, SubSeq(toks, 1, i) \o SubSeq(toks, i, n)),
                     TextOf(AllNames, SubSeq(toks, 1, i))} : i \in 1 .. n} : b \in 1 .. Len(Bases)}

(* All sequences of three fragments.                                         *)
Fragments == {"if", "i", "1", "9", ".", "\"a", "'", "\\", "\n", " ", "//", "/", "=", "<", "%", "main", "+"}
FragmentTexts == {""} \cup {f \o g \o h : f, g, h \in Fragments}

(* What follows a failed call, or what is no name; parts of a class that are   *)
(* not implemented; and a line that is too long, with an error in it.         *)
InMain(stmt) == "function main() {\n " \o stmt \o "\n}\n"
CallTexts ==
  {InMain(stmt) : stmt \in {"x = f(new .p;", "x = f(new ::int;", "x = f(new (1);", "x = f([](1);", "x = f(a.(1);",
                            "x = f(1)(2);", "x = a.p(1);", "x = 1(2);", "x = a::Node(1);",
                            "x = ((((((((1)))))))) + ((((((((1)))))))) + ((((((((1))))))));;",
                            "x = f((((((((1)))))))) + ((((((((1)))))))) + ((((((((1)))))))) let;"}}
  \cup {"function main() {\n x = 1("} \cup {"class Node {\n " \o part \o " p() {\n}\n}\n" : part \in {"get", "set", "constructor"}}

MCTexts == LET texts == MCCanonicals \cup BrokenTexts \cup FragmentTexts \cup CallTexts IN texts
-----------------------------------------------------------------------------
(* Operators stacked in one expression.                                      *)
StackedTexts ==
  {"function main() {\n let x = " \o u \o v \o "a;\n}\n" : u, v \in {"+", "-", "!"}}
=============================================================================
