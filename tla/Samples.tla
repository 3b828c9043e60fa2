------------------------------ MODULE Samples ------------------------------
(***************************************************************************)
(* Small del programs.  Bodies enumerates every sequence of statements over *)
(* a list of templates; the type checker throws away those that use a       *)
(* variable before its definition.                                          *)
(***************************************************************************)
EXTENDS Compiler

Int_(i) == new_integer(i)
Var(x) == new_get_local(x)
Let_(x, v) == new_set_local(x, v, TRUE)
Assign(x, v) == new_set_local(x, v, FALSE)
Op(op, a, b) == new_expr(op, a, b)
Field(x, p) == new_get_property(Var(x), p)
CallOf(f, args) == new_vfuncall(f, args)
Main(stmts) == new_tld_fundef(ENTRYPOINT, << >>, TYPE_UNDEFINED, stmts)

(* op applied to each element of a sequence, evaluated once.                 *)
Map(op(_), s) == [i \in 1 .. Len(s) |-> op(s[i])] \o << >>

(* All sequences of n elements of a list.                                    *)
RECURSIVE Words(_, _)
Words(list, n) ==
  IF n = 0 THEN << << >> >>
  ELSE LET shorter == Words(list, n - 1)
           m == Len(shorter)
       IN  [i \in 1 .. Len(list) * m |->
              Append(shorter[((i - 1) % m) + 1], list[((i - 1) \div m) + 1])] \o << >>

(* The accepted ones among the programs, as the type checker leaves them, and  *)
(* compiled.                                                                 *)
AcceptedOnes(programs) == SelectSeq(Map(typecheck, programs), Accepts)
CompiledOnes(programs) == Map(Compiled, AcceptedOnes(programs))
-----------------------------------------------------------------------------
NODE == BUILTIN_LAST + 1
WIDE == BUILTIN_LAST + 2
NodeClass == new_class(NODE, <<new_define("next", NODE), new_define("v", TYPE_INT)>>)
WideClass == new_class(WIDE, <<new_define("a", TYPE_INT), new_define("b", NODE), new_define("c", TYPE_BOOL),
                               new_define("d", TYPE_INT), new_define("e", NODE), new_define("f", TYPE_INT)>>)
NewNode(next, v) == new_constructor(NODE, <<next, v>>)

(* add(a, b), which is 2a + b; down(n), which calls itself inside an          *)
(* expression; wrap(v, n), with arguments on both stacks; depth(n), with a     *)
(* return on either branch; show(o), which returns nothing; tick(i), a         *)
(* function of the host that yields.                                         *)
Library == <<
  new_tld_fundef("add", <<new_define("a", TYPE_INT), new_define("b", TYPE_INT)>>, TYPE_INT,
    <<Let_("s", Op("+", Op("+", Var("a"), Var("a")), Var("b"))), new_return(<<Var("s")>>)>>),
  new_tld_fundef("down", <<new_define("n", TYPE_INT)>>, TYPE_INT,
    <<new_if(Op("<", Var("n"), Int_(1)), <<new_return(<<Int_(0)>>)>>),
      new_return(<<Op("+", Int_(1), CallOf("down", <<Op("-", Var("n"), Int_(1))>>))>>)>>),
  new_tld_fundef("wrap", <<new_define("v", TYPE_INT), new_define("n", NODE)>>, NODE,
    <<Let_("m", NewNode(Var("n"), Var("v"))), new_return(<<Var("m")>>)>>),
  new_tld_fundef("depth", <<new_define("n", NODE)>>, TYPE_INT,
    <<add_else(new_if(Op("==", Var("n"), new_null), <<new_return(<<Int_(0)>>)>>),
               <<Let_("d", CallOf("depth", <<Field("n", "next")>>)),
                 new_return(<<Op("+", Var("d"), Int_(1))>>)>>)>>),
  new_tld_fundef("show", <<new_define("o", array_of(NODE))>>, TYPE_UNDEFINED,
    <<new_set_indexed(Var("o"), Int_(0), new_get_indexed(Var("o"), Int_(1))), new_println(<<Var("o")>>)>>),
  new_tld_foreign_fundef("tick", <<new_define("", TYPE_INT)>>, TYPE_INT, TRUE)
>>
(* A program of these statements and the functions of the library they call.  *)
Program(stmts, calls) ==
  Tlds(<<NodeClass, WideClass>>, <<Main(stmts)>> \o SelectSeq(Library, LAMBDA f : f.name \in calls))
Alone(stmts) == Program(stmts, {})
-----------------------------------------------------------------------------
(* Statements over an int x, a node n (maybe null) and an int array a.       *)
Prologue == <<Let_("x", Int_(1)), Let_("a", new_array(<<Int_(1), Int_(2)>>)),
              Let_("n", NewNode(new_null, Int_(2)))>>

(* A statement with the functions that it calls.                             *)
Calling(calls, stmt) == [stmt |-> stmt, calls |-> calls]
Quiet(stmt) == Calling({}, stmt)

Statements ==
  Map(Quiet, <<
    Assign("n", Field("n", "next")),                                      \* may leave null in n
    new_println(<<Field("n", "v"), Var("n"), Var("a")>>),                 \* null pointer error
    new_set_indexed(Var("a"), Var("x"), Op("*", Var("x"), Int_(3))),      \* index error
    Assign("x", Op("/", Int_(4), Op("-", Var("x"), Int_(2)))),            \* division by zero
    new_for(Let_("i", Int_(0)), Op("<", Var("i"), Int_(3)), new_increment(Var("i"), 1), <<
      Let_("y", new_get_indexed(Var("a"), Var("i"))),
      new_if(Op("==", Var("y"), Int_(2)), <<new_break>>),
      new_if(Op(">", Var("y"), Int_(2)), <<new_continue>>),
      Let_("m", NewNode(Var("n"), Var("y"))),
      new_set_property(Var("m"), "v", Var("x"))>>),
    new_while(Op(">", Var("x"), Int_(0)), <<
      Assign("x", Op("-", Var("x"), Int_(1))),
      Let_("o", new_array(<<Var("n"), NewNode(new_null, Var("x"))>>)),
      new_set_indexed(Var("o"), Int_(0), new_get_indexed(Var("o"), Int_(1)))>>),
    Assign("a", new_array_of(TYPE_INT, Var("x"))),                        \* no negative length
    Let_("w", new_constructor(WIDE, <<Var("x"), Var("n"), new_boolean(1), Int_(4), new_null, Int_(6)>>)),
    new_set_property(Var("w"), "e", Var("n")),
    new_println(<<Op("==", Field("w", "e"), Var("n")), Var("w")>>),
    new_if(Op("!=", Var("n"), new_null), <<new_set_property(Var("n"), "v", Op("-", Field("n", "v"), Var("x")))>>),
    new_let(<<new_define("y", TYPE_INT), new_define("z", NODE)>>),
    Assign("y", Op("%", Var("x"), Int_(2))),
    Let_("f", new_cast(Var("x"), TYPE_FLOAT)),
    new_increment(Var("f"), 1),
    Assign("x", new_cast(Op("*", Var("f"), new_unary("-", new_floating(TRUE))), TYPE_INT)),
    new_print(<<new_unary("!", Op("&&", Op(">=", Var("x"), Int_(1)), new_cast(Var("x"), TYPE_BOOL))),
                Op("<", Var("f"), new_floating(FALSE))>>),
    Let_("b", new_cast(new_string(<<104, 105>>), array_of(TYPE_BYTE))),
    new_print(<<Var("b"), new_string(<<104, 105>>), new_cast(new_get_indexed(Var("b"), Var("x")), TYPE_INT)>>),
    Let_("t", new_cast(new_string(<< >>), array_of(TYPE_BYTE))),          \* no empty array
    new_while(Op(">", Var("x"), Int_(0)), <<
      new_increment(Var("x"), -1),
      new_if(Op("==", Var("x"), Int_(2)), <<new_continue>>),
      new_print(<<new_unary("-", Var("x"))>>)>>)>>)
  \o <<
    Calling({"add", "down"}, Assign("x", CallOf("add", <<Var("x"), CallOf("down", <<Int_(2)>>)>>))),
    Calling({"wrap"}, Assign("n", CallOf("wrap", <<Var("x"), Var("n")>>))),
    Calling({"depth"}, Assign("x", CallOf("depth", <<Var("n")>>))),
    Calling({"tick"}, Assign("x", new_vfuncall("tick", <<new_get_property(Var("a"), "length")>>))),
    Calling({"add"}, new_sfuncall("add", <<Var("x"), Int_(2)>>)),
    Calling({"wrap"}, new_sfuncall("wrap", <<Var("x"), Var("n")>>)),
    Calling({"tick"}, new_sfuncall("tick", <<Var("x")>>)),
    Calling({"show"}, new_sfuncall("show", <<new_array(<<Var("n"), NewNode(new_null, Var("x"))>>)>>)),
    Calling({"down"}, Assign("x", CallOf("down", <<Int_(7)>>)))>>       \* may exhaust the stack
StatementProgram(word) ==
  Program(Prologue \o [i \in 1 .. Len(word) |-> word[i].stmt], UNION {word[i].calls : i \in 1 .. Len(word)})
StatementPrograms(n) == Map(StatementProgram, Words(Statements, n))

(* An array, and an object behind it.                                        *)
TwoBlocks == Alone(<<Let_("a", new_array_of(TYPE_INT, Int_(2))), Let_("n", NewNode(new_null, Int_(1)))>>)
-----------------------------------------------------------------------------
(* Accepted programs in which the machine meets what the checks do not cover. *)

Nested_[n \in Nat] == IF n = 0 THEN Field("n", "v") ELSE Op("+", Field("n", "v"), Nested_[n - 1])
Lets_(n) == [i \in 1 .. n |-> Let_(<<"l", i>>, Int_(i))]
MinusOne == new_unary("-", Int_(1))
EmptyObject == new_let(<<new_define("n", NODE)>>)

UnsetInt == Program(<<new_sfuncall("add", <<Int_(1), Int_(2)>>),
                      new_let(<<new_define("y", TYPE_INT)>>), new_println(<<Var("y")>>)>>, {"add"})
UnsetString == Alone(<<new_let(<<new_define("s", TYPE_STRING)>>), new_print(<<Var("s")>>)>>)
UnaryPlus == Alone(<<Let_("x", new_unary("+", Int_(1)))>>)
NullStore == Alone(<<EmptyObject, new_set_property(Var("n"), "v", Int_(7))>>)
NullStoreElsewhere ==
  Alone(<<Let_("m", NewNode(new_null, Int_(1))), EmptyObject,
            new_set_property(Var("n"), "v", Int_(7)), new_println(<<Var("m")>>)>>)
NullLiteral == Alone(<<Let_("x", Int_(1)), Let_("y", new_null)>>)
DeepFetch(n) == Alone(<<Let_("n", NewNode(new_null, Int_(1))), new_print(<<Nested_[n]>>)>>)
ManyLocals(n) == Alone(Lets_(n))
MinOverMinusOne(max) ==
  Alone(<<Let_("x", Op("-", new_unary("-", Int_(max)), Int_(1))), Assign("x", Op("/", Var("x"), MinusOne))>>)
LetAsIncrement ==
  Alone(<<new_for(Let_("i", Int_(0)), Op("<", Var("i"), Int_(1)), Let_("j", Int_(1)), <<
    Let_("k", Int_(5)), new_print(<<Var("k")>>), Assign("i", Int_(1))>>)>>)
DriftingLoop(n) ==
  Program(<<new_for(Let_("i", Int_(0)), Op("<", Var("i"), Int_(n)), new_increment(Var("i"), 1), <<
    Let_("y", CallOf("down", <<Int_(0)>>))>>)>>, {"down"})

Hazards(slots, max) ==
  <<UnsetInt, UnsetString, UnaryPlus, NullStore, NullStoreElsewhere, NullLiteral, DeepFetch(slots),
    ManyLocals(slots + 1), MinOverMinusOne(max), LetAsIncrement, DriftingLoop(slots)>>
=============================================================================
