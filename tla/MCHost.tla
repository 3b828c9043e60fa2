-------------------------------- MODULE MCHost --------------------------------
(* A compiler that is used for up to two texts of one to three functions.  The *)
(* symbols collide in tables of two, three and four slots; names are defined   *)
(* twice, called before they are defined, never defined, or foreign.          *)
EXTENDS Host

Main == 16
F == 15
G == 18
A == 1
B == 2
MCForeigns == {F, Main}

Bodies == {
  <<Call(F)>>, <<Call(G), PrintOf(<<A>>, TRUE), Call(F)>>, <<Call(Main)>>,
  <<PrintOf(<<A, B, A>>, FALSE), PrintOf(<<B>>, TRUE)>>, <<PrintOf(<< >>, TRUE)>> }
Short == {<<Call(G), PrintOf(<<A>>, TRUE), Call(F)>>, <<PrintOf(<<B>>, TRUE)>>}

Parsed(decls, methods) == [outcome |-> "parsed", decls |-> decls, methods |-> methods]
One == {<<Function(n, b)>> : n \in {Main, F}, b \in Bodies}
Two == {<<Function(m, b), Function(n, c)>> : m, n \in {Main, G}, b, c \in Short}
Three == {<<Function(l, b), Function(m, <<Call(l)>>), Function(n, b)>> : l, m, n \in {Main, F, G}, b \in Short}
MCTexts ==
  {Parsed(d, 0) : d \in One \cup Two \cup Three} \cup {Parsed(<<Function(Main, <<Call(F)>>)>>, 1)}
  \cup {[outcome |-> o, decls |-> << >>, methods |-> 0] : o \in {"unreadable", "read error", "lex error"}}
  \cup {[outcome |-> "parse error", decls |-> <<Function(F, b)>>, methods |-> 1] : b \in Short}
=============================================================================
