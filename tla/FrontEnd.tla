------------------------------ MODULE FrontEnd ------------------------------
(***************************************************************************)
(* parse_and_compile of del.c up to the syntax tree: the text is tokenized  *)
(* a round at a time and then parsed a top-level declaration at a time.  No  *)
(* function of the host is registered.                                      *)
(***************************************************************************)
EXTENDS Lexer, Parser, Canonical

CONSTANT Canonicals     \* the texts that are the canonical form of some tree

VARIABLES
  filename,  \* does the text come from a file (del_compile_file)?
  phase,     \* "lex", "parse", or how it ended: "parsed", "refused", "crashed"
  at,        \* globals->parser: number of the next token
  ast,       \* globals->ast: the declarations so far, by kind
  error,     \* globals->error: line and column of the last parser error, or << >>
  crash      \* where and why the parser left what C defines, or NoCrash

parser == <<filename, phase, at, ast, error, crash>>
vars == <<lexer, parser>>

FrontInit ==
  /\ LexInit
  /\ filename \in BOOLEAN /\ phase = "lex" /\ at = 1 /\ ast = Tlds(<< >>, << >>) /\ error = << >>
  /\ crash = NoCrash

Globals ==
  [tokens |-> tokens, at |-> at, symbols |-> symbols, text |-> input, filename |-> filename,
   error |-> error, crashed |-> crash]

(* append to globals->ast                                                    *)
AddTld(tld) ==
  IF "methods" \in DOMAIN tld THEN [ast EXCEPT !.classes = Append(@, tld)]
  ELSE [ast EXCEPT !.funs = Append(@, tld)]

Tokenize == phase = "lex" /\ Lex /\ UNCHANGED parser

(* The loop of tokenize ends; a message ends the compilation.                *)
EndTokenize ==
  /\ phase = "lex" /\ ~Scanning /\ (message = "none" => Len(input) > 0)
  /\ phase' = IF message = "none" THEN "parse" ELSE "refused"
  /\ UNCHANGED <<lexer, filename, at, ast, error, crash>>

(* One round of parse_tlds, whose loop looks for the end behind a declaration. *)
ParseTld ==
  /\ phase = "parse"
  /\ LET r == parse_tld(Globals)
     IN  /\ at' = r.g.at
         /\ error' = r.g.error
         /\ crash' = r.g.crashed
         /\ ast' = IF r.ok /\ ~HasCrashed(r.g) THEN AddTld(r.v) ELSE ast
         /\ phase' = IF HasCrashed(r.g) THEN "crashed"
                     ELSE IF ~r.ok THEN "refused"
                     ELSE IF AtEnd(r.g) THEN "parsed" ELSE "parse"
  /\ UNCHANGED <<lexer, filename>>

FrontNext == Tokenize \/ EndTokenize \/ ParseTld

FrontSpec == FrontInit /\ [][FrontNext]_vars

(* parse_and_compile runs alone and never waits: weak fairness of each step.  *)
(* That of ParseTld, enabled while the phase is "parse", is written out: TLC   *)
(* would parse over and over to evaluate its ENABLED.                        *)
FairFront ==
  /\ FrontSpec
  /\ WF_vars(Tokenize) /\ WF_vars(EndTokenize)
  /\ []<>(phase # "parse") \/ []<><<ParseTld>>_vars
-----------------------------------------------------------------------------
Ended == {"parsed", "refused", "crashed"}

(* Types: those of the lexer, and the cursor of the parser is in the token     *)
(* list or behind it.                                                       *)
TypeOK == LexTypeOK /\ at \in 1 .. Len(tokens) + 1 /\ phase \in Ended \cup {"lex", "parse"}

(* What the parser accepts without having met an error is the tree that the   *)
(* tokens spell: printed by precedence, it gives the tokens back.  This is     *)
(* stated for texts whose parentheses are those that precedence asks for, as   *)
(* in every text that the run accepts: a redundant pair leaves no trace in the  *)
(* tree.  The canonical text of a tree is accepted.                          *)
RoundTrip ==
  /\ phase = "parsed" /\ error = << >> =>
       ProgramTokens(symbols, ast) = [i \in 1 .. Len(tokens) |-> Tok(tokens[i].type, tokens[i].val)]
  /\ input \in Canonicals => phase \notin {"refused", "crashed"}

(* A refusal by the parser reports a position, that of the token at which it   *)
(* stopped or, where the end of an argument list is looked for once more, of   *)
(* the closing parenthesis before it.  It speaks of the refusals that are      *)
(* reported; where the report itself fails is CrashesHaveCause.              *)
RefusalNamesToken ==
  phase = "refused" /\ message = "none" =>
    \E i \in {at - 1, at} \cap 1 .. Len(tokens) :
      /\ error = <<tokens[i].line, tokens[i].column>>
      /\ i = at - 1 => tokens[i].type = ")"

(* The parser leaves what C defines for no other reasons than these, and at a  *)
(* place where they hold:                                                    *)
(*   an error is to be reported where the tokens have run out, which happens   *)
(*   in a text that stops inside a declaration only; or on a last line that no  *)
(*   newline ends; or in a line too long to be copied; or, when none of these   *)
(*   is so, in a text without a file name;                                    *)
(*   what is called is no name, or the NULL of a failed call, of which an error *)
(*   is on record that the parser went past;                                  *)
(*   a class has one of the parts that are not implemented.                   *)
Count(type) == Cardinality({i \in 1 .. Len(tokens) : tokens[i].type = type})
Unfinished == Len(tokens) = 0 \/ tokens[Len(tokens)].type # "}" \/ Count("{") # Count("}")
LineOf(i) == tokens[i].line
OnLastLine(i) == LineOf(i) = 1 + Cardinality(Newlines(input))
TooLongFor(i) ==
  \E first \in 1 .. tokens[i].start + 1 :
    LET last == first + (ERROR_MESSAGE_MAX \div 4) - 1
    IN  tokens[i].start < last /\ last <= Len(input) /\ first .. last \cap Newlines(input) = {}
BehindName(i) == tokens[i].type = "T_SYMBOL" /\ tokens[i - 1].type \notin {".", "::"}
CauseHolds(i) ==
  CASE crash.why = "no token" -> i = Len(tokens) + 1 /\ Unfinished
    [] crash.why = "no newline" -> OnLastLine(i)
    [] crash.why = "long line" -> TooLongFor(i)
    [] crash.why = "no file name" -> ~filename /\ ~OnLastLine(i) /\ ~TooLongFor(i)
    [] crash.why = "no value" -> tokens[i - 1].type = "(" /\ crash.error # << >>
    [] crash.why = "not implemented" ->
         \/ i <= Len(tokens) /\ tokens[i].type \in {"get", "set", "constructor"}
         \/ tokens[i - 1].type = "(" /\ ~BehindName(i - 2)
CrashesHaveCause == phase = "crashed" => CauseHolds(crash.at)

(* Every text ends the lexer and the parser, accepted, refused or crashed; how, *)
(* the other properties say.                                                 *)
Terminates == <>(phase \in Ended)

(* parser.c, at parse_unaryexpr: something like `!!!blah` is not supported.    *)
(* `!!!blah` itself is refused; other stacks of unary operators are not.      *)
Unary == {"+", "-", "!"}
Stacked ==
  \E i \in 2 .. Len(tokens) - 1 :
    /\ {tokens[i].type, tokens[i + 1].type} \subseteq Unary
    /\ tokens[i - 1].type \in {"=", "(", ",", "return"}
StackedUnaryRefused == phase = "parsed" => ~Stacked
=============================================================================
