-------------------------------- MODULE Lexer --------------------------------
(***************************************************************************)
(* tokenize of lexer.c.  A step is one round of its loop: it skips a space  *)
(* or a comment, or appends a token, or sets a message and stops.  A text is *)
(* a string; its characters are numbered from 0 and NUL follows the last.   *)
(***************************************************************************)
EXTENDS SymbolTable, FiniteSets

CONSTANTS
  Texts,      \* the source texts
  INT64_MAX   \* largest integer literal

ASSUME LexerAssumption == INT64_MAX \in Nat /\ \A t \in Texts : Len(t) \in Nat

VARIABLES
  input,
  offset,     \* of the next character
  line, column,
  tokens,
  symbols,    \* globals->symbol_table
  entrypoint, \* symbol of main, 0 until it occurs
  message     \* "none" or what is wrong

lexer == <<input, offset, line, column, tokens, symbols, entrypoint, message>>
-----------------------------------------------------------------------------
(* Characters.                                                               *)

NUL == "NUL"
Quote == "\""
At(i) == IF i < Len(input) THEN SubSeq(input, i + 1, i + 1) ELSE NUL
CharsOf(s) == {SubSeq(s, i, i) : i \in 1 .. Len(s)}

Spaces == {" ", "\t", "\n", "\r"}
Digits == {"0", "1", "2", "3", "4", "5", "6", "7", "8", "9"}
Letters ==
  {"a", "b", "c", "d", "e", "f", "g", "h", "i", "j", "k", "l", "m", "n", "o", "p", "q", "r", "s", "t", "u", "v", "w",
   "x", "y", "z", "A", "B", "C", "D", "E", "F", "G", "H", "I", "J", "K", "L", "M", "N", "O", "P", "Q", "R", "S", "T",
   "U", "V", "W", "X", "Y", "Z"}
WordChars == Letters \cup Digits \cup {"_"}
SymbolChars == {"|", "!", "+", "-", "*", "/", "=", "<", ">", "(", ")", "{", "}", "[", "]", ",", "&", ";", ":", "."}
                                                      \* is_symbol: no %
Terminals == SymbolChars \cup Spaces \cup {NUL}

(* The code of a character: ASCII lists the printable ones in order.         *)
ASCII == " !\"#$%&'()*+,-./0123456789:;<=>?@ABCDEFGHIJKLMNOPQRSTUVWXYZ[\\]^_"
CodeOf(c) ==
  CASE c = "\t" -> 9 [] c = "\n" -> 10 [] c = "\r" -> 13
    [] c \in CharsOf(ASCII) -> 31 + CHOOSE i \in 1 .. Len(ASCII) : SubSeq(ASCII, i, i) = c
    [] OTHER -> 96 + CHOOSE i \in 1 .. 30 : SubSeq("abcdefghijklmnopqrstuvwxyz{|}~", i, i) = c

(* The first position from i on whose character is, or is not, among chars.  *)
Until(i, chars) ==
  CHOOSE j \in i .. Len(input) : At(j) \in chars /\ \A k \in i .. j - 1 : At(k) \notin chars
Past(i, chars) ==
  CHOOSE j \in i .. Len(input) : At(j) \notin chars /\ \A k \in i .. j - 1 : At(k) \in chars

Slice(i, j) == SubSeq(input, i + 1, j)                  \* characters i to j - 1
-----------------------------------------------------------------------------
(* The tables of fixed tokens.  The type of such a token is its text.        *)

keywords == {"if", "else", "for", "in", "while", "function", "get", "set", "constructor", "let", "new",
             "string", "byte", "int", "float", "bool", "null", "class", "return", "break", "continue",
             "true", "false"}
symbols2 == {"&&", "||", "==", "!=", "<=", ">=", "++", "--", "::"}
symbols1 == {"!", "+", "-", "*", "/", "%", "=", "<", ">", "(", ")", "{", "}", "[", "]", ",", "&", ";", ":", "."}

(* How the fixed tokens are spelled: provers take strings for atoms.           *)
ASSUME SpellingAssumption ==
  /\ \A s \in keywords \cup symbols2 \cup symbols1 : Len(s) \in Nat \ {0} /\ CharsOf(s) \cap (Spaces \cup {NUL}) = {}
  /\ Len("//") = 2 /\ CharsOf("//") = {"/"}

(* The loop of match, character by character.                                *)
StartsAt(i, str) == \A k \in 1 .. Len(str) : At(i + k - 1) = SubSeq(str, k, k)
StartsWith(str) == StartsAt(offset, str)

(* match, with and without require_terminal.                                *)
Matches(str, require_terminal) ==
  StartsWith(str) /\ (require_terminal => At(offset + Len(str)) \in Terminals)

(* match_simple_token: what the first table with a match has.  Mutant: the    *)
(* tables of one and of two characters are swapped.                          *)
ShortFirst ==
  LET two == {s \in symbols2 : Matches(s, FALSE)}
      one == {s \in symbols1 : Matches(s, FALSE)}
  IN  IF one # {} THEN one ELSE IF two # {} THEN two ELSE {s \in keywords : Matches(s, TRUE)}
SimpleTokens ==
  LET two == {s \in symbols2 : Matches(s, FALSE)}
      one == {s \in symbols1 : Matches(s, FALSE)}
  IN  IF two # {} THEN two ELSE IF one # {} THEN one ELSE {s \in keywords : Matches(s, TRUE)}
-----------------------------------------------------------------------------
(* One round of the loop.                                                    *)

has_next == offset <= Len(input) /\ At(offset) # NUL
Scanning == message = "none" /\ has_next

(* Consume up to position j, none of it a newline.                           *)
AdvanceTo(j) == offset' = j /\ column' = column + (j - offset) /\ line' = line

new_token(type, start, end, val) ==
  [type |-> type, start |-> start, end |-> end, val |-> val,
   line |-> line, column |-> column + (end - offset)]

(* The token ends at end, the consumed text at j.  Mutant: the closing quote   *)
(* of a string is left behind.                                               *)
EmitNoQuote(type, start, end, j, val) ==
  /\ tokens' = Append(tokens, new_token(type, start, end, val))
  /\ AdvanceTo(end)
  /\ UNCHANGED message
Emit(type, start, end, j, val) ==
  /\ tokens' = Append(tokens, new_token(type, start, end, val))
  /\ AdvanceTo(j)
  /\ UNCHANGED message

Refuse(j, why) == message' = why /\ AdvanceTo(j) /\ UNCHANGED tokens

EmptyFile ==
  /\ message = "none" /\ Len(input) = 0
  /\ Refuse(0, "file_empty")
  /\ UNCHANGED <<input, symbols, entrypoint>>

(* Mutants: a newline keeps the column; a space is not consumed.              *)
SpaceStays == Scanning /\ At(offset) \in Spaces /\ UNCHANGED lexer
SpaceKeepsColumn ==
  /\ Scanning /\ At(offset) \in Spaces
  /\ offset' = offset + 1
  /\ column' = column + 1 /\ line' = IF At(offset) = "\n" THEN line + 1 ELSE line
  /\ UNCHANGED <<input, tokens, symbols, entrypoint, message>>

Space ==
  /\ Scanning /\ At(offset) \in Spaces
  /\ offset' = offset + 1
  /\ IF At(offset) = "\n" THEN line' = line + 1 /\ column' = 1
     ELSE line' = line /\ column' = column + 1
  /\ UNCHANGED <<input, tokens, symbols, entrypoint, message>>

Comment ==
  /\ Scanning /\ StartsWith("//")
  /\ AdvanceTo(Until(offset + 2, {"\n", NUL}))
  /\ UNCHANGED <<input, tokens, symbols, entrypoint, message>>

(* str_to_int64: the value of the digits before j, or more than INT64_MAX.   *)
IntegerAt(j) ==
  LET digit(i) == CodeOf(At(i)) - 48
      num[i \in offset .. j] ==
        IF i = offset THEN 0
        ELSE LET n == num[i - 1]
             IN  IF n > INT64_MAX THEN n
                 ELSE n * 10 + digit(i - 1)
  IN  num[j]

Number ==
  /\ Scanning /\ At(offset) \in Digits
  /\ LET j == Past(offset, Digits)
         k == Past(j + 1, Digits)
     IN  IF At(j) \notin Terminals THEN Refuse(j, "bad_number")
         ELSE IF At(j) = "."
         THEN IF At(k) \notin Terminals THEN Refuse(k, "bad_number")
              ELSE Emit("T_FLOAT", offset, k, k, CharsOf(Slice(offset, k)) \cap Digits # {"0"})
         ELSE IF IntegerAt(j) > INT64_MAX
         THEN Refuse(j, "integer_too_large")
         ELSE Emit("T_INT", offset, j, j, IntegerAt(j))
  /\ UNCHANGED <<input, symbols, entrypoint>>

(* Between the quotes; there are no escapes.                                 *)
String ==
  /\ Scanning /\ At(offset) = Quote
  /\ LET j == Until(offset + 1, {Quote, "\n", NUL})
     IN  IF At(j) # Quote THEN Refuse(j, "string_end")
         ELSE Emit("T_STRING", offset + 1, j, j + 1,
                   [i \in 1 .. j - offset - 1 |-> CodeOf(At(offset + i))])
  /\ UNCHANGED <<input, symbols, entrypoint>>

(* A byte's token covers its closing quote, unlike that of a string.         *)
Byte ==
  /\ Scanning /\ At(offset) = "'"
  /\ LET c == At(offset + 1)
         escaped == At(offset + 2)
         close == IF c = "\\" THEN offset + 3 ELSE offset + 2
     IN  IF c \in {"\n", NUL} THEN Refuse(offset + 1, "byte_end")
         ELSE IF c = "'" THEN Refuse(offset + 1, "empty_byte")
         ELSE IF c = "\\" /\ escaped \notin {"n", "\\", "'"}
         THEN Refuse(offset + 2, "bad_escape")
         ELSE IF At(close) # "'" THEN Refuse(close, "byte_end")
         ELSE Emit("T_BYTE", offset + 1, close + 1, close + 1,
                   CodeOf(IF c # "\\" THEN c ELSE IF escaped = "n" THEN "\n" ELSE escaped))
  /\ UNCHANGED <<input, symbols, entrypoint>>

Simple ==
  /\ Scanning /\ ~StartsWith("//")
  /\ \E s \in SimpleTokens : Emit(s, offset, offset + Len(s), offset + Len(s), 0)
  /\ UNCHANGED <<input, symbols, entrypoint>>

Symbol ==
  /\ Scanning /\ At(offset) \in Letters \cup {"_"} /\ SimpleTokens = {}
  /\ LET j == Past(offset, WordChars)
         name == Slice(offset, j)
     IN  IF At(j) \notin Terminals
         THEN Refuse(j, "bad_name") /\ UNCHANGED <<symbols, entrypoint>>
         ELSE /\ Emit("T_SYMBOL", offset, j, j, SymbolOf(symbols, name))
              /\ symbols' = add_symbol(symbols, name)
              /\ entrypoint' = IF name = "main" THEN SymbolOf(symbols, name) ELSE entrypoint
  /\ UNCHANGED input

Illegal ==
  /\ Scanning
  /\ At(offset) \notin Spaces \cup WordChars \cup {Quote, "'"} /\ SimpleTokens = {}
  /\ Refuse(offset, "illegal_character")
  /\ UNCHANGED <<input, symbols, entrypoint>>

LexInit ==
  /\ input \in Texts
  /\ offset = 0 /\ line = 1 /\ column = 1
  /\ tokens = << >> /\ symbols = init_symbol_table /\ entrypoint = 0 /\ message = "none"

Lex == EmptyFile \/ Space \/ Comment \/ Number \/ String \/ Byte \/ Simple \/ Symbol \/ Illegal

LexSpec == LexInit /\ [][Lex]_lexer
-----------------------------------------------------------------------------
(* Types: the cursor is in the text, tokens are behind it, a name has one      *)
(* symbol and the entrypoint is that of main.                                *)
LexTypeOK ==
  /\ offset \in 0 .. Len(input) /\ line \in Nat \ {0} /\ column \in Nat \ {0}
  /\ \A i \in 1 .. Len(tokens) : tokens[i].start \in 0 .. Len(input) /\ tokens[i].end \in tokens[i].start .. offset
  /\ \A i, j \in 1 .. Len(symbols) : symbols[i] = symbols[j] => i = j
  /\ entrypoint \in 0 .. Len(symbols) - 1 /\ (entrypoint # 0 => symbols[entrypoint + 1] = "main")

(* The line and column that lexer.c counts while it moves (next, match) are   *)
(* those of its offset in the text, and a token records those of its end.     *)
(* (Here and below a token is looked at while it is the newest one.)          *)
IsPosition(l, c, i) ==
  /\ l = Cardinality({k \in 0 .. i - 1 : At(k) = "\n"}) + 1
  /\ c \in 1 .. i + 1 /\ (c <= i => At(i - c) = "\n")
  /\ \A k \in i - c + 1 .. i - 1 : At(k) # "\n"
Newest == Len(tokens)
PositionsAgree ==
  /\ IsPosition(line, column, offset)
  /\ Newest > 0 => IsPosition(tokens[Newest].line, tokens[Newest].column, tokens[Newest].end)

(* Nothing of the text is lost or read twice: between two tokens, and behind   *)
(* the last while the lexer has not refused, are only spaces and comments.    *)
Before(i) == IF i = 1 THEN 0 ELSE tokens[i - 1].end + IF tokens[i - 1].type = "T_STRING" THEN 1 ELSE 0
After(i) == IF i > Len(tokens) THEN offset
            ELSE tokens[i].start - IF tokens[i].type \in {"T_STRING", "T_BYTE"} THEN 1 ELSE 0
Blank(first, end) ==
  \A k \in first .. end - 1 :
    \/ At(k) \in Spaces
    \/ \E c \in first .. k : /\ At(c) = "/" /\ At(c + 1) = "/" /\ c + 1 < end
                             /\ \A m \in c .. k : At(m) # "\n"
TokensTile ==
  \A i \in {Newest, Newest + 1} \ {0} :
    i = Newest \/ message = "none" => Before(i) <= After(i) /\ Blank(Before(i), After(i))

(* Every token is as long as it can be: no symbol of one character begins one  *)
(* of two or a comment, no word or number goes on behind its token, and no    *)
(* name is a keyword (match_simple_token's order of tables and terminals).    *)
Maximal(t) ==
  /\ t.type \in symbols1 => \A s \in symbols2 \cup {"//"} : ~StartsAt(t.start, s)
  /\ t.type \in keywords \cup {"T_SYMBOL", "T_INT", "T_FLOAT"} => At(t.end) \notin WordChars
  /\ t.type = "T_SYMBOL" => \A s \in keywords : StartsAt(t.start, s) => t.end # t.start + Len(s)
LexemesMaximal == Newest > 0 => Maximal(tokens[Newest])
=============================================================================
