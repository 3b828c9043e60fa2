------------------------------ MODULE LexerProofs ------------------------------
(***************************************************************************)
(* Whatever the text: the lexer reads every character once, its tokens are   *)
(* as long as they can be, and the positions that it counts are right.       *)
(***************************************************************************)
EXTENDS Lexer, FiniteSetTheorems, WellFoundedInduction, TLAPS

IsList(s) == \E S : s \in Seq(S)

LEMMA AppendIsList ==
  ASSUME NEW s, IsList(s), NEW e
  PROVE  /\ IsList(Append(s, e)) /\ Len(s) \in Nat /\ Len(Append(s, e)) = Len(s) + 1
         /\ Append(s, e)[Len(s) + 1] = e
         /\ \A i \in 1 .. Len(s) : Append(s, e)[i] = s[i]
<1>1. PICK S : s \in Seq(S)
  BY DEF IsList
<1>2. s \in Seq(S \cup {e})
  BY <1>1
<1>3. e \in S \cup {e}
  OBVIOUS
<1>4. QED
  BY <1>2, <1>3 DEF IsList

LEMMA LeastPosition ==
  ASSUME NEW T \in SUBSET Nat, T # {}
  PROVE  \E x \in T : \A y \in T : x <= y
<1>1. PICK x \in T : \A y \in T : ~ (<<y, x>> \in OpToRel(<, Nat))
  BY NatLessThanWellFounded, WFMin, Zenon
<1>2. \A y \in Nat : ~ (<<y, x>> \in OpToRel(<, Nat)) => ~ (x \in Nat /\ y < x)
  BY Zenon DEF OpToRel
<1>3. \A y \in T : ~ (y < x)
  BY <1>1, <1>2, Zenon
<1>4. QED
  BY <1>3
-----------------------------------------------------------------------------
(* Characters.                                                               *)
LEMMA Classes ==
  /\ "\n" \notin WordChars /\ NUL \notin WordChars /\ "\n" \notin Digits /\ NUL \notin Digits
  /\ Digits \subseteq WordChars /\ Letters \subseteq WordChars
  /\ Terminals \cap WordChars = {} /\ "\n" # NUL /\ "/" # "\n" /\ Quote # "\n" /\ "." # "\n" /\ "'" # "\n" /\ "\\" # "\n"
  /\ "." # NUL /\ "/" # NUL /\ Quote # NUL /\ "'" # NUL
  /\ "n" # "\n" /\ "n" # NUL /\ "\\" # NUL
  BY DEF WordChars, Letters, Digits, Terminals, SymbolChars, Spaces, NUL, Quote

(* Behind the end there is nothing.                                          *)
LEMMA Ends ==
  ASSUME input \in Texts
  PROVE  /\ Len(input) \in Nat
         /\ \A i \in Nat : At(i) # NUL => i < Len(input)
         /\ At(Len(input)) = NUL
<1>1. Len(input) \in Nat
  BY LexerAssumption
<1>2. QED
  BY <1>1 DEF At

(* The two scanning loops stop, at the first character that they look for.      *)
LEMMA UntilStops ==
  ASSUME input \in Texts, NEW i \in 0 .. Len(input), NEW chars, NUL \in chars
  PROVE  /\ Until(i, chars) \in i .. Len(input) /\ At(Until(i, chars)) \in chars
         /\ \A k \in i .. Until(i, chars) - 1 : At(k) \notin chars
<1> DEFINE T == {j \in i .. Len(input) : At(j) \in chars}
<1>1. Len(input) \in Nat /\ At(Len(input)) = NUL
  BY Ends
<1>2. T \in SUBSET Nat /\ Len(input) \in T
  BY <1>1
<1>3. PICK j \in T : \A k \in T : j <= k
  BY <1>2, LeastPosition
<1>4. \A k \in i .. j - 1 : k \in i .. Len(input) /\ ~ (j <= k)
  BY <1>1
<1>5. \A k \in i .. j - 1 : At(k) \notin chars
  BY <1>3, <1>4
<1>6. QED
  BY <1>3, <1>5 DEF Until

LEMMA PastStops ==
  ASSUME input \in Texts, NEW i \in 0 .. Len(input), NEW chars, NUL \notin chars
  PROVE  /\ Past(i, chars) \in i .. Len(input) /\ At(Past(i, chars)) \notin chars
         /\ \A k \in i .. Past(i, chars) - 1 : At(k) \in chars
<1> DEFINE T == {j \in i .. Len(input) : At(j) \notin chars}
<1>1. Len(input) \in Nat /\ At(Len(input)) = NUL
  BY Ends
<1>2. T \in SUBSET Nat /\ Len(input) \in T
  BY <1>1
<1>3. PICK j \in T : \A k \in T : j <= k
  BY <1>2, LeastPosition
<1>4. \A k \in i .. j - 1 : k \in i .. Len(input) /\ ~ (j <= k)
  BY <1>1
<1>5. \A k \in i .. j - 1 : At(k) \in chars
  BY <1>3, <1>4
<1>6. QED
  BY <1>3, <1>5 DEF Past

(* A fixed token that matches lies within the text, on one line.                *)
Fixed == keywords \cup symbols2 \cup symbols1
LEMMA FixedMatches ==
  ASSUME input \in Texts, NEW i \in Nat, NEW s \in Fixed, StartsAt(i, s)
  PROVE  Len(s) \in Nat \ {0} /\ i + Len(s) <= Len(input) /\ \A k \in i .. i + Len(s) - 1 : At(k) # "\n"
<1>1. Len(s) \in Nat \ {0} /\ CharsOf(s) \cap (Spaces \cup {NUL}) = {}
  BY SpellingAssumption DEF Fixed
<1>2. \A k \in i .. i + Len(s) - 1 : At(k) \in CharsOf(s)
  <2> TAKE k \in i .. i + Len(s) - 1
  <2>1. PICK m \in 1 .. Len(s) : m = k - i + 1
    BY <1>1
  <2>2. At(i + m - 1) = SubSeq(s, m, m)
    BY DEF StartsAt
  <2>3. i + m - 1 = k
    BY <2>1
  <2>4. QED
    BY <2>2, <2>3 DEF CharsOf
<1>3. \A k \in i .. i + Len(s) - 1 : At(k) # "\n" /\ At(k) # NUL
  BY <1>1, <1>2 DEF Spaces
<1>4. i + Len(s) - 1 \in i .. i + Len(s) - 1 /\ i + Len(s) - 1 \in Nat
  BY <1>1
<1>5. i + Len(s) - 1 < Len(input)
  BY <1>3, <1>4, Ends
<1>6. QED
  BY <1>1, <1>3, <1>5, Ends

LEMMA SlashesMatch ==
  ASSUME input \in Texts, NEW i \in Nat, StartsAt(i, "//")
  PROVE  At(i) = "/" /\ At(i + 1) = "/" /\ i + 2 <= Len(input)
<1>1. Len("//") = 2 /\ CharsOf("//") = {"/"}
  BY SpellingAssumption
<1>2. 1 \in 1 .. Len("//") /\ 2 \in 1 .. Len("//")
  BY <1>1
<1>3. SubSeq("//", 1, 1) \in CharsOf("//") /\ SubSeq("//", 2, 2) \in CharsOf("//")
  BY <1>2 DEF CharsOf
<1>4. At(i + 1 - 1) = SubSeq("//", 1, 1) /\ At(i + 2 - 1) = SubSeq("//", 2, 2)
  BY <1>2 DEF StartsAt
<1>5. i + 1 - 1 = i /\ i + 2 - 1 = i + 1
  OBVIOUS
<1>6. At(i) = "/" /\ At(i + 1) = "/"
  BY <1>1, <1>3, <1>4, <1>5
<1>7. i + 1 < Len(input)
  BY <1>6, Ends, Classes
<1>8. QED
  BY <1>6, <1>7, Ends
-----------------------------------------------------------------------------
(* Positions.                                                                *)
LEMMA SameLine ==
  ASSUME NEW i \in Nat, NEW j \in Nat, i <= j, \A k \in i .. j - 1 : At(k) # "\n",
         NEW l, NEW c, IsPosition(l, c, i)
  PROVE  IsPosition(l, c + (j - i), j)
<1>1. {k \in 0 .. j - 1 : At(k) = "\n"} = {k \in 0 .. i - 1 : At(k) = "\n"}
  OBVIOUS
<1>2. c \in 1 .. i + 1 /\ (c <= i => At(i - c) = "\n") /\ \A k \in i - c + 1 .. i - 1 : At(k) # "\n"
  BY DEF IsPosition
<1>3. c + (j - i) \in 1 .. j + 1 /\ j - (c + (j - i)) = i - c /\ (c + (j - i) <= j => c <= i)
  BY <1>2
<1>4. \A k \in j - (c + (j - i)) + 1 .. j - 1 : k \in i - c + 1 .. i - 1 \/ k \in i .. j - 1
  BY <1>2, <1>3
<1>5. QED
  BY <1>1, <1>2, <1>3, <1>4 DEF IsPosition

LEMMA NextLine ==
  ASSUME NEW i \in Nat, At(i) = "\n", NEW l, NEW c, IsPosition(l, c, i)
  PROVE  IsPosition(l + 1, 1, i + 1) /\ l \in Nat \ {0}
<1>1. PICK S : S = {k \in 0 .. i - 1 : At(k) = "\n"}
  OBVIOUS
<1>2. {k \in 0 .. (i + 1) - 1 : At(k) = "\n"} = S \cup {i}
  BY <1>1
<1>3. IsFiniteSet(S) /\ i \notin S
  <2>1. IsFiniteSet(0 .. i - 1)
    BY FS_Interval
  <2>2. S \subseteq 0 .. i - 1
    BY <1>1
  <2>3. QED
    BY <1>1, <2>1, <2>2, FS_Subset
<1>4. Cardinality(S \cup {i}) = Cardinality(S) + 1 /\ Cardinality(S) \in Nat
  BY <1>3, FS_AddElement, FS_CardinalityType
<1>5. l = Cardinality(S) + 1
  BY <1>1 DEF IsPosition
<1>6. l + 1 = Cardinality({k \in 0 .. (i + 1) - 1 : At(k) = "\n"}) + 1
  BY <1>2, <1>4, <1>5
<1>7. 1 \in 1 .. (i + 1) + 1 /\ (i + 1) - 1 = i /\ (i + 1) - 1 + 1 .. (i + 1) - 1 = {}
  OBVIOUS
<1>8. QED
  BY <1>4, <1>5, <1>6, <1>7 DEF IsPosition
-----------------------------------------------------------------------------
LEMMA BlankJoins ==
  ASSUME NEW b \in Nat, NEW o \in Nat, NEW e \in Nat, b <= o, o <= e, Blank(b, o), Blank(o, e)
  PROVE  Blank(b, e)
<1> SUFFICES ASSUME NEW k \in b .. e - 1, At(k) \notin Spaces
             PROVE  \E c \in b .. k : /\ At(c) = "/" /\ At(c + 1) = "/" /\ c + 1 < e
                                      /\ \A m \in c .. k : At(m) # "\n"
  BY DEF Blank
<1>1. CASE k < o
  <2>1. k \in b .. o - 1
    BY <1>1
  <2>2. PICK c \in b .. k : At(c) = "/" /\ At(c + 1) = "/" /\ c + 1 < o /\ \A m \in c .. k : At(m) # "\n"
    BY <2>1 DEF Blank
  <2>3. c + 1 < e
    BY <2>2
  <2>4. QED
    BY <2>2, <2>3
<1>2. CASE k >= o
  <2>1. k \in o .. e - 1
    BY <1>2
  <2>2. PICK c \in o .. k : At(c) = "/" /\ At(c + 1) = "/" /\ c + 1 < e /\ \A m \in c .. k : At(m) # "\n"
    BY <2>1 DEF Blank
  <2>3. c \in b .. k
    OBVIOUS
  <2>4. QED
    BY <2>2, <2>3
<1>3. QED
  BY <1>1, <1>2
-----------------------------------------------------------------------------
(* The inductive invariant, and the three things that a round may do to it:     *)
(* skip blank text, refuse the text, or append a token.                       *)
CursorOK ==
  /\ offset \in 0 .. Len(input) /\ line \in Nat \ {0} /\ column \in Nat \ {0}
  /\ \A i \in 1 .. Len(tokens) : tokens[i].start \in 0 .. Len(input) /\ tokens[i].end \in tokens[i].start .. offset
NamesOK ==
  /\ IsList(symbols) /\ symbols # << >>
  /\ \A i, j \in 1 .. Len(symbols) : symbols[i] = symbols[j] => i = j
  /\ entrypoint \in 0 .. Len(symbols) - 1 /\ (entrypoint # 0 => symbols[entrypoint + 1] = "main")
ScanInv == input \in Texts /\ IsList(tokens) /\ CursorOK /\ PositionsAgree /\ TokensTile /\ LexemesMaximal
LexInv == ScanInv /\ NamesOK

OneLine(j) == j \in offset .. Len(input) /\ \A k \in offset .. j - 1 : At(k) # "\n"
Skips(j) ==
  /\ j \in offset .. Len(input) /\ Blank(offset, j) /\ offset' = j
  /\ \/ OneLine(j) /\ line' = line /\ column' = column + (j - offset)
     \/ At(offset) = "\n" /\ j = offset + 1 /\ line' = line + 1 /\ column' = 1
  /\ UNCHANGED <<tokens, message>>
Refuses(j) ==
  /\ OneLine(j) /\ AdvanceTo(j) /\ message' # "none" /\ UNCHANGED tokens
Emits(type, start, end, j, val) ==
  /\ OneLine(j) /\ start \in offset .. end /\ end \in offset .. j
  /\ offset = start - IF type \in {"T_STRING", "T_BYTE"} THEN 1 ELSE 0
  /\ j = end + IF type = "T_STRING" THEN 1 ELSE 0
  /\ Maximal(new_token(type, start, end, val))
  /\ Emit(type, start, end, j, val)
Round ==
  /\ message = "none" /\ input' = input
  /\ \/ \E j \in Nat : Skips(j) \/ Refuses(j)
     \/ \E type, start, end, j, val : Emits(type, start, end, j, val)

LEMMA TextStays ==
  ASSUME input' = input
  PROVE  /\ \A i : At(i)' = At(i)
         /\ \A l, c, i : IsPosition(l, c, i)' <=> IsPosition(l, c, i)
         /\ \A i, s : StartsAt(i, s)' <=> StartsAt(i, s)
         /\ \A b, e : Blank(b, e)' <=> Blank(b, e)
         /\ \A t : Maximal(t)' <=> Maximal(t)
  BY DEF At, IsPosition, StartsAt, Blank, Maximal

LEMMA SkipsKeeps ==
  ASSUME ScanInv, message = "none", input' = input, NEW j \in Nat, Skips(j)
  PROVE  ScanInv'
<1>1. /\ Len(input) \in Nat /\ Len(tokens) \in Nat /\ offset \in Nat /\ line \in Nat /\ column \in Nat
      /\ tokens' = tokens /\ message' = "none" /\ offset' = j /\ offset <= j /\ j <= Len(input)
  <2>1. Len(tokens) \in Nat
    BY AppendIsList DEF ScanInv
  <2>2. QED
    BY <2>1, Ends DEF ScanInv, CursorOK, Skips
<1>2. IsPosition(line', column', offset') /\ line' \in Nat \ {0} /\ column' \in Nat \ {0}
  <2>1. IsPosition(line, column, offset)
    BY DEF ScanInv, PositionsAgree
  <2>2. CASE OneLine(j) /\ line' = line /\ column' = column + (j - offset)
    <3>1. \A k \in offset .. j - 1 : At(k) # "\n"
      BY <2>2 DEF OneLine
    <3>2. IsPosition(line, column + (j - offset), j)
      BY <1>1, <2>1, <3>1, SameLine
    <3>3. QED
      BY <1>1, <2>2, <3>2 DEF ScanInv, CursorOK
  <2>3. CASE At(offset) = "\n" /\ j = offset + 1 /\ line' = line + 1 /\ column' = 1
    BY <1>1, <2>1, <2>3, NextLine
  <2>4. QED
    BY <2>2, <2>3 DEF Skips
<1>3. CursorOK'
  <2>1. \A i \in 1 .. Len(tokens) : tokens[i].start \in 0 .. Len(input) /\ tokens[i].end \in tokens[i].start .. offset
    BY DEF ScanInv, CursorOK
  <2>2. \A i \in 1 .. Len(tokens) : tokens[i].end \in tokens[i].start .. j
    BY <1>1, <2>1
  <2>3. QED
    BY <1>1, <1>2, <2>1, <2>2 DEF CursorOK
<1>4. PositionsAgree'
  BY <1>1, <1>2, TextStays DEF ScanInv, PositionsAgree, Newest
<1>5. TokensTile'
  <2>1. \A i \in 1 .. Len(tokens) : Before(i)' = Before(i) /\ After(i)' = After(i)
    BY <1>1 DEF Before, After
  <2>2. Newest' = Newest /\ Before(Newest + 1)' = Before(Newest + 1) /\ After(Newest + 1) = offset /\ After(Newest + 1)' = j
    BY <1>1 DEF Before, After, Newest
  <2>3. Before(Newest + 1) <= offset /\ Blank(Before(Newest + 1), offset)
    BY <1>1, <2>2 DEF ScanInv, TokensTile, Newest
  <2>4. Before(Newest + 1) \in Nat
    BY <1>1 DEF ScanInv, CursorOK, Before, Newest
  <2>5. Blank(Before(Newest + 1), j) /\ Before(Newest + 1) <= j
    BY <1>1, <2>3, <2>4, BlankJoins DEF Skips
  <2>6. Newest # 0 => Before(Newest) <= After(Newest) /\ Blank(Before(Newest), After(Newest))
    BY <1>1 DEF ScanInv, TokensTile, Newest
  <2>7. ASSUME NEW i \in {Newest, Newest + 1} \ {0}
        PROVE  Before(i)' <= After(i)' /\ Blank(Before(i)', After(i)')
    BY <1>1, <2>1, <2>2, <2>5, <2>6, <2>7 DEF Newest
  <2>8. QED
    BY <2>2, <2>7, TextStays DEF TokensTile
<1>6. LexemesMaximal'
  BY <1>1, TextStays DEF ScanInv, LexemesMaximal, Newest
<1>7. QED
  BY <1>1, <1>3, <1>4, <1>5, <1>6 DEF ScanInv

LEMMA RefusesKeeps ==
  ASSUME ScanInv, message = "none", input' = input, NEW j \in Nat, Refuses(j)
  PROVE  ScanInv'
<1>1. /\ Len(input) \in Nat /\ Len(tokens) \in Nat /\ offset \in Nat /\ line \in Nat \ {0} /\ column \in Nat \ {0}
      /\ tokens' = tokens /\ message' # "none" /\ offset' = j /\ offset <= j /\ j <= Len(input)
      /\ line' = line /\ column' = column + (j - offset)
  <2>1. Len(tokens) \in Nat
    BY AppendIsList DEF ScanInv
  <2>2. QED
    BY <2>1, Ends DEF ScanInv, CursorOK, Refuses, OneLine, AdvanceTo
<1>2. IsPosition(line', column', offset')
  BY <1>1, SameLine DEF ScanInv, PositionsAgree, Refuses, OneLine
<1>3. CursorOK'
  <2>1. \A i \in 1 .. Len(tokens) : tokens[i].start \in 0 .. Len(input) /\ tokens[i].end \in tokens[i].start .. offset
    BY DEF ScanInv, CursorOK
  <2>2. \A i \in 1 .. Len(tokens) : tokens[i].end \in tokens[i].start .. j
    BY <1>1, <2>1
  <2>3. QED
    BY <1>1, <2>1, <2>2 DEF CursorOK
<1>4. PositionsAgree'
  BY <1>1, <1>2, TextStays DEF ScanInv, PositionsAgree, Newest
<1>5. TokensTile'
  <2>1. Newest' = Newest /\ (Newest # 0 => Before(Newest)' = Before(Newest) /\ After(Newest)' = After(Newest))
    BY <1>1 DEF Before, After, Newest
  <2>2. Newest # 0 => Before(Newest) <= After(Newest) /\ Blank(Before(Newest), After(Newest))
    BY <1>1 DEF ScanInv, TokensTile, Newest
  <2>3. QED
    BY <1>1, <2>1, <2>2, TextStays DEF TokensTile, Newest
<1>6. LexemesMaximal'
  BY <1>1, TextStays DEF ScanInv, LexemesMaximal, Newest
<1>7. QED
  BY <1>1, <1>3, <1>4, <1>5, <1>6 DEF ScanInv

LEMMA EmitsKeeps ==
  ASSUME ScanInv, message = "none", input' = input,
         NEW type, NEW start, NEW end, NEW j, NEW val, Emits(type, start, end, j, val)
  PROVE  ScanInv'
<1>1. /\ Len(input) \in Nat /\ Len(tokens) \in Nat /\ offset \in Nat /\ line \in Nat \ {0} /\ column \in Nat \ {0}
      /\ message' = "none" /\ offset' = j /\ offset <= j /\ j <= Len(input)
      /\ line' = line /\ column' = column + (j - offset)
      /\ start \in Nat /\ end \in Nat /\ j \in Nat /\ offset <= start /\ start <= end /\ end <= j
  <2>1. Len(tokens) \in Nat
    BY AppendIsList DEF ScanInv
  <2>2. QED
    BY <2>1, Ends DEF ScanInv, CursorOK, Emits, Emit, OneLine, AdvanceTo
<1>2. PICK t : t = new_token(type, start, end, val)
  OBVIOUS
<1>3. /\ t.type = type /\ t.start = start /\ t.end = end
      /\ t.line = line /\ t.column = column + (end - offset)
  BY <1>2 DEF new_token
<1>4. /\ IsList(tokens') /\ Len(tokens') = Len(tokens) + 1 /\ tokens'[Len(tokens) + 1] = t
      /\ \A i \in 1 .. Len(tokens) : tokens'[i] = tokens[i]
  <2>1. tokens' = Append(tokens, t)
    BY <1>2 DEF Emits, Emit
  <2>2. IsList(tokens)
    BY DEF ScanInv
  <2>3. QED
    BY <2>1, <2>2, AppendIsList
<1>5. IsPosition(line', column', offset') /\ IsPosition(t.line, t.column, t.end)
  <2>1. IsPosition(line, column, offset) /\ \A k \in offset .. j - 1 : At(k) # "\n"
    BY DEF ScanInv, PositionsAgree, Emits, OneLine
  <2>2. \A k \in offset .. end - 1 : At(k) # "\n"
    BY <1>1, <2>1
  <2>3. IsPosition(line, column + (j - offset), j)
    BY <1>1, <2>1, SameLine
  <2>4. IsPosition(line, column + (end - offset), end)
    BY <1>1, <2>1, <2>2, SameLine
  <2>5. QED
    BY <1>1, <1>3, <2>3, <2>4
<1>6. CursorOK'
  <2>1. \A i \in 1 .. Len(tokens) : tokens[i].start \in 0 .. Len(input) /\ tokens[i].end \in tokens[i].start .. offset
    BY DEF ScanInv, CursorOK
  <2>2. \A i \in 1 .. Len(tokens) : tokens[i].end \in tokens[i].start .. j
    <3> TAKE i \in 1 .. Len(tokens)
    <3>1. tokens[i].start \in Nat /\ tokens[i].end \in tokens[i].start .. offset
      BY <1>1, <2>1
    <3>2. QED
      BY <1>1, <3>1
  <2>3. \A i \in 1 .. Len(tokens) + 1 : i \in 1 .. Len(tokens) \/ i = Len(tokens) + 1
    BY <1>1
  <2>4. \A i \in 1 .. Len(tokens') : tokens'[i].start \in 0 .. Len(input) /\ tokens'[i].end \in tokens'[i].start .. j
    BY <1>1, <1>3, <1>4, <2>1, <2>2, <2>3
  <2>5. QED
    BY <1>1, <2>4 DEF CursorOK
<1>7. PositionsAgree'
  BY <1>1, <1>4, <1>5, TextStays DEF PositionsAgree, Newest
<1>8. TokensTile'
  <2>1. PICK n \in Nat : n = Len(tokens)
    BY <1>1
  <2>2. Newest = n /\ Newest' = n + 1
    BY <1>4, <2>1 DEF Newest
  <2>3. Before(n + 1) <= After(n + 1) /\ Blank(Before(n + 1), After(n + 1)) /\ After(n + 1) = offset
    BY <2>1, <2>2 DEF ScanInv, TokensTile, After
  <2>4. Before(n + 1)' = Before(n + 1)
    BY <1>4, <2>1 DEF Before
  <2>5. After(n + 1)' = offset
    BY <1>3, <1>4, <2>1 DEF After, Emits
  <2>6. Before(n + 2)' = j /\ After(n + 2)' = j
    BY <1>1, <1>3, <1>4, <2>1 DEF Before, After, Emits
  <2>7. Blank(j, j)
    BY <1>1 DEF Blank
  <2>8. ASSUME NEW i \in {n + 1, n + 2} PROVE Before(i)' <= After(i)' /\ Blank(Before(i)', After(i)')
    BY <1>1, <2>3, <2>4, <2>5, <2>6, <2>7
  <2>9. QED
    BY <2>2, <2>8, TextStays DEF TokensTile
<1>9. LexemesMaximal'
  BY <1>1, <1>2, <1>4, TextStays DEF LexemesMaximal, Newest, Emits
<1>10. QED
  BY <1>4, <1>6, <1>7, <1>8, <1>9 DEF ScanInv

LEMMA RoundKeeps == ScanInv /\ Round => ScanInv'
  BY SkipsKeeps, RefusesKeeps, EmitsKeeps DEF Round
-----------------------------------------------------------------------------
(* Each action is such a round.                                              *)
LEMMA AtNext ==
  ASSUME ScanInv, Scanning
  PROVE  /\ message = "none" /\ offset \in Nat /\ Len(input) \in Nat /\ offset < Len(input) /\ input \in Texts
         /\ column \in Nat
<1>1. message = "none" /\ At(offset) # NUL
  BY DEF Scanning, has_next
<1>2. input \in Texts /\ offset \in 0 .. Len(input) /\ column \in Nat
  BY DEF ScanInv, CursorOK
<1>3. QED
  BY <1>1, <1>2, Ends

LEMMA SpaceRound == ASSUME ScanInv, Space PROVE Round
<1>1. Scanning /\ At(offset) \in Spaces /\ input' = input /\ tokens' = tokens /\ message' = message /\ offset' = offset + 1
  BY DEF Space
<1>2. IF At(offset) = "\n" THEN line' = line + 1 /\ column' = 1 ELSE line' = line /\ column' = column + 1
  BY DEF Space
<1>3. offset + 1 \in offset .. Len(input) /\ offset \in Nat /\ message = "none" /\ column \in Nat
  BY <1>1, AtNext
<1>4. \A k \in offset .. (offset + 1) - 1 : k = offset
  BY <1>3
<1>5. Blank(offset, offset + 1)
  BY <1>1, <1>4 DEF Blank
<1>6. At(offset) # "\n" => OneLine(offset + 1)
  BY <1>3, <1>4 DEF OneLine
<1>7. column + 1 = column + ((offset + 1) - offset)
  BY <1>3
<1>8. Skips(offset + 1)
  BY <1>1, <1>2, <1>3, <1>5, <1>6, <1>7 DEF Skips
<1>9. QED
  BY <1>1, <1>3, <1>8 DEF Round

LEMMA CommentRound == ASSUME ScanInv, Comment PROVE Round
<1> DEFINE j == Until(offset + 2, {"\n", NUL})
<1>1. Scanning /\ StartsAt(offset, "//") /\ AdvanceTo(j) /\ input' = input /\ tokens' = tokens /\ message' = message
  BY DEF Comment, StartsWith
<1>2. offset \in Nat /\ Len(input) \in Nat /\ message = "none" /\ input \in Texts
  BY <1>1, AtNext
<1>3. At(offset) = "/" /\ At(offset + 1) = "/" /\ offset + 2 \in 0 .. Len(input)
  BY <1>1, <1>2, SlashesMatch
<1>4. j \in offset + 2 .. Len(input) /\ \A k \in offset + 2 .. j - 1 : At(k) \notin {"\n", NUL}
  BY <1>2, <1>3, UntilStops
<1> HIDE DEF j
<1>5. \A k \in offset .. j - 1 : k \in offset + 2 .. j - 1 \/ k = offset \/ k = offset + 1
  BY <1>2, <1>4
<1>6. \A k \in offset .. j - 1 : At(k) # "\n"
  BY <1>3, <1>4, <1>5, Classes
<1>7. j \in offset .. Len(input) /\ offset + 1 < j /\ j \in Nat
  BY <1>2, <1>4
<1>8. OneLine(j)
  BY <1>6, <1>7 DEF OneLine
<1>9. Blank(offset, j)
  <2> SUFFICES ASSUME NEW k \in offset .. j - 1
               PROVE  \E c \in offset .. k : /\ At(c) = "/" /\ At(c + 1) = "/" /\ c + 1 < j
                                             /\ \A m \in c .. k : At(m) # "\n"
    BY DEF Blank
  <2>1. offset \in offset .. k
    BY <1>2
  <2>2. \A m \in offset .. k : m \in offset .. j - 1
    BY <1>2, <1>7
  <2>3. QED
    BY <1>3, <1>6, <1>7, <2>1, <2>2
<1>10. Skips(j)
  BY <1>1, <1>7, <1>8, <1>9 DEF Skips, AdvanceTo
<1>11. QED
  BY <1>1, <1>2, <1>7, <1>10 DEF Round

(* The rules of the longest lexeme, for the tokens that are not fixed.          *)
LEMMA OtherTypes ==
  \A type \in {"T_STRING", "T_BYTE", "T_INT", "T_FLOAT", "T_SYMBOL"} : type \notin Fixed
  BY DEF Fixed, keywords, symbols1, symbols2

(* A refusal after text on one line.                                          *)
LEMMA RefusalRound ==
  ASSUME message = "none", input' = input, NEW j \in Nat, NEW why, why # "none", OneLine(j), Refuse(j, why)
  PROVE  Round
  BY DEF Round, Refuses, Refuse

LEMMA NumberRound == ASSUME ScanInv, Number PROVE Round
<1> DEFINE j == Past(offset, Digits)
           k == Past(j + 1, Digits)
<1>1. Scanning /\ At(offset) \in Digits /\ input' = input
  BY DEF Number
<1>2. offset \in Nat /\ Len(input) \in Nat /\ offset < Len(input) /\ message = "none" /\ input \in Texts
  BY <1>1, AtNext
<1>3. \/ At(j) \notin Terminals /\ Refuse(j, "bad_number")
      \/ At(j) = "." /\ At(k) \notin Terminals /\ Refuse(k, "bad_number")
      \/ At(j) = "." /\ At(k) \in Terminals /\ \E val : Emit("T_FLOAT", offset, k, k, val)
      \/ Refuse(j, "integer_too_large")
      \/ At(j) \in Terminals /\ \E val : Emit("T_INT", offset, j, j, val)
  BY Zenon DEF Number
<1>4. j \in offset .. Len(input) /\ \A m \in offset .. j - 1 : At(m) \in Digits
  <2>1. offset \in 0 .. Len(input) /\ NUL \notin Digits
    BY <1>2, Classes
  <2>2. QED
    BY <1>2, <2>1, PastStops
<1>5. OneLine(j) /\ j \in Nat
  BY <1>2, <1>4, Classes DEF OneLine
<1>6. At(j) = "." => j < Len(input) /\ k \in j + 1 .. Len(input) /\ \A m \in j + 1 .. k - 1 : At(m) \in Digits
  <2> SUFFICES ASSUME At(j) = "." PROVE j < Len(input) /\ k \in j + 1 .. Len(input) /\ \A m \in j + 1 .. k - 1 : At(m) \in Digits
    OBVIOUS
  <2>1. j < Len(input)
    BY <1>2, <1>5, Classes, Ends
  <2>2. j + 1 \in 0 .. Len(input) /\ NUL \notin Digits
    BY <1>2, <1>5, <2>1, Classes
  <2>3. QED
    BY <1>2, <2>1, <2>2, PastStops
<1> HIDE DEF j, k
<1>7. At(j) = "." => OneLine(k) /\ k \in Nat
  <2> SUFFICES ASSUME At(j) = "." PROVE OneLine(k) /\ k \in Nat
    OBVIOUS
  <2>1. \A m \in offset .. k - 1 : m \in offset .. j - 1 \/ m = j \/ m \in j + 1 .. k - 1
    BY <1>2, <1>4, <1>6
  <2>2. k \in offset .. Len(input) /\ k \in Nat
    BY <1>2, <1>4, <1>6
  <2>3. QED
    BY <1>4, <1>6, <2>1, <2>2, Classes DEF OneLine
<1>8. ASSUME NEW type \in {"T_INT", "T_FLOAT"}, NEW e \in Nat, NEW val, OneLine(e), At(e) \in Terminals,
             Emit(type, offset, e, e, val)
      PROVE  Round
  <2>1. Maximal(new_token(type, offset, e, val))
    <3>1. PICK t : t = new_token(type, offset, e, val)
      OBVIOUS
    <3>2. t.type = type /\ t.end = e
      BY <3>1 DEF new_token
    <3>3. type \notin symbols1 /\ type # "T_SYMBOL"
      BY OtherTypes DEF Fixed
    <3>4. QED
      BY <1>8, <3>1, <3>2, <3>3, Classes DEF Maximal
  <2>2. e \in offset .. Len(input)
    BY <1>8 DEF OneLine
  <2>3. Emits(type, offset, e, e, val)
    BY <1>2, <1>8, <2>1, <2>2 DEF Emits
  <2>4. QED
    BY <1>1, <1>2, <2>3 DEF Round
<1>9. QED
  BY <1>1, <1>2, <1>3, <1>5, <1>7, <1>8, RefusalRound

LEMMA StringRound == ASSUME ScanInv, String PROVE Round
<1> DEFINE j == Until(offset + 1, {Quote, "\n", NUL})
<1>1. Scanning /\ At(offset) = Quote /\ input' = input
  BY DEF String
<1>2. offset \in Nat /\ Len(input) \in Nat /\ offset < Len(input) /\ message = "none" /\ input \in Texts
  BY <1>1, AtNext
<1>3. \/ At(j) # Quote /\ Refuse(j, "string_end")
      \/ At(j) = Quote /\ \E val : Emit("T_STRING", offset + 1, j, j + 1, val)
  BY Zenon DEF String
<1>4. j \in offset + 1 .. Len(input) /\ \A m \in offset + 1 .. j - 1 : At(m) \notin {Quote, "\n", NUL}
  <2>1. offset + 1 \in 0 .. Len(input)
    BY <1>2
  <2>2. QED
    BY <1>2, <2>1, UntilStops
<1> HIDE DEF j
<1>5. \A m \in offset .. j - 1 : m = offset \/ m \in offset + 1 .. j - 1
  BY <1>2, <1>4
<1>6. OneLine(j) /\ j \in Nat
  BY <1>1, <1>2, <1>4, <1>5, Classes DEF OneLine
<1>7. ASSUME NEW val, At(j) = Quote, Emit("T_STRING", offset + 1, j, j + 1, val) PROVE Round
  <2>1. j < Len(input)
    BY <1>2, <1>6, <1>7, Classes, Ends
  <2>2. \A m \in offset .. (j + 1) - 1 : m \in offset .. j - 1 \/ m = j
    BY <1>2, <1>6
  <2>3. OneLine(j + 1)
    BY <1>2, <1>4, <1>6, <1>7, <2>1, <2>2, Classes DEF OneLine
  <2>4. Maximal(new_token("T_STRING", offset + 1, j, val))
    <3>1. PICK t : t = new_token("T_STRING", offset + 1, j, val)
      OBVIOUS
    <3>2. t.type = "T_STRING"
      BY <3>1 DEF new_token
    <3>3. QED
      BY <3>1, <3>2, OtherTypes DEF Maximal, Fixed
  <2>5. Emits("T_STRING", offset + 1, j, j + 1, val)
    BY <1>2, <1>4, <1>7, <2>3, <2>4 DEF Emits
  <2>6. QED
    BY <1>1, <1>2, <2>5 DEF Round
<1>8. QED
  BY <1>1, <1>2, <1>3, <1>6, <1>7, RefusalRound

LEMMA ByteRound == ASSUME ScanInv, Byte PROVE Round
<1> DEFINE c == At(offset + 1)
           close == IF c = "\\" THEN offset + 3 ELSE offset + 2
<1>1. Scanning /\ At(offset) = "'" /\ input' = input
  BY DEF Byte
<1>2. offset \in Nat /\ Len(input) \in Nat /\ offset < Len(input) /\ message = "none" /\ input \in Texts
  BY <1>1, AtNext
<1>3. \/ Refuse(offset + 1, "byte_end") \/ Refuse(offset + 1, "empty_byte")
      \/ c \notin {"\n", NUL} /\ c = "\\" /\ Refuse(offset + 2, "bad_escape")
      \/ /\ c \notin {"\n", NUL} /\ (c = "\\" => At(offset + 2) \in {"n", "\\", "'"})
         /\ \/ Refuse(close, "byte_end")
            \/ At(close) = "'" /\ \E val : Emit("T_BYTE", offset + 1, close + 1, close + 1, val)
  BY Zenon DEF Byte
<1>4. OneLine(offset + 1)
  <2>1. \A m \in offset .. (offset + 1) - 1 : m = offset
    BY <1>2
  <2>2. offset + 1 \in offset .. Len(input)
    BY <1>2
  <2>3. QED
    BY <1>1, <2>1, <2>2, Classes DEF OneLine
<1>5. c \notin {"\n", NUL} => OneLine(offset + 2)
  <2> SUFFICES ASSUME c \notin {"\n", NUL} PROVE OneLine(offset + 2)
    OBVIOUS
  <2>1. \A m \in offset .. (offset + 2) - 1 : m = offset \/ m = offset + 1
    BY <1>2
  <2>2. offset + 1 < Len(input)
    BY <1>2, Ends
  <2>3. offset + 2 \in offset .. Len(input)
    BY <1>2, <2>2
  <2>4. QED
    BY <1>1, <2>1, <2>3, Classes DEF OneLine
<1>6. c \notin {"\n", NUL} /\ (c = "\\" => At(offset + 2) \in {"n", "\\", "'"}) => OneLine(close)
  <2> SUFFICES ASSUME c \notin {"\n", NUL}, c = "\\" => At(offset + 2) \in {"n", "\\", "'"} PROVE OneLine(close)
    OBVIOUS
  <2>1. CASE c # "\\"
    BY <1>5, <2>1
  <2>2. CASE c = "\\"
    <3>1. At(offset + 2) # NUL /\ At(offset + 2) # "\n"
      BY <2>2, Classes
    <3>2. offset + 2 < Len(input)
      BY <1>2, <3>1, Ends
    <3>3. \A m \in offset .. (offset + 3) - 1 : m \in offset .. (offset + 2) - 1 \/ m = offset + 2
      BY <1>2
    <3>4. offset + 3 \in offset .. Len(input)
      BY <1>2, <3>2
    <3>5. OneLine(offset + 3)
      BY <1>5, <3>1, <3>3, <3>4 DEF OneLine
    <3>6. QED
      BY <2>2, <3>5
  <2>3. QED
    BY <2>1, <2>2
<1>7. close \in Nat /\ offset + 2 <= close
  BY <1>2
<1> HIDE DEF c, close
<1>8. ASSUME NEW val, OneLine(close), At(close) = "'", Emit("T_BYTE", offset + 1, close + 1, close + 1, val) PROVE Round
  <2>1. close < Len(input)
    BY <1>2, <1>7, <1>8, Classes, Ends
  <2>2. \A m \in offset .. (close + 1) - 1 : m \in offset .. close - 1 \/ m = close
    BY <1>2, <1>7
  <2>3. OneLine(close + 1)
    BY <1>2, <1>7, <1>8, <2>1, <2>2, Classes DEF OneLine
  <2>4. Maximal(new_token("T_BYTE", offset + 1, close + 1, val))
    <3>1. PICK t : t = new_token("T_BYTE", offset + 1, close + 1, val)
      OBVIOUS
    <3>2. t.type = "T_BYTE"
      BY <3>1 DEF new_token
    <3>3. QED
      BY <3>1, <3>2, OtherTypes DEF Maximal, Fixed
  <2>5. Emits("T_BYTE", offset + 1, close + 1, close + 1, val)
    BY <1>2, <1>7, <1>8, <2>3, <2>4 DEF Emits
  <2>6. QED
    BY <1>1, <1>2, <2>5 DEF Round
<1>9. offset + 1 \in Nat /\ offset + 2 \in Nat
  BY <1>2
<1>10. QED
  BY <1>1, <1>2, <1>3, <1>4, <1>5, <1>6, <1>7, <1>8, <1>9, RefusalRound

LEMMA SimpleRound == ASSUME ScanInv, Simple PROVE Round
<1>1. Scanning /\ ~StartsAt(offset, "//") /\ input' = input
  BY DEF Simple, StartsWith
<1>2. offset \in Nat /\ Len(input) \in Nat /\ offset < Len(input) /\ message = "none" /\ input \in Texts
  BY <1>1, AtNext
<1>3. PICK s \in SimpleTokens : Emit(s, offset, offset + Len(s), offset + Len(s), 0)
  BY DEF Simple
<1>4. /\ s \in Fixed /\ StartsAt(offset, s)
      /\ s \in symbols1 => \A r \in symbols2 : ~StartsAt(offset, r)
      /\ s \in keywords => At(offset + Len(s)) \in Terminals
  <2>1. symbols1 \cap symbols2 = {} /\ symbols1 \cap keywords = {} /\ symbols2 \cap keywords = {}
    BY DEF symbols1, symbols2, keywords
  <2>2. QED
    BY <2>1, Zenon DEF SimpleTokens, Matches, StartsWith, Fixed
<1>5. Len(s) \in Nat \ {0} /\ offset + Len(s) <= Len(input) /\ \A k \in offset .. offset + Len(s) - 1 : At(k) # "\n"
  BY <1>2, <1>4, FixedMatches
<1>6. PICK e \in Nat : e = offset + Len(s) /\ e \in offset .. Len(input)
  BY <1>2, <1>5
<1>7. OneLine(e)
  <2>1. e - 1 = offset + Len(s) - 1
    BY <1>2, <1>5, <1>6
  <2>2. \A k \in offset .. e - 1 : At(k) # "\n"
    BY <1>5, <2>1, Zenon
  <2>3. QED
    BY <1>6, <2>2 DEF OneLine
<1>8. Maximal(new_token(s, offset, e, 0))
  <2>1. PICK t : t = new_token(s, offset, e, 0)
    OBVIOUS
  <2>2. t.type = s /\ t.start = offset /\ t.end = e
    BY <2>1 DEF new_token
  <2>3. s \notin {"T_SYMBOL", "T_INT", "T_FLOAT"}
    BY <1>4, OtherTypes
  <2>4. s \in keywords => At(e) \notin WordChars
    BY <1>4, <1>6, Classes
  <2>5. s \in symbols1 => \A r \in symbols2 \cup {"//"} : ~StartsAt(offset, r)
    BY <1>1, <1>4
  <2>6. QED
    BY <2>1, <2>2, <2>3, <2>4, <2>5, Zenon DEF Maximal
<1>9. s \notin {"T_STRING", "T_BYTE"}
  BY <1>4, OtherTypes
<1>10. Emits(s, offset, e, e, 0)
  BY <1>2, <1>3, <1>6, <1>7, <1>8, <1>9 DEF Emits
<1>11. QED
  BY <1>1, <1>2, <1>10 DEF Round

LEMMA SymbolRound == ASSUME ScanInv, Symbol PROVE Round
<1> DEFINE j == Past(offset, WordChars)
<1>1. Scanning /\ SimpleTokens = {} /\ input' = input
  BY DEF Symbol
<1>2. offset \in Nat /\ Len(input) \in Nat /\ offset < Len(input) /\ message = "none" /\ input \in Texts
  BY <1>1, AtNext
<1>3. \/ Refuse(j, "bad_name")
      \/ At(j) \in Terminals /\ \E val : Emit("T_SYMBOL", offset, j, j, val)
  BY Zenon DEF Symbol
<1>4. j \in offset .. Len(input) /\ \A m \in offset .. j - 1 : At(m) \in WordChars
  <2>1. offset \in 0 .. Len(input) /\ NUL \notin WordChars
    BY <1>2, Classes
  <2>2. QED
    BY <1>2, <2>1, PastStops
<1> HIDE DEF j
<1>5. OneLine(j) /\ j \in Nat
  BY <1>2, <1>4, Classes DEF OneLine
<1>6. ASSUME NEW val, At(j) \in Terminals, Emit("T_SYMBOL", offset, j, j, val) PROVE Round
  <2>1. \A s \in keywords : StartsAt(offset, s) => j # offset + Len(s)
    <3>1. SUFFICES ASSUME NEW s \in keywords, StartsAt(offset, s), j = offset + Len(s) PROVE FALSE
      OBVIOUS
    <3>2. Matches(s, TRUE)
      BY <1>6, <3>1 DEF Matches, StartsWith
    <3>3. SimpleTokens # {}
      BY <3>1, <3>2, Zenon DEF SimpleTokens
    <3>4. QED
      BY <1>1, <3>3
  <2>2. Maximal(new_token("T_SYMBOL", offset, j, val))
    <3>1. PICK t : t = new_token("T_SYMBOL", offset, j, val)
      OBVIOUS
    <3>2. t.type = "T_SYMBOL" /\ t.start = offset /\ t.end = j
      BY <3>1 DEF new_token
    <3>3. t.type \notin symbols1
      BY <3>2, OtherTypes DEF Fixed
    <3>4. At(j) \notin WordChars
      BY <1>6, Classes
    <3>5. QED
      BY <2>1, <3>1, <3>2, <3>3, <3>4, Zenon DEF Maximal
  <2>3. Emits("T_SYMBOL", offset, j, j, val)
    BY <1>2, <1>4, <1>5, <1>6, <2>2 DEF Emits
  <2>4. QED
    BY <1>1, <1>2, <2>3 DEF Round
<1>7. QED
  BY <1>1, <1>2, <1>3, <1>5, <1>6, RefusalRound

LEMMA RefusedRound == ASSUME ScanInv, EmptyFile \/ Illegal PROVE Round
<1>1. offset \in 0 .. Len(input) /\ Len(input) \in Nat
  BY Ends DEF ScanInv, CursorOK
<1>2. OneLine(offset) /\ offset \in Nat
  BY <1>1 DEF OneLine
<1>3. CASE EmptyFile
  <2>1. message = "none" /\ Refuse(0, "file_empty") /\ input' = input /\ offset = 0
    BY <1>1, <1>3 DEF EmptyFile
  <2>2. QED
    BY <1>2, <2>1, RefusalRound
<1>4. CASE Illegal
  <2>1. message = "none" /\ Refuse(offset, "illegal_character") /\ input' = input
    BY <1>4 DEF Illegal, Scanning
  <2>2. QED
    BY <1>2, <2>1, RefusalRound
<1>5. QED
  BY <1>3, <1>4

LEMMA LexRound == ScanInv /\ Lex => Round
  BY SpaceRound, CommentRound, NumberRound, StringRound, ByteRound, SimpleRound, SymbolRound, RefusedRound DEF Lex
-----------------------------------------------------------------------------
(* The table of names.                                                        *)
LEMMA NameAdded ==
  ASSUME NEW table, IsList(table), NEW name,
         \A i, j \in 1 .. Len(table) : table[i] = table[j] => i = j
  PROVE  /\ IsList(add_symbol(table, name)) /\ Len(table) \in Nat /\ Len(add_symbol(table, name)) \in Nat
         /\ Len(table) <= Len(add_symbol(table, name))
         /\ \A i \in 1 .. Len(table) : add_symbol(table, name)[i] = table[i]
         /\ \A i, j \in 1 .. Len(add_symbol(table, name)) :
              add_symbol(table, name)[i] = add_symbol(table, name)[j] => i = j
         /\ SymbolOf(table, name) \in 0 .. Len(add_symbol(table, name)) - 1
         /\ add_symbol(table, name)[SymbolOf(table, name) + 1] = name
<1>1. /\ IsList(Append(table, name)) /\ Len(table) \in Nat /\ Len(Append(table, name)) = Len(table) + 1
      /\ Append(table, name)[Len(table) + 1] = name
      /\ \A i \in 1 .. Len(table) : Append(table, name)[i] = table[i]
  BY AppendIsList
<1>2. CASE Entries(table, name) = {}
  <2>1. PICK t : t = Append(table, name)
    OBVIOUS
  <2>2. add_symbol(table, name) = t /\ SymbolOf(table, name) = Len(table)
    BY <1>2, <2>1 DEF add_symbol, SymbolOf
  <2>3. \A i \in 1 .. Len(table) : table[i] # name
    BY <1>2 DEF Entries
  <2>4. \A i, j \in 1 .. Len(t) : t[i] = t[j] => i = j
    <3> TAKE i, j \in 1 .. Len(t)
    <3>1. (i \in 1 .. Len(table) \/ i = Len(table) + 1) /\ (j \in 1 .. Len(table) \/ j = Len(table) + 1)
      BY <1>1, <2>1
    <3>2. QED
      BY <1>1, <2>1, <2>3, <3>1
  <2>5. QED
    BY <1>1, <2>1, <2>2, <2>4
<1>3. CASE Entries(table, name) # {}
  <2>1. Entries(table, name) \in SUBSET Nat /\ Entries(table, name) \in SUBSET (1 .. Len(table))
    BY <1>1 DEF Entries
  <2>2. \E i \in Entries(table, name) : \A j \in Entries(table, name) : i <= j
    BY <1>3, <2>1, LeastPosition
  <2>3. PICK i \in Entries(table, name) : SymbolOf(table, name) = i - 1
    BY <1>3, <2>2 DEF SymbolOf
  <2>4. i \in 1 .. Len(table) /\ table[i] = name
    BY <2>3 DEF Entries
  <2>5. add_symbol(table, name) = table
    BY <1>3 DEF add_symbol
  <2>6. QED
    BY <1>1, <2>3, <2>4, <2>5
<1>4. QED
  BY <1>2, <1>3

LEMMA NamesKept == ASSUME NamesOK, Lex PROVE NamesOK'
<1>1. CASE UNCHANGED <<symbols, entrypoint>>
  BY <1>1 DEF NamesOK
<1>2. CASE ~ UNCHANGED <<symbols, entrypoint>>
  <2>1. Symbol
    BY <1>2 DEF Lex, EmptyFile, Space, Comment, Number, String, Byte, Simple, Illegal
  <2>2. PICK name : /\ symbols' = add_symbol(symbols, name)
                    /\ entrypoint' = IF name = "main" THEN SymbolOf(symbols, name) ELSE entrypoint
    BY <1>2, <2>1, Zenon DEF Symbol
  <2>3. /\ IsList(symbols) /\ \A i, j \in 1 .. Len(symbols) : symbols[i] = symbols[j] => i = j
        /\ symbols # << >> /\ entrypoint \in 0 .. Len(symbols) - 1
        /\ entrypoint # 0 => symbols[entrypoint + 1] = "main"
    BY DEF NamesOK
  <2>4. PICK t, n : t = add_symbol(symbols, name) /\ n = SymbolOf(symbols, name)
    OBVIOUS
  <2>5. /\ IsList(t) /\ Len(symbols) \in Nat /\ Len(t) \in Nat /\ Len(symbols) <= Len(t)
        /\ \A i \in 1 .. Len(symbols) : t[i] = symbols[i]
        /\ \A i, j \in 1 .. Len(t) : t[i] = t[j] => i = j
        /\ n \in 0 .. Len(t) - 1 /\ t[n + 1] = name
    BY <2>3, <2>4, NameAdded
  <2>6. t # << >>
    BY <2>5
  <2>7. symbols' = t /\ entrypoint' = IF name = "main" THEN n ELSE entrypoint
    BY <2>2, <2>4
  <2>8. entrypoint' \in 0 .. Len(t) - 1 /\ (entrypoint' # 0 => t[entrypoint' + 1] = "main")
    <3>1. CASE name = "main"
      BY <2>5, <2>7, <3>1
    <3>2. CASE name # "main"
      <4>1. entrypoint' = entrypoint /\ entrypoint + 1 \in 1 .. Len(symbols)
        BY <2>3, <2>5, <2>7, <3>2
      <4>2. QED
        BY <2>3, <2>5, <4>1
    <3>3. QED
      BY <3>1, <3>2
  <2>9. QED
    BY <2>5, <2>6, <2>7, <2>8 DEF NamesOK
<1>3. QED
  BY <1>1, <1>2
-----------------------------------------------------------------------------
(* The lexer from its start.                                                 *)
LEMMA LexStart == LexInit => LexInv
<1> SUFFICES ASSUME LexInit PROVE LexInv
  OBVIOUS
<1>1. /\ input \in Texts /\ offset = 0 /\ line = 1 /\ column = 1 /\ tokens = << >> /\ symbols = init_symbol_table
      /\ entrypoint = 0 /\ message = "none"
  BY DEF LexInit
<1>2. Len(input) \in Nat /\ Len(tokens) = 0 /\ IsList(tokens)
  <2>1. tokens \in Seq({}) /\ Len(tokens) = 0
    BY <1>1
  <2>2. QED
    BY <1>1, <2>1, LexerAssumption DEF IsList
<1>3. CursorOK
  BY <1>1, <1>2 DEF CursorOK
<1>4. PositionsAgree
  <2>1. Newest = 0
    BY <1>2 DEF Newest
  <2>2. {k \in 0 .. 0 - 1 : At(k) = "\n"} = {}
    OBVIOUS
  <2>3. Cardinality({k \in 0 .. 0 - 1 : At(k) = "\n"}) = 0
    BY <2>2, FS_EmptySet
  <2>4. IsPosition(1, 1, 0)
    BY <2>3 DEF IsPosition
  <2>5. QED
    BY <1>1, <2>1, <2>4 DEF PositionsAgree
<1>5. TokensTile
  <2>1. Newest = 0 /\ Before(1) = 0 /\ After(1) = 0
    BY <1>1, <1>2 DEF Newest, Before, After
  <2>2. Blank(0, 0)
    BY DEF Blank
  <2>3. QED
    BY <2>1, <2>2 DEF TokensTile
<1>6. LexemesMaximal
  BY <1>2 DEF LexemesMaximal, Newest
<1>7. NamesOK
  <2>1. /\ Len(init_symbol_table) = 15
        /\ init_symbol_table \in
             Seq({"**UNDEFINED**", "null", "bool", "int", "float", "byte", "string", "print", "println", "read",
                  "concat", "Array", "constructor", "length", "self"})
    BY DEF init_symbol_table
  <2>2. \A i, j \in 1 .. 15 : init_symbol_table[i] = init_symbol_table[j] => i = j
    BY DEF init_symbol_table
  <2>3. IsList(symbols)
    BY <1>1, <2>1 DEF IsList
  <2>4. Len(symbols) = 15 /\ symbols # << >>
    <3>1. Len(init_symbol_table) = 15
      BY <2>1
    <3>2. init_symbol_table # << >>
      BY <3>1
    <3>3. QED
      BY <1>1, <3>1, <3>2, Zenon
  <2>5. \A i, j \in 1 .. Len(symbols) : symbols[i] = symbols[j] => i = j
    BY <1>1, <2>2, <2>4
  <2>6. QED
    BY <1>1, <2>3, <2>4, <2>5 DEF NamesOK
<1>8. QED
  BY <1>1, <1>2, <1>3, <1>4, <1>5, <1>6, <1>7 DEF LexInv, ScanInv

LEMMA LexStep == LexInv /\ [Lex]_lexer => LexInv'
<1> SUFFICES ASSUME LexInv, [Lex]_lexer PROVE LexInv'
  OBVIOUS
<1>1. CASE Lex
  BY <1>1, LexRound, RoundKeeps, NamesKept DEF LexInv
<1>2. CASE UNCHANGED lexer
  <2>1. /\ input' = input /\ offset' = offset /\ line' = line /\ column' = column /\ tokens' = tokens
        /\ message' = message /\ symbols' = symbols /\ entrypoint' = entrypoint
    BY <1>2 DEF lexer
  <2>2. NamesOK' /\ CursorOK'
    BY <2>1 DEF LexInv, ScanInv, NamesOK, CursorOK
  <2>3. PositionsAgree' /\ LexemesMaximal'
    BY <2>1, TextStays DEF LexInv, ScanInv, PositionsAgree, LexemesMaximal, Newest
  <2>4. TokensTile'
    <3>1. \A i : Before(i)' = Before(i) /\ After(i)' = After(i)
      BY <2>1 DEF Before, After
    <3>2. QED
      BY <2>1, <3>1, TextStays DEF LexInv, ScanInv, TokensTile, Newest
  <2>5. QED
    BY <2>1, <2>2, <2>3, <2>4 DEF LexInv, ScanInv
<1>3. QED
  BY <1>1, <1>2

LEMMA LexInvariant == LexSpec => []LexInv
  BY LexStart, LexStep, PTL DEF LexSpec

(* The cursor never leaves the text, every token lies behind it, no name has   *)
(* two symbols and the entrypoint is the symbol of main.                      *)
THEOREM LexTyped == LexSpec => []LexTypeOK
<1>1. LexInv => LexTypeOK
  BY DEF LexInv, ScanInv, CursorOK, NamesOK, LexTypeOK
<1>2. QED
  BY <1>1, LexInvariant, PTL

(* In every text, the line and column counted by next and match are those of   *)
(* the offset, and those stored with a token are those of its end.            *)
THEOREM PositionsRight == LexSpec => []PositionsAgree
<1>1. LexInv => PositionsAgree
  BY DEF LexInv, ScanInv
<1>2. QED
  BY <1>1, LexInvariant, PTL

(* No character is lost or read twice: between the tokens of any text are only  *)
(* spaces and comments.                                                      *)
THEOREM NothingLost == LexSpec => []TokensTile
<1>1. LexInv => TokensTile
  BY DEF LexInv, ScanInv
<1>2. QED
  BY <1>1, LexInvariant, PTL

(* No token of any text could have been longer: match_simple_token's order of   *)
(* tables, and the terminals, never split an operator, a number or a name.    *)
THEOREM TokensLongest == LexSpec => []LexemesMaximal
<1>1. LexInv => LexemesMaximal
  BY DEF LexInv, ScanInv
<1>2. QED
  BY <1>1, LexInvariant, PTL
===============================================================================
