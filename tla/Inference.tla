------------------------------ MODULE Inference ------------------------------
(***************************************************************************)
(* The shapes of the compiler's code, found by running it abstractly: each   *)
(* location is visited with the shape that leads there, and again when fewer *)
(* variables turn out to be counted on another way to it.  Nothing is proved *)
(* about this module, and nothing needs to be: Disciplined says whether what *)
(* it finds is right.                                                      *)
(*                                                                         *)
(* On its way a shape has home, the entry of its function, instead of what   *)
(* the function gives, and marks, the height of stack_obj when each return   *)
(* address still on the stack was pushed: the arguments lie above.           *)
(***************************************************************************)
EXTENDS Convention

Unknown == [home |-> -1]
Least(m, n) == IF m < n THEN m ELSE n

Found(p) ==
  [at |-> [i \in 0 .. Len(Cells(p)) - 1 |-> Unknown],
   todo |-> {<<0, [val |-> << >>, obj |-> 0, entering |-> FALSE, main |-> TRUE,
                   defined |-> [s \in Kinds |-> 0], home |-> 0, marks |-> << >>]>>},
   gives |-> << >>,         \* entry -> what the function leaves
   waiting |-> {}]          \* <<entry, location, shape>>: continued when that is known

Back(sh, gives) == After(sh, 0, Opaques(gives["val"]), 0, gives["obj"])

(* A call leads to its function, and back once a way to return was found.     *)
Called(p, known, sh, entry) ==
  LET addresses == {j \in 1 .. Len(sh.val) : sh.val[j].tag = "addr"}
      last == CHOOSE j \in addresses : \A l \in addresses : l <= j
      taken == Len(sh.val) - last
      mark == sh.marks[Len(sh.marks)]
      rest == [After(sh, taken + 1, << >>, sh.obj - mark, 0) EXCEPT !.marks = SubSeq(@, 1, Len(@) - 1)]
      inside == [val |-> <<Ret>> \o Opaques(taken), obj |-> sh.obj - mark, entering |-> FALSE, main |-> FALSE,
                 defined |-> [s \in Kinds |-> 0], home |-> entry, marks |-> << >>]
      call == <<entry, sh.val[last].val, rest>>
      entered == [known EXCEPT !.todo = @ \cup {<<entry, inside>>}, !.waiting = @ \cup {call}]
  IN  IF entry \in DOMAIN known.gives
      THEN [entered EXCEPT !.todo = @ \cup {<<call[2], Back(rest, known.gives[entry])>>}]
      ELSE entered

Returned(known, sh) ==
  LET gives == [s \in Kinds |-> IF s = "val" THEN Len(sh.val) - 1 ELSE sh.obj]
      calls == {w \in known.waiting : w[1] = sh.home}
  IN  IF sh.home \in DOMAIN known.gives THEN known
      ELSE [known EXCEPT !.gives = [e \in DOMAIN @ \cup {sh.home} |-> IF e = sh.home THEN gives ELSE @[e]],
                         !.todo = @ \cup {<<w[2], Back(w[3], gives)>> : w \in calls}]

(* The stack that each of n cells comes from, given that of the first ones;   *)
(* shorter where there is no types word.                                     *)
RECURSIVE Layout(_, _, _)
Layout(sh, n, k) ==
  LET i == Cardinality(DOMAIN k)
      s == IF i % 5 = 0 THEN "val" ELSE IF is_object_or_null(PoppedOf(sh, k, i - (i % 5)).types[i % 5]) THEN "obj" ELSE "val"
      more == [j \in 0 .. i |-> IF j = i THEN s ELSE k[j]]
  IN  IF i = n \/ (i % 5 = 0 /\ (~Enough(sh, Taken(k, "val", i) + 1, 0) \/ PoppedOf(sh, more, i).tag # "types")) THEN k
      ELSE Layout(sh, n, more)

(* Where an instruction goes otherwise, and with which shapes.               *)
Onwards(p, i, sh, op) ==
  LET next == i + 1 + Operands(op)
      arg == IntOf(Arg(p, i, 1))
      layout == Layout(sh, arg, << >>)
  IN  CASE op = "PUSH" ->
             LET pushed == After(sh, 0, <<Arg(p, i, 1)>>, 0, 0)
             IN  {<<next, IF Arg(p, i, 1).tag = "addr" THEN [pushed EXCEPT !.marks = Append(@, sh.obj)] ELSE pushed>>}
        [] op = "DUP" -> {<<next, After(sh, 0, <<Opaque>>, 0, 0)>>}
        [] op = "SWAP" -> {<<next, After(sh, 2, <<TopOf(sh, 0), TopOf(sh, 1)>>, 0, 0)>>}
        [] op = "PRINT" -> {<<next, IF is_object_or_null(TopOf(sh, 0).val) THEN After(sh, 1, << >>, 1, 0)
                                    ELSE After(sh, 2, << >>, 0, 0)>>}
        [] op = "PUSH_HEAP" -> {<<next, After(sh, Taken(layout, "val", arg), << >>, Taken(layout, "obj", arg), 1)>>}
        [] op = "CALL" -> {<<next, After(sh, arg, <<Opaque>>, 0, 0)>>}
        [] op = "JNE" -> {<<l, After(sh, 1, << >>, 0, 0)>> : l \in {next, arg}}
        [] op = "JMP" -> {<<arg, sh>>}
        [] op = "PUSH_SCOPE" -> {<<next, [sh EXCEPT !.entering = TRUE]>>}
        [] op = "POP_SCOPE" -> {<<next, [sh EXCEPT !.entering = FALSE]>>}
        [] op \in {"DEFINE", "DEFINE_OBJ"} ->
             {<<next, Counted(sh, CHOOSE s \in Kinds : op = Of(s, "DEFINE", "DEFINE_OBJ"))>>}
        [] op = "EXIT" -> {}
        [] OTHER -> LET e == Effect(op) IN {<<next, After(sh, e[1], Opaques(e[2]), e[3], e[4])>>}

(* Where it does not go on: the shape is not enough for the instruction.      *)
Stuck(p, i, sh) ==
  \/ ~WellFormed(p, i)
  \/ LET op == OpAt(p, i)
         arg == IntOf(Arg(p, i, 1))
     IN  CASE op = "PRINT" -> ~Enough(sh, 1, 0) \/ ~IsNum(TopOf(sh, 0))
           [] op = "PUSH_HEAP" -> ~LaidOut(sh, Layout(sh, arg, << >>), arg)
           [] op = "JMP" /\ sh.entering -> sh.marks = << >> \/ \A j \in 1 .. Len(sh.val) : sh.val[j].tag # "addr"
           [] op = "CALL" -> ~Enough(sh, arg, 0)
           [] op = "SWAP" -> ~Enough(sh, 2, 0)
           [] op \in {"DUP", "JNE", "RET"} -> ~Enough(sh, 1, 0)
           [] op \in Special -> FALSE
           [] OTHER -> ~Enough(sh, Effect(op)[1], Effect(op)[3])

Visited(p, known, i, sh) ==
  LET op == OpAt(p, i)
      seen == [known EXCEPT !.at[i] = sh]
  IN  CASE Stuck(p, i, sh) -> seen
        [] op = "JMP" /\ sh.entering -> Called(p, seen, sh, IntOf(Arg(p, i, 1)))
        [] op = "RET" -> Returned(seen, sh)
        [] OTHER -> [seen EXCEPT !.todo = @ \cup Onwards(p, i, sh, op)]

(* A visit to one of the locations that are left.                            *)
Further(p, known) ==
  LET t == CHOOSE t \in known.todo : TRUE
      i == t[1]
      old == known.at[i]
      both == [s \in Kinds |-> IF old = Unknown THEN t[2].defined[s] ELSE Least(old.defined[s], t[2].defined[s])]
      rest == [known EXCEPT !.todo = @ \ {t}]
  IN  IF i \notin DOMAIN known.at \/ (old # Unknown /\ old.defined = both) THEN rest
      ELSE Visited(p, rest, i, [t[2] EXCEPT !.defined = both])

(* 2^k visits, or as many as are left: a recursion that is only k deep.        *)
RECURSIVE Explored(_, _, _)
Explored(p, known, k) ==
  IF known.todo = {} THEN known
  ELSE IF k = 0 THEN Further(p, known)
  ELSE Explored(p, Explored(p, known, k - 1), k - 1)

ShapesOf(p) ==
  LET found == Explored(p, Found(p), 10)
      Gives(home) == IF home \in DOMAIN found.gives THEN found.gives[home] ELSE [s \in Kinds |-> 0]
      reached == {i \in DOMAIN found.at : found.at[i] # Unknown}
  IN  [i \in reached |->
         LET sh == found.at[i]
         IN  [val |-> sh.val, obj |-> sh.obj, entering |-> sh.entering, main |-> sh.main,
              defined |-> sh.defined, gives |-> Gives(sh.home)]]
=============================================================================
