------------------------------ MODULE CallTable ------------------------------
(***************************************************************************)
(* The table of called functions of functiontable.c: a binary search tree by *)
(* name, unbalanced, whose nodes hold the function's location in the code    *)
(* and a linked list of the places that call it.  A node's address is its    *)
(* place in the sequence ft, the root is the first one and 0 is NULL.        *)
(***************************************************************************)
EXTENDS LinkedNodes

new_node(function) ==
  [function |-> function, location |-> 0, callsites |-> linkedlist_new, left |-> NULL, right |-> NULL]
new_ft(function) == <<new_node(function)>>

(* The child towards which the loop of add_function_internal goes.            *)
Child(node, function) == IF function < node.function THEN node.left ELSE node.right
Hang(node, function, child) ==
  IF function < node.function THEN [node EXCEPT !.left = child] ELSE [node EXCEPT !.right = child]

(* Where it ends from each node: at that of the function or at the one to hang  *)
(* it below.                                                                 *)
Walk(ft, function) ==
  LET walk[a \in 1 .. Len(ft)] ==
        IF ft[a].function = function \/ Child(ft[a], function) = NULL THEN a ELSE walk[Child(ft[a], function)]
  IN  walk
Descend(ft, function) == Walk(ft, function)[1]
IsIn(ft, function) == ft[Descend(ft, function)].function = function

(* Mutant: from_left keeps the value of an earlier round.                     *)
HangRight(ft, function) ==
  IF IsIn(ft, function) THEN ft
  ELSE [Append(ft, new_node(function)) EXCEPT ![Descend(ft, function)].right = Len(ft) + 1]
AddNode(ft, function) ==
  IF IsIn(ft, function) THEN ft
  ELSE [Append(ft, new_node(function)) EXCEPT ![Descend(ft, function)] = Hang(@, function, Len(ft) + 1)]

(* A later definition of the function replaces its location.                  *)
add_ft_node(ft, function, loc) ==
  LET added == AddNode(ft, function) IN [added EXCEPT ![Descend(added, function)].location = loc]

(* The callsite is appended to the list of a node, in the memory of all lists. *)
add_callsite(ft, mem, function, callsite) ==
  LET added == AddNode(ft, function)
      a == Descend(added, function)
      r == linkedlist_append(mem, added[a].callsites, callsite)
  IN  [ft |-> [added EXCEPT ![a].callsites = r.ll], mem |-> r.mem]
=============================================================================
