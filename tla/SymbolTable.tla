----------------------------- MODULE SymbolTable -----------------------------
(***************************************************************************)
(* The table of names of common.c: a name's symbol is its position, counted *)
(* from 0, and the first ones are those of the types and builtins.          *)
(***************************************************************************)
EXTENDS Common

init_symbol_table ==
  <<"**UNDEFINED**", "null", "bool", "int", "float", "byte", "string",
    "print", "println", "read", "concat", "Array", "constructor", "length", "self">>

BUILTIN_FIRST == 7
is_builtin(symbol) == symbol \in BUILTIN_FIRST .. BUILTIN_LAST

(* The linear search stops at the first entry that equals the name.          *)
Entries(table, name) == {i \in 1 .. Len(table) : table[i] = name}
SymbolOf(table, name) ==
  IF Entries(table, name) = {} THEN Len(table)
  ELSE (CHOOSE i \in Entries(table, name) : \A j \in Entries(table, name) : i <= j) - 1

(* Mutant: every occurrence of a name makes a symbol.                         *)
AddAlways(table, name) == Append(table, name)
add_symbol(table, name) == IF Entries(table, name) = {} THEN Append(table, name) ELSE table

lookup_symbol(table, symbol) == IF is_array(symbol) THEN "Array" ELSE table[symbol + 1]
=============================================================================
