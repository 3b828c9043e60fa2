-------------------------------- MODULE Ast --------------------------------
(***************************************************************************)
(* The syntax tree of ast.h as records: values and statements are told     *)
(* apart by vtype / stype, a list of nodes is a sequence, and a program is *)
(* its classes and its functions, foreign ones included.  Names of         *)
(* functions, variables and properties are strings; a class is named by    *)
(* the symbol number that is also its type.                                *)
(***************************************************************************)
EXTENDS Common

(* Literals carry their type from the start (new_value); every other value   *)
(* gets one from the type checker.                                           *)
Literal(type, v) == [vtype |-> "literal", type |-> type, v |-> v]
new_string(bytes)   == Literal(TYPE_STRING, bytes)
new_byte(b)         == Literal(TYPE_BYTE, b)
new_integer(i)      == Literal(TYPE_INT, i)
new_floating(nonzero) == Literal(TYPE_FLOAT, nonzero)
new_boolean(b)      == Literal(TYPE_BOOL, b)
new_null            == Literal(TYPE_NULL, 0)

new_expr(op, a, b)  == [vtype |-> "expr", op |-> op, a |-> a, b |-> b]
new_unary(op, a)    == [vtype |-> "unary", op |-> op, a |-> a]
new_array(vals)     == [vtype |-> "array", args |-> vals]
new_vfuncall(f, args) == [vtype |-> "funcall", f |-> f, args |-> args]
new_constructor(class, args) == [vtype |-> "constructor", class |-> class, args |-> args]
new_array_of(type, length) == [vtype |-> "new array", of |-> type, args |-> <<length>>]
new_builtin_vfuncall(f, args) == [vtype |-> "builtin funcall", f |-> f, args |-> args]
new_get_local(x)    == [vtype |-> "local", x |-> x]
new_get_property(a, p) == [vtype |-> "property", a |-> a, p |-> p]
new_get_indexed(a, i) == [vtype |-> "index", a |-> a, i |-> i]
new_cast(a, type)   == [vtype |-> "cast", a |-> a, to |-> type]

(* The parser makes one node for every builtin class; what the type checker  *)
(* looks for in it is an Array with a type and a length.                      *)
new_builtin_constructor(class, types, args) ==
  IF class = BUILTIN_ARRAY /\ Len(types) = 1 /\ Len(args) = 1 THEN new_array_of(types[1], args[1])
  ELSE [vtype |-> "builtin constructor", class |-> class, types |-> types, args |-> args]

BinaryTokens == {"||", "&&", "==", "!=", ">=", ">", "<=", "<", "+", "-", "*", "/", "%"}

new_set_local(x, v, is_define) == [stype |-> "set local", x |-> x, v |-> v, is_define |-> is_define]
new_set_property(a, p, v) == [stype |-> "set property", access |-> new_get_property(a, p), v |-> v]
new_set_indexed(a, i, v) == [stype |-> "set index", access |-> new_get_indexed(a, i), v |-> v]
new_if(c, then)     == [stype |-> "if", c |-> c, then |-> then, has_else |-> FALSE, else |-> << >>]
add_else(if, else)  == [if EXCEPT !.has_else = TRUE, !.else = else]
new_while(c, body)  == [stype |-> "while", c |-> c, body |-> body]
new_for(init, c, increment, body) ==
  [stype |-> "for", init |-> init, c |-> c, increment |-> increment, body |-> body]
new_let(defs)       == [stype |-> "let", defs |-> defs]
new_sfuncall(f, args) == [stype |-> "funcall", f |-> f, args |-> args]
new_print(args)     == [stype |-> "print", args |-> args]
new_println(args)   == [stype |-> "println", args |-> args]
new_builtin_sfuncall(f, args) ==
  CASE f = "print" -> new_print(args)
    [] f = "println" -> new_println(args)
    [] OTHER -> [stype |-> "builtin funcall", f |-> f, args |-> args]
new_return(vals)    == [stype |-> "return", vals |-> vals]     \* no value or one
new_break           == [stype |-> "break"]
new_continue        == [stype |-> "continue"]
new_increment(v, by) == [stype |-> "increment", v |-> v, by |-> by]

new_define(x, type) == [name |-> x, type |-> type]
new_class(type, definitions) == [name |-> type, definitions |-> definitions, methods |-> << >>]
new_tld_fundef(f, args, rettype, stmts) ==
  [name |-> f, is_foreign |-> FALSE, is_yielding |-> FALSE, args |-> args, rettype |-> rettype, stmts |-> stmts]
new_tld_foreign_fundef(f, args, rettype, is_yielding) ==
  [name |-> f, is_foreign |-> TRUE, is_yielding |-> is_yielding, args |-> args, rettype |-> rettype, stmts |-> << >>]
Tlds(classes, funs) == [classes |-> classes, funs |-> funs]
ENTRYPOINT == "main"
-----------------------------------------------------------------------------
(* First element of a list with a name, as the linear lookups find it; the   *)
(* hash tables of functions and classes find the first one inserted too.     *)
Named(list, name) == {i \in 1 .. Len(list) : list[i].name = name}
Has(list, name) == Named(list, name) # {}
FirstIndex(list, name) == CHOOSE i \in Named(list, name) : \A j \in Named(list, name) : i <= j
Lookup(list, name) == list[FirstIndex(list, name)]

(* A property's cell: a types word comes before every four of them.          *)
lookup_property_index(class, p) == FirstIndex(class.definitions, p) - 1
=============================================================================
