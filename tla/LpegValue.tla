------------------------------ MODULE LpegValue ------------------------------
(***************************************************************************)
(* The Lua values captures produce, as far as the results of a match tell  *)
(* them apart.  A value has a type; "text" are the characters of a string, *)
(* "n" the number, or which argument, function or table it came from, and  *)
(* "list" and "named" what is inside of it.  Constants, arguments and the  *)
(* values of match-time captures are taken to be other than strings.       *)
(***************************************************************************)
EXTENDS Integers, Sequences

CONSTANTS NARGS,       \* the extra arguments of the call of match
          Format(_)    \* the items of the format of a string capture

Value(type, text, n, list, named) ==
  [type |-> type, text |-> text, n |-> n, list |-> list, named |-> named]

Str(text) == Value("string", text, 0, <<>>, <<>>)

Num(n) == Value("number", <<>>, n, <<>>, <<>>)

Opaque(type, n) == Value(type, <<>>, n, <<>>, <<>>)

Table(list, named) == Value("table", <<>>, 0, list, named)

(* A function, or a table that is indexed, is known by its answer. *)
Applied(n, list) == Value("applied", <<>>, n, list, <<>>)

(* An index that is the empty string is in none of the tables. *)
InTable(v) == v # Str(<<>>)

(* lua_isstring, and the text of a number: one character of its own. *)
IsString(v) == v.type \in {"string", "number"}

TextOf(v) == IF v.type = "number" THEN <<100 + v.n>> ELSE v.text

(* An item of a format: a character, or the index of a capture. *)
Literal(c) == [literal |-> TRUE, n |-> c]

Index(i) == [literal |-> FALSE, n |-> i]
=============================================================================
