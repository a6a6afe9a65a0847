------------------------------- MODULE Forms --------------------------------
(***************************************************************************)
(* The forms of src/include/runtime/types.h: what the reader produces, the *)
(* compiler takes apart and the interpreter computes with.  A cons is the  *)
(* sequence of the elements of its (proper) list.                          *)
(***************************************************************************)
EXTENDS Sequences

Nil         == <<"nil">>
T           == <<"t">>
Fixnum(n)   == <<"fixnum", n>>
Str(s)      == <<"string", s>>
Sym(name)   == <<"symbol", name>>
Function(f) == <<"function", f>>
List(forms) == IF forms = <<>> THEN Nil ELSE <<"cons", forms>>

IsCons(form)     == form[1] = "cons"
IsSymbol(form)   == form[1] = "symbol"
IsFunction(form) == form[1] = "function"
IsList(form)     == form = Nil \/ IsCons(form)

Elements(list) == IF list = Nil THEN <<>> ELSE list[2]
=============================================================================
