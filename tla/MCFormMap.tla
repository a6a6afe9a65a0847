----------------------------- MODULE MCFormMap ------------------------------
(* A map from forms to values, as the tag bindings are, with three-bit     *)
(* fixnums: 3, 6 and 0 stand for 1500000000, 3000000000 and 0.             *)
EXTENDS FormOrder

VARIABLES items, size, cap, answer

MCFixnums == {[type |-> "fixnum", datum |-> n] : n \in {0, 3, 6}}
MCOthers  == {[type |-> "char", datum |-> 7], [type |-> "object", datum |-> 1]}

INSTANCE OrderedMap WITH
  Keys <- MCFixnums \cup MCOthers, Vals <- {"v"}, Cmp <- FormCmp,
  InitialCapacity <- 8, Nothing <- "nothing"
=============================================================================
