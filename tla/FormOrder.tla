----------------------------- MODULE FormOrder ------------------------------
(***************************************************************************)
(* form_cmp of src/runtime/types.c, the comparison function of the maps    *)
(* whose keys are forms (the tag bindings of the interpreter).             *)
(*                                                                         *)
(* A form is [type, datum]; the datum of a fixnum is a uint32_t, of an     *)
(* object its address.                                                     *)
(***************************************************************************)
EXTENDS Integers

CONSTANT Word   \* 2^32, the number of uint32_t values

ASSUME WordAssumption == Word \in Nat \ {0} /\ Word % 2 = 0

(* The order of the FormType enumeration.                                  *)
TypeRank == [fixnum |-> 0, char |-> 1, nil |-> 2, t |-> 3, object |-> 4]

(* A uint32_t that is returned as an int.                                  *)
AsInt(w) == IF w % Word >= Word \div 2 THEN (w % Word) - Word ELSE w % Word

FormCmp(l, r) ==
  CASE l.type # r.type                        -> TypeRank[l.type] - TypeRank[r.type]
    [] l.type = r.type /\ l.type = "fixnum"   -> AsInt(l.datum - r.datum)
    [] l.type = r.type /\ l.type \in {"char", "object"} -> l.datum - r.datum
    [] OTHER                                  -> 0
=============================================================================
