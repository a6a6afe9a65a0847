------------------------------- MODULE MCUtil -------------------------------
(* The two containers of src/util, which share nothing but the way they    *)
(* grow: either a map or some lists, as the first call decides.            *)
(*                                                                         *)
(* The map is from forms, as the tag bindings are, with fixnums less than  *)
(* half a word apart, among which form_cmp is an order; its buffer grows   *)
(* twice (one cell, two, four) to hold them.  The lists are two, as when   *)
(* the bytes of a tagbody are moved behind those of its tags.              *)
EXTENDS OrderedMap, FormOrder, GrowingList

MCKeys == {[type |-> "fixnum", datum |-> n] : n \in {0, 3}}
          \cup {[type |-> "nil", datum |-> 0], [type |-> "object", datum |-> 1]}

ASSUME TotalOrder

UtilInit == Init /\ ListInit

UtilNext ==
  \/ ListInit /\ Next /\ UNCHANGED listVars
  \/ Init /\ ListNext /\ UNCHANGED vars

UtilSpec == UtilInit /\ [][UtilNext]_<<vars, listVars>>
=============================================================================
