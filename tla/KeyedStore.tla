----------------------------- MODULE KeyedStore -----------------------------
(***************************************************************************)
(* What the runtime expects of a map: one value per key, the last one put  *)
(* there.  Nothing is said about order, capacity or memory.                *)
(***************************************************************************)
EXTENDS Integers

CONSTANTS Keys, Vals, Nothing

VARIABLES
  store,   \* the bindings, a function on some of the keys
  answer   \* what the last operation returned: [ret, out]

Success(out) == [ret |-> 0, out |-> out]
Failure      == [ret |-> -1, out |-> Nothing]

Init == store = [k \in {} |-> Nothing] /\ answer = Success(Nothing)

Put(k, v) ==
  /\ store' = [x \in DOMAIN store \cup {k} |-> IF x = k THEN v ELSE store[x]]
  /\ answer' = Success(Nothing)

(* Memory may run out, but only for a key that needs a new place.          *)
PutFails(k) ==
  /\ k \notin DOMAIN store
  /\ answer' = Failure
  /\ UNCHANGED store

Take(k) ==
  /\ k \in DOMAIN store
  /\ store' = [x \in DOMAIN store \ {k} |-> store[x]]
  /\ answer' = Success(store[k])

Look(k) ==
  /\ k \in DOMAIN store
  /\ answer' = Success(store[k])
  /\ UNCHANGED store

Assign(k, v) ==
  /\ k \in DOMAIN store
  /\ store' = [store EXCEPT ![k] = v]
  /\ answer' = Success(v)

Miss(k) ==
  /\ k \notin DOMAIN store
  /\ answer' = Failure
  /\ UNCHANGED store

(* An iteration shows every key, unless the visitor asks to stop at one:   *)
(* then that key is the only such one it has seen.                         *)
VisitAll(stops) ==
  /\ stops \cap DOMAIN store = {}
  /\ answer' = Success(DOMAIN store)
  /\ UNCHANGED store

VisitSome(stops) ==
  /\ \E seen \in SUBSET DOMAIN store, k \in stops :
       seen \cap stops = {k} /\ answer' = [ret |-> 1, out |-> seen]
  /\ UNCHANGED store

Empty ==
  /\ store' = [k \in {} |-> Nothing]
  /\ answer' = Success(Nothing)

Next ==
  \/ \E k \in Keys : PutFails(k) \/ Take(k) \/ Look(k) \/ Miss(k)
  \/ \E k \in Keys, v \in Vals : Put(k, v) \/ Assign(k, v)
  \/ \E stops \in SUBSET Keys : VisitAll(stops) \/ VisitSome(stops)
  \/ Empty

Spec == Init /\ [][Next]_<<store, answer>>
=============================================================================
