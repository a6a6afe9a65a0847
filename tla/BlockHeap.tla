----------------------------- MODULE BlockHeap -----------------------------
(***************************************************************************)
(* What the memory manager promises its clients, without headers, lists or *)
(* marks: a heap of payloads that never overlap, that keep their place and *)
(* size while they are live, and that a collection may reclaim only if it  *)
(* has not been told to keep them.                                         *)
(***************************************************************************)
EXTENDS Integers

CONSTANTS
  HeapSize,  \* bytes of the block the payloads lie in
  Nobody     \* not an address

VARIABLES
  live,        \* payload address -> payload size
  fresh,       \* the payload whose allocation started the collection, if any
  collecting,  \* a collection may be reclaiming payloads
  kept         \* the payloads the collection was told to keep

heap == <<live, fresh, collecting, kept>>

Payloads == DOMAIN live

Apart(p, m, q, n) == p + m <= q \/ q + n <= p

Init ==
  /\ live = [p \in {} |-> 0]
  /\ fresh = Nobody
  /\ collecting = FALSE
  /\ kept = {}

(* A new payload lies in the block and apart from every live one.  When    *)
(* its allocation is what starts a collection, that collection must keep   *)
(* it.                                                                     *)
Obtain(p, n) ==
  /\ ~collecting /\ fresh = Nobody
  /\ p + n <= HeapSize
  /\ p \notin Payloads
  /\ \A q \in Payloads : Apart(p, n, q, live[q])
  /\ live' = [q \in Payloads \cup {p} |-> IF q = p THEN n ELSE live[q]]
  /\ fresh' \in {p, Nobody}
  /\ UNCHANGED <<collecting, kept>>

Forget(p) == live' = [q \in Payloads \ {p} |-> live[q]]

Release(p) ==
  /\ ~collecting /\ fresh = Nobody
  /\ Forget(p)
  /\ UNCHANGED <<fresh, collecting, kept>>

Collect(keep) ==
  /\ ~collecting
  /\ fresh # Nobody => fresh \in keep
  /\ collecting' = TRUE
  /\ kept' = keep
  /\ fresh' = Nobody
  /\ UNCHANGED live

Reclaim(p) ==
  /\ collecting
  /\ p \notin kept
  /\ Forget(p)
  /\ UNCHANGED <<fresh, collecting, kept>>

Done ==
  /\ collecting
  /\ collecting' = FALSE
  /\ kept' = {}
  /\ UNCHANGED <<live, fresh>>

Next ==
  \/ \E p, n \in 0 .. HeapSize : Obtain(p, n)
  \/ \E p \in Payloads : Release(p) \/ Reclaim(p)
  \/ \E keep \in SUBSET Payloads : Collect(keep)
  \/ Done

Spec == Init /\ [][Next]_heap

(* The point of the promise: no byte of the block is part of two payloads. *)
PayloadsApart ==
  \A p, q \in Payloads : p # q => Apart(p, live[p], q, live[q])
=============================================================================
