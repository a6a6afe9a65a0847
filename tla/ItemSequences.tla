---------------------------- MODULE ItemSequences ----------------------------
(***************************************************************************)
(* What a list promises, without buffer or capacity: lists that are        *)
(* sequences of items, each changed only by the calls made on it, a call   *)
(* that fails changing nothing.                                            *)
(***************************************************************************)
EXTENDS Integers, Sequences

CONSTANTS
  Names,     \* the lists
  Items,
  NoItem

VARIABLES
  seq,       \* list -> its items
  result     \* what the last call returned and gave out

vars == <<seq, result>>

Done(out) == [ret |-> 0, out |-> out]
Failed    == [ret |-> -1, out |-> NoItem]

Set(l, items)  == seq' = [seq EXCEPT ![l] = items]
Returns(value) == result' = value

Init == seq = [l \in Names |-> <<>>] /\ result = Done(NoItem)

Push(l, item) == Set(l, Append(seq[l], item)) /\ Returns(Done(NoItem))

(* The items of one list are moved behind those of another.                *)
AppendAll(l, other) ==
  /\ l # other
  /\ seq' = [seq EXCEPT ![l] = @ \o seq[other], ![other] = <<>>]
  /\ Returns(Done(NoItem))

(* The last n items go; of one popped item, the caller may get a copy.     *)
Drop(l, n) ==
  /\ n \in 0 .. Len(seq[l])
  /\ Set(l, SubSeq(seq[l], 1, Len(seq[l]) - n))
  /\ \/ Returns(Done(NoItem))
     \/ n = 1 /\ Returns(Done(seq[l][Len(seq[l])]))

Remove(l, i) ==
  /\ i \in 1 .. Len(seq[l])
  /\ Set(l, [j \in 1 .. Len(seq[l]) - 1 |-> IF j < i THEN seq[l][j] ELSE seq[l][j + 1]])
  /\ Returns(Done(seq[l][i]))

Replace(l, i, item) ==
  /\ i \in 1 .. Len(seq[l])
  /\ Set(l, [seq[l] EXCEPT ![i] = item])
  /\ Returns(Done(item))

(* A call that only looks: it fails, finds an item of the list, or goes    *)
(* through the items in their order, to the end or up to where it is told  *)
(* to stop.                                                                *)
Look(l) ==
  /\ UNCHANGED seq
  /\ \/ Returns(Failed)
     \/ Returns(Done(seq[l]))
     \/ \E i \in 1 .. Len(seq[l]) :
          Returns(Done(seq[l][i])) \/ Returns([ret |-> 1, out |-> SubSeq(seq[l], 1, i)])

Next ==
  \E l \in Names :
    \/ \E item \in Items : Push(l, item)
    \/ \E other \in Names : AppendAll(l, other)
    \/ \E n \in 0 .. Len(seq[l]) : Drop(l, n)
    \/ \E i \in 1 .. Len(seq[l]) : Remove(l, i) \/ \E item \in Items : Replace(l, i, item)
    \/ Look(l)

Spec == Init /\ [][Next]_vars
=============================================================================
