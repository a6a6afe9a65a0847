----------------------------- MODULE GrowingList -----------------------------
(***************************************************************************)
(* The List of src/util/list.c: items kept in a growing buffer, whose      *)
(* cells from size on hold whatever realloc, a pop or a shift left there.  *)
(***************************************************************************)
EXTENDS Buffers, Sequences

CONSTANTS
  Names,       \* the lists
  Items,
  NoItem,      \* no item: an out parameter that is not written, a cell nobody wrote
  MaxItems     \* bound: items of a list

VARIABLES
  list,        \* name -> its List
  result       \* return code and out parameter of the last call

listVars == <<list, result>>

Done(out) == [ret |-> 0, out |-> out]
Failed    == [ret |-> -1, out |-> NoItem]

EmptyList == [size |-> 0, cap |-> 0, items |-> [i \in {} |-> NoItem]]

Size(l)  == list[l].size
Cap(l)   == list[l].cap
Cells(l) == list[l].items

Indices(l) == 0 .. Size(l) - 1

(* A call that changes the one list.                                       *)
Becomes(l, size, cap, cells) ==
  list' = [list EXCEPT ![l] = [size |-> size, cap |-> cap, items |-> cells]]

Answers(l, value) == result' = value /\ UNCHANGED list

----------------------------------------------------------------------------
ListInit == list = [l \in Names |-> EmptyList] /\ result = Done(NoItem)

PushCapacity(l) == IF Size(l) + 1 > Cap(l) THEN NextCapacity(Cap(l)) ELSE Cap(l)

ListPush(l, item) ==
  /\ Size(l) < MaxItems
  /\ LET grown == Grown(Cells(l), PushCapacity(l), NoItem)
     IN  Becomes(l, Size(l) + 1, PushCapacity(l), [grown EXCEPT ![Size(l)] = item])
  /\ result' = Done(NoItem)

(* Faulty variant: stops doubling one cell short.                          *)
RoomTight(l, n) ==
  LET first == IF Cap(l) = 0 THEN InitialCapacity ELSE Cap(l)
  IN  IF n <= Cap(l) THEN {Cap(l)}
      ELSE {c \in n - 1 .. 2 * n + InitialCapacity :
              \E k \in 0 .. n : c = first * 2^k /\ (k = 0 \/ first * 2^(k - 1) < n - 1)}

(* The capacity that list_append arrives at, doubling up to where n items  *)
(* have room: the least of the doubled ones that is enough.                *)
Room(l, n) ==
  LET first == IF Cap(l) = 0 THEN InitialCapacity ELSE Cap(l)
  IN  IF n <= Cap(l) THEN {Cap(l)}
      ELSE {c \in n .. 2 * n + InitialCapacity :
              \E k \in 0 .. n : c = first * 2^k /\ (k = 0 \/ first * 2^(k - 1) < n)}

(* Faulty variant: the items moved stay in the other list, too.            *)
ListAppendCopies(l, other) ==
  /\ l # other /\ Size(other) > 0 /\ Size(l) + Size(other) <= MaxItems
  /\ \E c \in Room(l, Size(l) + Size(other)) :
       LET grown == Grown(Cells(l), c, NoItem)
           moved == [j \in DOMAIN grown |->
                      IF j - Size(l) \in Indices(other) THEN Cells(other)[j - Size(l)]
                      ELSE grown[j]]
       IN  Becomes(l, Size(l) + Size(other), c, moved)
  /\ result' = Done(NoItem)

(* The other list is left empty, with its buffer.                          *)
ListAppend(l, other) ==
  /\ l # other /\ Size(other) > 0 /\ Size(l) + Size(other) <= MaxItems
  /\ \E c \in Room(l, Size(l) + Size(other)) :
       LET grown == Grown(Cells(l), c, NoItem)
           moved == [j \in DOMAIN grown |->
                      IF j - Size(l) \in Indices(other) THEN Cells(other)[j - Size(l)]
                      ELSE grown[j]]
       IN  list' = [list EXCEPT
                      ![l] = [size |-> Size(l) + Size(other), cap |-> c, items |-> moved],
                      ![other] = [@ EXCEPT !.size = 0]]
  /\ result' = Done(NoItem)

ListAppendNothing(l, other) ==
  /\ l # other /\ Size(other) = 0
  /\ Answers(l, Done(NoItem))

(* realloc has no memory for the larger buffer of a push or an append.     *)
ListGrowFails(l) ==
  /\ \/ Size(l) + 1 > Cap(l)
     \/ \E other \in Names \ {l} : Size(other) > 0 /\ Size(l) + Size(other) > Cap(l)
  /\ Answers(l, Failed)

(* The cell that is popped keeps the item; item may be NULL.               *)
ListPop(l) ==
  /\ Size(l) > 0
  /\ Becomes(l, Size(l) - 1, Cap(l), Cells(l))
  /\ \/ result' = Done(Cells(l)[Size(l) - 1])
     \/ result' = Done(NoItem)

ListPopn(l, n) ==
  /\ n <= Size(l)
  /\ Becomes(l, Size(l) - n, Cap(l), Cells(l))
  /\ result' = Done(NoItem)

(* Faulty variant: starts at the item removed, not at the end.             *)
ListRemoveFromIndex(l, i) ==
  /\ i < Size(l)
  /\ LET size == Size(l) - 1
     IN  Becomes(l, size, Cap(l), ShiftItems(Cells(l), i, size - i, -1))
  /\ result' = Done(Cells(l)[i])

ListRemove(l, i) ==
  /\ i < Size(l)
  /\ LET size == Size(l) - 1
     IN  Becomes(l, size, Cap(l), ShiftItems(Cells(l), size, size - i, -1))
  /\ result' = Done(Cells(l)[i])

(* list_get, and list_get_last for the last index, which its callers know  *)
(* to be there.                                                            *)
ListGet(l, i) ==
  /\ i < Size(l)
  /\ Answers(l, Done(Cells(l)[i]))

(* list_ref and list_ref_last, and the caller writing through the pointer. *)
ListRefAssign(l, i, item) ==
  /\ i < Size(l)
  /\ Becomes(l, Size(l), Cap(l), [Cells(l) EXCEPT ![i] = item])
  /\ result' = Done(item)

(* list_pop, list_popn, list_remove, list_get or list_ref beyond the size. *)
ListRefuses(l, n) ==
  /\ n > Size(l)
  /\ Answers(l, Failed)

(* list_foreach with an iterator that returns non-zero at what is in stops.*)
ListForeach(l, stops) ==
  LET stopping   == {i \in Indices(l) : Cells(l)[i] \in stops}
      Visited(n) == [i \in 1 .. n |-> Cells(l)[i - 1]]
  IN  \/ stopping = {} /\ Answers(l, Done(Visited(Size(l))))
      \/ \E n \in stopping :
           /\ \A i \in stopping : n <= i
           /\ Answers(l, [ret |-> 1, out |-> Visited(n + 1)])

ListFind(l, wanted) ==
  LET found == {i \in Indices(l) : Cells(l)[i] \in wanted}
  IN  \/ found = {} /\ Answers(l, Failed)
      \/ \E n \in found : (\A i \in found : n <= i) /\ Answers(l, Done(Cells(l)[n]))

ListClear(l) ==
  /\ list' = [list EXCEPT ![l] = EmptyList]
  /\ result' = Done(NoItem)

----------------------------------------------------------------------------
ListNext ==
  \E l \in Names :
    \/ \E item \in Items : ListPush(l, item)
    \/ \E other \in Names : ListAppend(l, other) \/ ListAppendNothing(l, other)
    \/ ListGrowFails(l)
    \/ ListPop(l)
    \/ \E n \in 0 .. MaxItems : ListPopn(l, n)
    \/ \E i \in Indices(l) :
         \/ ListRemove(l, i) \/ ListGet(l, i)
         \/ \E item \in Items : ListRefAssign(l, i, item)
    \/ \E n \in 1 .. MaxItems + 1 : ListRefuses(l, n)
    \/ \E some \in SUBSET Items : ListForeach(l, some) \/ ListFind(l, some)
    \/ ListClear(l)

ListSpec == ListInit /\ [][ListNext]_listVars

----------------------------------------------------------------------------
(* The items fit the buffer and are items that somebody put there, through *)
(* every growth, shift and move: no caller is handed a cell that realloc   *)
(* left unwritten.                                                         *)
ListTypeOK ==
  \A l \in Names :
    /\ Cap(l) \in Nat /\ Size(l) \in 0 .. Cap(l)
    /\ DOMAIN Cells(l) = 0 .. Cap(l) - 1
    /\ \A i \in Indices(l) : Cells(l)[i] \in Items

(* A list is the sequence of its items: list_append moves all of them once *)
(* however often the buffer has to grow for it, list_remove closes the gap *)
(* in the order of the rest, and a call that fails changes nothing         *)
(* (list.c:21-184).                                                        *)
Contents(l) == [i \in 1 .. Size(l) |-> Cells(l)[i - 1]]

Sequence == INSTANCE ItemSequences WITH seq <- [l \in Names |-> Contents(l)]

IsSequence == Sequence!Spec
=============================================================================
