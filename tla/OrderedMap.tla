----------------------------- MODULE OrderedMap -----------------------------
(***************************************************************************)
(* The OrderedMap of src/util/map.c: key/value pairs kept in a growing     *)
(* buffer in the order of the map's comparison function, searched from the *)
(* front up to the first pair that does not come before the key.           *)
(*                                                                         *)
(* The buffer is a function on 0 .. cap - 1; the cells from size on hold   *)
(* whatever realloc or an earlier shift left there (Garbage, or an old     *)
(* pair).                                                                  *)
(***************************************************************************)
EXTENDS Buffers

CONSTANTS
  Keys, Vals,
  Cmp(_, _),    \* the map's cmp_fn
  Nothing       \* no value: an out parameter that is not written

VARIABLES
  items, size, cap,
  answer            \* return code and out parameter of the last call

vars == <<items, size, cap, answer>>

Success(out) == [ret |-> 0, out |-> out]
Failure      == [ret |-> -1, out |-> Nothing]

Pair == [key : Keys, val : Vals]
Garbage == [key |-> Nothing, val |-> Nothing]

(* What every caller must give the map as its comparison function.         *)
TotalOrder ==
  /\ \A a, b \in Keys : Cmp(a, b) \in Int
  /\ \A a, b \in Keys : Cmp(a, b) = 0 <=> a = b
  /\ \A a, b \in Keys : Cmp(a, b) < 0 <=> Cmp(b, a) > 0
  /\ \A a, b, c \in Keys : Cmp(a, b) < 0 /\ Cmp(b, c) < 0 => Cmp(a, c) < 0

(* Faulty variant: passes the pair with an equal key.                      *)
StopsLate(key, i) == i < size => Cmp(key, items[i].key) < 0

(* find_item: the index of the first pair that is not before the key.      *)
Stops(key, i) == i < size => Cmp(key, items[i].key) <= 0

IsIndex(key, i) ==
  /\ i \in 0 .. size
  /\ Stops(key, i)
  /\ \A j \in 0 .. i - 1 : ~Stops(key, j)

Found(key, i) == i < size /\ Cmp(key, items[i].key) = 0

----------------------------------------------------------------------------
Init ==
  /\ items = [i \in {} |-> Garbage]
  /\ size = 0 /\ cap = 0
  /\ answer = Success(Nothing)

(* Faulty variant: believes a full buffer has room for one more.           *)
MapInsertNewTight(key, val) ==
  \E i \in 0 .. size :
    LET new_cap == IF size > cap THEN NextCapacity(cap) ELSE cap
        shifted == ShiftItems(Grown(items, new_cap, Garbage), i, size - i, 1)
    IN  /\ IsIndex(key, i) /\ ~Found(key, i)
        /\ items' = [shifted EXCEPT ![i] = [key |-> key, val |-> val]]
        /\ cap' = new_cap
        /\ size' = size + 1
        /\ answer' = Success(Nothing)

MapInsertNew(key, val) ==
  \E i \in 0 .. size :
    LET new_cap == IF size + 1 > cap THEN NextCapacity(cap) ELSE cap
        shifted == ShiftItems(Grown(items, new_cap, Garbage), i, size - i, 1)
    IN  /\ IsIndex(key, i) /\ ~Found(key, i)
        /\ items' = [shifted EXCEPT ![i] = [key |-> key, val |-> val]]
        /\ cap' = new_cap
        /\ size' = size + 1
        /\ answer' = Success(Nothing)

(* realloc has no memory for the larger buffer.                            *)
MapInsertFails(key) ==
  \E i \in 0 .. size :
    /\ IsIndex(key, i) /\ ~Found(key, i)
    /\ size + 1 > cap
    /\ answer' = Failure
    /\ UNCHANGED <<items, size, cap>>

(* A pair that is there gets a new value and keeps its key.                *)
MapInsertReplace(key, val) ==
  \E i \in 0 .. size :
    /\ IsIndex(key, i) /\ Found(key, i)
    /\ items' = [items EXCEPT ![i].val = val]
    /\ answer' = Success(Nothing)
    /\ UNCHANGED <<size, cap>>

(* Faulty variant: shifts one pair too few.                                *)
MapRemoveShiftsLess(key) ==
  \E i \in 0 .. size :
    /\ IsIndex(key, i) /\ Found(key, i)
    /\ size' = size - 1
    /\ items' = ShiftItems(items, size', size' - i - 1, -1)
    /\ answer' = Success(items[i].val)
    /\ UNCHANGED cap

MapRemove(key) ==
  \E i \in 0 .. size :
    /\ IsIndex(key, i) /\ Found(key, i)
    /\ size' = size - 1
    /\ items' = ShiftItems(items, size', size' - i, -1)
    /\ answer' = Success(items[i].val)
    /\ UNCHANGED cap

MapGet(key) ==
  \E i \in 0 .. size :
    /\ IsIndex(key, i) /\ Found(key, i)
    /\ answer' = Success(items[i].val)
    /\ UNCHANGED <<items, size, cap>>

(* map_ref, and the caller writing through the pointer it is given, as     *)
(* bind_value_rec and bind_function_rec do.                                *)
MapRefAssign(key, val) ==
  \E i \in 0 .. size :
    /\ IsIndex(key, i) /\ Found(key, i)
    /\ items' = [items EXCEPT ![i].val = val]
    /\ answer' = Success(val)
    /\ UNCHANGED <<size, cap>>

(* map_remove, map_get and map_ref of a key that is not found.             *)
MapMisses(key) ==
  \E i \in 0 .. size :
    /\ IsIndex(key, i) /\ ~Found(key, i)
    /\ answer' = Failure
    /\ UNCHANGED <<items, size, cap>>

(* map_foreach with an iterator that returns non-zero at the keys of stops *)
(* and zero at the others.                                                 *)
MapForeach(stops) ==
  LET stopping == {i \in 0 .. size - 1 : items[i].key \in stops}
      KeysUpTo(n) == {items[i].key : i \in 0 .. n}
  IN  /\ \/ stopping = {} /\ answer' = Success(KeysUpTo(size - 1))
         \/ \E n \in stopping :
              /\ \A i \in stopping : n <= i
              /\ answer' = [ret |-> 1, out |-> KeysUpTo(n)]
      /\ UNCHANGED <<items, size, cap>>

MapClear ==
  /\ items' = [i \in {} |-> Garbage]
  /\ size' = 0 /\ cap' = 0
  /\ answer' = Success(Nothing)

----------------------------------------------------------------------------
Next ==
  \/ \E key \in Keys, val \in Vals :
       MapInsertNew(key, val) \/ MapInsertReplace(key, val) \/ MapRefAssign(key, val)
  \/ \E key \in Keys :
       MapInsertFails(key) \/ MapRemove(key) \/ MapGet(key) \/ MapMisses(key)
  \/ \E stops \in SUBSET Keys : MapForeach(stops)
  \/ MapClear

Spec == Init /\ [][Next]_vars

----------------------------------------------------------------------------
(* The buffer has room for the pairs, and the pairs are pairs: no cell the *)
(* map counts as its own is one that nobody wrote.                         *)
TypeOK ==
  /\ cap \in Nat /\ size \in 0 .. cap
  /\ items \in [0 .. cap - 1 -> Pair \cup {Garbage}]
  /\ \A i \in 0 .. size - 1 : items[i] \in Pair
  /\ DOMAIN answer = {"ret", "out"}

(* The pairs are in strictly ascending order, through every sequence of    *)
(* insertions and removals: what find_item's early stop (map.c:155) needs. *)
KeysAscend ==
  \A i, j \in 0 .. size - 1 : i < j => Cmp(items[i].key, items[j].key) < 0

(* The map is a KeyedStore: a lookup answers with the value last given to  *)
(* the key, and misses only a key that has none (map.c:25-144).            *)
ContentsOf(cells, n) ==
  [key \in {cells[i].key : i \in 0 .. n - 1} |->
    cells[CHOOSE i \in 0 .. n - 1 : cells[i].key = key].val]

Store == INSTANCE KeyedStore WITH store <- ContentsOf(items, size)

IsKeyedStore == Store!Spec

(* map.c:32, "inserting new pair": the pair that an insertion adds is a    *)
(* new one, so no key occurs twice.                                        *)
NewPairsAreNew ==
  \A i, j \in 0 .. size - 1 : items[i].key = items[j].key => i = j
=============================================================================
