-------------------------- MODULE OrderedMapProofs --------------------------
(***************************************************************************)
(* For every key set, every capacity and every comparison function that    *)
(* orders the keys totally, the pairs of an OrderedMap stay in strictly    *)
(* ascending order and within the buffer, and the map is a KeyedStore.     *)
(***************************************************************************)
EXTENDS OrderedMap, TLAPS

Used == 0 .. size - 1

IInv ==
  /\ cap \in Nat /\ size \in 0 .. cap
  /\ items \in [0 .. cap - 1 -> Pair \cup {Garbage}]
  /\ \A i \in Used : items[i] \in Pair
  /\ DOMAIN answer = {"ret", "out"}
  /\ KeysAscend

(* The next buffer is at least one cell longer than a full one.            *)
LEMMA NextCapacityGrows ==
  ASSUME NEW c \in Nat
  PROVE  NextCapacity(c) \in Nat /\ NextCapacity(c) > c
BY CapacityAssumption DEF NextCapacity

(* What shifting the tail of the map up by one cell leaves where.          *)
LEMMA ShiftUp ==
  ASSUME NEW n \in Nat, NEW c \in Nat, n < c, NEW i \in 0 .. n,
         NEW cells, DOMAIN cells = 0 .. c - 1
  PROVE  LET shifted == ShiftItems(cells, i, n - i, 1)
         IN  /\ DOMAIN shifted = 0 .. c - 1
             /\ \A j \in 0 .. i - 1 : shifted[j] = cells[j]
             /\ \A j \in i + 1 .. n : shifted[j] = cells[j - 1]
             /\ \A j \in 0 .. c - 1 : j > n => shifted[j] = cells[j]
             /\ shifted[i] = cells[i]
<1> DEFINE shifted == ShiftItems(cells, i, n - i, 1)
<1>1. DOMAIN shifted = 0 .. c - 1
  BY DEF ShiftItems
<1>2. ASSUME NEW j \in 0 .. c - 1, j <= i \/ j > n
      PROVE  shifted[j] = cells[j]
  <2>1. ~ \E k \in 0 .. (n - i) - 1 : j = i + 1 * (k + 1)
    BY <1>2
  <2> QED BY <2>1 DEF ShiftItems
<1>3. ASSUME NEW j \in i + 1 .. n
      PROVE  shifted[j] = cells[j - 1]
  <2>1. j - i - 1 \in 0 .. (n - i) - 1 /\ j = i + 1 * ((j - i - 1) + 1)
    OBVIOUS
  <2>2. \E k \in 0 .. (n - i) - 1 : j = i + 1 * (k + 1)
    BY <2>1
  <2>3. j \in 0 .. c - 1
    OBVIOUS
  <2> QED BY <2>2, <2>3 DEF ShiftItems
<1> QED BY <1>1, <1>2, <1>3

(* What closing the gap of a removed pair leaves where; n is the size that *)
(* remains.                                                                *)
Closed(cells, n, i) == ShiftItems(cells, n, n - i, -1)

LEMMA ShiftDown ==
  ASSUME NEW n \in Nat, NEW c \in Nat, n < c, NEW i \in 0 .. n,
         NEW cells, DOMAIN cells = 0 .. c - 1
  PROVE  /\ DOMAIN Closed(cells, n, i) = 0 .. c - 1
         /\ \A j \in 0 .. i - 1 : Closed(cells, n, i)[j] = cells[j]
         /\ \A j \in i .. n - 1 : Closed(cells, n, i)[j] = cells[j + 1]
         /\ \A j \in 0 .. c - 1 : j >= n => Closed(cells, n, i)[j] = cells[j]
<1> DEFINE shifted == ShiftItems(cells, n, n - i, -1)
<1>0. Closed(cells, n, i) = shifted
  BY DEF Closed
<1>1. DOMAIN shifted = 0 .. c - 1
  BY DEF ShiftItems
<1>2. ASSUME NEW j \in 0 .. c - 1, j < i \/ j >= n
      PROVE  shifted[j] = cells[j]
  <2>1. ~ \E k \in 0 .. (n - i) - 1 : j = n + (-1) * (k + 1)
    BY <1>2
  <2> QED BY <2>1 DEF ShiftItems
<1>3. ASSUME NEW j \in i .. n - 1
      PROVE  shifted[j] = cells[j + 1]
  <2>1. n - 1 - j \in 0 .. (n - i) - 1 /\ j = n + (-1) * ((n - 1 - j) + 1)
    OBVIOUS
  <2>2. \E k \in 0 .. (n - i) - 1 : j = n + (-1) * (k + 1)
    BY <2>1
  <2>3. j \in 0 .. c - 1 /\ j - (-1) = j + 1
    OBVIOUS
  <2> QED BY <2>2, <2>3 DEF ShiftItems
<1> HIDE DEF shifted
<1> QED BY <1>0, <1>1, <1>2, <1>3

(* A pair that find_item passes comes before the key; where it stops       *)
(* without finding the key, all that follow come after it.                 *)
LEMMA Search ==
  ASSUME TotalOrder, IInv, NEW key \in Keys, NEW i \in 0 .. size, IsIndex(key, i)
  PROVE  /\ \A j \in 0 .. i - 1 : Cmp(items[j].key, key) < 0
         /\ ~Found(key, i) => \A j \in i .. size - 1 : Cmp(key, items[j].key) < 0
         /\ Found(key, i) => i \in Used /\ items[i].key = key
         /\ ~Found(key, i) => \A j \in Used : items[j].key # key
<1>1. \A j \in Used : items[j].key \in Keys
  BY DEF IInv, Pair, Used
<1>2. size \in Nat
  BY DEF IInv
<1>3. ASSUME NEW j \in 0 .. i - 1
      PROVE  Cmp(items[j].key, key) < 0
  <2>1. j \in Used /\ ~Stops(key, j)
    BY <1>2 DEF IsIndex, Used
  <2>2. Cmp(key, items[j].key) > 0
    BY <2>1, <1>1 DEF Stops, TotalOrder
  <2> QED BY <2>2, <2>1, <1>1 DEF TotalOrder
<1>4. ASSUME ~Found(key, i), NEW j \in i .. size - 1
      PROVE  Cmp(key, items[j].key) < 0
  <2>1. i \in Used /\ j \in Used
    BY <1>2 DEF Used
  <2>2. Cmp(key, items[i].key) < 0
    BY <1>4, <2>1, <1>1, <1>2 DEF IsIndex, Stops, Found, TotalOrder
  <2>3. CASE j = i
    BY <2>2, <2>3
  <2>4. CASE i < j
    <3>1. Cmp(items[i].key, items[j].key) < 0
      BY <2>1, <2>4 DEF IInv, KeysAscend, Used
    <3> QED BY <3>1, <2>2, <2>1, <1>1 DEF TotalOrder
  <2> QED BY <2>3, <2>4, <2>1 DEF Used
<1>5. ASSUME Found(key, i)
      PROVE  i \in Used /\ items[i].key = key
  BY <1>5, <1>1, <1>2 DEF Found, Used, TotalOrder
<1>6. ASSUME ~Found(key, i), NEW j \in Used
      PROVE  items[j].key # key
  <2>1. CASE j < i
    <3>1. Cmp(items[j].key, key) < 0
      BY <1>3, <2>1 DEF Used
    <3> QED BY <3>1, <1>1 DEF TotalOrder
  <2>2. CASE j >= i
    <3>1. Cmp(key, items[j].key) < 0
      BY <1>4, <1>6, <2>2 DEF Used
    <3> QED BY <3>1, <1>1 DEF TotalOrder
  <2> QED BY <2>1, <2>2, <1>2 DEF Used
<1> QED BY <1>3, <1>4, <1>5, <1>6

----------------------------------------------------------------------------
(* What the operations that move pairs leave in the buffer.                *)

(* An insertion at i: the pairs before i stay, the others move up by one.  *)
LEMMA InsertNewEffect ==
  ASSUME IInv, NEW key \in Keys, NEW val \in Vals, MapInsertNew(key, val)
  PROVE  \E i \in 0 .. size :
           /\ IsIndex(key, i) /\ ~Found(key, i)
           /\ size' = size + 1 /\ cap' \in Nat /\ size' <= cap'
           /\ items' \in [0 .. cap' - 1 -> Pair \cup {Garbage}]
           /\ \A j \in 0 .. i - 1 : items'[j] = items[j]
           /\ items'[i] = [key |-> key, val |-> val]
           /\ \A j \in i + 1 .. size : items'[j] = items[j - 1]
           /\ answer' = Success(Nothing)
<1>0. size \in Nat /\ cap \in Nat /\ size <= cap
  BY DEF IInv
<1> DEFINE c == IF size + 1 > cap THEN NextCapacity(cap) ELSE cap
<1>1. PICK i \in 0 .. size :
        /\ IsIndex(key, i) /\ ~Found(key, i)
        /\ items' = [ShiftItems(Grown(items, c, Garbage), i, size - i, 1)
                       EXCEPT ![i] = [key |-> key, val |-> val]]
        /\ cap' = c /\ size' = size + 1 /\ answer' = Success(Nothing)
  BY DEF MapInsertNew
<1>2. c \in Nat /\ size < c /\ cap <= c
  BY <1>0, NextCapacityGrows
<1> HIDE DEF c
<1> DEFINE grown == Grown(items, c, Garbage)
           shifted == ShiftItems(grown, i, size - i, 1)
<1>3. /\ DOMAIN grown = 0 .. c - 1
      /\ \A j \in 0 .. size - 1 : grown[j] = items[j]
      /\ \A j \in 0 .. c - 1 : grown[j] \in Pair \cup {Garbage}
  <2>1. DOMAIN items = 0 .. cap - 1 /\ \A j \in 0 .. cap - 1 : items[j] \in Pair \cup {Garbage}
    BY DEF IInv
  <2>2. DOMAIN grown = 0 .. c - 1
    BY DEF Grown
  <2>3. \A j \in 0 .. size - 1 : grown[j] = items[j]
    BY <2>1, <1>0, <1>2 DEF Grown
  <2>4. ASSUME NEW j \in 0 .. c - 1
        PROVE  grown[j] \in Pair \cup {Garbage}
    BY <2>1 DEF Grown
  <2> QED BY <2>2, <2>3, <2>4
<1>4. /\ DOMAIN shifted = 0 .. c - 1
      /\ \A j \in 0 .. i - 1 : shifted[j] = grown[j]
      /\ \A j \in i + 1 .. size : shifted[j] = grown[j - 1]
      /\ \A j \in 0 .. c - 1 : j > size => shifted[j] = grown[j]
      /\ shifted[i] = grown[i]
  <2> HIDE DEF grown
  <2> QED BY ShiftUp, <1>0, <1>2, <1>3
<1>5. [key |-> key, val |-> val] \in Pair
  BY DEF Pair
<1>6. /\ DOMAIN items' = 0 .. c - 1
      /\ \A j \in 0 .. c - 1 : j # i => items'[j] = shifted[j]
      /\ items'[i] = [key |-> key, val |-> val]
      /\ items' = [j \in 0 .. c - 1 |-> items'[j]]
  <2>1. i \in 0 .. c - 1 /\ items' = [shifted EXCEPT ![i] = [key |-> key, val |-> val]]
    BY <1>1, <1>0, <1>2
  <2> HIDE DEF shifted
  <2> QED BY <2>1, <1>4
<1>7. \A j \in 0 .. i - 1 : items'[j] = items[j]
  <2> HIDE DEF shifted, grown
  <2> QED BY <1>6, <1>4, <1>3, <1>0, <1>2
<1>8. \A j \in i + 1 .. size : items'[j] = items[j - 1]
  <2> HIDE DEF shifted, grown
  <2> QED BY <1>6, <1>4, <1>3, <1>0, <1>2
<1>9. ASSUME NEW j \in 0 .. c - 1
      PROVE  items'[j] \in Pair \cup {Garbage}
  <2>1. CASE j = i
    BY <2>1, <1>6, <1>5
  <2>2. CASE j < i \/ j > size
    <3> HIDE DEF shifted, grown
    <3> QED BY <2>2, <1>6, <1>4, <1>3, <1>0
  <2>3. CASE j \in i + 1 .. size
    <3>1. items'[j] = grown[j - 1] /\ j - 1 \in 0 .. c - 1
      <4> HIDE DEF shifted, grown
      <4> QED BY <2>3, <1>6, <1>4, <1>0, <1>2
    <3> HIDE DEF shifted, grown
    <3> QED BY <3>1, <1>3
  <2> QED BY <2>1, <2>2, <2>3, <1>0
<1>10. items' \in [0 .. cap' - 1 -> Pair \cup {Garbage}]
  BY <1>6, <1>9, <1>1
<1>11. /\ IsIndex(key, i) /\ ~Found(key, i)
       /\ size' = size + 1 /\ cap' = c /\ answer' = Success(Nothing)
  BY <1>1
<1>12. cap' \in Nat /\ size' <= cap'
  BY <1>11, <1>2, <1>0
<1>13. items'[i] = [key |-> key, val |-> val]
  BY <1>6
<1> HIDE DEF shifted, grown
<1> QED BY <1>7, <1>8, <1>10, <1>11, <1>12, <1>13

(* A removal at i: the pairs after i move down by one.                     *)
LEMMA RemoveEffect ==
  ASSUME TotalOrder, IInv, NEW key \in Keys, MapRemove(key)
  PROVE  \E i \in Used :
           /\ items[i].key = key
           /\ size' = size - 1 /\ cap' = cap
           /\ items' \in [0 .. cap - 1 -> Pair \cup {Garbage}]
           /\ \A j \in 0 .. i - 1 : items'[j] = items[j]
           /\ \A j \in i .. size - 2 : items'[j] = items[j + 1]
           /\ answer' = Success(items[i].val)
<1>0. size \in Nat /\ cap \in Nat /\ size <= cap
  BY DEF IInv
<1>1. PICK i \in 0 .. size :
        /\ IsIndex(key, i) /\ Found(key, i)
        /\ size' = size - 1
        /\ items' = ShiftItems(items, size', size' - i, -1)
        /\ answer' = Success(items[i].val)
        /\ cap' = cap
  BY DEF MapRemove
<1>2. i \in Used /\ items[i].key = key
  BY <1>1, Search
<1>3. items' = ShiftItems(items, size - 1, (size - 1) - i, -1)
  BY <1>1
<1>4. size - 1 \in Nat /\ size - 1 < cap /\ i \in 0 .. size - 1
  BY <1>0, <1>2 DEF Used
<1>5. DOMAIN items = 0 .. cap - 1
  BY DEF IInv
<1>6. /\ DOMAIN items' = 0 .. cap - 1
      /\ \A j \in 0 .. i - 1 : items'[j] = items[j]
      /\ \A j \in i .. size - 2 : items'[j] = items[j + 1]
      /\ \A j \in 0 .. cap - 1 : j >= size - 1 => items'[j] = items[j]
  <2>1. PICK n \in Nat : n = size - 1
    BY <1>4
  <2>2. items' = Closed(items, n, i)
    BY <2>1, <1>3 DEF Closed
  <2>3. n \in Nat /\ cap \in Nat /\ n < cap /\ i \in 0 .. n
    BY <2>1, <1>4, <1>0
  <2>4. /\ DOMAIN items' = 0 .. cap - 1
        /\ \A j \in 0 .. i - 1 : items'[j] = items[j]
        /\ \A j \in i .. n - 1 : items'[j] = items[j + 1]
        /\ \A j \in 0 .. cap - 1 : j >= n => items'[j] = items[j]
    BY ShiftDown, <2>2, <2>3, <1>5
  <2>5. n - 1 = size - 2
    BY <2>1, <1>0
  <2> QED BY <2>1, <2>4, <2>5
<1>7. ASSUME NEW j \in 0 .. cap - 1
      PROVE  items'[j] \in Pair \cup {Garbage}
  <2>1. \A k \in 0 .. cap - 1 : items[k] \in Pair \cup {Garbage}
    BY DEF IInv
  <2>2. CASE j < i \/ j >= size - 1
    BY <2>1, <2>2, <1>6
  <2>3. CASE j \in i .. size - 2
    <3>1. j + 1 \in 0 .. cap - 1
      BY <2>3, <1>0
    <3> QED BY <2>1, <2>3, <3>1, <1>6
  <2> QED BY <2>2, <2>3, <1>0
<1>8. items' = [j \in 0 .. cap - 1 |-> items'[j]]
  BY <1>3, <1>5, <1>6 DEF ShiftItems
<1>9. items' \in [0 .. cap - 1 -> Pair \cup {Garbage}]
  BY <1>7, <1>8
<1> QED BY <1>1, <1>2, <1>6, <1>9

----------------------------------------------------------------------------
(* The pairs stay in order.                                                *)

(* Two places of an ordered sequence of pairs hold different keys.         *)
LEMMA AscendingDiffer ==
  ASSUME TotalOrder, NEW cells, NEW n \in Nat,
         \A i \in 0 .. n - 1 : cells[i] \in Pair,
         \A i, j \in 0 .. n - 1 : i < j => Cmp(cells[i].key, cells[j].key) < 0
  PROVE  \A i, j \in 0 .. n - 1 : cells[i].key = cells[j].key => i = j
<1> SUFFICES ASSUME NEW i \in 0 .. n - 1, NEW j \in 0 .. n - 1, i < j
             PROVE  cells[i].key # cells[j].key
  OBVIOUS
<1>1. cells[i].key \in Keys /\ cells[j].key \in Keys
  BY DEF Pair
<1> QED BY <1>1 DEF TotalOrder

LEMMA KeysDiffer ==
  ASSUME TotalOrder, IInv
  PROVE  \A i, j \in Used : items[i].key = items[j].key => i = j
<1>1. /\ size \in Nat
      /\ \A i \in 0 .. size - 1 : items[i] \in Pair
      /\ \A i, j \in 0 .. size - 1 : i < j => Cmp(items[i].key, items[j].key) < 0
  BY DEF IInv, KeysAscend, Used
<1> QED BY <1>1, AscendingDiffer DEF Used

LEMMA InsertNewKeepsIInv ==
  ASSUME TotalOrder, IInv, NEW key \in Keys, NEW val \in Vals, MapInsertNew(key, val)
  PROVE  IInv'
<1>0. size \in Nat /\ \A j \in Used : items[j] \in Pair
  BY DEF IInv
<1>1. PICK i \in 0 .. size :
        /\ IsIndex(key, i) /\ ~Found(key, i)
        /\ size' = size + 1 /\ cap' \in Nat /\ size' <= cap'
        /\ items' \in [0 .. cap' - 1 -> Pair \cup {Garbage}]
        /\ \A j \in 0 .. i - 1 : items'[j] = items[j]
        /\ items'[i] = [key |-> key, val |-> val]
        /\ \A j \in i + 1 .. size : items'[j] = items[j - 1]
        /\ answer' = Success(Nothing)
  BY InsertNewEffect
<1>a. size' = size + 1 /\ cap' \in Nat /\ size' <= cap' /\ i \in 0 .. size
  BY <1>1
<1>b. \A j \in 0 .. i - 1 : items'[j] = items[j]
  BY <1>1
<1>c. \A j \in i + 1 .. size : items'[j] = items[j - 1]
  BY <1>1
<1>d. items'[i] \in Pair /\ items'[i].key = key
  BY <1>1 DEF Pair
<1>2. /\ \A j \in 0 .. i - 1 : Cmp(items[j].key, key) < 0
      /\ \A j \in i .. size - 1 : Cmp(key, items[j].key) < 0
  BY <1>1, Search
<1>3. ASSUME NEW j \in 0 .. size
      PROVE  items'[j] \in Pair
  <2>1. CASE j < i
    BY <2>1, <1>0, <1>a, <1>b DEF Used
  <2>2. CASE j = i
    BY <2>2, <1>d
  <2>3. CASE j > i
    BY <2>3, <1>0, <1>a, <1>c DEF Used
  <2> QED BY <2>1, <2>2, <2>3, <1>0
<1>4. ASSUME NEW a \in 0 .. size, NEW b \in 0 .. size, a < b
      PROVE  Cmp(items'[a].key, items'[b].key) < 0
  <2>0. \A x, y \in Used : x < y => Cmp(items[x].key, items[y].key) < 0
    BY DEF IInv, KeysAscend, Used
  <2>1. CASE b < i
    BY <1>4, <2>0, <2>1, <1>a, <1>b, <1>0 DEF Used
  <2>2. CASE b = i
    BY <1>4, <2>2, <1>a, <1>b, <1>d, <1>2, <1>0
  <2>3. CASE a = i
    <3>1. b - 1 \in i .. size - 1 /\ items'[b] = items[b - 1]
      BY <1>4, <2>3, <1>a, <1>c, <1>0
    <3> QED BY <1>4, <3>1, <2>3, <1>d, <1>2
  <2>4. CASE a < i /\ b > i
    <3>1. b - 1 \in Used /\ a \in Used /\ a < b - 1
      BY <1>4, <2>4, <1>a, <1>0 DEF Used
    <3>2. items'[a] = items[a] /\ items'[b] = items[b - 1]
      BY <1>4, <2>4, <1>a, <1>b, <1>c, <1>0
    <3> QED BY <1>4, <2>0, <3>1, <3>2
  <2>5. CASE a > i
    <3>1. b - 1 \in Used /\ a - 1 \in Used /\ a - 1 < b - 1
      BY <1>4, <2>5, <1>a, <1>0 DEF Used
    <3>2. items'[a] = items[a - 1] /\ items'[b] = items[b - 1]
      BY <1>4, <2>5, <1>a, <1>c, <1>0
    <3> QED BY <1>4, <2>0, <3>1, <3>2
  <2> QED BY <1>4, <2>1, <2>2, <2>3, <2>4, <2>5, <1>0
<1>5. Used' = 0 .. size
  BY <1>a, <1>0 DEF Used
<1>6. KeysAscend'
  BY <1>4, <1>a, <1>0 DEF KeysAscend
<1>e. items' \in [0 .. cap' - 1 -> Pair \cup {Garbage}]
  BY <1>1
<1>7. DOMAIN answer' = {"ret", "out"}
  BY <1>1 DEF Success
<1>8. size' \in 0 .. cap'
  BY <1>0, <1>a
<1>9. (\A j \in Used : items[j] \in Pair)'
  BY <1>3, <1>5
<1> QED BY <1>a, <1>e, <1>6, <1>7, <1>8, <1>9 DEF IInv

LEMMA RemoveKeepsIInv ==
  ASSUME TotalOrder, IInv, NEW key \in Keys, MapRemove(key)
  PROVE  IInv'
<1>0. size \in Nat /\ cap \in Nat /\ size <= cap /\ \A j \in Used : items[j] \in Pair
  BY DEF IInv
<1>1. PICK i \in Used :
        /\ items[i].key = key
        /\ size' = size - 1 /\ cap' = cap
        /\ items' \in [0 .. cap - 1 -> Pair \cup {Garbage}]
        /\ \A j \in 0 .. i - 1 : items'[j] = items[j]
        /\ \A j \in i .. size - 2 : items'[j] = items[j + 1]
        /\ answer' = Success(items[i].val)
  BY RemoveEffect
<1>a. size' = size - 1 /\ cap' = cap /\ i \in 0 .. size - 1
  BY <1>1 DEF Used
<1>b. /\ \A j \in 0 .. i - 1 : items'[j] = items[j]
      /\ \A j \in i .. size - 2 : items'[j] = items[j + 1]
  BY <1>1
<1>2. \A j \in 0 .. size - 2 :
        \/ j < i /\ items'[j] = items[j] /\ j \in Used
        \/ j >= i /\ items'[j] = items[j + 1] /\ j + 1 \in Used
  BY <1>0, <1>a, <1>b DEF Used
<1>3. \A j \in 0 .. size - 2 : items'[j] \in Pair
  BY <1>0, <1>2
<1>4. ASSUME NEW a \in 0 .. size - 2, NEW b \in 0 .. size - 2, a < b
      PROVE  Cmp(items'[a].key, items'[b].key) < 0
  <2>0. \A x, y \in Used : x < y => Cmp(items[x].key, items[y].key) < 0
    BY DEF IInv, KeysAscend, Used
  <2>1. CASE b < i
    BY <1>4, <2>0, <2>1, <1>2, <1>0, <1>a
  <2>2. CASE a < i /\ b >= i
    <3>1. a \in Used /\ b + 1 \in Used /\ a < b + 1
      BY <1>4, <2>2, <1>a, <1>0 DEF Used
    <3>2. items'[a] = items[a] /\ items'[b] = items[b + 1]
      BY <1>4, <2>2, <1>b, <1>a, <1>0
    <3> QED BY <2>0, <3>1, <3>2
  <2>3. CASE a >= i
    <3>1. a + 1 \in Used /\ b + 1 \in Used /\ a + 1 < b + 1
      BY <1>4, <2>3, <1>a, <1>0 DEF Used
    <3>2. items'[a] = items[a + 1] /\ items'[b] = items[b + 1]
      BY <1>4, <2>3, <1>b, <1>a, <1>0
    <3> QED BY <1>4, <2>0, <3>1, <3>2
  <2> QED BY <1>4, <2>1, <2>2, <2>3 DEF Used
<1>5. size' - 1 = size - 2 /\ Used' = 0 .. size - 2
  BY <1>0, <1>1 DEF Used
<1>6. KeysAscend'
  BY <1>4, <1>5 DEF KeysAscend
<1>7. DOMAIN answer' = {"ret", "out"} /\ size' \in 0 .. cap
  BY <1>1, <1>0 DEF Success, Used
<1> QED BY <1>0, <1>1, <1>3, <1>5, <1>6, <1>7 DEF IInv

(* Giving a pair another value moves nothing.                              *)
LEMMA ReplaceEffect ==
  ASSUME TotalOrder, IInv, NEW key \in Keys, NEW val \in Vals,
         MapInsertReplace(key, val) \/ MapRefAssign(key, val)
  PROVE  /\ size' = size /\ cap' = cap
         /\ items' \in [0 .. cap - 1 -> Pair \cup {Garbage}]
         /\ \E i \in Used :
              /\ items[i].key = key
              /\ items'[i] = [key |-> key, val |-> val]
              /\ \A j \in Used : j # i => items'[j] = items[j]
         /\ answer' \in {Success(Nothing), Success(val)}
<1>0. size \in Nat /\ cap \in Nat /\ size <= cap
  BY DEF IInv
<1>1. PICK i \in 0 .. size :
        /\ IsIndex(key, i) /\ Found(key, i)
        /\ items' = [items EXCEPT ![i].val = val]
        /\ answer' \in {Success(Nothing), Success(val)}
        /\ UNCHANGED <<size, cap>>
  BY DEF MapInsertReplace, MapRefAssign
<1>2. i \in Used /\ items[i].key = key
  BY <1>1, Search
<1>3. i \in 0 .. cap - 1 /\ items \in [0 .. cap - 1 -> Pair \cup {Garbage}]
  BY <1>2, <1>0 DEF IInv, Used
<1>4. items[i] \in Pair /\ [items[i] EXCEPT !.val = val] = [key |-> key, val |-> val]
  BY <1>2 DEF IInv, Pair
<1>5. items' = [items EXCEPT ![i] = [key |-> key, val |-> val]]
  BY <1>1, <1>3, <1>4
<1>6. [key |-> key, val |-> val] \in Pair
  BY DEF Pair
<1>7. items' \in [0 .. cap - 1 -> Pair \cup {Garbage}]
  BY <1>3, <1>5, <1>6
<1>8. items'[i] = [key |-> key, val |-> val] /\ \A j \in Used : j # i => items'[j] = items[j]
  BY <1>3, <1>5, <1>0 DEF Used
<1> QED BY <1>1, <1>2, <1>7, <1>8

LEMMA ReplaceKeepsIInv ==
  ASSUME TotalOrder, IInv, NEW key \in Keys, NEW val \in Vals,
         MapInsertReplace(key, val) \/ MapRefAssign(key, val)
  PROVE  IInv'
<1>0. size \in Nat /\ \A j \in Used : items[j] \in Pair
  BY DEF IInv
<1>1. /\ size' = size /\ cap' = cap
      /\ items' \in [0 .. cap - 1 -> Pair \cup {Garbage}]
      /\ answer' \in {Success(Nothing), Success(val)}
  BY ReplaceEffect
<1>2. PICK i \in Used :
        /\ items[i].key = key
        /\ items'[i] = [key |-> key, val |-> val]
        /\ \A j \in Used : j # i => items'[j] = items[j]
  BY ReplaceEffect
<1>3. \A j \in Used : items'[j] \in Pair /\ items'[j].key = items[j].key
  BY <1>2, <1>0 DEF Pair
<1>4. KeysAscend'
  BY <1>3, <1>1 DEF KeysAscend, IInv, Used
<1>5. DOMAIN answer' = {"ret", "out"}
  BY <1>1 DEF Success
<1> QED BY <1>1, <1>3, <1>4, <1>5 DEF IInv, Used

LEMMA ForeachEffect ==
  ASSUME NEW stops, MapForeach(stops)
  PROVE  UNCHANGED <<items, size, cap>> /\ DOMAIN answer' = {"ret", "out"}
BY DEF MapForeach, Success

LEMMA IInvInit == ASSUME Init PROVE IInv
BY DEF Init, IInv, Success, KeysAscend, Used

LEMMA IInvNext == ASSUME TotalOrder, IInv, [Next]_vars PROVE IInv'
<1>1. ASSUME UNCHANGED <<items, size, cap>>, DOMAIN answer' = {"ret", "out"}
      PROVE  IInv'
  BY <1>1 DEF IInv, KeysAscend, Used
<1>2. ASSUME NEW key \in Keys, NEW val \in Vals, MapInsertNew(key, val)
      PROVE  IInv'
  BY <1>2, InsertNewKeepsIInv
<1>3. ASSUME NEW key \in Keys, NEW val \in Vals,
             MapInsertReplace(key, val) \/ MapRefAssign(key, val)
      PROVE  IInv'
  BY <1>3, ReplaceKeepsIInv
<1>4. ASSUME NEW key \in Keys, MapRemove(key)
      PROVE  IInv'
  BY <1>4, RemoveKeepsIInv
<1>5. ASSUME NEW key \in Keys, MapInsertFails(key) \/ MapGet(key) \/ MapMisses(key)
      PROVE  IInv'
  <2>1. UNCHANGED <<items, size, cap>> /\ DOMAIN answer' = {"ret", "out"}
    BY <1>5 DEF MapInsertFails, MapGet, MapMisses, Success, Failure
  <2> QED BY <2>1, <1>1
<1>6. ASSUME NEW stops \in SUBSET Keys, MapForeach(stops)
      PROVE  IInv'
  BY <1>6, <1>1, ForeachEffect
<1>7. CASE MapClear
  BY <1>7 DEF MapClear, IInv, Success, KeysAscend, Used
<1>8. CASE UNCHANGED vars
  BY <1>8, <1>1 DEF vars, IInv
<1> QED BY <1>2, <1>3, <1>4, <1>5, <1>6, <1>7, <1>8 DEF Next

(* The strengthened invariant holds of every run of the map, given a       *)
(* comparison function that orders the keys.                               *)
THEOREM Invariance == ASSUME TotalOrder PROVE Spec => []IInv
BY IInvInit, IInvNext, PTL DEF Spec

(* The map never counts a cell that nobody wrote, nor one past its buffer  *)
(* (map_insert's growth and shift, map.c:31-58).                           *)
THEOREM TypeCorrectness == ASSUME TotalOrder PROVE Spec => []TypeOK
<1>1. IInv => TypeOK
  BY DEF IInv, TypeOK, Used
<1> QED BY <1>1, Invariance, PTL

(* The pairs are always in strictly ascending order of their keys.         *)
THEOREM Ascending == ASSUME TotalOrder PROVE Spec => []KeysAscend
<1>1. IInv => KeysAscend
  BY DEF IInv
<1> QED BY <1>1, Invariance, PTL

----------------------------------------------------------------------------
(* The map implements the store.                                           *)

(* The store that n pairs with different keys represent.                   *)
LEMMA ContentsIs ==
  ASSUME NEW cells, NEW n \in Nat, NEW f, f = [key \in DOMAIN f |-> f[key]],
         \A i, j \in 0 .. n - 1 : cells[i].key = cells[j].key => i = j,
         \A i \in 0 .. n - 1 : cells[i].key \in DOMAIN f /\ f[cells[i].key] = cells[i].val,
         \A key \in DOMAIN f : \E i \in 0 .. n - 1 : cells[i].key = key
  PROVE  ContentsOf(cells, n) = f
<1> DEFINE KeySet == {cells[i].key : i \in 0 .. n - 1}
           At(key) == CHOOSE i \in 0 .. n - 1 : cells[i].key = key
<1>1. KeySet = DOMAIN f
  OBVIOUS
<1>2. ASSUME NEW key \in KeySet
      PROVE  cells[At(key)].val = f[key]
  <2>1. At(key) \in 0 .. n - 1 /\ cells[At(key)].key = key
    OBVIOUS
  <2> QED BY <2>1
<1>3. ContentsOf(cells, n) = [key \in KeySet |-> cells[At(key)].val]
  BY DEF ContentsOf
<1>4. [key \in KeySet |-> cells[At(key)].val] = [key \in DOMAIN f |-> f[key]]
  BY <1>1, <1>2
<1> QED BY <1>3, <1>4

(* The store of an ordered map, pair by pair.                              *)
LEMMA ContentsHave ==
  ASSUME TotalOrder, IInv
  PROVE  LET store == ContentsOf(items, size)
         IN  /\ DOMAIN store = {items[i].key : i \in Used}
             /\ \A i \in Used : store[items[i].key] = items[i].val
             /\ store = [key \in DOMAIN store |-> store[key]]
<1> DEFINE store == ContentsOf(items, size)
<1>1. DOMAIN store = {items[i].key : i \in Used}
  BY DEF ContentsOf, Used
<1>2. ASSUME NEW i \in Used
      PROVE  store[items[i].key] = items[i].val
  <2> DEFINE at == CHOOSE j \in 0 .. size - 1 : items[j].key = items[i].key
  <2>1. at \in Used /\ items[at].key = items[i].key
    BY DEF Used
  <2>2. at = i
    BY <2>1, KeysDiffer
  <2>3. store[items[i].key] = items[at].val
    BY <1>1 DEF ContentsOf, Used
  <2> QED BY <2>2, <2>3
<1>3. store = [key \in DOMAIN store |-> store[key]]
  BY DEF ContentsOf
<1> QED BY <1>1, <1>2, <1>3

(* A search decides whether the key is in the store.                       *)
LEMMA SearchDecides ==
  ASSUME TotalOrder, IInv, NEW key \in Keys, NEW i \in 0 .. size, IsIndex(key, i)
  PROVE  /\ Found(key, i) => /\ key \in DOMAIN ContentsOf(items, size)
                            /\ ContentsOf(items, size)[key] = items[i].val
         /\ ~Found(key, i) => key \notin DOMAIN ContentsOf(items, size)
<1>1. CASE Found(key, i)
  <2>1. i \in Used /\ items[i].key = key
    BY <1>1, Search
  <2> QED BY <1>1, <2>1, ContentsHave
<1>2. CASE ~Found(key, i)
  <2>1. \A j \in Used : items[j].key # key
    BY <1>2, Search
  <2> QED BY <1>2, <2>1, ContentsHave
<1> QED BY <1>1, <1>2

LEMMA InsertNewRefines ==
  ASSUME TotalOrder, IInv, IInv', NEW key \in Keys, NEW val \in Vals, MapInsertNew(key, val)
  PROVE  Store!Put(key, val)
<1>0. size \in Nat
  BY DEF IInv
<1>1. PICK i \in 0 .. size :
        /\ IsIndex(key, i) /\ ~Found(key, i)
        /\ size' = size + 1 /\ cap' \in Nat /\ size' <= cap'
        /\ items' \in [0 .. cap' - 1 -> Pair \cup {Garbage}]
        /\ \A j \in 0 .. i - 1 : items'[j] = items[j]
        /\ items'[i] = [key |-> key, val |-> val]
        /\ \A j \in i + 1 .. size : items'[j] = items[j - 1]
        /\ answer' = Success(Nothing)
  BY InsertNewEffect
<1>a. \A j \in 0 .. i - 1 : items'[j] = items[j]
  BY <1>1
<1>b. \A j \in i + 1 .. size : items'[j] = items[j - 1]
  BY <1>1
<1>c. items'[i].key = key /\ items'[i].val = val /\ size' = size + 1
  BY <1>1
<1> DEFINE store == ContentsOf(items, size)
<1>2. PICK f : f = [x \in DOMAIN store \cup {key} |-> IF x = key THEN val ELSE store[x]]
  OBVIOUS
<1>3. /\ DOMAIN store = {items[j].key : j \in Used}
      /\ \A j \in Used : store[items[j].key] = items[j].val
  BY ContentsHave
<1>4. /\ DOMAIN f = DOMAIN store \cup {key} /\ f = [x \in DOMAIN f |-> f[x]]
      /\ f[key] = val /\ \A x \in DOMAIN store : x # key => f[x] = store[x]
  BY <1>2
<1>5. \A j \in Used : items[j].key # key
  BY <1>1, Search
<1> HIDE DEF store
<1>6. ASSUME NEW j \in 0 .. size
      PROVE  items'[j].key \in DOMAIN f /\ f[items'[j].key] = items'[j].val
  <2>1. CASE j = i
    BY <2>1, <1>c, <1>4
  <2>2. CASE j # i
    <3>1. PICK k \in Used : items'[j] = items[k]
      <4>1. CASE j < i
        BY <4>1, <1>0, <1>a DEF Used
      <4>2. CASE j > i
        <5>1. j - 1 \in Used /\ items'[j] = items[j - 1]
          BY <4>2, <1>0, <1>b DEF Used
        <5> QED BY <5>1
      <4> QED BY <4>1, <4>2, <2>2, <1>0
    <3> QED BY <3>1, <1>3, <1>4, <1>5
  <2> QED BY <2>1, <2>2
<1>7. ASSUME NEW x \in DOMAIN f
      PROVE  \E j \in 0 .. size : items'[j].key = x
  <2>1. CASE x = key
    BY <2>1, <1>c
  <2>2. CASE x # key
    <3>1. PICK k \in Used : items[k].key = x
      BY <2>2, <1>3, <1>4
    <3>2. CASE k < i
      BY <3>1, <3>2, <1>a, <1>0 DEF Used
    <3>3. CASE k >= i
      <4>1. k + 1 \in i + 1 .. size /\ (k + 1) - 1 = k
        BY <3>3, <1>0 DEF Used
      <4>2. items'[k + 1] = items[k] /\ k + 1 \in 0 .. size
        BY <4>1, <1>b, <1>0
      <4> QED BY <4>2, <3>1
    <3> QED BY <3>2, <3>3, <1>0 DEF Used
  <2> QED BY <2>1, <2>2
<1>8. \A j, k \in 0 .. size : items'[j].key = items'[k].key => j = k
  <2>1. /\ \A j \in 0 .. size' - 1 : items'[j] \in Pair
        /\ \A j, k \in 0 .. size' - 1 : j < k => Cmp(items'[j].key, items'[k].key) < 0
    BY DEF IInv, KeysAscend, Used
  <2>2. \A j, k \in 0 .. size' - 1 : items'[j].key = items'[k].key => j = k
    BY <2>1, AscendingDiffer, <1>c, <1>0
  <2> QED BY <2>2, <1>c, <1>0
<1>9. ContentsOf(items', size') = f
  BY ContentsIs, <1>4, <1>6, <1>7, <1>8, <1>c, <1>0
<1> QED BY <1>9, <1>2, <1>1 DEF store, Store!Put, Store!Success, Success

LEMMA RemoveRefines ==
  ASSUME TotalOrder, IInv, IInv', NEW key \in Keys, MapRemove(key)
  PROVE  Store!Take(key)
<1>0. size \in Nat
  BY DEF IInv
<1>1. PICK i \in Used :
        /\ items[i].key = key
        /\ size' = size - 1 /\ cap' = cap
        /\ items' \in [0 .. cap - 1 -> Pair \cup {Garbage}]
        /\ \A j \in 0 .. i - 1 : items'[j] = items[j]
        /\ \A j \in i .. size - 2 : items'[j] = items[j + 1]
        /\ answer' = Success(items[i].val)
  BY RemoveEffect
<1>a. \A j \in 0 .. i - 1 : items'[j] = items[j]
  BY <1>1
<1>b. \A j \in i .. size - 2 : items'[j] = items[j + 1]
  BY <1>1
<1>c. items[i].key = key /\ size' = size - 1 /\ size' \in Nat
  BY <1>1, <1>0 DEF Used
<1> DEFINE store == ContentsOf(items, size)
<1>2. PICK f : f = [x \in DOMAIN store \ {key} |-> store[x]]
  OBVIOUS
<1>3. /\ DOMAIN store = {items[j].key : j \in Used}
      /\ \A j \in Used : store[items[j].key] = items[j].val
  BY ContentsHave
<1>4. /\ DOMAIN f = DOMAIN store \ {key} /\ f = [x \in DOMAIN f |-> f[x]]
      /\ \A x \in DOMAIN f : f[x] = store[x]
  BY <1>2
<1>5. \A j, k \in Used : items[j].key = items[k].key => j = k
  BY KeysDiffer
<1> HIDE DEF store
<1>6. ASSUME NEW j \in 0 .. size - 2
      PROVE  items'[j].key \in DOMAIN f /\ f[items'[j].key] = items'[j].val
  <2>1. PICK k \in Used : items'[j] = items[k] /\ k # i
    <3>1. CASE j < i
      BY <3>1, <1>0, <1>a DEF Used
    <3>2. CASE j >= i
      <4>1. j + 1 \in Used /\ items'[j] = items[j + 1] /\ j + 1 # i
        BY <3>2, <1>0, <1>b DEF Used
      <4> QED BY <4>1
    <3> QED BY <3>1, <3>2 DEF Used
  <2>2. items[k].key # key
    BY <2>1, <1>5, <1>c
  <2> QED BY <2>1, <2>2, <1>3, <1>4
<1>7. ASSUME NEW x \in DOMAIN f
      PROVE  \E j \in 0 .. size - 2 : items'[j].key = x
  <2>1. PICK k \in Used : items[k].key = x /\ k # i
    BY <1>3, <1>4, <1>c
  <2>2. CASE k < i
    BY <2>1, <2>2, <1>a, <1>0 DEF Used
  <2>3. CASE k > i
    <3>1. k - 1 \in i .. size - 2 /\ (k - 1) + 1 = k
      BY <2>3, <1>0 DEF Used
    <3>2. items'[k - 1] = items[k] /\ k - 1 \in 0 .. size - 2
      BY <3>1, <1>b, <1>0 DEF Used
    <3> QED BY <3>2, <2>1
  <2> QED BY <2>1, <2>2, <2>3, <1>0 DEF Used
<1>8. \A j, k \in 0 .. size' - 1 : items'[j].key = items'[k].key => j = k
  <2>1. /\ \A j \in 0 .. size' - 1 : items'[j] \in Pair
        /\ \A j, k \in 0 .. size' - 1 : j < k => Cmp(items'[j].key, items'[k].key) < 0
    BY DEF IInv, KeysAscend, Used
  <2> QED BY <2>1, AscendingDiffer, <1>c
<1>9. size' - 1 = size - 2
  BY <1>c, <1>0
<1>10. ContentsOf(items', size') = f
  BY ContentsIs, <1>4, <1>6, <1>7, <1>8, <1>9, <1>c
<1>11. key \in DOMAIN store /\ store[key] = items[i].val
  BY <1>3, <1>c
<1> QED BY <1>10, <1>11, <1>2, <1>1 DEF store, Store!Take, Store!Success, Success

(* The contents after a pair has been given another value.                 *)
LEMMA ReplaceContents ==
  ASSUME TotalOrder, IInv, IInv', NEW key \in Keys, NEW val \in Vals,
         MapInsertReplace(key, val) \/ MapRefAssign(key, val)
  PROVE  /\ key \in DOMAIN ContentsOf(items, size)
         /\ ContentsOf(items', size') = [ContentsOf(items, size) EXCEPT ![key] = val]
<1>0. size \in Nat /\ size' = size
  <2>1. size \in Nat
    BY DEF IInv
  <2>2. size' = size
    BY ReplaceEffect
  <2> QED BY <2>1, <2>2
<1>1. PICK i \in Used :
        /\ items[i].key = key
        /\ items'[i] = [key |-> key, val |-> val]
        /\ \A j \in Used : j # i => items'[j] = items[j]
  BY ReplaceEffect
<1>2. \A j \in Used : items'[j].key = items[j].key
  BY <1>1
<1>3. items'[i].val = val /\ \A j \in Used : j # i => items'[j].val = items[j].val
  BY <1>1
<1> DEFINE store == ContentsOf(items, size)
<1>4. PICK f : f = [store EXCEPT ![key] = val]
  OBVIOUS
<1>5. /\ DOMAIN store = {items[j].key : j \in Used}
      /\ \A j \in Used : store[items[j].key] = items[j].val
      /\ store = [x \in DOMAIN store |-> store[x]]
  BY ContentsHave
<1>6. key \in DOMAIN store
  BY <1>5, <1>1
<1> HIDE DEF store
<1>7. /\ DOMAIN f = DOMAIN store /\ f = [x \in DOMAIN f |-> f[x]]
      /\ f[key] = val /\ \A x \in DOMAIN store : x # key => f[x] = store[x]
  BY <1>4, <1>6
<1>8. \A j, k \in Used : items[j].key = items[k].key => j = k
  BY KeysDiffer
<1>9. ASSUME NEW j \in 0 .. size - 1
      PROVE  items'[j].key \in DOMAIN f /\ f[items'[j].key] = items'[j].val
  <2>1. CASE j = i
    BY <2>1, <1>1, <1>2, <1>3, <1>6, <1>7
  <2>2. CASE j # i
    <3>1. j \in Used /\ items[j].key # key
      BY <2>2, <1>1, <1>8 DEF Used
    <3> QED BY <3>1, <2>2, <1>2, <1>3, <1>5, <1>7
  <2> QED BY <2>1, <2>2
<1>10. ASSUME NEW x \in DOMAIN f
       PROVE  \E j \in 0 .. size - 1 : items'[j].key = x
  BY <1>2, <1>5, <1>7 DEF Used
<1>11. \A j, k \in 0 .. size - 1 : items'[j].key = items'[k].key => j = k
  BY <1>2, <1>8 DEF Used
<1>12. ContentsOf(items', size) = f
  BY ContentsIs, <1>0, <1>7, <1>9, <1>10, <1>11
<1> QED BY <1>0, <1>4, <1>6, <1>12 DEF store

LEMMA ReplaceRefines ==
  ASSUME TotalOrder, IInv, IInv', NEW key \in Keys, NEW val \in Vals,
         MapInsertReplace(key, val)
  PROVE  Store!Put(key, val)
<1> DEFINE store == ContentsOf(items, size)
<1>1. key \in DOMAIN store /\ ContentsOf(items', size') = [store EXCEPT ![key] = val]
  BY ReplaceContents
<1>2. store = [x \in DOMAIN store |-> store[x]]
  BY DEF ContentsOf
<1>3. answer' = Success(Nothing)
  BY DEF MapInsertReplace
<1> HIDE DEF store
<1>4. [store EXCEPT ![key] = val]
        = [x \in DOMAIN store \cup {key} |-> IF x = key THEN val ELSE store[x]]
  BY <1>1, <1>2
<1> QED BY <1>1, <1>3, <1>4 DEF store, Store!Put, Store!Success, Success

LEMMA AssignRefines ==
  ASSUME TotalOrder, IInv, IInv', NEW key \in Keys, NEW val \in Vals,
         MapRefAssign(key, val)
  PROVE  Store!Assign(key, val)
<1>1. answer' = Success(val)
  BY DEF MapRefAssign
<1> QED BY <1>1, ReplaceContents DEF Store!Assign, Store!Success, Success

LEMMA ForeachRefines ==
  ASSUME TotalOrder, IInv, NEW stops \in SUBSET Keys, MapForeach(stops)
  PROVE  Store!VisitAll(stops) \/ Store!VisitSome(stops)
<1> DEFINE store == ContentsOf(items, size)
           stopping == {i \in 0 .. size - 1 : items[i].key \in stops}
           upto(n) == {items[i].key : i \in 0 .. n}
<1>0. size \in Nat
  BY DEF IInv
<1>1. DOMAIN store = {items[i].key : i \in Used}
  BY ContentsHave
<1>2. UNCHANGED store
  BY DEF MapForeach
<1>3. CASE stopping = {} /\ answer' = Success(upto(size - 1))
  <2>1. stops \cap DOMAIN store = {} /\ answer' = Success(DOMAIN store)
    BY <1>1, <1>3 DEF Used
  <2> QED BY <2>1, <1>2 DEF Store!VisitAll, Store!Success, Success
<1>4. ASSUME NEW n \in stopping, \A i \in stopping : n <= i,
             answer' = [ret |-> 1, out |-> upto(n)]
      PROVE  Store!VisitSome(stops)
  <2>1. n \in Used /\ items[n].key \in stops
    BY DEF Used
  <2>2. upto(n) \in SUBSET DOMAIN store
    BY <1>0, <1>1, <2>1 DEF Used
  <2>3. upto(n) \cap stops = {items[n].key}
    <3>1. \A i \in 0 .. n : items[i].key \in stops => i = n
      BY <1>0, <1>4, <2>1 DEF Used
    <3>2. items[n].key \in upto(n)
      BY <2>1 DEF Used
    <3> QED BY <2>1, <3>1, <3>2
  <2> QED BY <1>2, <1>4, <2>1, <2>2, <2>3 DEF Store!VisitSome
<1> QED BY <1>3, <1>4 DEF MapForeach

LEMMA LookupRefines ==
  ASSUME TotalOrder, IInv, NEW key \in Keys
  PROVE  /\ MapInsertFails(key) => Store!PutFails(key)
         /\ MapGet(key) => Store!Look(key)
         /\ MapMisses(key) => Store!Miss(key)
<1> USE DEF Store!Success, Store!Failure, Success, Failure
<1>1. ASSUME MapInsertFails(key)
      PROVE  Store!PutFails(key)
  BY <1>1, SearchDecides DEF MapInsertFails, Store!PutFails
<1>2. ASSUME MapGet(key)
      PROVE  Store!Look(key)
  BY <1>2, SearchDecides DEF MapGet, Store!Look
<1>3. ASSUME MapMisses(key)
      PROVE  Store!Miss(key)
  BY <1>3, SearchDecides DEF MapMisses, Store!Miss
<1> QED BY <1>1, <1>2, <1>3

LEMMA InitRefines == ASSUME Init PROVE Store!Init
<1>1. size = 0 /\ 0 .. size - 1 = {}
  BY DEF Init
<1>2. ContentsOf(items, size) = [k \in {} |-> Nothing]
  BY <1>1 DEF ContentsOf
<1> QED BY <1>2 DEF Init, Store!Init, Store!Success, Success

LEMMA ClearRefines == ASSUME MapClear PROVE Store!Empty
<1>1. size' = 0 /\ 0 .. size' - 1 = {}
  BY DEF MapClear
<1>2. ContentsOf(items', size') = [k \in {} |-> Nothing]
  BY <1>1 DEF ContentsOf
<1> QED BY <1>2 DEF MapClear, Store!Empty, Store!Success, Success

(* An ordered map is a keyed store: a lookup finds the value last put      *)
(* under the key, wherever the insertions and removals in between have     *)
(* moved the pair (map.c:25-144).                                          *)
THEOREM Refinement == ASSUME TotalOrder PROVE Spec => IsKeyedStore
<1> DEFINE storeVars == <<ContentsOf(items, size), answer>>
<1>1. ASSUME Init
      PROVE  Store!Init
  BY <1>1, InitRefines
<1>2. ASSUME IInv, IInv', [Next]_vars
      PROVE  Store!Next \/ UNCHANGED storeVars
  <2>1. ASSUME NEW key \in Keys, NEW val \in Vals,
               MapInsertNew(key, val) \/ MapInsertReplace(key, val) \/ MapRefAssign(key, val)
        PROVE  Store!Next
    <3>1. Store!Put(key, val) \/ Store!Assign(key, val)
      BY <1>2, <2>1, InsertNewRefines, ReplaceRefines, AssignRefines
    <3> QED BY <3>1 DEF Store!Next
  <2>2. ASSUME NEW key \in Keys,
               MapInsertFails(key) \/ MapRemove(key) \/ MapGet(key) \/ MapMisses(key)
        PROVE  Store!Next
    <3>1. Store!PutFails(key) \/ Store!Take(key) \/ Store!Look(key) \/ Store!Miss(key)
      BY <1>2, <2>2, RemoveRefines, LookupRefines
    <3> QED BY <3>1 DEF Store!Next
  <2>3. ASSUME NEW stops \in SUBSET Keys, MapForeach(stops)
        PROVE  Store!Next
    BY <1>2, <2>3, ForeachRefines DEF Store!Next
  <2>4. CASE MapClear
    BY <2>4, ClearRefines DEF Store!Next
  <2>5. CASE UNCHANGED vars
    BY <2>5 DEF vars
  <2> QED BY <1>2, <2>1, <2>2, <2>3, <2>4, <2>5 DEF Next
<1> QED BY <1>1, <1>2, Invariance, PTL DEF Spec, IsKeyedStore, Store!Spec
=============================================================================
