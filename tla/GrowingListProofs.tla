-------------------------- MODULE GrowingListProofs --------------------------
(***************************************************************************)
(* The list of GrowingList keeps its type, and is the sequence of its      *)
(* items, for all lists, items and capacities.                             *)
(***************************************************************************)
EXTENDS GrowingList, SequenceTheorems, TLAPS

Cell == Items \cup {NoItem}

Holds(r) ==
  /\ r = [size |-> r.size, cap |-> r.cap, items |-> r.items]
  /\ r.cap \in Nat /\ r.size \in 0 .. r.cap
  /\ r.items \in [0 .. r.cap - 1 -> Cell]
  /\ \A i \in 0 .. r.size - 1 : r.items[i] \in Items

(* What is inductive: each list is a record of the right shape, whose      *)
(* cells hold items or nothing, those below size items.                    *)
IInv ==
  /\ list = [l \in Names |-> list[l]]
  /\ \A l \in Names : Holds(list[l])

Rec(size, cap, cells) == [size |-> size, cap |-> cap, items |-> cells]

LEMMA BecomesHolds ==
  ASSUME IInv, NEW l \in Names, NEW size, NEW cap, NEW cells,
         Holds(Rec(size, cap, cells)), Becomes(l, size, cap, cells)
  PROVE  IInv'
<1>1. list' = [list EXCEPT ![l] = Rec(size, cap, cells)]
  BY DEF Becomes, Rec
<1>2. list' = [k \in Names |-> list'[k]]
  BY <1>1 DEF IInv
<1>3. ASSUME NEW k \in Names  PROVE Holds(list'[k])
  <2>1. CASE k = l
    BY <2>1, <1>1 DEF IInv
  <2>2. CASE k # l
    <3>1. list'[k] = list[k]
      BY <2>2, <1>1 DEF IInv
    <3> QED BY <3>1 DEF IInv
  <2> QED BY <2>1, <2>2
<1> QED BY <1>2, <1>3 DEF IInv

(* The buffer after a growth holds the old cells and nothing else.         *)
LEMMA GrownCells ==
  ASSUME NEW r, Holds(r), NEW c \in Nat, r.cap <= c
  PROVE  /\ Grown(r.items, c, NoItem) \in [0 .. c - 1 -> Cell]
         /\ \A i \in 0 .. r.cap - 1 : Grown(r.items, c, NoItem)[i] = r.items[i]
<1>1. DOMAIN r.items = 0 .. r.cap - 1
  BY DEF Holds
<1>2. \A i \in 0 .. r.cap - 1 : r.items[i] \in Cell
  BY DEF Holds
<1>3. r.cap \in Nat
  BY DEF Holds
<1> QED BY <1>1, <1>2, <1>3 DEF Grown, Cell

LEMMA PushCapacityIsEnough ==
  ASSUME IInv, NEW l \in Names
  PROVE  PushCapacity(l) \in Nat /\ PushCapacity(l) > Size(l) /\ PushCapacity(l) >= Cap(l)
<1>1. Cap(l) \in Nat /\ Size(l) \in 0 .. Cap(l)
  BY DEF IInv, Holds, Size, Cap
<1> QED BY <1>1, CapacityAssumption DEF PushCapacity, NextCapacity

LEMMA SizesAreNaturals ==
  ASSUME IInv, NEW l \in Names
  PROVE  /\ Cap(l) \in Nat /\ Size(l) \in 0 .. Cap(l)
         /\ Cells(l) \in [0 .. Cap(l) - 1 -> Cell]
         /\ \A i \in Indices(l) : Cells(l)[i] \in Items
BY DEF IInv, Holds, Size, Cap, Cells, Indices

----------------------------------------------------------------------------
(* The sequence that a list is.                                            *)
SeqOf(r) == [i \in 1 .. r.size |-> r.items[i - 1]]

LEMMA ContentsAreSequences ==
  ASSUME IInv, NEW l \in Names
  PROVE  /\ Contents(l) \in Seq(Items)
         /\ Len(Contents(l)) = Size(l)
         /\ \A i \in 1 .. Size(l) : Contents(l)[i] = Cells(l)[i - 1]
<1>1. Size(l) \in Nat /\ \A i \in 1 .. Size(l) : Cells(l)[i - 1] \in Items
  BY SizesAreNaturals DEF Indices
<1>2. Contents(l) \in [1 .. Size(l) -> Items]
  BY <1>1 DEF Contents
<1>3. Contents(l) \in Seq(Items)
  BY <1>1, <1>2, SeqDef
<1> QED BY <1>1, <1>2, <1>3 DEF Contents

(* A call that gives one list new contents is one of ItemSequences.        *)
LEMMA BecomesSet ==
  ASSUME IInv, NEW l \in Names, NEW size, NEW cap, NEW cells,
         Becomes(l, size, cap, cells)
  PROVE  Sequence!Set(l, SeqOf(Rec(size, cap, cells)))
<1>1. list' = [list EXCEPT ![l] = Rec(size, cap, cells)] /\ DOMAIN list = Names
  BY DEF Becomes, Rec, IInv
<1>2. list'[l] = Rec(size, cap, cells) /\ \A k \in Names \ {l} : list'[k] = list[k]
  BY <1>1
<1>3. Contents(l)' = SeqOf(Rec(size, cap, cells))
  BY <1>2 DEF Contents, SeqOf, Size, Cells, Rec
<1>4. \A k \in Names \ {l} : Contents(k)' = Contents(k)
  BY <1>2 DEF Contents, Size, Cells
<1> QED BY <1>3, <1>4 DEF Sequence!Set

LEMMA AnswersKeepsContents ==
  ASSUME NEW l, NEW value, Answers(l, value), IInv
  PROVE  /\ IInv' /\ result' = value
         /\ UNCHANGED [k \in Names |-> Contents(k)]
BY DEF Answers, IInv, Holds, Contents, Size, Cells

----------------------------------------------------------------------------
LEMMA PushStep ==
  ASSUME IInv, NEW l \in Names, NEW item \in Items, ListPush(l, item)
  PROVE  IInv' /\ Sequence!Push(l, item)
<1> DEFINE c == PushCapacity(l)
           grown == Grown(Cells(l), c, NoItem)
           cells == [grown EXCEPT ![Size(l)] = item]
<1>1. Becomes(l, Size(l) + 1, c, cells) /\ result' = Done(NoItem)
  BY DEF ListPush
<1>2. c \in Nat /\ c > Size(l) /\ c >= Cap(l)
  BY PushCapacityIsEnough
<1>3. /\ Cap(l) \in Nat /\ Size(l) \in 0 .. Cap(l)
      /\ \A i \in Indices(l) : Cells(l)[i] \in Items
  BY SizesAreNaturals
<1>4. /\ grown \in [0 .. c - 1 -> Cell]
      /\ \A i \in 0 .. Cap(l) - 1 : grown[i] = Cells(l)[i]
  BY <1>2, GrownCells, IInv DEF IInv, Cap, Cells
<1> HIDE DEF c, grown
<1>5. /\ cells \in [0 .. c - 1 -> Cell] /\ cells[Size(l)] = item
      /\ \A i \in Indices(l) : cells[i] = Cells(l)[i]
  BY <1>2, <1>3, <1>4 DEF Indices, Cell
<1> HIDE DEF cells
<1>6. IInv'
  <2>1. Holds(Rec(Size(l) + 1, c, cells))
    BY <1>2, <1>3, <1>5 DEF Holds, Rec, Indices
  <2> QED BY <1>1, <2>1, BecomesHolds
<1>7. SeqOf(Rec(Size(l) + 1, c, cells)) = Append(Contents(l), item)
  BY <1>3, <1>5, ContentsAreSequences DEF SeqOf, Rec, Contents, Indices
<1>8. Sequence!Set(l, Append(Contents(l), item))
  BY <1>1, <1>7, BecomesSet
<1> QED BY <1>1, <1>6, <1>8 DEF Sequence!Push, Sequence!Set, Sequence!Returns,
           Sequence!Done, Done

LEMMA ConcatenationIs ==
  ASSUME NEW S, NEW s \in Seq(S), NEW t \in Seq(S)
  PROVE  s \o t = [i \in 1 .. Len(s) + Len(t) |-> IF i <= Len(s) THEN s[i] ELSE t[i - Len(s)]]
<1> DEFINE both == s \o t
<1>1. /\ both \in Seq(S) /\ Len(both) = Len(s) + Len(t)
      /\ \A i \in 1 .. Len(s) + Len(t) : both[i] = IF i <= Len(s) THEN s[i] ELSE t[i - Len(s)]
  BY ConcatProperties
<1> HIDE DEF both
<1>2. both = [i \in 1 .. Len(s) + Len(t) |-> both[i]]
  BY <1>1, LenProperties
<1>3. both = [i \in 1 .. Len(s) + Len(t) |-> IF i <= Len(s) THEN s[i] ELSE t[i - Len(s)]]
  BY <1>1, <1>2
<1> QED BY <1>3 DEF both

LEMMA AppendStep ==
  ASSUME IInv, NEW l \in Names, NEW other \in Names, ListAppend(l, other)
  PROVE  IInv' /\ Sequence!AppendAll(l, other)
<1>1. l # other /\ Size(other) > 0 /\ result' = Done(NoItem)
  BY DEF ListAppend
<1>2. PICK c \in Room(l, Size(l) + Size(other)) :
        list' = [list EXCEPT
          ![l] = Rec(Size(l) + Size(other), c,
                     [j \in DOMAIN Grown(Cells(l), c, NoItem) |->
                       IF j - Size(l) \in Indices(other) THEN Cells(other)[j - Size(l)]
                       ELSE Grown(Cells(l), c, NoItem)[j]]),
          ![other] = [@ EXCEPT !.size = 0]]
  BY DEF ListAppend, Rec
<1> DEFINE n == Size(l) + Size(other)
           grown == Grown(Cells(l), c, NoItem)
           moved == [j \in DOMAIN grown |->
                      IF j - Size(l) \in Indices(other) THEN Cells(other)[j - Size(l)]
                      ELSE grown[j]]
<1>3. /\ Cap(l) \in Nat /\ Size(l) \in 0 .. Cap(l) /\ Size(other) \in Nat
      /\ Cap(other) \in Nat
      /\ \A i \in Indices(l) : Cells(l)[i] \in Items
      /\ \A i \in Indices(other) : Cells(other)[i] \in Items
  BY SizesAreNaturals
<1>4. c \in Nat /\ c >= n /\ c >= Cap(l)
  BY <1>3, CapacityAssumption DEF Room
<1>5. /\ grown \in [0 .. c - 1 -> Cell]
      /\ \A i \in 0 .. Cap(l) - 1 : grown[i] = Cells(l)[i]
  BY <1>4, GrownCells, IInv DEF IInv, Cap, Cells
<1> HIDE DEF grown
<1>6. /\ moved \in [0 .. c - 1 -> Cell]
      /\ \A i \in Indices(l) : moved[i] = Cells(l)[i]
      /\ \A i \in Indices(other) : moved[Size(l) + i] = Cells(other)[i]
  <2>1. DOMAIN grown = 0 .. c - 1 /\ \A i \in 0 .. c - 1 : grown[i] \in Cell
    BY <1>5
  <2>2. moved \in [0 .. c - 1 -> Cell]
    BY <1>3, <2>1 DEF Cell
  <2>3. \A i \in Indices(l) : i \in DOMAIN grown /\ i - Size(l) \notin Indices(other)
    BY <1>3, <1>4, <2>1 DEF Indices
  <2>4. \A i \in Indices(l) : moved[i] = Cells(l)[i]
    BY <1>3, <1>5, <2>3 DEF Indices
  <2>5. ASSUME NEW i \in Indices(other)  PROVE moved[Size(l) + i] = Cells(other)[i]
    <3>1. Size(l) + i \in DOMAIN grown /\ (Size(l) + i) - Size(l) = i
      BY <1>3, <1>4, <2>1 DEF Indices
    <3> QED BY <3>1, <2>5
  <2> QED BY <2>2, <2>4, <2>5
<1> HIDE DEF moved
<1>7. DOMAIN list = Names
  BY DEF IInv
<1>8. list' = [list EXCEPT ![l] = Rec(n, c, moved), ![other] = [@ EXCEPT !.size = 0]]
  BY <1>2 DEF moved, grown
<1>9. /\ DOMAIN list' = Names /\ list' = [k \in Names |-> list'[k]]
      /\ list'[l] = Rec(n, c, moved)
      /\ \A k \in Names : k # l /\ k # other => list'[k] = list[k]
  BY <1>1, <1>7, <1>8
<1>10. list'[other] = [list[other] EXCEPT !.size = 0]
  BY <1>1, <1>7, <1>8
<1>11. list[other] = Rec(Size(other), Cap(other), Cells(other))
  BY DEF IInv, Holds, Rec, Size, Cap, Cells
<1>12. list'[other] = Rec(0, Cap(other), Cells(other))
  BY <1>10, <1>11 DEF Rec
<1>13. IInv'
  <2>1. Holds(Rec(n, c, moved))
    <3>1. ASSUME NEW i \in 0 .. n - 1  PROVE moved[i] \in Items
      <4>1. CASE i < Size(l)
        BY <1>3, <1>6, <4>1 DEF Indices
      <4>2. CASE i >= Size(l)
        <5>1. i - Size(l) \in Indices(other) /\ Size(l) + (i - Size(l)) = i
          BY <1>3, <4>2 DEF Indices
        <5>2. moved[Size(l) + (i - Size(l))] = Cells(other)[i - Size(l)]
          BY <1>6, <5>1
        <5> QED BY <1>3, <5>1, <5>2
      <4> QED BY <1>3, <4>1, <4>2
    <3> QED BY <1>3, <1>4, <1>6, <3>1 DEF Holds, Rec
  <2>2. Holds(Rec(0, Cap(other), Cells(other)))
    BY SizesAreNaturals DEF Holds, Rec
  <2>3. \A k \in Names : Holds(list'[k])
    BY <1>9, <1>12, <2>1, <2>2 DEF IInv
  <2> QED BY <1>9, <2>3 DEF IInv
<1>14. Contents(l)' = Contents(l) \o Contents(other)
  <2>1. Contents(l)' = SeqOf(Rec(n, c, moved))
    BY <1>9 DEF Contents, SeqOf, Size, Cells, Rec
  <2>2. SeqOf(Rec(n, c, moved)) = [i \in 1 .. n |-> moved[i - 1]]
    BY DEF SeqOf, Rec
  <2>3. ASSUME NEW i \in 1 .. n
        PROVE  moved[i - 1] = IF i <= Size(l) THEN Contents(l)[i] ELSE Contents(other)[i - Size(l)]
    <3>1. CASE i <= Size(l)
      BY <1>3, <1>6, <3>1, ContentsAreSequences DEF Indices
    <3>2. CASE i > Size(l)
      <4>1. i - Size(l) - 1 \in Indices(other) /\ i - Size(l) \in 1 .. Size(other)
        BY <1>3, <3>2 DEF Indices
      <4>2. Size(l) + (i - Size(l) - 1) = i - 1
        BY <1>3
      <4>3. moved[Size(l) + (i - Size(l) - 1)] = Cells(other)[i - Size(l) - 1]
        BY <1>6, <4>1
      <4>4. Contents(other)[i - Size(l)] = Cells(other)[i - Size(l) - 1]
        BY <4>1, ContentsAreSequences
      <4> QED BY <1>3, <3>2, <4>2, <4>3, <4>4
    <3> QED BY <1>3, <3>1, <3>2
  <2>4. /\ Contents(l) \in Seq(Items) /\ Len(Contents(l)) = Size(l)
        /\ Contents(other) \in Seq(Items) /\ Len(Contents(other)) = Size(other)
    BY ContentsAreSequences
  <2> HIDE DEF n
  <2> DEFINE s == Contents(l)
             t == Contents(other)
  <2>5. s \in Seq(Items) /\ t \in Seq(Items)
    BY <2>4
  <2> HIDE DEF s, t
  <2>6. s \o t = [i \in 1 .. Len(s) + Len(t) |-> IF i <= Len(s) THEN s[i] ELSE t[i - Len(s)]]
    BY <2>5, ConcatenationIs
  <2>7. s \o t = [i \in 1 .. n |-> moved[i - 1]]
    BY <2>3, <2>4, <2>6 DEF s, t, n
  <2> QED BY <2>1, <2>2, <2>7 DEF s, t
<1>15. Contents(other)' = <<>>
  BY <1>12 DEF Contents, Size, Cells, Rec
<1>16. \A k \in Names : k # l /\ k # other => Contents(k)' = Contents(k)
  BY <1>9 DEF Contents, Size, Cells
<1>17. [k \in Names |-> Contents(k)]'
         = [[k \in Names |-> Contents(k)] EXCEPT ![l] = @ \o Contents(other), ![other] = <<>>]
  BY <1>1, <1>14, <1>15, <1>16
<1> QED BY <1>1, <1>13, <1>17 DEF Sequence!AppendAll, Sequence!Returns, Sequence!Done, Done

LEMMA DropStep ==
  ASSUME IInv, NEW l \in Names, NEW n \in 0 .. Size(l),
         Becomes(l, Size(l) - n, Cap(l), Cells(l))
  PROVE  /\ IInv'
         /\ Sequence!Set(l, SubSeq(Contents(l), 1, Len(Contents(l)) - n))
<1>1. /\ Cap(l) \in Nat /\ Size(l) \in 0 .. Cap(l)
      /\ Cells(l) \in [0 .. Cap(l) - 1 -> Cell]
      /\ \A i \in Indices(l) : Cells(l)[i] \in Items
  BY SizesAreNaturals
<1>2. Holds(Rec(Size(l) - n, Cap(l), Cells(l)))
  BY <1>1 DEF Holds, Rec, Indices
<1>3. SeqOf(Rec(Size(l) - n, Cap(l), Cells(l))) = SubSeq(Contents(l), 1, Len(Contents(l)) - n)
  <2>1. SeqOf(Rec(Size(l) - n, Cap(l), Cells(l))) = [i \in 1 .. Size(l) - n |-> Cells(l)[i - 1]]
    BY DEF SeqOf, Rec
  <2>2. /\ Contents(l) \in Seq(Items) /\ Len(Contents(l)) = Size(l)
        /\ \A i \in 1 .. Size(l) : Contents(l)[i] = Cells(l)[i - 1]
    BY ContentsAreSequences
  <2> QED BY <1>1, <2>1, <2>2
<1> QED BY <1>2, <1>3, BecomesHolds, BecomesSet

LEMMA PopSteps ==
  ASSUME IInv, NEW l \in Names,
         ListPop(l) \/ \E n \in 0 .. MaxItems : ListPopn(l, n)
  PROVE  IInv' /\ \E n \in 0 .. Len(Contents(l)) : Sequence!Drop(l, n)
<1>1. /\ Size(l) \in Nat /\ Len(Contents(l)) = Size(l)
      /\ \A i \in 1 .. Size(l) : Contents(l)[i] = Cells(l)[i - 1]
  BY SizesAreNaturals, ContentsAreSequences
<1>2. CASE ListPop(l)
  <2>1. 1 \in 0 .. Size(l)
    BY <1>1, <1>2 DEF ListPop
  <2>2. IInv' /\ Sequence!Set(l, SubSeq(Contents(l), 1, Len(Contents(l)) - 1))
    BY <1>2, <2>1, DropStep DEF ListPop
  <2>3. result' = Done(Contents(l)[Size(l)]) \/ result' = Done(NoItem)
    BY <1>1, <1>2, <2>1 DEF ListPop
  <2>4. Sequence!Drop(l, 1)
    BY <1>1, <2>1, <2>2, <2>3 DEF Sequence!Drop, Sequence!Set, Sequence!Returns,
       Sequence!Done, Done
  <2> QED BY <1>1, <2>1, <2>2, <2>4
<1>3. ASSUME NEW n \in 0 .. MaxItems, ListPopn(l, n)
      PROVE  IInv' /\ \E k \in 0 .. Len(Contents(l)) : Sequence!Drop(l, k)
  <2>1. n \in 0 .. Size(l) /\ result' = Done(NoItem)
    BY <1>1, <1>3 DEF ListPopn
  <2>2. IInv' /\ Sequence!Set(l, SubSeq(Contents(l), 1, Len(Contents(l)) - n))
    BY <1>3, <2>1, DropStep DEF ListPopn
  <2>3. Sequence!Drop(l, n)
    BY <1>1, <2>1, <2>2 DEF Sequence!Drop, Sequence!Set, Sequence!Returns,
       Sequence!Done, Done
  <2> QED BY <1>1, <2>1, <2>2, <2>3
<1> QED BY <1>2, <1>3

LEMMA RemoveStep ==
  ASSUME IInv, NEW l \in Names, NEW i \in Indices(l), ListRemove(l, i)
  PROVE  IInv' /\ Sequence!Remove(l, i + 1)
<1> DEFINE size == Size(l) - 1
           cells == ShiftItems(Cells(l), size, size - i, -1)
<1>1. Becomes(l, size, Cap(l), cells) /\ result' = Done(Cells(l)[i])
  BY DEF ListRemove
<1>2. /\ Cap(l) \in Nat /\ Size(l) \in 0 .. Cap(l) /\ i \in Nat /\ i < Size(l)
      /\ Cells(l) \in [0 .. Cap(l) - 1 -> Cell]
      /\ \A j \in Indices(l) : Cells(l)[j] \in Items
  BY SizesAreNaturals DEF Indices
<1>3. DOMAIN cells = 0 .. Cap(l) - 1
  BY <1>2 DEF ShiftItems
<1>4. ASSUME NEW j \in 0 .. Cap(l) - 1
      PROVE  cells[j] = IF i <= j /\ j < size THEN Cells(l)[j + 1] ELSE Cells(l)[j]
  <2>1. (\E k \in 0 .. (size - i) - 1 : j = size + (-1) * (k + 1)) <=> i <= j /\ j < size
    <3>1. CASE i <= j /\ j < size
      <4>1. (size - j) - 1 \in 0 .. (size - i) - 1 /\ j = size + (-1) * (((size - j) - 1) + 1)
        BY <1>2, <3>1
      <4> QED BY <3>1, <4>1
    <3>2. CASE ~(i <= j /\ j < size)
      BY <1>2, <3>2
    <3> QED BY <3>1, <3>2
  <2> QED BY <1>2, <2>1 DEF ShiftItems
<1> HIDE DEF cells
<1>5. cells \in [0 .. Cap(l) - 1 -> Cell]
  <2>1. \A j \in 0 .. Cap(l) - 1 : cells[j] \in Cell
    BY <1>2, <1>4
  <2>2. cells = [j \in 0 .. Cap(l) - 1 |-> cells[j]]
    BY <1>2, <1>3, <1>1 DEF cells, ShiftItems
  <2> QED BY <2>1, <2>2
<1>6. ASSUME NEW j \in 0 .. size - 1  PROVE cells[j] \in Items
  BY <1>2, <1>4 DEF Indices
<1>7. IInv'
  <2>1. Holds(Rec(size, Cap(l), cells))
    BY <1>2, <1>5, <1>6 DEF Holds, Rec
  <2> QED BY <1>1, <2>1, BecomesHolds DEF cells
<1>8. /\ Len(Contents(l)) = Size(l) /\ i + 1 \in 1 .. Len(Contents(l))
      /\ Contents(l)[i + 1] = Cells(l)[i]
      /\ \A j \in 1 .. Size(l) : Contents(l)[j] = Cells(l)[j - 1]
  BY <1>2, ContentsAreSequences
<1>9. SeqOf(Rec(size, Cap(l), cells))
        = [j \in 1 .. Len(Contents(l)) - 1 |->
            IF j < i + 1 THEN Contents(l)[j] ELSE Contents(l)[j + 1]]
  <2>1. SeqOf(Rec(size, Cap(l), cells)) = [j \in 1 .. size |-> cells[j - 1]]
    BY DEF SeqOf, Rec
  <2>2. ASSUME NEW j \in 1 .. size
        PROVE  cells[j - 1] = IF j < i + 1 THEN Contents(l)[j] ELSE Contents(l)[j + 1]
    <3>1. j - 1 \in 0 .. Cap(l) - 1 /\ (j - 1) + 1 = j /\ (j + 1) - 1 = j
      BY <1>2
    <3>2. cells[j - 1] = IF i <= j - 1 THEN Cells(l)[j] ELSE Cells(l)[j - 1]
      BY <1>2, <1>4, <3>1
    <3>3. Contents(l)[j] = Cells(l)[j - 1] /\ Contents(l)[j + 1] = Cells(l)[j]
      BY <1>2, <1>8, <3>1
    <3> QED BY <1>2, <3>2, <3>3
  <2> QED BY <1>8, <2>1, <2>2
<1>10. Sequence!Set(l, SeqOf(Rec(size, Cap(l), cells)))
  BY <1>1, BecomesSet DEF cells
<1> QED BY <1>1, <1>7, <1>8, <1>9, <1>10 DEF Sequence!Remove, Sequence!Returns,
           Sequence!Done, Done

LEMMA RefAssignStep ==
  ASSUME IInv, NEW l \in Names, NEW i \in Indices(l), NEW item \in Items,
         ListRefAssign(l, i, item)
  PROVE  IInv' /\ Sequence!Replace(l, i + 1, item)
<1> DEFINE cells == [Cells(l) EXCEPT ![i] = item]
<1>1. Becomes(l, Size(l), Cap(l), cells) /\ result' = Done(item)
  BY DEF ListRefAssign
<1>2. /\ Cap(l) \in Nat /\ Size(l) \in 0 .. Cap(l) /\ i \in 0 .. Size(l) - 1
      /\ Cells(l) \in [0 .. Cap(l) - 1 -> Cell]
      /\ \A j \in Indices(l) : Cells(l)[j] \in Items
  BY SizesAreNaturals DEF Indices
<1>3. /\ cells \in [0 .. Cap(l) - 1 -> Cell] /\ cells[i] = item
      /\ \A j \in 0 .. Cap(l) - 1 : j # i => cells[j] = Cells(l)[j]
  BY <1>2 DEF Cell
<1> HIDE DEF cells
<1>4. IInv'
  <2>1. Holds(Rec(Size(l), Cap(l), cells))
    BY <1>2, <1>3 DEF Holds, Rec, Indices
  <2> QED BY <1>1, <2>1, BecomesHolds
<1>5. /\ Contents(l) = [j \in 1 .. Size(l) |-> Cells(l)[j - 1]]
      /\ Len(Contents(l)) = Size(l) /\ i + 1 \in 1 .. Len(Contents(l))
  BY <1>2, ContentsAreSequences DEF Contents
<1>6. SeqOf(Rec(Size(l), Cap(l), cells)) = [Contents(l) EXCEPT ![i + 1] = item]
  <2>1. SeqOf(Rec(Size(l), Cap(l), cells)) = [j \in 1 .. Size(l) |-> cells[j - 1]]
    BY DEF SeqOf, Rec
  <2>2. [Contents(l) EXCEPT ![i + 1] = item]
          = [j \in 1 .. Size(l) |-> IF j = i + 1 THEN item ELSE Cells(l)[j - 1]]
    BY <1>2, <1>5
  <2>3. ASSUME NEW j \in 1 .. Size(l)
        PROVE  cells[j - 1] = IF j = i + 1 THEN item ELSE Cells(l)[j - 1]
    BY <1>2, <1>3
  <2> QED BY <2>1, <2>2, <2>3
<1>7. Sequence!Set(l, SeqOf(Rec(Size(l), Cap(l), cells)))
  BY <1>1, BecomesSet
<1> QED BY <1>1, <1>4, <1>5, <1>6, <1>7 DEF Sequence!Replace, Sequence!Set, Sequence!Returns,
           Sequence!Done, Done

LEMMA LookStep ==
  ASSUME IInv, NEW l \in Names, NEW value, Answers(l, value),
         \/ value = Failed
         \/ value = Done(Contents(l))
         \/ \E i \in 1 .. Len(Contents(l)) :
              \/ value = Done(Contents(l)[i])
              \/ value = [ret |-> 1, out |-> SubSeq(Contents(l), 1, i)]
  PROVE  IInv' /\ Sequence!Look(l)
BY AnswersKeepsContents DEF Sequence!Look, Sequence!Returns, Sequence!Done, Done,
   Sequence!Failed, Failed

(* What list_foreach has visited when it stops.                            *)
LEMMA VisitedIsPrefix ==
  ASSUME IInv, NEW l \in Names, NEW n \in 0 .. Size(l)
  PROVE  [i \in 1 .. n |-> Cells(l)[i - 1]] = SubSeq(Contents(l), 1, n)
<1>1. Size(l) \in Nat
  BY SizesAreNaturals
<1>2. /\ Contents(l) \in Seq(Items) /\ Len(Contents(l)) = Size(l)
      /\ \A i \in 1 .. Size(l) : Contents(l)[i] = Cells(l)[i - 1]
  BY ContentsAreSequences
<1> QED BY <1>1, <1>2

LEMMA ForeachStep ==
  ASSUME IInv, NEW l \in Names, NEW stops, ListForeach(l, stops)
  PROVE  IInv' /\ Sequence!Look(l)
<1>1. Size(l) \in Nat /\ Len(Contents(l)) = Size(l)
  BY SizesAreNaturals, ContentsAreSequences
<1>2. CASE Answers(l, Done([i \in 1 .. Size(l) |-> Cells(l)[i - 1]]))
  BY <1>2, LookStep DEF Contents
<1>3. ASSUME NEW n \in Indices(l),
             Answers(l, [ret |-> 1, out |-> [i \in 1 .. n + 1 |-> Cells(l)[i - 1]]])
      PROVE  IInv' /\ Sequence!Look(l)
  <2>1. n + 1 \in 1 .. Len(Contents(l)) /\ n + 1 \in 0 .. Size(l)
    BY <1>1 DEF Indices
  <2>2. Answers(l, [ret |-> 1, out |-> SubSeq(Contents(l), 1, n + 1)])
    BY <1>3, <2>1, VisitedIsPrefix
  <2> QED BY <2>1, <2>2, LookStep
<1> QED BY <1>2, <1>3 DEF ListForeach

LEMMA ReadStep ==
  ASSUME IInv, NEW l \in Names, NEW i \in Indices(l), Answers(l, Done(Cells(l)[i]))
  PROVE  IInv' /\ Sequence!Look(l)
<1>1. i + 1 \in 1 .. Len(Contents(l)) /\ Contents(l)[i + 1] = Cells(l)[i]
  BY SizesAreNaturals, ContentsAreSequences DEF Indices
<1> QED BY <1>1, LookStep

LEMMA ClearStep ==
  ASSUME IInv, NEW l \in Names, ListClear(l)
  PROVE  IInv' /\ \E n \in 0 .. Len(Contents(l)) : Sequence!Drop(l, n)
<1> DEFINE cells == [i \in {} |-> NoItem]
<1>1. Becomes(l, 0, 0, cells) /\ result' = Done(NoItem)
  BY DEF ListClear, Becomes, EmptyList
<1>2. IInv'
  <2>1. Holds(Rec(0, 0, cells))
    BY DEF Holds, Rec
  <2> QED BY <1>1, <2>1, BecomesHolds
<1>3. Contents(l) \in Seq(Items) /\ Len(Contents(l)) \in Nat
  BY SizesAreNaturals, ContentsAreSequences
<1>4. SeqOf(Rec(0, 0, cells)) = SubSeq(Contents(l), 1, Len(Contents(l)) - Len(Contents(l)))
  <2>1. SeqOf(Rec(0, 0, cells)) = [i \in 1 .. 0 |-> cells[i - 1]]
    BY DEF SeqOf, Rec
  <2>2. SeqOf(Rec(0, 0, cells)) = <<>>
    BY <2>1
  <2>3. Len(Contents(l)) - Len(Contents(l)) = 0
    BY <1>3
  <2>4. SubSeq(Contents(l), 1, 0) = <<>>
    BY <1>3
  <2> QED BY <2>2, <2>3, <2>4
<1>5. Sequence!Set(l, SubSeq(Contents(l), 1, Len(Contents(l)) - Len(Contents(l))))
  BY <1>1, <1>4, BecomesSet
<1>6. Sequence!Drop(l, Len(Contents(l)))
  BY <1>1, <1>3, <1>4, <1>5 DEF Sequence!Drop, Sequence!Returns, Sequence!Done, Done
<1> QED BY <1>2, <1>3, <1>6

----------------------------------------------------------------------------
LEMMA InitHolds == ListInit => IInv /\ Sequence!Init
<1> SUFFICES ASSUME ListInit  PROVE IInv /\ Sequence!Init
  OBVIOUS
<1>1. Holds(EmptyList)
  BY DEF Holds, EmptyList
<1>2. IInv
  BY <1>1 DEF ListInit, IInv
<1>3. \A l \in Names : Contents(l) = <<>>
  BY DEF ListInit, Contents, Size, Cells, EmptyList
<1> QED BY <1>2, <1>3 DEF ListInit, Sequence!Init, Sequence!Done, Done

LEMMA NextSteps ==
  IInv /\ [ListNext]_listVars => IInv' /\ [Sequence!Next]_Sequence!vars
<1> SUFFICES ASSUME IInv, [ListNext]_listVars
             PROVE  IInv' /\ [Sequence!Next]_Sequence!vars
  OBVIOUS
<1>1. CASE UNCHANGED listVars
  BY <1>1 DEF listVars, IInv, Holds, Sequence!vars, Contents, Size, Cells
<1>2. ASSUME NEW l \in Names, NEW item \in Items, ListPush(l, item)
      PROVE  IInv' /\ Sequence!Next
  BY <1>2, PushStep DEF Sequence!Next
<1>3. ASSUME NEW l \in Names, NEW other \in Names,
             ListAppend(l, other) \/ ListAppendNothing(l, other)
      PROVE  IInv' /\ [Sequence!Next]_Sequence!vars
  <2>1. CASE ListAppend(l, other)
    BY <2>1, AppendStep DEF Sequence!Next
  <2>2. CASE ListAppendNothing(l, other)
    <3>1. Len(Contents(other)) = 0 /\ Contents(other) \in Seq(Items)
      BY <2>2, ContentsAreSequences DEF ListAppendNothing
    <3>2. Contents(other) = <<>> /\ Contents(l) \o <<>> = Contents(l)
      BY <3>1, ContentsAreSequences, EmptySeq, ConcatEmptySeq
    <3>3. IInv' /\ result' = Done(NoItem) /\ UNCHANGED [k \in Names |-> Contents(k)]
      BY <2>2, AnswersKeepsContents DEF ListAppendNothing
    <3>4. Sequence!AppendAll(l, other)
      BY <2>2, <3>2, <3>3 DEF ListAppendNothing, Sequence!AppendAll, Sequence!Returns,
         Sequence!Done, Done
    <3> QED BY <3>3, <3>4 DEF Sequence!Next
  <2> QED BY <1>3, <2>1, <2>2
<1>4. ASSUME NEW l \in Names,
             ListGrowFails(l) \/ \E n \in 1 .. MaxItems + 1 : ListRefuses(l, n)
      PROVE  IInv' /\ Sequence!Next
  BY <1>4, LookStep DEF ListGrowFails, ListRefuses, Sequence!Next
<1>5. ASSUME NEW l \in Names, ListPop(l) \/ \E n \in 0 .. MaxItems : ListPopn(l, n)
      PROVE  IInv' /\ Sequence!Next
  BY <1>5, PopSteps DEF Sequence!Next
<1>6. ASSUME NEW l \in Names, NEW i \in Indices(l), ListRemove(l, i)
      PROVE  IInv' /\ Sequence!Next
  <2>1. i + 1 \in 1 .. Len(Contents(l))
    BY SizesAreNaturals, ContentsAreSequences DEF Indices
  <2> QED BY <1>6, <2>1, RemoveStep DEF Sequence!Next
<1>7. ASSUME NEW l \in Names, NEW i \in Indices(l), ListGet(l, i)
      PROVE  IInv' /\ Sequence!Next
  BY <1>7, ReadStep DEF ListGet, Sequence!Next
<1>8. ASSUME NEW l \in Names, NEW i \in Indices(l), NEW item \in Items,
             ListRefAssign(l, i, item)
      PROVE  IInv' /\ Sequence!Next
  <2>1. i + 1 \in 1 .. Len(Contents(l))
    BY SizesAreNaturals, ContentsAreSequences DEF Indices
  <2> QED BY <1>8, <2>1, RefAssignStep DEF Sequence!Next
<1>9. ASSUME NEW l \in Names, NEW some \in SUBSET Items, ListForeach(l, some)
      PROVE  IInv' /\ Sequence!Next
  BY <1>9, ForeachStep DEF Sequence!Next
<1>10. ASSUME NEW l \in Names, NEW some \in SUBSET Items, ListFind(l, some)
       PROVE  IInv' /\ Sequence!Next
  BY <1>10, LookStep, ReadStep DEF ListFind, Sequence!Next
<1>11. ASSUME NEW l \in Names, ListClear(l)
       PROVE  IInv' /\ Sequence!Next
  BY <1>11, ClearStep DEF Sequence!Next
<1> QED BY <1>1, <1>2, <1>3, <1>4, <1>5, <1>6, <1>7, <1>8, <1>9, <1>10, <1>11 DEF ListNext

(* The lists keep their type: what a caller gets is an item that somebody  *)
(* put there.                                                              *)
THEOREM ListTypeCorrect == ListSpec => []ListTypeOK
<1>1. IInv => ListTypeOK
  BY DEF IInv, ListTypeOK, Holds, Size, Cap, Cells, Indices
<1> QED BY <1>1, InitHolds, NextSteps, PTL DEF ListSpec

(* A list of list.c is the sequence of its items, whatever is called on it *)
(* and whenever realloc fails.                                             *)
THEOREM ListIsSequence == ListSpec => IsSequence
<1> QED BY InitHolds, NextSteps, PTL DEF ListSpec, IsSequence, Sequence!Spec
=============================================================================
