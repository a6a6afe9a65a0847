----------------------------- MODULE ListLemmas ------------------------------
(***************************************************************************)
(* What the operations of Lists, and those on sequences that the modules   *)
(* with stacks use beside them, do to lengths, items and capacities,       *)
(* whatever the items are.                                                 *)
(***************************************************************************)
EXTENDS Lists, SequencesExt, SequenceTheorems, WellFoundedInduction, TLAPS

----------------------------------------------------------------------------
(* Sequences of anything                                                   *)

IsSeq(s) == \E S : s \in Seq(S)

LEMMA SeqIs ==
  ASSUME NEW s, IsSeq(s)
  PROVE  Len(s) \in Nat /\ DOMAIN s = 1 .. Len(s)
BY LenProperties DEF IsSeq

LEMMA NonemptyIs ==
  ASSUME NEW s, IsSeq(s), s # <<>>
  PROVE  1 <= Len(s)
<1>1. PICK S : s \in Seq(S)
  BY DEF IsSeq
<1> QED  BY <1>1, EmptySeq, LenProperties

LEMMA SingleIs ==
  ASSUME NEW x
  PROVE  IsSeq(<<x>>) /\ Len(<<x>>) = 1 /\ <<x>>[1] = x
<1>1. <<x>> \in Seq({x})
  OBVIOUS
<1> QED  BY <1>1 DEF IsSeq

LEMMA SubSeqIs ==
  ASSUME NEW s, IsSeq(s), NEW n \in Int, n <= Len(s)
  PROVE  /\ IsSeq(SubSeq(s, 1, n))
         /\ Len(SubSeq(s, 1, n)) = IF 1 <= n THEN n ELSE 0
         /\ \A i \in 1 .. n : SubSeq(s, 1, n)[i] = s[i]
<1>1. PICK S : s \in Seq(S)
  BY DEF IsSeq
<1>2. \A i \in 1 .. n : s[i] \in S
  BY <1>1, ElementOfSeq, LenProperties
<1>3. /\ SubSeq(s, 1, n) \in Seq(S)
      /\ Len(SubSeq(s, 1, n)) = IF 1 <= n THEN n - 1 + 1 ELSE 0
      /\ \A i \in 1 .. n - 1 + 1 : SubSeq(s, 1, n)[i] = s[1 + i - 1]
  BY <1>2, SubSeqProperties
<1> QED  BY <1>3 DEF IsSeq

LEMMA ConcatIs ==
  ASSUME NEW s, NEW t, IsSeq(s), IsSeq(t)
  PROVE  /\ IsSeq(s \o t)
         /\ Len(s \o t) = Len(s) + Len(t)
         /\ \A i \in 1 .. Len(s) + Len(t) :
              (s \o t)[i] = IF i <= Len(s) THEN s[i] ELSE t[i - Len(s)]
<1>1. PICK S : s \in Seq(S)
  BY DEF IsSeq
<1>2. PICK D : t \in Seq(D)
  BY DEF IsSeq
<1> DEFINE Both == S \cup D
<1>3. s \in Seq(Both) /\ t \in Seq(Both)
  BY <1>1, <1>2, SeqMonotonic
<1>4. s \o t \in Seq(Both)
  BY <1>3, ConcatProperties
<1> QED  BY <1>3, <1>4, ConcatProperties DEF IsSeq

LEMMA AppendIs ==
  ASSUME NEW s, NEW x, IsSeq(s)
  PROVE  /\ IsSeq(Append(s, x))
         /\ Len(Append(s, x)) = Len(s) + 1
         /\ \A i \in 1 .. Len(s) : Append(s, x)[i] = s[i]
         /\ Append(s, x)[Len(s) + 1] = x
<1>1. PICK S : s \in Seq(S)
  BY DEF IsSeq
<1>2. s \in Seq(S \cup {x})
  BY <1>1, SeqMonotonic
<1>3. Append(s, x) \in Seq(S \cup {x})
  BY <1>2
<1> QED  BY <1>2, <1>3 DEF IsSeq

LEMMA PairIs ==
  ASSUME NEW x, NEW y
  PROVE  IsSeq(<<x, y>>) /\ Len(<<x, y>>) = 2 /\ <<x, y>>[1] = x /\ <<x, y>>[2] = y
<1>1. <<x, y>> \in Seq({x, y})
  OBVIOUS
<1> QED  BY <1>1 DEF IsSeq

LEMMA FrontIs ==
  ASSUME NEW s, IsSeq(s), 1 <= Len(s)
  PROVE  /\ IsSeq(Front(s)) /\ Len(Front(s)) = Len(s) - 1
         /\ \A i \in 1 .. Len(s) - 1 : Front(s)[i] = s[i]
<1> DEFINE n == Len(s) - 1
<1>1. n \in Nat /\ n <= Len(s) /\ Front(s) = SubSeq(s, 1, n)
  BY SeqIs DEF Front
<1> HIDE DEF n
<1>2. /\ IsSeq(SubSeq(s, 1, n)) /\ Len(SubSeq(s, 1, n)) = IF 1 <= n THEN n ELSE 0
      /\ \A i \in 1 .. n : SubSeq(s, 1, n)[i] = s[i]
  BY <1>1, SubSeqIs
<1>3. (IF 1 <= n THEN n ELSE 0) = n
  BY <1>1
<1> QED  BY <1>1, <1>2, <1>3 DEF n

LEMMA ExceptIs ==
  ASSUME NEW s, NEW i, NEW x, IsSeq(s)
  PROVE  /\ IsSeq([s EXCEPT ![i] = x])
         /\ Len([s EXCEPT ![i] = x]) = Len(s)
<1>1. PICK S : s \in Seq(S)
  BY DEF IsSeq
<1>2. s \in Seq(S \cup {x})
  BY <1>1, SeqMonotonic
<1>3. CASE i \in 1 .. Len(s)
  BY <1>2, <1>3, ExceptSeq DEF IsSeq
<1>4. CASE i \notin 1 .. Len(s)
  <2>1. DOMAIN s = 1 .. Len(s) /\ s \in [1 .. Len(s) -> S]
    BY <1>1, LenProperties
  <2>2. [s EXCEPT ![i] = x] = s
    BY <1>4, <2>1
  <2> QED  BY <2>2
<1> QED  BY <1>3, <1>4

LEMMA DropLastIs ==
  ASSUME NEW s, IsSeq(s), NEW n \in Nat
  PROVE  /\ IsSeq(DropLast(s, n))
         /\ Len(DropLast(s, n)) = IF n <= Len(s) THEN Len(s) - n ELSE 0
         /\ \A i \in 1 .. Len(s) - n : DropLast(s, n)[i] = s[i]
<1> DEFINE kept == Len(s) - n
<1>1. Len(s) \in Nat /\ kept \in Int /\ kept <= Len(s) /\ DropLast(s, n) = SubSeq(s, 1, kept)
  BY SeqIs DEF DropLast
<1>2. (1 <= kept => n <= Len(s)) /\ (n <= Len(s) => kept >= 0)
  BY <1>1
<1> HIDE DEF kept
<1>3. /\ IsSeq(DropLast(s, n)) /\ Len(DropLast(s, n)) = IF 1 <= kept THEN kept ELSE 0
      /\ \A i \in 1 .. kept : DropLast(s, n)[i] = s[i]
  BY <1>1, SubSeqIs
<1>4. (IF 1 <= kept THEN kept ELSE 0) = IF n <= Len(s) THEN kept ELSE 0
  BY <1>1, <1>2
<1> QED  BY <1>3, <1>4 DEF kept

----------------------------------------------------------------------------
(* Sets of numbers                                                         *)

LEMMA LeastIs ==
  ASSUME NEW D, D \subseteq Nat, D # {}
  PROVE  \E x \in D : \A y \in D : x <= y
<1> DEFINE R == OpToRel(<, Nat)
<1>1. \A x, y \in Nat : <<y, x>> \in R <=> y < x
  BY DEF OpToRel
<1>2. IsWellFoundedOn(R, Nat)
  BY NatLessThanWellFounded
<1> HIDE DEF R
<1>3. \E x \in D : \A y \in D : ~ (<<y, x>> \in R)
  BY <1>2, WFMin
<1>4. PICK x \in D : \A y \in D : ~ (<<y, x>> \in R)
  BY <1>3
<1>5. \A y \in D : ~ (y < x) /\ x \in Nat /\ y \in Nat
  BY <1>1, <1>4
<1>6. \A y \in D : x <= y
  BY <1>5
<1> QED  BY <1>6

(* Max, which is a CHOOSE, of the indices of a list.                       *)
LEMMA MaxIs ==
  ASSUME NEW n \in Nat, NEW S, S \subseteq 1 .. n, S # {}
  PROVE  Max(S) \in S /\ \A y \in S : y <= Max(S)
<1> DEFINE D == {d \in 0 .. n : \E x \in S : d = n - x}
<1>1. PICK z : z \in S
  OBVIOUS
<1>2. n - z \in D
  BY <1>1
<1>3. PICK d \in D : \A y \in D : d <= y
  <2>1. D \subseteq Nat /\ D # {}
    BY <1>2
  <2> HIDE DEF D
  <2> QED  BY <2>1, LeastIs
<1>4. PICK x \in S : d = n - x
  BY <1>3
<1>5. \A y \in S : n - y \in D
  OBVIOUS
<1>6. \A y \in S : x >= y
  <2> SUFFICES ASSUME NEW y \in S  PROVE x >= y
    OBVIOUS
  <2>1. n - x <= n - y
    BY <1>3, <1>4, <1>5
  <2> QED  BY <2>1
<1> QED  BY <1>4, <1>6 DEF Max

----------------------------------------------------------------------------
(* Capacity is enough, and no less than before: it is the first of the     *)
(* doubled capacities with room for n items.  What the recursive function  *)
(* computes is the least set that is closed under doubling.                *)
LEMMA CapacityIs ==
  ASSUME NEW cap \in Nat, NEW n \in Nat
  PROVE  Capacity(cap, n) \in Nat /\ cap <= Capacity(cap, n) /\ n <= Capacity(cap, n)
<1> DEFINE Double(c)    == NextCapacity(c)
           Closed(S)  == \A s \in S : s < n => Double(s) \in S
           Up(c)      == {d \in Nat : \A S \in SUBSET Nat : c \in S /\ Closed(S) => d \in S}
           Enough(c)  == {d \in Up(c) : n <= d}
           First      == [c \in Nat |-> CHOOSE d : d \in Enough(c)]
           Is(f)      == f = [c \in Nat |-> IF n <= c THEN c ELSE f[Double(c)]]
           grown      == CHOOSE f : Is(f)
<1>1. \A c \in Nat : Double(c) \in Nat /\ c < Double(c)
  BY CapacityAssumption DEF NextCapacity
<1> HIDE DEF Double
<1>2. \A c \in Nat : n <= c => Enough(c) = {c}
  <2> SUFFICES ASSUME NEW c \in Nat, n <= c  PROVE Enough(c) = {c}
    OBVIOUS
  <2>1. c \in Up(c)
    OBVIOUS
  <2>2. {c} \in SUBSET Nat /\ c \in {c} /\ Closed({c})
    OBVIOUS
  <2>3. \A d \in Up(c) : d \in {c}
    BY <2>2
  <2> QED  BY <2>1, <2>3
<1>3. \A c \in Nat : c < n => Enough(c) = Enough(Double(c))
  <2> SUFFICES ASSUME NEW c \in Nat, c < n  PROVE Enough(c) = Enough(Double(c))
    OBVIOUS
  <2> DEFINE W == {c} \cup Up(Double(c))
  <2>1. Double(c) \in Nat /\ Double(c) \in Up(Double(c))
    BY <1>1
  <2>2. ASSUME NEW s \in Up(Double(c)), s < n  PROVE Double(s) \in Up(Double(c))
    <3>1. Double(s) \in Nat
      BY <1>1
    <3>2. ASSUME NEW S \in SUBSET Nat, Double(c) \in S, Closed(S)  PROVE Double(s) \in S
      BY <2>2, <3>2
    <3> QED  BY <3>1, <3>2
  <2>3. W \in SUBSET Nat /\ c \in W /\ Closed(W)
    BY <2>1, <2>2
  <2>4. Up(c) \subseteq W
    <3> HIDE DEF W
    <3> QED  BY <2>3
  <2>5. Up(Double(c)) \subseteq Up(c)
    OBVIOUS
  <2>6. \A d : d \in Enough(c) <=> d \in Enough(Double(c))
    <3>1. \A d \in Up(c) : n <= d => d \in Up(Double(c))
      <4>1. ~(n <= c)
        OBVIOUS
      <4> HIDE DEF Up
      <4> QED  BY <2>4, <4>1
    <3> HIDE DEF Up
    <3> QED  BY <2>5, <3>1
  <2> HIDE DEF Enough
  <2> QED  BY <2>6
<1> HIDE DEF Enough
<1>4. Is(First)
  <2>1. \A c \in Nat : n <= c => First[c] = c
    BY <1>2
  <2>2. \A c \in Nat : c < n => First[c] = First[Double(c)]
    BY <1>1, <1>3
  <2>3. First = [c \in Nat |-> First[c]]
    OBVIOUS
  <2> HIDE DEF First
  <2>4. \A c \in Nat : First[c] = IF n <= c THEN c ELSE First[Double(c)]
    BY <2>1, <2>2
  <2> QED  BY <2>3, <2>4
<1>5. Is(grown)
  BY <1>4
<1>6. Capacity(cap, n) = grown[cap]
  BY DEF Capacity, Double
<1> HIDE DEF grown
<1>7. /\ \A c \in Nat : n <= c => grown[c] = c
      /\ \A c \in Nat : c < n => grown[c] = grown[Double(c)]
  BY <1>5
<1> DEFINE Good(c) == grown[c] \in Nat /\ c <= grown[c] /\ n <= grown[c]
           Left    == {m \in Nat : \E c \in Nat : m = n - c /\ ~Good(c)}
<1>8. ASSUME NEW c \in Nat, ~Good(c)
      PROVE  n - c \in Left /\ Double(c) \in Nat /\ c < Double(c) /\ ~Good(Double(c))
  <2>1. c < n
    BY <1>7, <1>8
  <2>2. n - c \in Left
    BY <1>8, <2>1
  <2>3. grown[c] = grown[Double(c)] /\ Double(c) \in Nat /\ c < Double(c)
    BY <1>1, <1>7, <2>1
  <2> HIDE DEF Left
  <2> QED  BY <1>8, <2>2, <2>3
<1>9. Left = {}
  <2> SUFFICES ASSUME Left # {}  PROVE FALSE
    OBVIOUS
  <2>1. Left \subseteq Nat
    OBVIOUS
  <2>2. PICK m \in Left : \A k \in Left : m <= k
    <3> HIDE DEF Left
    <3> QED  BY <2>1, LeastIs
  <2>3. PICK c \in Nat : m = n - c /\ ~Good(c)
    OBVIOUS
  <2> HIDE DEF Left, Good
  <2>4. Double(c) \in Nat /\ c < Double(c) /\ ~Good(Double(c))
    BY <1>8, <2>3
  <2>5. n - Double(c) \in Left
    BY <1>8, <2>4
  <2>6. m <= n - Double(c)
    BY <2>2, <2>5
  <2> QED  BY <2>3, <2>4, <2>6
<1>10. Good(cap)
  <2> HIDE DEF Left
  <2>1. Left = {} /\ cap \in Nat
    BY <1>9
  <2>2. ~Good(cap) => n - cap \in Left
    BY <1>8
  <2> QED  BY <2>1, <2>2
<1> QED  BY <1>6, <1>10
=============================================================================
