------------------------ MODULE MemoryManagerProofs ------------------------
(***************************************************************************)
(* The invariants of MemoryManager, for every block size, header size, set *)
(* of requests and counter width.                                          *)
(*                                                                         *)
(* The three invariants are only inductive together: the address of a      *)
(* split-off segment is a valid and a new one because the segments tile    *)
(* the block, the lists stay disjoint because that address is new, and     *)
(* only a segment of a list is ever cut or handed out.                     *)
(***************************************************************************)
EXTENDS MemoryManager, SequenceTheorems, FiniteSetTheorems, TLAPS

----------------------------------------------------------------------------
(* The next fields as sequences: what pushing, removing and replacing one  *)
(* element does to the length, the elements and the absence of duplicates. *)

(* Removing at i closes the gap: what followed moves one place down.       *)
LEMMA RemoveAtElements ==
  ASSUME NEW S, NEW s \in Seq(S), NEW i \in 1 .. Len(s)
  PROVE  /\ RemoveAt(s, i) \in Seq(S)
         /\ Len(RemoveAt(s, i)) = Len(s) - 1
         /\ \A j \in 1 .. Len(s) - 1 :
              RemoveAt(s, i)[j] = IF j < i THEN s[j] ELSE s[j + 1]
<1> DEFINE l == SubSeq(s, 1, i - 1)
           r == SubSeq(s, i + 1, Len(s))
<1>0. Len(s) \in Nat /\ i \in Nat /\ \A j \in 1 .. Len(s) : s[j] \in S
  BY LenProperties, ElementOfSeq
<1>1. l \in Seq(S) /\ Len(l) = i - 1 /\ \A j \in 1 .. i - 1 : l[j] = s[j]
  <2>1. \A j \in 1 .. i - 1 : s[j] \in S
    BY <1>0
  <2>2. /\ l \in Seq(S)
        /\ Len(l) = IF 1 <= i - 1 THEN (i - 1) - 1 + 1 ELSE 0
        /\ \A j \in 1 .. (i - 1) - 1 + 1 : l[j] = s[1 + j - 1]
    BY <2>1, <1>0, SubSeqProperties
  <2> QED
    BY <2>2, <1>0
<1>2. /\ r \in Seq(S) /\ Len(r) = Len(s) - i
      /\ \A j \in 1 .. Len(s) - i : r[j] = s[i + j]
  <2>1. \A j \in i + 1 .. Len(s) : s[j] \in S
    BY <1>0
  <2>2. /\ r \in Seq(S)
        /\ Len(r) = IF i + 1 <= Len(s) THEN Len(s) - (i + 1) + 1 ELSE 0
        /\ \A j \in 1 .. Len(s) - (i + 1) + 1 : r[j] = s[(i + 1) + j - 1]
    BY <2>1, <1>0, SubSeqProperties
  <2> QED
    BY <2>2, <1>0
<1>3. RemoveAt(s, i) = l \o r
  BY DEF RemoveAt
<1>4. /\ l \o r \in Seq(S)
      /\ Len(l \o r) = Len(l) + Len(r)
      /\ \A j \in 1 .. Len(l) + Len(r) :
           (l \o r)[j] = IF j <= Len(l) THEN l[j] ELSE r[j - Len(l)]
  BY <1>1, <1>2, ConcatProperties
<1>5. \A j \in 1 .. Len(s) - 1 :
        (l \o r)[j] = IF j < i THEN s[j] ELSE s[j + 1]
  <2> SUFFICES ASSUME NEW j \in 1 .. Len(s) - 1
               PROVE  (l \o r)[j] = IF j < i THEN s[j] ELSE s[j + 1]
    OBVIOUS
  <2> HIDE DEF l, r
  <2>1. CASE j < i
    <3>1. (l \o r)[j] = l[j]
      BY <2>1, <1>0, <1>1, <1>2, <1>4
    <3> QED
      BY <3>1, <2>1, <1>0, <1>1
  <2>2. CASE j >= i
    <3>1. (l \o r)[j] = r[j - (i - 1)]
      BY <2>2, <1>0, <1>1, <1>2, <1>4
    <3>2. r[j - (i - 1)] = s[i + (j - (i - 1))]
      BY <2>2, <1>0, <1>2
    <3> QED
      BY <3>1, <3>2, <2>2, <1>0
  <2>3. j < i \/ j >= i
    BY <1>0
  <2> QED
    BY <2>1, <2>2, <2>3
<1> HIDE DEF l, r
<1> QED
  BY <1>0, <1>1, <1>2, <1>3, <1>4, <1>5

(* Removing one element of a list without duplicates removes it for good.  *)
LEMMA RemoveAtRange ==
  ASSUME NEW S, NEW s \in Seq(S), NEW i \in 1 .. Len(s), IsInjective(s)
  PROVE  /\ IsInjective(RemoveAt(s, i))
         /\ Range(RemoveAt(s, i)) = Range(s) \ {s[i]}
<1> DEFINE t == RemoveAt(s, i)
<1>1. /\ DOMAIN s = 1 .. Len(s) /\ Len(s) \in Nat
      /\ \A j, k \in 1 .. Len(s) : s[j] = s[k] => j = k
  BY LenProperties DEF IsInjective
<1>2. /\ t \in Seq(S) /\ Len(t) = Len(s) - 1
      /\ \A j \in 1 .. Len(s) - 1 : t[j] = IF j < i THEN s[j] ELSE s[j + 1]
  BY RemoveAtElements
<1>3. DOMAIN t = 1 .. Len(s) - 1
  BY <1>2, LenProperties
<1> HIDE DEF t
<1>4. IsInjective(t)
  BY <1>1, <1>2, <1>3 DEF IsInjective
<1>5. ASSUME NEW x \in Range(t) PROVE x \in Range(s) \ {s[i]}
  <2>1. PICK j \in 1 .. Len(s) - 1 : x = t[j]
    BY <1>3 DEF Range
  <2>2. PICK k \in 1 .. Len(s) : k # i /\ x = s[k]
    BY <2>1, <1>1, <1>2
  <2> QED
    BY <2>2, <1>1 DEF Range
<1>6. ASSUME NEW x \in Range(s) \ {s[i]} PROVE x \in Range(t)
  <2>1. PICK k \in 1 .. Len(s) : x = s[k] /\ k # i
    BY <1>1 DEF Range
  <2>2. CASE k < i
    BY <2>1, <2>2, <1>1, <1>2, <1>3 DEF Range
  <2>3. CASE k > i
    <3>1. k - 1 \in 1 .. Len(s) - 1 /\ t[k - 1] = s[k]
      BY <2>3, <1>1, <1>2
    <3> QED
      BY <3>1, <2>1, <1>3 DEF Range
  <2> QED
    BY <2>1, <2>2, <2>3, <1>1
<1> QED
  BY <1>4, <1>5, <1>6 DEF t

(* A push in front of a list.                                              *)
LEMMA PushProperties ==
  ASSUME NEW S, NEW s \in Seq(S), NEW x \in S
  PROVE  /\ <<x>> \o s \in Seq(S)
         /\ Range(<<x>> \o s) = Range(s) \cup {x}
         /\ IsInjective(s) /\ x \notin Range(s) => IsInjective(<<x>> \o s)
<1> DEFINE t == <<x>> \o s
<1>1. DOMAIN s = 1 .. Len(s) /\ Len(s) \in Nat
  BY LenProperties
<1>2. <<x>> \in Seq(S) /\ Len(<<x>>) = 1 /\ <<x>>[1] = x
  OBVIOUS
<1>3. /\ t \in Seq(S) /\ Len(t) = 1 + Len(s)
      /\ \A i \in 1 .. 1 + Len(s) : t[i] = IF i <= 1 THEN x ELSE s[i - 1]
  <2>1. /\ t \in Seq(S) /\ Len(t) = Len(<<x>>) + Len(s)
        /\ \A i \in 1 .. Len(<<x>>) + Len(s) :
             t[i] = IF i <= Len(<<x>>) THEN <<x>>[i] ELSE s[i - Len(<<x>>)]
    BY <1>2, ConcatProperties
  <2> QED
    BY <2>1, <1>1, <1>2
<1>4. DOMAIN t = 1 .. 1 + Len(s)
  BY <1>3, LenProperties
<1> HIDE DEF t
<1>5. ASSUME NEW y \in Range(t) PROVE y \in Range(s) \cup {x}
  <2>1. PICK i \in 1 .. 1 + Len(s) : y = t[i]
    BY <1>4 DEF Range
  <2> QED
    BY <2>1, <1>1, <1>3 DEF Range
<1>6. x \in Range(t)
  BY <1>1, <1>3, <1>4 DEF Range
<1>7. ASSUME NEW y \in Range(s) PROVE y \in Range(t)
  <2>1. PICK i \in 1 .. Len(s) : y = s[i]
    BY <1>1 DEF Range
  <2>2. i + 1 \in 1 .. 1 + Len(s) /\ t[i + 1] = s[i]
    BY <1>1, <1>3
  <2> QED
    BY <2>1, <2>2, <1>4 DEF Range
<1>8. ASSUME IsInjective(s), x \notin Range(s) PROVE IsInjective(t)
  <2>1. \A j \in 1 .. Len(s) : s[j] # x
    BY <1>8, <1>1 DEF Range
  <2>2. \A j, k \in 1 .. Len(s) : s[j] = s[k] => j = k
    BY <1>8, <1>1 DEF IsInjective
  <2>3. ASSUME NEW j \in 1 .. 1 + Len(s), NEW k \in 1 .. 1 + Len(s), t[j] = t[k]
        PROVE  j = k
    <3>1. CASE j = 1
      BY <3>1, <2>1, <2>3, <1>1, <1>3
    <3>2. CASE k = 1
      BY <3>2, <2>1, <2>3, <1>1, <1>3
    <3>3. CASE j # 1 /\ k # 1
      <4>1. /\ j - 1 \in 1 .. Len(s) /\ k - 1 \in 1 .. Len(s)
            /\ s[j - 1] = s[k - 1]
        BY <3>3, <2>3, <1>1, <1>3
      <4>2. j - 1 = k - 1
        BY <4>1, <2>2
      <4> QED
        BY <4>2, <1>1
    <3> QED
      BY <3>1, <3>2, <3>3
  <2> QED
    BY <2>3, <1>4 DEF IsInjective
<1> QED
  BY <1>3, <1>5, <1>6, <1>7, <1>8 DEF t

(* One element takes another's place.                                      *)
LEMMA ReplaceProperties ==
  ASSUME NEW S, NEW s \in Seq(S), NEW i \in 1 .. Len(s), NEW x \in S,
         IsInjective(s), x \notin Range(s),
         NEW t \in Seq(S), Len(t) = Len(s),
         \A j \in 1 .. Len(s) : t[j] = IF j = i THEN x ELSE s[j]
  PROVE  /\ IsInjective(t)
         /\ Range(t) = (Range(s) \ {s[i]}) \cup {x}
<1>1. DOMAIN s = 1 .. Len(s) /\ DOMAIN t = 1 .. Len(s) /\ Len(s) \in Nat
  BY LenProperties
<1>2. \A j, k \in 1 .. Len(s) : s[j] = s[k] => j = k
  BY <1>1 DEF IsInjective
<1>3. \A j \in 1 .. Len(s) : s[j] # x
  BY <1>1 DEF Range
<1>4. IsInjective(t)
  BY <1>1, <1>2, <1>3 DEF IsInjective
<1>5. Range(t) = (Range(s) \ {s[i]}) \cup {x}
  BY <1>1, <1>2 DEF Range
<1> QED
  BY <1>4, <1>5

----------------------------------------------------------------------------
(* The invariants                                                          *)

HeadersOK ==
  /\ 0 \in Headers /\ Headers \subseteq Address
  /\ header \in [Headers -> MarkingInfo]
  /\ \A a \in Headers : header[a].size >= HeaderSize
  /\ free \in Seq(Headers) /\ allocd \in Seq(Headers)

HeapShape == HeadersOK /\ HeadersTileBlock /\ ListsPartitionHeaders

IInv == TypeOK /\ HeadersTileBlock /\ ListsPartitionHeaders

LEMMA ShapeOfInv == IInv => HeapShape
BY DEF IInv, HeapShape, HeadersOK, TypeOK

(* What holds of a segment of either list.                                 *)
LEMMA SegmentFacts ==
  ASSUME HeapShape, NEW a \in Headers
  PROVE  /\ a \in Nat /\ a < BlockSize
         /\ header[a] \in MarkingInfo
         /\ header[a].size \in Nat /\ header[a].size >= HeaderSize
         /\ SegmentEnd(a) \in Nat /\ a < SegmentEnd(a) /\ SegmentEnd(a) <= BlockSize
BY SizesAssumption
   DEF HeapShape, HeadersOK, HeadersTileBlock, Address, SegmentEnd, MarkingInfo

(* A free segment becomes an allocated one: TakeWhole and the push.        *)
LEMMA TakeWholeShape ==
  ASSUME HeapShape, NEW n \in Requests, NEW i \in DOMAIN free,
         TakeWhole(i, n), HandOut(free[i])
  PROVE  HeapShape' /\ free[i] \in Headers'
<1> DEFINE left == free[i]
<1>1. /\ DOMAIN free = 1 .. Len(free) /\ i \in 1 .. Len(free) /\ left \in Headers
      /\ free \in Seq(Headers) /\ allocd \in Seq(Headers)
  BY LenProperties, ElementOfSeq DEF HeapShape, HeadersOK
<1>2. /\ left \in Range(free) /\ ~header[left].allocated /\ left \notin Range(allocd)
      /\ IsInjective(free) /\ IsInjective(allocd)
  BY <1>1 DEF HeapShape, ListsPartitionHeaders, Range
<1>3. /\ n \in Nat /\ HeaderSize + n \in Nat /\ HeaderSize + n >= HeaderSize
      /\ header[left].size = HeaderSize + n
  BY SizesAssumption DEF TakeWhole, PerfectMatch
<1>4. header' = [header EXCEPT ![left] = LiveSegment(HeaderSize + n)]
  BY DEF TakeWhole
<1>5. Headers' = Headers
  BY <1>4 DEF Headers
<1>6. LiveSegment(HeaderSize + n) \in MarkingInfo
  BY <1>3 DEF LiveSegment, MarkingInfo
<1>7. /\ header' \in [Headers -> MarkingInfo]
      /\ \A a \in Headers : header'[a].size = header[a].size
      /\ \A a \in Headers : header'[a].allocated = (header[a].allocated \/ a = left)
  <2>1. header \in [Headers -> MarkingInfo]
    BY DEF HeapShape, HeadersOK
  <2>2. header' \in [Headers -> MarkingInfo]
    BY <2>1, <1>1, <1>4, <1>6
  <2>3. \A a \in Headers :
          header'[a] = IF a = left THEN LiveSegment(HeaderSize + n) ELSE header[a]
    BY <2>1, <1>4
  <2>4. LiveSegment(HeaderSize + n).size = HeaderSize + n /\ LiveSegment(HeaderSize + n).allocated = TRUE
    BY DEF LiveSegment
  <2>5. \A a \in Headers : header[a].allocated \in BOOLEAN
    BY <2>1 DEF MarkingInfo
  <2> HIDE DEF left
  <2>6. \A a \in Headers : header'[a].size = header[a].size
    BY <2>3, <2>4, <1>3
  <2>7. ASSUME NEW a \in Headers
        PROVE  header'[a].allocated = (header[a].allocated \/ a = left)
    <3>1. CASE a = left
      BY <3>1, <2>3, <2>4
    <3>2. CASE a # left
      BY <3>2, <2>3, <2>5
    <3> QED
      BY <3>1, <3>2
  <2> QED
    BY <2>2, <2>6, <2>7
<1>8. /\ free' \in Seq(Headers) /\ IsInjective(free') /\ Range(free') = Range(free) \ {left}
  BY <1>1, <1>2, RemoveAtElements, RemoveAtRange DEF TakeWhole
<1>9. /\ allocd' \in Seq(Headers) /\ IsInjective(allocd')
      /\ Range(allocd') = Range(allocd) \cup {left}
  BY <1>1, <1>2, PushProperties DEF HandOut
<1> HIDE DEF left
<1>10. HeadersOK'
  BY <1>5, <1>7, <1>8, <1>9 DEF HeapShape, HeadersOK
<1>11. HeadersTileBlock'
  BY <1>5, <1>7 DEF HeapShape, HeadersTileBlock, SegmentEnd
<1>12. ListsPartitionHeaders'
  <2>1. Range(free') = {a \in Headers : ~header'[a].allocated}
    BY <1>7, <1>8 DEF HeapShape, ListsPartitionHeaders
  <2>2. Range(allocd') = {a \in Headers : header'[a].allocated}
    BY <1>7, <1>9, <1>1 DEF HeapShape, ListsPartitionHeaders
  <2> QED
    BY <2>1, <2>2, <1>5, <1>8, <1>9 DEF ListsPartitionHeaders
<1> QED
  BY <1>1, <1>5, <1>10, <1>11, <1>12 DEF HeapShape, left

(* A free segment is cut in two: SplitOff and the push.  The right half    *)
(* begins inside the segment that is cut, so no other segment begins there *)
(* and it ends where the whole segment ended.                              *)
LEMMA SplitOffShape ==
  ASSUME HeapShape, NEW n \in Requests, NEW i \in DOMAIN free, Serves(free[i], n),
         SplitOff(i, n), HandOut(free[i])
  PROVE  \E left, right, rest \in Nat :
           /\ left = free[i] /\ right = left + HeaderSize + n
           /\ rest = header[left].size - (HeaderSize + n)
           /\ left \in Headers /\ right \notin Headers
           /\ HeapShape'
           /\ Headers' = Headers \cup {right}
           /\ \A a \in Headers \ {left} : header'[a] = header[a]
           /\ header'[left] = LiveSegment(HeaderSize + n)
           /\ header'[right] = FreeSegment(rest)
<1>1. /\ DOMAIN free = 1 .. Len(free) /\ i \in 1 .. Len(free) /\ free[i] \in Headers
      /\ free \in Seq(Headers) /\ allocd \in Seq(Headers)
  BY LenProperties, ElementOfSeq DEF HeapShape, HeadersOK
<1>2. PICK left \in Headers : left = free[i]
  BY <1>1
<1>3. PICK size \in Nat : size = header[left].size
  BY SegmentFacts
<1>4. /\ n \in Nat /\ HeaderSize \in Nat \ {0} /\ BlockSize \in Nat
      /\ left \in Nat /\ SegmentEnd(left) = left + size
      /\ size >= 2 * HeaderSize + n /\ left + size <= BlockSize
  BY <1>2, <1>3, SizesAssumption, SegmentFacts
     DEF SplitOff, Serves, PerfectMatch, CanSplit, SegmentEnd
<1>5. PICK right \in Nat : right = left + HeaderSize + n
  BY <1>4
<1>6. PICK rest \in Nat : rest = size - (HeaderSize + n)
  BY <1>3, <1>4
<1>7. /\ left \in Range(free) /\ ~header[left].allocated /\ left \notin Range(allocd)
      /\ IsInjective(free) /\ IsInjective(allocd)
      /\ Range(free) \subseteq Headers /\ Range(allocd) \subseteq Headers
  BY <1>1, <1>2 DEF HeapShape, ListsPartitionHeaders, Range
<1>8. /\ rest >= HeaderSize /\ rest # 0 /\ right > left
      /\ right + rest = SegmentEnd(left) /\ right + rest <= BlockSize
      /\ SegmentEnd(left) \in Nat
  <2> DEFINE end == SegmentEnd(left)
  <2>1. end = left + size
    BY <1>4
  <2> HIDE DEF end
  <2>2. /\ rest >= HeaderSize /\ rest # 0 /\ right > left
        /\ right + rest = end /\ right + rest <= BlockSize /\ end \in Nat
    BY <2>1, <1>4, <1>5, <1>6
  <2> QED
    BY <2>2 DEF end
<1>9. /\ free' = [free EXCEPT ![i] = right]
      /\ header' = [a \in Headers \cup {right} |->
                     IF a = left THEN LiveSegment(HeaderSize + n)
                     ELSE IF a = right THEN FreeSegment(rest)
                     ELSE header[a]]
  BY <1>2, <1>3, <1>5, <1>6 DEF SplitOff
<1>10. right \notin Headers
  <2>1. \A b \in Headers : left < b => SegmentEnd(left) <= b
    BY DEF HeapShape, HeadersTileBlock
  <2>2. right < SegmentEnd(left)
    BY <1>8
  <2> QED
    BY <1>8, <2>1, <2>2
<1>11. Headers' = Headers \cup {right}
  BY <1>9 DEF Headers
<1>12. /\ header'[left] = LiveSegment(HeaderSize + n)
      /\ header'[right] = FreeSegment(rest)
      /\ \A a \in Headers \ {left} : header'[a] = header[a]
  BY <1>9, <1>10
<1>13. /\ LiveSegment(HeaderSize + n) \in MarkingInfo /\ FreeSegment(rest) \in MarkingInfo
      /\ LiveSegment(HeaderSize + n).size = HeaderSize + n
      /\ LiveSegment(HeaderSize + n).allocated = TRUE
      /\ FreeSegment(rest).size = rest /\ FreeSegment(rest).allocated = FALSE
  BY <1>4, <1>8 DEF LiveSegment, FreeSegment, MarkingInfo
<1>14. header \in [Headers -> MarkingInfo] /\ \A a \in Headers : header[a].size >= HeaderSize
  BY DEF HeapShape, HeadersOK
<1>15. header' \in [Headers' -> MarkingInfo]
  <2>1. \A a \in Headers' : header'[a] \in MarkingInfo
    BY <1>11, <1>12, <1>13, <1>14
  <2>2. header' = [a \in Headers' |-> header'[a]]
    BY <1>9 DEF Headers
  <2> QED
    BY <2>1, <2>2
<1>16. /\ free' \in Seq(Headers') /\ IsInjective(free')
       /\ Range(free') = (Range(free) \ {left}) \cup {right}
  <2>1. free \in Seq(Headers') /\ right \in Headers' /\ right \notin Range(free)
    BY <1>1, <1>7, <1>10, <1>11, SeqMonotonic
  <2> QED
    <3>1. /\ free' \in Seq(Headers') /\ Len(free') = Len(free)
          /\ \A j \in 1 .. Len(free) : free'[j] = IF j = i THEN right ELSE free[j]
      BY <2>1, <1>1, <1>9, ExceptSeq
    <3>2. IsInjective(free') /\ Range(free') = (Range(free) \ {free[i]}) \cup {right}
      BY <3>1, <2>1, <1>1, <1>7, ReplaceProperties
    <3> QED
      BY <3>1, <3>2, <1>2
<1>17. /\ allocd' \in Seq(Headers') /\ IsInjective(allocd')
       /\ Range(allocd') = Range(allocd) \cup {left}
  <2>1. allocd \in Seq(Headers') /\ left \in Headers'
    BY <1>1, <1>11, SeqMonotonic
  <2> QED
    BY <2>1, <1>2, <1>7, PushProperties DEF HandOut
<1>18. HeadersOK'
  <2>1. 0 \in Headers' /\ Headers' \subseteq Address
    BY <1>4, <1>8, <1>11 DEF HeapShape, HeadersOK, Address
  <2>2. \A a \in Headers' : header'[a].size >= HeaderSize
    BY <1>4, <1>8, <1>11, <1>12, <1>13, <1>14
  <2> QED
    BY <2>1, <2>2, <1>15, <1>16, <1>17 DEF HeadersOK
<1>19. HeadersTileBlock'
  <2>1. /\ SegmentEnd(left)' = right
        /\ SegmentEnd(right)' = SegmentEnd(left)
        /\ \A a \in Headers \ {left} : SegmentEnd(a)' = SegmentEnd(a)
    <3>1. left + (HeaderSize + n) = right
      BY <1>4, <1>5
    <3> QED
      BY <3>1, <1>8, <1>12, <1>13 DEF SegmentEnd
  <2>2. \A a \in Headers : SegmentEnd(a) \in Headers \cup {BlockSize}
    BY DEF HeapShape, HeadersTileBlock
  <2>3. \A a, b \in Headers : a < b => SegmentEnd(a) <= b
    BY DEF HeapShape, HeadersTileBlock
  <2>4. \A a \in Headers : a \in Nat /\ SegmentEnd(a) \in Nat
    BY SegmentFacts
  <2>5. ASSUME NEW a \in Headers' PROVE SegmentEnd(a)' \in Headers' \cup {BlockSize}
    BY <2>1, <2>2, <1>11
  <2>6. ASSUME NEW a \in Headers', NEW b \in Headers', a < b
        PROVE  SegmentEnd(a)' <= b
    <3>1. CASE a \in Headers \ {left} /\ b \in Headers
      BY <3>1, <2>1, <2>3, <2>6
    <3>2. CASE a \in Headers \ {left} /\ b = right
      <4>1. a < left
        <5>1. CASE left < a
          BY <5>1, <3>2, <2>3, <2>4, <2>6, <1>8
        <5> QED
          BY <5>1, <3>2, <2>4
      <4> QED
        BY <4>1, <3>2, <2>1, <2>3, <2>4, <1>8
    <3>3. CASE a = left /\ b \in Headers
      BY <3>3, <2>1, <2>3, <2>4, <2>6, <1>8
    <3>4. CASE a = left /\ b = right
      BY <3>4, <2>1, <1>8
    <3>5. CASE a = right /\ b \in Headers
      <4>1. left < b
        BY <3>5, <2>4, <2>6, <1>8
      <4> QED
        BY <4>1, <3>5, <2>1, <2>3
    <3>6. CASE a = right /\ b = right
      BY <3>6, <2>6, <1>8
    <3> QED
      BY <3>1, <3>2, <3>3, <3>4, <3>5, <3>6, <1>11
  <2> QED
    BY <2>5, <2>6 DEF HeadersTileBlock
<1>20. ListsPartitionHeaders'
  <2>1. Range(free) = {a \in Headers : ~header[a].allocated}
    BY DEF HeapShape, ListsPartitionHeaders
  <2>2. Range(allocd) = {a \in Headers : header[a].allocated}
    BY DEF HeapShape, ListsPartitionHeaders
  <2>3. Range(free') = {a \in Headers' : ~header'[a].allocated}
    BY <2>1, <1>10, <1>11, <1>12, <1>13, <1>16
  <2>4. Range(allocd') = {a \in Headers' : header'[a].allocated}
    BY <2>2, <1>10, <1>11, <1>12, <1>13, <1>17
  <2> QED
    BY <2>3, <2>4, <1>16, <1>17 DEF ListsPartitionHeaders
<1>21. HeapShape'
  BY <1>18, <1>19, <1>20 DEF HeapShape
<1>22. left \in Nat /\ rest = header[left].size - (HeaderSize + n)
  BY <1>3, <1>4, <1>6
<1> QED
  BY <1>21, <1>22, <1>2, <1>5, <1>10, <1>11, <1>12

(* An allocated segment goes back to the free list.                        *)
LEMMA InternalDeallocateShape ==
  ASSUME HeapShape, NEW a \in Headers, header[a].allocated, InternalDeallocate(a)
  PROVE  /\ HeapShape' /\ Headers' = Headers
         /\ Range(allocd') = Range(allocd) \ {a}
         /\ \A b \in Headers \ {a} : header'[b] = header[b]
         /\ header'[a] = FreeSegment(header[a].size)
<1>1. PICK i \in DOMAIN allocd : allocd[i] = a /\ allocd' = RemoveAt(allocd, i)
  BY DEF InternalDeallocate
<1>2. /\ free' = <<a>> \o free
      /\ header' = [header EXCEPT ![a] = FreeSegment(@.size)]
  BY DEF InternalDeallocate
<1>3. /\ header \in [Headers -> MarkingInfo]
      /\ allocd \in Seq(Headers) /\ free \in Seq(Headers)
      /\ DOMAIN allocd = 1 .. Len(allocd)
      /\ IsInjective(allocd) /\ IsInjective(free)
      /\ Range(free) = {b \in Headers : ~header[b].allocated}
      /\ Range(allocd) = {b \in Headers : header[b].allocated}
  BY LenProperties DEF HeapShape, HeadersOK, ListsPartitionHeaders
<1>4. Headers' = Headers
  BY <1>2 DEF Headers
<1>5. /\ header' = [header EXCEPT ![a] = FreeSegment(header[a].size)]
      /\ FreeSegment(header[a].size) \in MarkingInfo
      /\ FreeSegment(header[a].size).size = header[a].size
      /\ FreeSegment(header[a].size).allocated = FALSE
  BY <1>2, <1>3, SegmentFacts DEF FreeSegment, MarkingInfo
<1>6. /\ header' \in [Headers -> MarkingInfo]
      /\ \A b \in Headers \ {a} : header'[b] = header[b]
      /\ header'[a] = FreeSegment(header[a].size)
  BY <1>3, <1>5
<1>7. \A b \in Headers : header'[b].size = header[b].size
  BY <1>5, <1>6
<1>8. /\ allocd' \in Seq(Headers) /\ IsInjective(allocd')
      /\ Range(allocd') = Range(allocd) \ {a}
  BY <1>1, <1>3, RemoveAtElements, RemoveAtRange
<1>9. /\ free' \in Seq(Headers) /\ IsInjective(free')
      /\ Range(free') = Range(free) \cup {a}
  BY <1>2, <1>3, PushProperties
<1>10. HeadersOK'
  BY <1>4, <1>6, <1>7, <1>8, <1>9 DEF HeapShape, HeadersOK
<1>11. HeadersTileBlock'
  BY <1>4, <1>7 DEF HeapShape, HeadersTileBlock, SegmentEnd
<1>12. ListsPartitionHeaders'
  <2>1. Range(free') = {b \in Headers' : ~header'[b].allocated}
    BY <1>3, <1>4, <1>5, <1>6, <1>9
  <2>2. Range(allocd') = {b \in Headers' : header'[b].allocated}
    BY <1>3, <1>4, <1>5, <1>6, <1>8
  <2> QED
    BY <2>1, <2>2, <1>8, <1>9 DEF ListsPartitionHeaders
<1> QED
  BY <1>4, <1>6, <1>8, <1>10, <1>11, <1>12 DEF HeapShape

(* Only marks change: the greying and the marking.                         *)
LEMMA MarksShape ==
  ASSUME HeapShape, UNCHANGED <<free, allocd>>, header' \in [Headers -> MarkingInfo],
         \A a \in Headers : /\ header'[a].size = header[a].size
                            /\ header'[a].allocated = header[a].allocated
  PROVE  HeapShape' /\ Headers' = Headers
<1>1. Headers' = Headers
  BY DEF Headers
<1>2. HeadersOK'
  BY <1>1 DEF HeapShape, HeadersOK
<1>3. HeadersTileBlock'
  BY <1>1 DEF HeapShape, HeadersTileBlock, SegmentEnd
<1>4. ListsPartitionHeaders'
  BY <1>1 DEF HeapShape, ListsPartitionHeaders
<1> QED
  BY <1>1, <1>2, <1>3, <1>4 DEF HeapShape

----------------------------------------------------------------------------
(* The counters stay natural numbers: they are computed modulo Word.       *)
LEMMA ModWord ==
  ASSUME NEW x \in Nat
  PROVE  x % Word \in Nat
BY SizesAssumption

(* The cursor stays on a header or runs off the end of a list.             *)
LEMMA FieldNextType ==
  ASSUME NEW S, NEW s \in Seq(S), NEW t \in Seq(S), NEW a
  PROVE  FieldNext(a, s, t) \in S \cup {Null}
<1>1. ASSUME NEW list \in Seq(S) PROVE NextOf(a, list) \in S \cup {Null}
  <2> DEFINE here == {i \in DOMAIN list : list[i] = a /\ i < Len(list)}
  <2>1. CASE here = {}
    BY <2>1 DEF NextOf
  <2>2. CASE here # {}
    <3>1. (CHOOSE i \in here : TRUE) \in here
      BY <2>2
    <3>2. PICK i \in here : i = CHOOSE j \in here : TRUE
      BY <3>1
    <3>3. i \in 1 .. Len(list) /\ i < Len(list) /\ Len(list) \in Nat
      BY <1>1, LenProperties
    <3>4. list[i + 1] \in S
      BY <3>3, ElementOfSeq
    <3> QED
      BY <2>2, <3>2, <3>4 DEF NextOf
  <2> QED
    BY <2>1, <2>2
<1> QED
  BY <1>1 DEF FieldNext

LEMMA HeadType ==
  ASSUME NEW S, NEW s \in Seq(S)
  PROVE  HeadOrNull(s) \in S \cup {Null}
BY LenProperties, ElementOfSeq, EmptySeq DEF HeadOrNull

(* The part of TypeOK that is not about the heap.                          *)
RegistersOK ==
  /\ next_gc_size \in Nat
  /\ allocated_bytes \in Nat /\ freed_bytes \in Nat
  /\ pc \in {"idle", "grey", "mark", "sweep", "closed"}
  /\ cur \in Headers \cup {Null} /\ trigger \in Headers \cup {Null}
  /\ closing \in BOOLEAN

LEMMA InvParts == IInv <=> HeapShape /\ RegistersOK
BY DEF IInv, HeapShape, HeadersOK, RegistersOK, TypeOK

LEMMA InvPartsPrimed == HeapShape' /\ RegistersOK' => IInv'
BY DEF IInv, HeapShape, HeadersOK, RegistersOK, TypeOK

LEMMA InitInv == Init => IInv
<1> SUFFICES ASSUME Init PROVE IInv
  OBVIOUS
<1>1. header = [a \in {0} |-> FreeSegment(BlockSize)] /\ free = <<0>> /\ allocd = <<>>
  BY DEF Init
<1>2. Headers = {0} /\ header[0] = FreeSegment(BlockSize)
  BY <1>1 DEF Headers
<1>3. /\ FreeSegment(BlockSize) \in MarkingInfo
      /\ FreeSegment(BlockSize).size = BlockSize
      /\ FreeSegment(BlockSize).allocated = FALSE
  BY SizesAssumption DEF FreeSegment, MarkingInfo
<1>4. HeadersOK
  BY <1>1, <1>2, <1>3, SizesAssumption DEF HeadersOK, Address
<1>5. HeadersTileBlock
  BY <1>2, <1>3, SizesAssumption DEF HeadersTileBlock, SegmentEnd
<1>6. ListsPartitionHeaders
  BY <1>1, <1>2, <1>3 DEF ListsPartitionHeaders, Range, IsInjective
<1>7. RegistersOK
  BY SizesAssumption DEF Init, RegistersOK
<1> QED
  BY <1>4, <1>5, <1>6, <1>7, InvParts DEF HeapShape

LEMMA AllocateInv ==
  ASSUME IInv, NEW n \in Requests, Allocate(n)
  PROVE  IInv'
<1>1. HeapShape /\ RegistersOK
  BY InvParts
<1>2. PICK i \in DOMAIN free :
        /\ FirstFit(i, n) /\ HandOut(free[i])
        /\ TakeWhole(i, n) \/ SplitOff(i, n)
  BY DEF Allocate
<1>3. HeapShape' /\ free[i] \in Headers'
  <2>1. CASE TakeWhole(i, n)
    BY <2>1, <1>1, <1>2, TakeWholeShape
  <2>2. CASE SplitOff(i, n)
    BY <2>2, <1>1, <1>2, SplitOffShape DEF FirstFit
  <2> QED
    BY <1>2, <2>1, <2>2
<1>4. Headers \subseteq Headers'
  BY <1>2 DEF TakeWhole, SplitOff, Headers
<1>5. allocated_bytes' \in Nat
  BY <1>1, ModWord, SizesAssumption DEF Allocate, RegistersOK
<1>6. RegistersOK'
  BY <1>1, <1>2, <1>3, <1>4, <1>5 DEF Allocate, HandOut, RegistersOK
<1> QED
  BY <1>3, <1>6, InvPartsPrimed

LEMMA FreeingInv ==
  ASSUME IInv, NEW a \in Headers, header[a].allocated, InternalDeallocate(a),
         UNCHANGED <<next_gc_size, allocated_bytes, pc, trigger, closing>>,
         cur' \in Headers \cup {Null}
  PROVE  IInv'
<1>1. HeapShape /\ RegistersOK
  BY InvParts
<1>2. HeapShape' /\ Headers' = Headers
  BY <1>1, InternalDeallocateShape
<1>3. freed_bytes' \in Nat
  <2>1. PayloadSize(a) \in Nat
    BY <1>1, SegmentFacts, SizesAssumption DEF PayloadSize
  <2> QED
    BY <1>1, <2>1, ModWord DEF InternalDeallocate, RegistersOK
<1>4. RegistersOK'
  BY <1>1, <1>2, <1>3 DEF RegistersOK
<1> QED
  BY <1>2, <1>4, InvPartsPrimed

LEMMA DeallocateInv ==
  ASSUME IInv, NEW a, Deallocate(a)
  PROVE  IInv'
<1>1. a \in Headers /\ header[a].allocated
  BY DEF Deallocate, IInv, ListsPartitionHeaders
<1>2. cur' \in Headers \cup {Null}
  BY DEF Deallocate, IInv, TypeOK
<1> QED
  BY <1>1, <1>2, FreeingInv DEF Deallocate

LEMMA SweepFreesInv ==
  ASSUME IInv, SweepFrees
  PROVE  /\ cur \in Headers /\ header[cur].allocated
         /\ IInv'
<1>1. HeapShape /\ cur \in Range(allocd)
  BY InvParts DEF SweepFrees, InternalDeallocate, Range
<1>2. cur \in Headers /\ header[cur].allocated
  BY <1>1 DEF HeapShape, ListsPartitionHeaders
<1>3. HeapShape' /\ Headers' = Headers
  BY <1>1, <1>2, InternalDeallocateShape DEF SweepFrees
<1>4. cur' \in Headers \cup {Null}
  <2>1. allocd' \in Seq(Headers) /\ free' \in Seq(Headers)
    BY <1>3 DEF HeapShape, HeadersOK
  <2> QED
    BY <2>1, FieldNextType DEF SweepFrees
<1> QED
  BY <1>2, <1>4, FreeingInv DEF SweepFrees

LEMMA SweepKeepsInv ==
  ASSUME IInv, SweepKeeps
  PROVE  IInv'
<1>1. HeapShape /\ RegistersOK
  BY InvParts
<1>2. HeapShape' /\ Headers' = Headers
  BY <1>1, MarksShape DEF SweepKeeps, HeapShape, HeadersOK
<1>3. cur' \in Headers \cup {Null}
  BY <1>1, FieldNextType DEF SweepKeeps, HeapShape, HeadersOK
<1>4. RegistersOK'
  BY <1>1, <1>2, <1>3 DEF SweepKeeps, RegistersOK
<1> QED
  BY <1>2, <1>4, InvPartsPrimed

(* Greying and marking change marks only, and each mark is a legal one.    *)
LEMMA GreyAllMarks ==
  ASSUME HeapShape, GreyAll
  PROVE  /\ HeapShape' /\ Headers' = Headers
         /\ \A a \in Headers :
              /\ header'[a].size = header[a].size
              /\ header'[a].allocated = header[a].allocated
              /\ header'[a].mark = IF a \in Range(allocd)
                                   THEN IF a = trigger THEN Black ELSE Grey
                                   ELSE header[a].mark
<1>1. header \in [Headers -> MarkingInfo]
  BY DEF HeapShape, HeadersOK
<1>2. ASSUME NEW a \in Headers
      PROVE  /\ header'[a] \in MarkingInfo
             /\ header'[a].size = header[a].size
             /\ header'[a].allocated = header[a].allocated
             /\ header'[a].mark = IF a \in Range(allocd)
                                  THEN IF a = trigger THEN Black ELSE Grey
                                  ELSE header[a].mark
  <2>1. header[a] \in MarkingInfo
    BY <1>1
  <2>2. header'[a] = IF a \in Range(allocd)
                     THEN [header[a] EXCEPT !.mark = IF a = trigger THEN Black ELSE Grey]
                     ELSE header[a]
    BY DEF GreyAll
  <2> QED
    BY <2>1, <2>2 DEF MarkingInfo
<1>3. header' \in [Headers -> MarkingInfo]
  BY <1>2 DEF GreyAll
<1> QED
  BY <1>2, <1>3, MarksShape DEF GreyAll

LEMMA RuntimeMarkerMarks ==
  ASSUME HeapShape, NEW reached, RuntimeMarker(reached)
  PROVE  /\ HeapShape' /\ Headers' = Headers
         /\ \A a \in Headers :
              /\ header'[a].size = header[a].size
              /\ header'[a].allocated = header[a].allocated
              /\ header'[a].mark = IF a \in reached THEN Black ELSE header[a].mark
<1>1. header \in [Headers -> MarkingInfo]
  BY DEF HeapShape, HeadersOK
<1>2. ASSUME NEW a \in Headers
      PROVE  /\ header'[a] \in MarkingInfo
             /\ header'[a].size = header[a].size
             /\ header'[a].allocated = header[a].allocated
             /\ header'[a].mark = IF a \in reached THEN Black ELSE header[a].mark
  <2>1. header[a] \in MarkingInfo
    BY <1>1
  <2>2. header'[a] = IF a \in reached THEN [header[a] EXCEPT !.mark = Black] ELSE header[a]
    BY DEF RuntimeMarker
  <2> QED
    BY <2>1, <2>2 DEF MarkingInfo
<1>3. header' \in [Headers -> MarkingInfo]
  BY <1>2 DEF RuntimeMarker
<1> QED
  BY <1>2, <1>3, MarksShape DEF RuntimeMarker

LEMMA GreyAllInv ==
  ASSUME IInv, GreyAll
  PROVE  IInv'
<1>1. HeapShape /\ RegistersOK
  BY InvParts
<1>2. HeapShape' /\ Headers' = Headers
  BY <1>1, GreyAllMarks
<1>3. RegistersOK'
  BY <1>1, <1>2 DEF GreyAll, RegistersOK
<1> QED
  BY <1>2, <1>3, InvPartsPrimed

LEMMA RuntimeMarkerInv ==
  ASSUME IInv, NEW reached, RuntimeMarker(reached)
  PROVE  IInv'
<1>1. HeapShape /\ RegistersOK
  BY InvParts
<1>2. HeapShape' /\ Headers' = Headers
  BY <1>1, RuntimeMarkerMarks
<1>3. cur' \in Headers \cup {Null}
  BY <1>1, HeadType DEF RuntimeMarker, HeapShape, HeadersOK
<1>4. RegistersOK'
  BY <1>1, <1>2, <1>3 DEF RuntimeMarker, RegistersOK
<1> QED
  BY <1>2, <1>4, InvPartsPrimed

(* The steps that touch neither the headers nor the lists.                 *)
LEMMA HeapUnchangedInv ==
  ASSUME IInv, UNCHANGED <<header, free, allocd>>, RegistersOK'
  PROVE  IInv'
<1>1. HeapShape'
  BY DEF IInv, TypeOK, HeapShape, HeadersOK, HeadersTileBlock, ListsPartitionHeaders,
         Headers, SegmentEnd
<1> QED
  BY <1>1, InvPartsPrimed

LEMMA StepInv == IInv /\ [Next]_vars => IInv'
<1> SUFFICES ASSUME IInv, [Next]_vars PROVE IInv'
  OBVIOUS
<1>0. RegistersOK
  BY InvParts
<1>1. CASE \E n \in Requests : Allocate(n)
  BY <1>1, AllocateInv
<1>2. CASE \E n \in Requests : AllocateFails(n)
  BY <1>0, <1>2, HeapUnchangedInv DEF AllocateFails, RegistersOK, Headers
<1>3. CASE \E a \in Address : Deallocate(a)
  BY <1>3, DeallocateInv
<1>4. CASE CleanupManager
  BY <1>0, <1>4, HeapUnchangedInv DEF CleanupManager, RegistersOK, Headers
<1>5. CASE GreyAll
  BY <1>5, GreyAllInv
<1>6. CASE \E reached \in SUBSET Range(allocd) : RuntimeMarker(reached)
  BY <1>6, RuntimeMarkerInv
<1>7. CASE SweepFrees
  BY <1>7, SweepFreesInv
<1>8. CASE SweepKeeps
  BY <1>8, SweepKeepsInv
<1>9. CASE FinishGc
  <2>1. next_gc_size' \in Nat
    BY <1>0, <1>9, ModWord DEF FinishGc, RegistersOK
  <2> QED
    BY <2>1, <1>0, <1>9, HeapUnchangedInv DEF FinishGc, RegistersOK, Headers
<1>10. CASE UNCHANGED vars
  BY <1>0, <1>10, HeapUnchangedInv DEF vars, RegistersOK, Headers
<1> QED
  BY <1>1, <1>2, <1>3, <1>4, <1>5, <1>6, <1>7, <1>8, <1>9, <1>10 DEF Next, RunGc

THEOREM Invariance == Spec => []IInv
BY InitInv, StepInv, PTL DEF Spec

(* The manager's variables keep their types, for every block and request   *)
(* size: in particular no split ever puts a header outside the block       *)
(* (memory_manager.c:146-164).                                             *)
THEOREM TypeCorrectness == Spec => []TypeOK
<1>1. IInv => TypeOK
  BY DEF IInv
<1> QED
  BY <1>1, Invariance, PTL

(* No two segments ever overlap, and together they cover the block.        *)
THEOREM SegmentsTile == Spec => []HeadersTileBlock
<1>1. IInv => HeadersTileBlock
  BY DEF IInv
<1> QED
  BY <1>1, Invariance, PTL

(* Every segment is in exactly one list, also while the sweep edits them.  *)
THEOREM ListsPartition == Spec => []ListsPartitionHeaders
<1>1. IInv => ListsPartitionHeaders
  BY DEF IInv
<1> QED
  BY <1>1, Invariance, PTL
----------------------------------------------------------------------------
(* The marks.  Only allocated segments are ever grey, and from the greying *)
(* to the end of the sweep the trigger is allocated and black.             *)
GreyIsAllocated == \A a \in Headers : header[a].mark = Grey => header[a].allocated

TriggerHeld ==
  /\ pc = "idle" => ~closing
  /\ pc = "closed" => closing
  /\ pc # "idle" /\ closing => trigger = Null
  /\ pc # "idle" /\ ~closing => trigger \in Range(allocd)
  /\ pc \in {"mark", "sweep"} /\ ~closing => header[trigger].mark = Black

MarkInv == GreyIsAllocated /\ TriggerHeld

LEMMA InitMark == Init => MarkInv
BY DEF Init, MarkInv, GreyIsAllocated, TriggerHeld, Headers, FreeSegment, White, Grey

LEMMA AllocateMark ==
  ASSUME IInv, MarkInv, NEW n \in Requests, Allocate(n)
  PROVE  MarkInv'
<1>1. HeapShape
  BY InvParts
<1>2. PICK i \in DOMAIN free :
        /\ FirstFit(i, n) /\ HandOut(free[i])
        /\ TakeWhole(i, n) \/ SplitOff(i, n)
  BY DEF Allocate
<1>3. GreyIsAllocated'
  <2>1. CASE TakeWhole(i, n)
    <3>1. header \in [Headers -> MarkingInfo] /\ header' = [header EXCEPT ![free[i]] = LiveSegment(HeaderSize + n)]
      BY <1>1, <2>1 DEF TakeWhole, HeapShape, HeadersOK
    <3>2. Headers' = Headers
      BY <3>1 DEF Headers
    <3>3. \A a \in Headers :
            header'[a] = IF a = free[i] THEN LiveSegment(HeaderSize + n) ELSE header[a]
      BY <3>1
    <3>4. LiveSegment(HeaderSize + n).mark # Grey
      BY DEF LiveSegment, White, Grey
    <3> QED
      BY <3>2, <3>3, <3>4 DEF MarkInv, GreyIsAllocated
  <2>2. CASE SplitOff(i, n)
    <3>1. PICK left, right, rest \in Nat :
            /\ Headers' = Headers \cup {right}
            /\ \A a \in Headers \ {left} : header'[a] = header[a]
            /\ header'[left] = LiveSegment(HeaderSize + n)
            /\ header'[right] = FreeSegment(rest)
      BY <1>1, <1>2, <2>2, SplitOffShape DEF FirstFit
    <3>2. LiveSegment(HeaderSize + n).mark # Grey /\ FreeSegment(rest).mark # Grey
      BY DEF LiveSegment, FreeSegment, White, Grey
    <3> QED
      BY <3>1, <3>2 DEF MarkInv, GreyIsAllocated
  <2> QED
    BY <1>2, <2>1, <2>2
<1>4. TriggerHeld'
  <2>1. trigger' = free[i] /\ closing' = closing /\ ~closing /\ pc' \in {"idle", "grey"}
    BY <1>2 DEF Allocate, HandOut, MarkInv, TriggerHeld
  <2>2. trigger' \in Range(allocd')
    <3>1. free[i] \in Headers /\ allocd \in Seq(Headers)
      BY <1>1, LenProperties, ElementOfSeq DEF HeapShape, HeadersOK
    <3> QED
      BY <2>1, <3>1, <1>2, PushProperties DEF HandOut
  <2> QED
    BY <2>1, <2>2 DEF TriggerHeld
<1> QED
  BY <1>3, <1>4 DEF MarkInv

LEMMA FreeingMark ==
  ASSUME IInv, MarkInv, NEW a \in Headers, header[a].allocated, InternalDeallocate(a),
         UNCHANGED <<pc, trigger, closing>>,
         pc = "idle" \/ (pc = "sweep" /\ header[a].mark # Black)
  PROVE  MarkInv'
<1>1. /\ HeapShape' /\ Headers' = Headers
      /\ Range(allocd') = Range(allocd) \ {a}
      /\ \A b \in Headers \ {a} : header'[b] = header[b]
      /\ header'[a] = FreeSegment(header[a].size)
  BY InvParts, InternalDeallocateShape
<1>2. GreyIsAllocated'
  <2>1. FreeSegment(header[a].size).mark # Grey
    BY DEF FreeSegment, White, Grey
  <2> QED
    BY <1>1, <2>1 DEF MarkInv, GreyIsAllocated
<1>3. TriggerHeld'
  <2>1. Range(allocd) \subseteq Headers
    BY DEF IInv, ListsPartitionHeaders
  <2>2. CASE pc = "idle"
    BY <2>2 DEF MarkInv, TriggerHeld
  <2>3. CASE pc = "sweep" /\ header[a].mark # Black
    BY <2>1, <2>3, <1>1 DEF MarkInv, TriggerHeld
  <2> QED
    BY <2>2, <2>3
<1> QED
  BY <1>2, <1>3 DEF MarkInv
LEMMA SweepFreesMark ==
  ASSUME IInv, MarkInv, SweepFrees
  PROVE  MarkInv'
<1>1. cur \in Headers /\ header[cur].allocated
  BY SweepFreesInv
<1>2. header[cur].mark # Black /\ pc = "sweep"
  BY DEF SweepFrees, Grey, Black
<1> QED
  BY <1>1, <1>2, FreeingMark DEF SweepFrees

LEMMA GreyAllMark ==
  ASSUME IInv, MarkInv, GreyAll
  PROVE  MarkInv'
<1>1. HeapShape
  BY InvParts
<1>2. /\ Headers' = Headers
      /\ \A a \in Headers :
           /\ header'[a].allocated = header[a].allocated
           /\ header'[a].mark = IF a \in Range(allocd)
                                THEN IF a = trigger THEN Black ELSE Grey
                                ELSE header[a].mark
  BY <1>1, GreyAllMarks
<1>3. Range(allocd) = {a \in Headers : header[a].allocated} /\ allocd' = allocd
  BY DEF IInv, ListsPartitionHeaders, GreyAll
<1>4. GreyIsAllocated'
  BY <1>2, <1>3 DEF MarkInv, GreyIsAllocated
<1>5. TriggerHeld'
  BY <1>2, <1>3 DEF MarkInv, TriggerHeld, GreyAll
<1> QED
  BY <1>4, <1>5 DEF MarkInv

LEMMA RuntimeMarkerMark ==
  ASSUME IInv, MarkInv, NEW reached, RuntimeMarker(reached)
  PROVE  MarkInv'
<1>1. HeapShape
  BY InvParts
<1>2. /\ Headers' = Headers
      /\ \A a \in Headers :
           /\ header'[a].allocated = header[a].allocated
           /\ header'[a].mark = IF a \in reached THEN Black ELSE header[a].mark
  BY <1>1, RuntimeMarkerMarks
<1>3. Range(allocd) = {a \in Headers : header[a].allocated} /\ allocd' = allocd
  BY DEF IInv, ListsPartitionHeaders, RuntimeMarker
<1>4. GreyIsAllocated'
  BY <1>2 DEF MarkInv, GreyIsAllocated, Grey, Black
<1>5. TriggerHeld'
  BY <1>2, <1>3 DEF MarkInv, TriggerHeld, RuntimeMarker
<1> QED
  BY <1>4, <1>5 DEF MarkInv

LEMMA StepMark == IInv /\ MarkInv /\ [Next]_vars => MarkInv'
<1> SUFFICES ASSUME IInv, MarkInv, [Next]_vars PROVE MarkInv'
  OBVIOUS
<1> USE DEF MarkInv
<1>1. CASE \E n \in Requests : Allocate(n)
  BY <1>1, AllocateMark
<1>2. CASE \E n \in Requests : AllocateFails(n)
  BY <1>2 DEF AllocateFails, GreyIsAllocated, TriggerHeld, Headers
<1>3. CASE \E a \in Address : Deallocate(a)
  BY <1>3, FreeingMark DEF Deallocate, IInv, ListsPartitionHeaders
<1>4. CASE CleanupManager
  BY <1>4 DEF CleanupManager, GreyIsAllocated, TriggerHeld, Headers
<1>5. CASE GreyAll
  BY <1>5, GreyAllMark
<1>6. CASE \E reached \in SUBSET Range(allocd) : RuntimeMarker(reached)
  BY <1>6, RuntimeMarkerMark
<1>7. CASE SweepFrees
  BY <1>7, SweepFreesMark
<1>8. CASE SweepKeeps
  BY <1>8 DEF SweepKeeps, GreyIsAllocated, TriggerHeld, Headers
<1>9. CASE FinishGc
  BY <1>9 DEF FinishGc, GreyIsAllocated, TriggerHeld, Headers
<1>10. CASE UNCHANGED vars
  BY <1>10 DEF vars, GreyIsAllocated, TriggerHeld, Headers
<1> QED
  BY <1>1, <1>2, <1>3, <1>4, <1>5, <1>6, <1>7, <1>8, <1>9, <1>10 DEF Next, RunGc

THEOREM MarkInvariance == Spec => []MarkInv
BY InitMark, StepMark, Invariance, PTL DEF Spec

(* The sweep never hands internal_deallocate a free segment: "Double       *)
(* free!" (memory_manager.c:182) cannot fire, whatever was reached.        *)
THEOREM NoDoubleFree == Spec => []SweepNeverDoubleFrees
<1>1. IInv /\ MarkInv => SweepNeverDoubleFrees
  BY DEF IInv, TypeOK, MarkInv, GreyIsAllocated, SweepNeverDoubleFrees
<1> QED
  BY <1>1, Invariance, MarkInvariance, PTL

(* The segment whose allocation started a collection outlives it.          *)
THEOREM TriggerSurvives == Spec => []TriggerSurvivesCollection
<1>1. MarkInv => TriggerSurvivesCollection
  BY DEF MarkInv, TriggerHeld, TriggerSurvivesCollection
<1> QED
  BY <1>1, MarkInvariance, PTL
----------------------------------------------------------------------------
(* The refinement of BlockHeap, one lemma for each way the heap changes.   *)
Live == {a \in Headers : header[a].allocated}

LEMMA PayloadFacts ==
  ASSUME HeapShape
  PROVE  /\ \A a \in Headers : Payload(a) \in Nat /\ Payload(a) - HeaderSize = a
         /\ LivePayloads = {Payload(a) : a \in Live}
         /\ DOMAIN HeapLive = LivePayloads
         /\ \A a \in Live : HeapLive[Payload(a)] = PayloadSize(a)
<1>1. \A a \in Headers : Payload(a) \in Nat /\ Payload(a) - HeaderSize = a
  BY SegmentFacts, SizesAssumption DEF Payload
<1>2. LivePayloads = {Payload(a) : a \in Live}
  BY DEF LivePayloads, Live
<1>3. DOMAIN HeapLive = LivePayloads
  BY DEF HeapLive
<1>4. ASSUME NEW a \in Live PROVE HeapLive[Payload(a)] = PayloadSize(a)
  <2>1. a \in Headers /\ Payload(a) \in LivePayloads
    BY <1>2 DEF Live
  <2> QED
    BY <2>1, <1>1 DEF HeapLive
<1> QED
  BY <1>1, <1>2, <1>3, <1>4

(* If the same segments are live and have the same sizes, the abstract     *)
(* heap is the same.                                                       *)
LEMMA SameLive ==
  ASSUME HeapShape, HeapShape', Live' = Live,
         \A a \in Live : header'[a].size = header[a].size
  PROVE  LivePayloads' = LivePayloads /\ HeapLive' = HeapLive
<1>1. /\ \A a \in Live : Payload(a) - HeaderSize = a
      /\ LivePayloads = {Payload(a) : a \in Live}
  BY PayloadFacts DEF Live
<1>2. LivePayloads' = LivePayloads
  BY <1>1 DEF LivePayloads, Live, Payload
<1>3. \A p \in LivePayloads : PayloadSize(p - HeaderSize)' = PayloadSize(p - HeaderSize)
  BY <1>1 DEF PayloadSize
<1> QED
  BY <1>2, <1>3 DEF HeapLive
LEMMA FreeingForgets ==
  ASSUME HeapShape, NEW a \in Headers, header[a].allocated, InternalDeallocate(a)
  PROVE  /\ Payload(a) \in LivePayloads
         /\ LivePayloads' = LivePayloads \ {Payload(a)}
         /\ HeapLive' = [q \in LivePayloads \ {Payload(a)} |-> HeapLive[q]]
<1>1. /\ HeapShape' /\ Headers' = Headers
      /\ \A b \in Headers \ {a} : header'[b] = header[b]
      /\ header'[a] = FreeSegment(header[a].size)
  BY InternalDeallocateShape
<1>2. Live' = Live \ {a} /\ a \in Live
  BY <1>1 DEF Live, FreeSegment
<1>3. /\ \A b \in Headers : Payload(b) - HeaderSize = b
      /\ LivePayloads = {Payload(b) : b \in Live}
      /\ \A b \in Live : HeapLive[Payload(b)] = PayloadSize(b)
  BY PayloadFacts
<1>4. LivePayloads' = {Payload(b) : b \in Live'}
  BY DEF LivePayloads, Live, Payload
<1>5. LivePayloads' = LivePayloads \ {Payload(a)}
  <2>1. \A b \in Live : Payload(b) = Payload(a) => b = a
    BY <1>3 DEF Live
  <2> QED
    BY <2>1, <1>2, <1>3, <1>4
<1>6. ASSUME NEW q \in LivePayloads'
      PROVE  PayloadSize(q - HeaderSize)' = HeapLive[q]
  <2>1. PICK b \in Live' : q = Payload(b)
    BY <1>4
  <2>2. b \in Live /\ b # a /\ b \in Headers
    BY <2>1, <1>2 DEF Live
  <2>3. q - HeaderSize = b /\ HeapLive[q] = PayloadSize(b)
    BY <2>1, <2>2, <1>3
  <2> QED
    BY <2>2, <2>3, <1>1 DEF PayloadSize
<1>7. HeapLive' = [q \in LivePayloads' |-> HeapLive[q]]
  BY <1>6 DEF HeapLive
<1> QED
  BY <1>2, <1>3, <1>5, <1>7

LEMMA AllocateObtains ==
  ASSUME HeapShape, HeapShape', NEW n \in Nat, NEW a \in Nat,
         a \notin Live, Live' = Live \cup {a}, header'[a].size = HeaderSize + n,
         \A b \in Live : header'[b].size = header[b].size
  PROVE  LET p == Payload(a)
         IN  /\ p \in 0 .. BlockSize /\ n \in 0 .. BlockSize /\ p + n <= BlockSize
             /\ p \notin LivePayloads
             /\ \A q \in LivePayloads : Heap!Apart(p, n, q, HeapLive[q])
             /\ LivePayloads' = LivePayloads \cup {p}
             /\ HeapLive' = [q \in LivePayloads \cup {p} |->
                              IF q = p THEN n ELSE HeapLive[q]]
<1>1. /\ \A b \in Headers : Payload(b) - HeaderSize = b
      /\ LivePayloads = {Payload(b) : b \in Live}
      /\ \A b \in Live : HeapLive[Payload(b)] = PayloadSize(b)
  BY PayloadFacts
<1>2. a \in Headers' /\ Live \subseteq Headers /\ Live \subseteq Headers'
  BY DEF Live
<1>3. /\ \A b \in Headers' : b \in Nat /\ header'[b].size \in Nat
                             /\ header'[b].size >= HeaderSize /\ SegmentEnd(b)' <= BlockSize
      /\ \A b, c \in Headers' : b < c => SegmentEnd(b)' <= c
  <2>1. ASSUME NEW b \in Headers'
        PROVE  /\ b \in Nat /\ header'[b].size \in Nat
               /\ header'[b].size >= HeaderSize /\ SegmentEnd(b)' <= BlockSize
    BY SizesAssumption
       DEF HeapShape, HeadersOK, HeadersTileBlock, Address, SegmentEnd, MarkingInfo
  <2>2. \A b, c \in Headers' : b < c => SegmentEnd(b)' <= c
    BY DEF HeapShape, HeadersTileBlock
  <2> QED
    BY <2>1, <2>2
<1>4. SegmentEnd(a)' = a + (HeaderSize + n) /\ HeaderSize \in Nat \ {0} /\ BlockSize \in Nat
  BY SizesAssumption DEF SegmentEnd
<1>5. /\ Payload(a) \in Nat /\ Payload(a) + n = SegmentEnd(a)'
      /\ Payload(a) + n <= BlockSize /\ Payload(a) - HeaderSize = a
  BY <1>2, <1>3, <1>4 DEF Payload
<1>6. ASSUME NEW b \in Live
      PROVE  /\ Payload(b) # Payload(a)
             /\ Heap!Apart(Payload(a), n, Payload(b), PayloadSize(b))
  <2>1. b # a /\ b \in Headers' /\ b \in Nat
    BY <1>2, <1>3
  <2>2. PICK size \in Nat : size = header[b].size /\ size = header'[b].size
    BY <2>1, <1>3
  <2>3. SegmentEnd(b)' = b + size /\ PayloadSize(b) = size - HeaderSize
    BY <2>2 DEF SegmentEnd, PayloadSize
  <2>4. Payload(a) = a + HeaderSize /\ Payload(b) = b + HeaderSize
    BY DEF Payload
  <2>5. CASE a < b
    <3>1. a + (HeaderSize + n) <= b
      BY <2>1, <2>5, <1>2, <1>3, <1>4
    <3> QED
      BY <3>1, <2>1, <2>4, <1>4 DEF Heap!Apart
  <2>6. CASE b < a
    <3>1. b + size <= a
      BY <2>1, <2>3, <2>6, <1>2, <1>3
    <3> QED
      BY <3>1, <2>1, <2>3, <2>4, <1>4 DEF Heap!Apart
  <2> QED
    BY <2>1, <2>5, <2>6
<1>7. LivePayloads' = LivePayloads \cup {Payload(a)}
  <2>1. LivePayloads' = {Payload(b) : b \in Live'}
    BY DEF LivePayloads, Live, Payload
  <2> QED
    BY <2>1, <1>1
<1>8. ASSUME NEW q \in LivePayloads'
      PROVE  PayloadSize(q - HeaderSize)' = IF q = Payload(a) THEN n ELSE HeapLive[q]
  <2>1. CASE q = Payload(a)
    BY <2>1, <1>4, <1>5 DEF PayloadSize
  <2>2. CASE q # Payload(a)
    <3>1. PICK b \in Live : q = Payload(b)
      BY <2>2, <1>1, <1>7
    <3>2. q - HeaderSize = b /\ HeapLive[q] = PayloadSize(b)
      BY <3>1, <1>1, <1>2
    <3> QED
      BY <2>2, <3>1, <3>2 DEF PayloadSize
  <2> QED
    BY <2>1, <2>2
<1>9. HeapLive' = [q \in LivePayloads' |-> IF q = Payload(a) THEN n ELSE HeapLive[q]]
  BY <1>8 DEF HeapLive
<1>10. Payload(a) \in 0 .. BlockSize /\ n \in 0 .. BlockSize
  BY <1>4, <1>5
<1>11. Payload(a) \notin LivePayloads /\ \A q \in LivePayloads : Heap!Apart(Payload(a), n, q, HeapLive[q])
  BY <1>1, <1>6
<1> QED
  BY <1>5, <1>7, <1>9, <1>10, <1>11
(* Either way of serving a request makes one more segment live.            *)
LEMMA AllocateLive ==
  ASSUME HeapShape, NEW n \in Requests, NEW i \in DOMAIN free, Serves(free[i], n),
         TakeWhole(i, n) \/ SplitOff(i, n), HandOut(free[i])
  PROVE  /\ HeapShape' /\ free[i] \in Nat
         /\ free[i] \notin Live /\ Live' = Live \cup {free[i]}
         /\ header'[free[i]].size = HeaderSize + n
         /\ \A b \in Live : header'[b].size = header[b].size
<1>1. /\ free[i] \in Headers /\ ~header[free[i]].allocated
      /\ header \in [Headers -> MarkingInfo]
  <2>1. free[i] \in Range(free)
    BY DEF Range
  <2> QED
    BY <2>1 DEF HeapShape, HeadersOK, ListsPartitionHeaders
<1>2. free[i] \in Nat /\ free[i] \notin Live
  BY <1>1, SegmentFacts DEF Live
<1>3. /\ LiveSegment(HeaderSize + n).size = HeaderSize + n
      /\ LiveSegment(HeaderSize + n).allocated = TRUE
      /\ \A bytes : FreeSegment(bytes).allocated = FALSE
  BY DEF LiveSegment, FreeSegment
<1>4. CASE TakeWhole(i, n)
  <2>1. HeapShape'
    BY <1>4, TakeWholeShape
  <2>2. header' = [header EXCEPT ![free[i]] = LiveSegment(HeaderSize + n)]
    BY <1>4 DEF TakeWhole
  <2>3. Headers' = Headers
    BY <2>2 DEF Headers
  <2>4. \A a \in Headers :
          header'[a] = IF a = free[i] THEN LiveSegment(HeaderSize + n) ELSE header[a]
    BY <2>2, <1>1
  <2>5. Live' = Live \cup {free[i]}
    BY <2>3, <2>4, <1>1, <1>3 DEF Live
  <2>6. /\ header'[free[i]].size = HeaderSize + n
        /\ \A b \in Live : header'[b].size = header[b].size
    BY <2>4, <1>1, <1>2, <1>3 DEF Live
  <2> QED
    BY <2>1, <2>5, <2>6, <1>2
<1>5. CASE SplitOff(i, n)
  <2>1. PICK left, right, rest \in Nat :
          /\ left = free[i] /\ right \notin Headers
          /\ HeapShape'
          /\ Headers' = Headers \cup {right}
          /\ \A a \in Headers \ {left} : header'[a] = header[a]
          /\ header'[left] = LiveSegment(HeaderSize + n)
          /\ header'[right] = FreeSegment(rest)
    BY <1>5, SplitOffShape
  <2>2. Live' = Live \cup {left}
    BY <2>1, <1>1, <1>3 DEF Live
  <2>3. /\ header'[left].size = HeaderSize + n
        /\ \A b \in Live : header'[b].size = header[b].size
    BY <2>1, <1>2, <1>3 DEF Live
  <2> QED
    BY <2>1, <2>2, <2>3, <1>2
<1> QED
  BY <1>4, <1>5

LEMMA AllocateRefines ==
  ASSUME IInv, MarkInv, NEW n \in Requests, Allocate(n)
  PROVE  Heap!Next
<1>1. PICK i \in DOMAIN free :
        /\ FirstFit(i, n) /\ HandOut(free[i])
        /\ TakeWhole(i, n) \/ SplitOff(i, n)
  BY DEF Allocate
<1> DEFINE a == free[i]
<1>2. /\ HeapShape /\ HeapShape' /\ a \in Nat /\ n \in Nat
      /\ a \notin Live /\ Live' = Live \cup {a}
      /\ header'[a].size = HeaderSize + n
      /\ \A b \in Live : header'[b].size = header[b].size
  BY <1>1, InvParts, AllocateLive, SizesAssumption DEF FirstFit
<1>3. PICK p : p = Payload(a)
  OBVIOUS
<1>4. /\ p \in 0 .. BlockSize /\ n \in 0 .. BlockSize /\ p + n <= BlockSize
      /\ p \notin LivePayloads
      /\ \A q \in LivePayloads : Heap!Apart(p, n, q, HeapLive[q])
      /\ HeapLive' = [q \in LivePayloads \cup {p} |-> IF q = p THEN n ELSE HeapLive[q]]
  BY <1>2, <1>3, AllocateObtains
<1>5. /\ pc = "idle" /\ pc' \in {"idle", "grey"} /\ trigger' = a
  BY <1>1 DEF Allocate, HandOut
<1>6. HeapFresh = Null /\ HeapFresh' \in {p, Null} /\ HeapKept' = HeapKept
  BY <1>3, <1>5 DEF HeapFresh, HeapKept, Payload
<1>7. LivePayloads = DOMAIN HeapLive
  BY <1>2, PayloadFacts
<1>8. Heap!Obtain(p, n)
  BY <1>4, <1>5, <1>6, <1>7 DEF Heap!Obtain, Heap!Payloads
<1> QED
  BY <1>4, <1>8 DEF Heap!Next

LEMMA DeallocateRefines ==
  ASSUME IInv, MarkInv, NEW a, Deallocate(a)
  PROVE  Heap!Next
<1>1. HeapShape /\ a \in Headers /\ header[a].allocated /\ InternalDeallocate(a)
  BY InvParts DEF Deallocate, IInv, ListsPartitionHeaders
<1>2. /\ Payload(a) \in LivePayloads
      /\ HeapLive' = [q \in LivePayloads \ {Payload(a)} |-> HeapLive[q]]
      /\ LivePayloads = DOMAIN HeapLive
  BY <1>1, FreeingForgets, PayloadFacts
<1>3. /\ HeapFresh = Null /\ HeapFresh' = HeapFresh /\ HeapKept' = HeapKept
      /\ pc = "idle" /\ pc' = pc
  BY DEF Deallocate, HeapFresh, HeapKept
<1>4. Heap!Release(Payload(a))
  BY <1>2, <1>3 DEF Heap!Release, Heap!Forget, Heap!Payloads
<1> QED
  BY <1>2, <1>4 DEF Heap!Next, Heap!Payloads

LEMMA SweepFreesRefines ==
  ASSUME IInv, MarkInv, SweepFrees
  PROVE  Heap!Next
<1>1. HeapShape /\ cur \in Headers /\ header[cur].allocated /\ InternalDeallocate(cur)
  BY InvParts, SweepFreesInv DEF SweepFrees
<1>2. /\ Payload(cur) \in LivePayloads
      /\ LivePayloads' = LivePayloads \ {Payload(cur)}
      /\ HeapLive' = [q \in LivePayloads \ {Payload(cur)} |-> HeapLive[q]]
      /\ LivePayloads = DOMAIN HeapLive
      /\ LivePayloads = {Payload(b) : b \in Live}
      /\ \A b \in Headers : Payload(b) - HeaderSize = b
  BY <1>1, FreeingForgets, PayloadFacts
<1>3. \A b \in Headers \ {cur} : header'[b] = header[b]
  BY <1>1, InternalDeallocateShape
<1>4. pc = "sweep" /\ pc' = "sweep" /\ header[cur].mark # Black
  BY DEF SweepFrees, Grey, Black
<1>5. HeapFresh' = HeapFresh
  BY <1>4 DEF HeapFresh
<1>6. Payload(cur) \notin HeapKept /\ HeapKept' = HeapKept
  <2>1. Payload(cur) \notin HeapKept
    BY <1>1, <1>2, <1>4 DEF HeapKept
  <2>2. ASSUME NEW q \in LivePayloads, q # Payload(cur)
        PROVE  header'[q - HeaderSize] = header[q - HeaderSize]
    BY <2>2, <1>2, <1>3 DEF Live
  <2>3. HeapKept' = {q \in LivePayloads' : header'[q - HeaderSize].mark = Black}
    BY <1>4 DEF HeapKept
  <2>4. HeapKept = {q \in LivePayloads : header[q - HeaderSize].mark = Black}
    BY <1>4 DEF HeapKept
  <2> QED
    BY <2>1, <2>2, <2>3, <2>4, <1>2
<1>7. Heap!Reclaim(Payload(cur))
  BY <1>2, <1>4, <1>5, <1>6 DEF Heap!Reclaim, Heap!Forget, Heap!Payloads
<1> QED
  BY <1>2, <1>7 DEF Heap!Next, Heap!Payloads

LEMMA RuntimeMarkerRefines ==
  ASSUME IInv, MarkInv, NEW reached, RuntimeMarker(reached)
  PROVE  Heap!Next
<1>1. /\ HeapShape /\ HeapShape' /\ Headers' = Headers
      /\ \A a \in Headers :
           /\ header'[a].size = header[a].size
           /\ header'[a].allocated = header[a].allocated
           /\ header'[a].mark = IF a \in reached THEN Black ELSE header[a].mark
  BY InvParts, RuntimeMarkerMarks
<1>2. HeapLive' = HeapLive /\ LivePayloads' = LivePayloads
  BY <1>1, SameLive DEF Live
<1>3. /\ LivePayloads = DOMAIN HeapLive
      /\ LivePayloads = {Payload(b) : b \in Live}
      /\ \A b \in Headers : Payload(b) - HeaderSize = b
  BY <1>1, PayloadFacts
<1>4. pc = "mark" /\ pc' = "sweep"
  BY DEF RuntimeMarker
<1>5. HeapKept' = {q \in LivePayloads' : header'[q - HeaderSize].mark = Black}
  BY <1>4 DEF HeapKept
<1>6. HeapFresh # Null => HeapFresh \in HeapKept'
  <2> SUFFICES ASSUME HeapFresh # Null PROVE HeapFresh \in HeapKept'
    OBVIOUS
  <2>1. HeapFresh = Payload(trigger) /\ trigger # Null
    BY <1>4 DEF HeapFresh
  <2>2. trigger \in Range(allocd) /\ header[trigger].mark = Black
    BY <2>1, <1>4 DEF MarkInv, TriggerHeld
  <2>3. trigger \in Live /\ trigger \in Headers
    BY <2>2 DEF IInv, ListsPartitionHeaders, Live
  <2>4. header'[trigger].mark = Black
    BY <2>2, <2>3, <1>1
  <2> QED
    BY <2>1, <2>3, <2>4, <1>2, <1>3, <1>5
<1>7. HeapFresh' = Null
  BY <1>4 DEF HeapFresh
<1>8. Heap!Collect(HeapKept')
  BY <1>2, <1>4, <1>6, <1>7 DEF Heap!Collect
<1>9. HeapKept' \in SUBSET Heap!Payloads
  BY <1>2, <1>3, <1>5 DEF Heap!Payloads
<1> QED
  BY <1>8, <1>9 DEF Heap!Next

(* Every other step leaves the abstract heap as it is, but for the end of  *)
(* the sweep, which is the abstract end of the collection.                 *)
LEMMA GreyAllRefines ==
  ASSUME IInv, GreyAll
  PROVE  UNCHANGED Heap!heap
<1>1. /\ HeapShape /\ HeapShape' /\ Headers' = Headers
      /\ \A a \in Headers :
           /\ header'[a].size = header[a].size
           /\ header'[a].allocated = header[a].allocated
  BY InvParts, GreyAllMarks
<1>2. HeapLive' = HeapLive
  BY <1>1, SameLive DEF Live
<1> QED
  BY <1>2 DEF GreyAll, Heap!heap, HeapFresh, HeapKept

LEMMA HeaderUnchangedLive ==
  ASSUME header' = header
  PROVE  /\ HeapLive' = HeapLive /\ LivePayloads' = LivePayloads
BY DEF HeapLive, LivePayloads, Headers, PayloadSize, Payload

LEMMA StepRefines ==
  IInv /\ MarkInv /\ [Next]_vars => [Heap!Next]_(Heap!heap)
<1> SUFFICES ASSUME IInv, MarkInv, [Next]_vars PROVE [Heap!Next]_(Heap!heap)
  OBVIOUS
<1>1. CASE \E n \in Requests : Allocate(n)
  BY <1>1, AllocateRefines
<1>2. CASE \E n \in Requests : AllocateFails(n)
  BY <1>2, HeaderUnchangedLive DEF AllocateFails, Heap!heap, HeapFresh, HeapKept
<1>3. CASE \E a \in Address : Deallocate(a)
  BY <1>3, DeallocateRefines
<1>4. CASE CleanupManager
  BY <1>4, HeaderUnchangedLive DEF CleanupManager, Heap!heap, HeapFresh, HeapKept
<1>5. CASE GreyAll
  BY <1>5, GreyAllRefines
<1>6. CASE \E reached \in SUBSET Range(allocd) : RuntimeMarker(reached)
  BY <1>6, RuntimeMarkerRefines
<1>7. CASE SweepFrees
  BY <1>7, SweepFreesRefines
<1>8. CASE SweepKeeps
  BY <1>8, HeaderUnchangedLive DEF SweepKeeps, Heap!heap, HeapFresh, HeapKept
<1>9. CASE FinishGc
  <2>1. Heap!Done
    BY <1>9, HeaderUnchangedLive DEF FinishGc, Heap!Done, HeapFresh, HeapKept
  <2> QED
    BY <2>1 DEF Heap!Next
<1>10. CASE UNCHANGED vars
  BY <1>10, HeaderUnchangedLive DEF vars, Heap!heap, HeapFresh, HeapKept
<1> QED
  BY <1>1, <1>2, <1>3, <1>4, <1>5, <1>6, <1>7, <1>8, <1>9, <1>10 DEF Next, RunGc

LEMMA InitRefines == Init => Heap!Init
<1> SUFFICES ASSUME Init PROVE Heap!Init
  OBVIOUS
<1>1. Headers = {0} /\ ~header[0].allocated
  BY DEF Init, Headers, FreeSegment
<1>2. LivePayloads = {}
  BY <1>1 DEF LivePayloads
<1> QED
  BY <1>2 DEF Init, Heap!Init, HeapLive, HeapFresh, HeapKept

(* The allocator and the collector keep BlockHeap's promise, for every     *)
(* block size, header size and set of requests.                            *)
THEOREM Refinement == Spec => KeepsHeapPromise
BY InitRefines, StepRefines, Invariance, MarkInvariance, PTL
   DEF Spec, KeepsHeapPromise, Heap!Spec
----------------------------------------------------------------------------
(* The counters.  Each is kept modulo Word, so their difference is the     *)
(* number of live bytes up to a multiple of Word.                          *)
IsCount(count) ==
  \E k \in Int : allocated_bytes - freed_bytes = count + k * Word

CountInv == IsCount(Cardinality(LiveBytes))

LEMMA ModIs ==
  ASSUME NEW x \in Int
  PROVE  /\ x % Word \in 0 .. Word - 1
         /\ \E q \in Int : x % Word = x - q * Word
<1> DEFINE q == x \div Word
<1>1. /\ x % Word \in 0 .. Word - 1
      /\ q \in Int
      /\ x = Word * q + (x % Word)
  BY SizesAssumption
<1> HIDE DEF q
<1>2. x % Word = x - q * Word
  BY <1>1, SizesAssumption
<1> QED
  BY <1>1, <1>2

(* Numbers a multiple of Word apart have the same remainder.               *)
LEMMA SameRemainder ==
  ASSUME NEW x \in Int, NEW y \in Int, NEW k \in Int, x = y + k * Word
  PROVE  x % Word = y % Word
<1>1. PICK p \in Int : x % Word = x - p * Word
  BY ModIs
<1>2. PICK q \in Int : y % Word = y - q * Word
  BY ModIs
<1>3. PICK m \in Int : (x % Word) - (y % Word) = m * Word
  <2>1. (x % Word) - (y % Word) = k * Word - p * Word + q * Word
    BY <1>1, <1>2, SizesAssumption
  <2>2. k * Word - p * Word + q * Word = (k - p + q) * Word
    BY SizesAssumption
  <2> QED
    BY <2>1, <2>2
<1>4. x % Word \in 0 .. Word - 1 /\ y % Word \in 0 .. Word - 1
  BY ModIs
<1>5. m = 0
  <2>1. m * Word < Word /\ -Word < m * Word
    BY <1>3, <1>4, SizesAssumption
  <2> QED
    BY <2>1, SizesAssumption
<1> QED
  BY <1>3, <1>4, <1>5, SizesAssumption

(* What a counter gains, modulo Word, the count gains or loses.            *)
LEMMA CountGains ==
  ASSUME IInv, NEW count \in Nat, NEW n \in Nat, IsCount(count),
         allocated_bytes' = (allocated_bytes + n) % Word, freed_bytes' = freed_bytes
  PROVE  IsCount(count + n)'
<1>1. allocated_bytes \in Nat /\ freed_bytes \in Nat /\ allocated_bytes + n \in Int
  BY DEF IInv, TypeOK
<1>2. PICK k \in Int : allocated_bytes - freed_bytes = count + k * Word
  BY DEF IsCount
<1>3. PICK q \in Int : (allocated_bytes + n) % Word = allocated_bytes + n - q * Word
  <2>1. PICK x \in Int : x = allocated_bytes + n
    BY <1>1
  <2>2. PICK q \in Int : x % Word = x - q * Word
    BY ModIs
  <2> QED
    BY <1>1, <2>1, <2>2, SizesAssumption
<1>4. k * Word - q * Word = (k - q) * Word
  BY SizesAssumption
<1>5. allocated_bytes' - freed_bytes' = count + n + (k - q) * Word
  BY <1>1, <1>2, <1>3, <1>4, SizesAssumption
<1> QED
  BY <1>5 DEF IsCount

LEMMA CountLoses ==
  ASSUME IInv, NEW count \in Nat, NEW n \in Nat, IsCount(count + n),
         freed_bytes' = (freed_bytes + n) % Word, allocated_bytes' = allocated_bytes
  PROVE  IsCount(count)'
<1>1. allocated_bytes \in Nat /\ freed_bytes \in Nat /\ freed_bytes + n \in Int
  BY DEF IInv, TypeOK
<1>2. PICK k \in Int : allocated_bytes - freed_bytes = count + n + k * Word
  BY DEF IsCount
<1>3. PICK q \in Int : (freed_bytes + n) % Word = freed_bytes + n - q * Word
  <2>1. PICK x \in Int : x = freed_bytes + n
    BY <1>1
  <2>2. PICK q \in Int : x % Word = x - q * Word
    BY ModIs
  <2> QED
    BY <1>1, <2>1, <2>2, SizesAssumption
<1>4. k * Word + q * Word = (k + q) * Word
  BY SizesAssumption
<1>5. allocated_bytes' - freed_bytes' = count + (k + q) * Word
  BY <1>1, <1>2, <1>3, <1>4, SizesAssumption
<1> QED
  BY <1>5 DEF IsCount

(* The payload bytes of some segments, given the sizes of all of them.     *)
BytesOf(size, segments) == UNION {Payload(a) .. (a + size[a]) - 1 : a \in segments}

(* Segments within the block of which none begins inside another.          *)
Disjoint(size, segments) ==
  /\ \A a \in segments : /\ a \in Nat /\ size[a] \in Nat /\ HeaderSize <= size[a]
                         /\ a + size[a] <= BlockSize
  /\ \A a, b \in segments : a < b => a + size[a] <= b

LEMMA BytesAreCounted ==
  ASSUME NEW size, NEW segments, Disjoint(size, segments)
  PROVE  /\ IsFiniteSet(BytesOf(size, segments))
         /\ Cardinality(BytesOf(size, segments)) \in Nat
<1>1. \A a \in segments : Payload(a) .. (a + size[a]) - 1 \subseteq 0 .. BlockSize
  BY SizesAssumption DEF Disjoint, Payload
<1>2. BytesOf(size, segments) \in SUBSET (0 .. BlockSize)
  BY <1>1 DEF BytesOf
<1>3. IsFiniteSet(0 .. BlockSize)
  BY FS_Interval, SizesAssumption
<1> QED
  BY <1>2, <1>3, FS_Subset, FS_CardinalityType

(* One segment more has as many bytes more as its payload is long: none of *)
(* them is a byte of another segment.                                      *)
LEMMA OneSegmentMore ==
  ASSUME NEW size, NEW segments, NEW a, a \notin segments,
         Disjoint(size, segments \cup {a})
  PROVE  Cardinality(BytesOf(size, segments \cup {a}))
           = Cardinality(BytesOf(size, segments)) + (size[a] - HeaderSize)
<1> DEFINE first == Payload(a)
           last  == (a + size[a]) - 1
           own   == first .. last
<1>1. /\ first \in Int /\ last \in Int /\ size[a] - HeaderSize \in Nat
      /\ size[a] \in Nat /\ HeaderSize \in Nat
      /\ last - first + 1 = size[a] - HeaderSize
  BY SizesAssumption DEF Disjoint, Payload
<1>2. IsFiniteSet(own) /\ Cardinality(own) = size[a] - HeaderSize
  <2> HIDE DEF first, last
  <2>1. /\ IsFiniteSet(first .. last)
        /\ Cardinality(first .. last) = IF first > last THEN 0 ELSE last - first + 1
    BY <1>1, FS_Interval
  <2> QED
    BY <1>1, <2>1
<1>3. BytesOf(size, segments \cup {a}) = BytesOf(size, segments) \cup own
  BY DEF BytesOf
<1>4. BytesOf(size, segments) \cap own = {}
  <2> SUFFICES ASSUME NEW b \in segments, NEW x \in Payload(b) .. (b + size[b]) - 1, x \in own
               PROVE  FALSE
    BY DEF BytesOf
  <2>1. /\ a \in Nat /\ b \in Nat /\ a # b
        /\ size[a] \in Nat /\ size[b] \in Nat
        /\ a < b => a + size[a] <= b
        /\ b < a => b + size[b] <= a
    BY DEF Disjoint
  <2> QED
    BY <2>1, SizesAssumption DEF Payload
<1>5. /\ IsFiniteSet(BytesOf(size, segments)) /\ Cardinality(BytesOf(size, segments)) \in Nat
  BY BytesAreCounted DEF Disjoint
<1>6. Cardinality(BytesOf(size, segments) \cap own) = 0
  BY <1>4, FS_EmptySet
<1> HIDE DEF own
<1>7. Cardinality(BytesOf(size, segments) \cup own)
        = Cardinality(BytesOf(size, segments)) + Cardinality(own)
            - Cardinality(BytesOf(size, segments) \cap own)
  BY <1>2, <1>5, FS_Union
<1>8. Cardinality(BytesOf(size, segments) \cup own)
        = Cardinality(BytesOf(size, segments)) + Cardinality(own)
  BY <1>1, <1>2, <1>5, <1>6, <1>7
<1> QED
  BY <1>2, <1>3, <1>8

Sizes == [a \in Headers |-> header[a].size]

LiveIsDisjoint ==
  /\ LiveBytes = BytesOf(Sizes, Live)
  /\ Disjoint(Sizes, Live)
  /\ Cardinality(LiveBytes) \in Nat

LEMMA LiveAreDisjoint == HeapShape => LiveIsDisjoint
<1> SUFFICES ASSUME HeapShape
             PROVE  /\ LiveBytes = BytesOf(Sizes, Live) /\ Disjoint(Sizes, Live)
                    /\ Cardinality(LiveBytes) \in Nat
  BY DEF LiveIsDisjoint
<1>1. Range(allocd) = Live /\ \A a \in Live : a \in Headers /\ Sizes[a] = header[a].size
  BY DEF HeapShape, ListsPartitionHeaders, Live, Sizes
<1>2. \A a \in Live : SegmentEnd(a) = a + Sizes[a]
  BY <1>1 DEF SegmentEnd
<1>3. LiveBytes = BytesOf(Sizes, Live)
  BY <1>1, <1>2 DEF LiveBytes, BytesOf
<1>4. Disjoint(Sizes, Live)
  <2>1. \A a \in Live : /\ a \in Nat /\ Sizes[a] \in Nat /\ HeaderSize <= Sizes[a]
                        /\ a + Sizes[a] <= BlockSize
    BY <1>1, <1>2, SegmentFacts, SizesAssumption
  <2>2. \A a, b \in Live : a < b => a + Sizes[a] <= b
    BY <1>1, <1>2 DEF HeapShape, HeadersTileBlock
  <2> QED
    BY <2>1, <2>2 DEF Disjoint
<1> QED
  BY <1>3, <1>4, BytesAreCounted

LEMMA LiveAreDisjointNext == HeapShape' => LiveIsDisjoint'
BY LiveAreDisjoint, PTL

(* Only the sizes of the segments counted matter.                          *)
LEMMA SameBytes ==
  ASSUME NEW size1, NEW size2, NEW segments, \A a \in segments : size1[a] = size2[a]
  PROVE  BytesOf(size1, segments) = BytesOf(size2, segments)
BY DEF BytesOf

(* The same segments are live, with the same sizes: as many bytes.         *)
LEMMA SameLiveCounts ==
  ASSUME HeapShape, HeapShape', CountInv, Live' = Live,
         \A a \in Live : header'[a].size = header[a].size,
         UNCHANGED <<allocated_bytes, freed_bytes>>
  PROVE  CountInv'
<1>1. \A a \in Live : Sizes'[a] = Sizes[a]
  BY DEF Sizes, Live
<1>2. LiveBytes' = LiveBytes
  BY <1>1, SameBytes, LiveAreDisjoint, LiveAreDisjointNext DEF LiveIsDisjoint
<1> QED
  BY <1>2 DEF CountInv, IsCount

LEMMA AllocateCounts ==
  ASSUME IInv, CountInv, NEW n \in Requests, Allocate(n)
  PROVE  CountInv'
<1>1. PICK i \in DOMAIN free :
        /\ FirstFit(i, n) /\ HandOut(free[i])
        /\ TakeWhole(i, n) \/ SplitOff(i, n)
  BY DEF Allocate
<1> DEFINE a == free[i]
<1>2. /\ HeapShape /\ HeapShape' /\ n \in Nat
      /\ a \notin Live /\ Live' = Live \cup {a}
      /\ header'[a].size = HeaderSize + n
      /\ \A b \in Live : header'[b].size = header[b].size
  BY <1>1, InvParts, AllocateLive, SizesAssumption DEF FirstFit
<1>3. /\ \A b \in Live : Sizes'[b] = Sizes[b]
      /\ Sizes'[a] - HeaderSize = n
  <2>1. \A b \in Live' : b \in Headers' /\ Sizes'[b] = header'[b].size
    BY DEF Live, Sizes
  <2>2. \A b \in Live : b \in Headers /\ Sizes[b] = header[b].size
    BY DEF Live, Sizes
  <2> QED
    BY <1>2, <2>1, <2>2, SizesAssumption
<1>4. Cardinality(LiveBytes') = Cardinality(LiveBytes) + n
  <2>1. Disjoint(Sizes', Live \cup {a}) /\ LiveBytes' = BytesOf(Sizes', Live \cup {a})
    BY <1>2, LiveAreDisjointNext DEF LiveIsDisjoint
  <2>2. Cardinality(BytesOf(Sizes', Live \cup {a}))
          = Cardinality(BytesOf(Sizes', Live)) + (Sizes'[a] - HeaderSize)
    BY <1>2, <2>1, OneSegmentMore
  <2>3. BytesOf(Sizes', Live) = LiveBytes
    BY <1>2, <1>3, SameBytes, LiveAreDisjoint DEF LiveIsDisjoint
  <2> QED
    BY <1>3, <2>1, <2>2, <2>3
<1>5. Cardinality(LiveBytes) \in Nat
  BY <1>2, LiveAreDisjoint DEF LiveIsDisjoint
<1>6. /\ allocated_bytes' = (allocated_bytes + n) % Word
      /\ freed_bytes' = freed_bytes
  BY DEF Allocate
<1>7. PICK count \in Nat : count = Cardinality(LiveBytes)
  BY <1>5
<1>8. IsCount(count + n)'
  BY <1>2, <1>6, <1>7, CountGains DEF CountInv
<1> QED
  BY <1>4, <1>7, <1>8 DEF CountInv

(* Both deallocate and the sweep count the payload they free.              *)
LEMMA FreeingCounts ==
  ASSUME IInv, CountInv, NEW a \in Headers, header[a].allocated, InternalDeallocate(a),
         UNCHANGED allocated_bytes
  PROVE  CountInv'
<1>1. /\ HeapShape /\ HeapShape' /\ Headers' = Headers
      /\ \A b \in Headers \ {a} : header'[b] = header[b]
      /\ header'[a] = FreeSegment(header[a].size)
  BY InvParts, InternalDeallocateShape
<1>2. a \in Live /\ Live' = Live \ {a} /\ a \notin Live' /\ Live = Live' \cup {a}
  BY <1>1 DEF Live, FreeSegment
<1>3. \A b \in Live' : Sizes'[b] = Sizes[b]
  BY <1>1, <1>2 DEF Sizes, Live
<1>4. PICK n \in Nat : n = PayloadSize(a) /\ Sizes[a] - HeaderSize = n
  <2>1. Sizes[a] = header[a].size
    BY DEF Sizes
  <2> QED
    BY <1>1, <2>1, SegmentFacts, SizesAssumption DEF PayloadSize
<1>5. Cardinality(LiveBytes) = Cardinality(LiveBytes') + n
  <2>1. Disjoint(Sizes, Live' \cup {a}) /\ LiveBytes = BytesOf(Sizes, Live' \cup {a})
    BY <1>1, <1>2, LiveAreDisjoint DEF LiveIsDisjoint
  <2>2. Cardinality(BytesOf(Sizes, Live' \cup {a}))
          = Cardinality(BytesOf(Sizes, Live')) + (Sizes[a] - HeaderSize)
    BY <1>2, <2>1, OneSegmentMore
  <2>3. BytesOf(Sizes, Live') = LiveBytes'
    BY <1>1, <1>3, SameBytes, LiveAreDisjointNext DEF LiveIsDisjoint
  <2> QED
    BY <1>4, <2>1, <2>2, <2>3
<1>6. PICK count \in Nat : count = Cardinality(LiveBytes')
  BY <1>1, LiveAreDisjointNext DEF LiveIsDisjoint
<1>7. freed_bytes' = (freed_bytes + n) % Word
  BY <1>4 DEF InternalDeallocate
<1>8. IsCount(count + n)
  BY <1>5, <1>6 DEF CountInv
<1>9. IsCount(count)'
  BY <1>7, <1>8, CountLoses
<1> QED
  BY <1>6, <1>9 DEF CountInv

LEMMA MarkingCounts ==
  ASSUME IInv, CountInv, HeapShape', Headers' = Headers,
         \A a \in Headers : /\ header'[a].size = header[a].size
                            /\ header'[a].allocated = header[a].allocated,
         UNCHANGED <<allocated_bytes, freed_bytes>>
  PROVE  CountInv'
<1>1. Live' = Live /\ \A a \in Live : header'[a].size = header[a].size
  BY DEF Live
<1> QED
  BY <1>1, InvParts, SameLiveCounts

LEMMA InitCount == Init => CountInv
<1> SUFFICES ASSUME Init  PROVE CountInv
  OBVIOUS
<1>1. LiveBytes = {}
  BY DEF Init, LiveBytes, Range
<1>2. Cardinality(LiveBytes) = 0
  BY <1>1, FS_EmptySet
<1>3. allocated_bytes - freed_bytes = 0 + 0 * Word
  BY SizesAssumption DEF Init
<1> QED
  BY <1>2, <1>3 DEF CountInv, IsCount

LEMMA StepCount == IInv /\ CountInv /\ [Next]_vars => CountInv'
<1> SUFFICES ASSUME IInv, CountInv, [Next]_vars PROVE CountInv'
  OBVIOUS
<1>1. CASE \E n \in Requests : Allocate(n)
  BY <1>1, AllocateCounts
<1>2. ASSUME NEW a \in Address, Deallocate(a)  PROVE CountInv'
  <2>1. a \in Headers /\ header[a].allocated
    BY <1>2 DEF Deallocate, IInv, ListsPartitionHeaders
  <2> QED
    BY <1>2, <2>1, FreeingCounts DEF Deallocate
<1>3. CASE SweepFrees
  <2>1. cur \in Headers /\ header[cur].allocated
    BY <1>3, SweepFreesInv
  <2> QED
    BY <1>3, <2>1, FreeingCounts DEF SweepFrees
<1>4. CASE GreyAll
  BY <1>4, InvParts, GreyAllMarks, MarkingCounts DEF GreyAll
<1>5. ASSUME NEW reached \in SUBSET Range(allocd), RuntimeMarker(reached)
      PROVE  CountInv'
  BY <1>5, InvParts, RuntimeMarkerMarks, MarkingCounts DEF RuntimeMarker
<1>6. CASE UNCHANGED <<header, allocd, allocated_bytes, freed_bytes>>
  BY <1>6 DEF CountInv, IsCount, LiveBytes, SegmentEnd, Payload
<1>7. \/ \E n \in Requests : Allocate(n)
      \/ \E a \in Address : Deallocate(a)
      \/ SweepFrees \/ GreyAll
      \/ \E reached \in SUBSET Range(allocd) : RuntimeMarker(reached)
      \/ UNCHANGED <<header, allocd, allocated_bytes, freed_bytes>>
  BY DEF Next, RunGc, AllocateFails, CleanupManager, SweepKeeps, FinishGc, vars
<1> QED
  BY <1>1, <1>2, <1>3, <1>4, <1>5, <1>6, <1>7

(* inspect_allocation reports the bytes that lie in an allocated payload,  *)
(* modulo Word, however often its two counters have wrapped: each is       *)
(* counted when it is handed out and once when it is taken back, whether   *)
(* by deallocate or by the sweep.                                          *)
THEOREM InspectCounts == Spec => []InspectCountsLiveBytes
<1>1. IInv /\ CountInv => InspectCountsLiveBytes
  <2> SUFFICES ASSUME IInv, CountInv  PROVE InspectCountsLiveBytes
    OBVIOUS
  <2>1. PICK count \in Nat : count = Cardinality(LiveBytes)
    BY InvParts, LiveAreDisjoint DEF LiveIsDisjoint
  <2>2. PICK k \in Int : allocated_bytes - freed_bytes = count + k * Word
    BY <2>1 DEF CountInv, IsCount
  <2>3. allocated_bytes - freed_bytes \in Int
    BY DEF IInv, TypeOK
  <2>4. (allocated_bytes - freed_bytes) % Word = count % Word
    BY <2>2, <2>3, SameRemainder
  <2> QED
    BY <2>1, <2>4 DEF InspectCountsLiveBytes, InspectAllocation
<1>2. Spec => []CountInv
  BY Invariance, InitCount, StepCount, PTL DEF Spec
<1> QED
  BY <1>1, <1>2, Invariance, PTL
=============================================================================
