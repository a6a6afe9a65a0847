--------------------------- MODULE MemoryManager ---------------------------
(***************************************************************************)
(* The allocator and mark-sweep collector of src/runtime/memory_manager.c. *)
(*                                                                         *)
(* One block of BlockSize bytes is cut into segments.  A segment starts    *)
(* with a MarkingInfo header (HeaderSize bytes) and is known by the        *)
(* address of that header.  The two singly linked lists of the code are    *)
(* the sequences free and allocd: a header's `next` field is the element   *)
(* after it in the one list that holds it.                                 *)
(*                                                                         *)
(* run_gc is split into its three loops (grey, mark, sweep) by pc; the     *)
(* sweep takes one step per header its cursor visits.                      *)
(***************************************************************************)
EXTENDS Integers, FiniteSets, SequencesExt

CONSTANTS
  BlockSize,       \* BLOCK_SIZE, bytes in the block
  HeaderSize,      \* sizeof(MarkingInfo)
  Requests,        \* payload sizes the runtime asks for
  InitialGcCheck,  \* INITIAL_GC_CHECK
  Word,            \* 2^32: the counters are uint32_t
  Null             \* the null pointer

ASSUME SizesAssumption ==
  /\ BlockSize \in Nat /\ HeaderSize \in Nat \ {0}
  /\ HeaderSize <= BlockSize
  /\ Requests \subseteq Nat
  /\ Word \in Nat \ {0} /\ InitialGcCheck \in Nat

Address == 0 .. BlockSize - 1

ASSUME NullAssumption == Null \notin Address

VARIABLES
  header,           \* address -> MarkingInfo, for the headers written so far
  free,             \* the list at block.first_free
  allocd,           \* the list at block.first_allocated
  next_gc_size,
  allocated_bytes,  \* payload bytes ever handed out, modulo Word
  freed_bytes,      \* payload bytes ever taken back, modulo Word
  pc,               \* where the manager is
  cur,              \* the cursor of run_gc's sweep
  trigger,          \* what allocate returns; run_gc's second argument
  closing           \* the collection was started by cleanup_manager

vars == <<header, free, allocd, next_gc_size, allocated_bytes, freed_bytes,
          pc, cur, trigger, closing>>

White == "white"
Grey  == "grey"
Black == "black"

MarkingInfo == [size : Nat, mark : {White, Grey, Black}, allocated : BOOLEAN]

Headers == DOMAIN header

FreeSegment(bytes) == [size |-> bytes, mark |-> White, allocated |-> FALSE]
LiveSegment(bytes) == [size |-> bytes, mark |-> White, allocated |-> TRUE]

PayloadSize(a) == header[a].size - HeaderSize

HeadOrNull(list) == IF list = <<>> THEN Null ELSE list[1]

----------------------------------------------------------------------------
Init ==
  /\ header = [a \in {0} |-> FreeSegment(BlockSize)]
  /\ free = <<0>>
  /\ allocd = <<>>
  /\ next_gc_size = InitialGcCheck
  /\ allocated_bytes = 0
  /\ freed_bytes = 0
  /\ pc = "idle"
  /\ cur = Null
  /\ trigger = Null
  /\ closing = FALSE

(* The two ways a free segment can serve a request: exactly, or with room  *)
(* for the header of the segment that is split off.                        *)
PerfectMatch(a, n) == header[a].size = HeaderSize + n
(* Faulty variant: forgets the header that the split-off segment needs.    *)
TightSplit(a, n)   == header[a].size >= HeaderSize + n
CanSplit(a, n)     == header[a].size >= 2 * HeaderSize + n
Serves(a, n)       == PerfectMatch(a, n) \/ CanSplit(a, n)

FirstFit(i, n) ==
  /\ Serves(free[i], n)
  /\ \A j \in 1 .. i - 1 : ~Serves(free[j], n)

(* Faulty variant: the segment is handed out but stays in the free list.   *)
TakeWholeUnlinked(i, n) ==
  /\ PerfectMatch(free[i], n)
  /\ free' = free
  /\ header' = [header EXCEPT ![free[i]] = LiveSegment(HeaderSize + n)]

(* The chosen segment leaves the free list whole ...                       *)
TakeWhole(i, n) ==
  /\ PerfectMatch(free[i], n)
  /\ free' = RemoveAt(free, i)
  /\ header' = [header EXCEPT ![free[i]] = LiveSegment(HeaderSize + n)]

(* Faulty variant: the right half keeps the bytes of the left header.      *)
SplitOffOverlapping(i, n) ==
  LET left  == free[i]
      right == left + HeaderSize + n
  IN  /\ ~PerfectMatch(left, n)
      /\ free' = [free EXCEPT ![i] = right]
      /\ header' = [a \in Headers \cup {right} |->
                     IF a = left THEN LiveSegment(HeaderSize + n)
                     ELSE IF a = right THEN FreeSegment(header[left].size - n)
                     ELSE header[a]]

(* ... or its right half takes its place there.                            *)
SplitOff(i, n) ==
  LET left  == free[i]
      right == left + HeaderSize + n
  IN  /\ ~PerfectMatch(left, n)
      /\ free' = [free EXCEPT ![i] = right]
      /\ header' = [a \in Headers \cup {right} |->
                     IF a = left THEN LiveSegment(HeaderSize + n)
                     ELSE IF a = right
                          THEN FreeSegment(header[left].size - (HeaderSize + n))
                     ELSE header[a]]

HandOut(a) == allocd' = <<a>> \o allocd /\ trigger' = a

Allocate(n) ==
  /\ pc = "idle"
  /\ \E i \in DOMAIN free :
       /\ FirstFit(i, n)
       /\ TakeWhole(i, n) \/ SplitOff(i, n)
       /\ HandOut(free[i])
  /\ allocated_bytes' = (allocated_bytes + n) % Word
  /\ pc' = IF allocated_bytes' >= next_gc_size THEN "grey" ELSE "idle"
  /\ UNCHANGED <<next_gc_size, freed_bytes, cur, closing>>

AllocateFails(n) ==
  /\ pc = "idle"
  /\ \A i \in DOMAIN free : ~Serves(free[i], n)
  /\ trigger' = Null
  /\ UNCHANGED <<header, free, allocd, next_gc_size, allocated_bytes,
                 freed_bytes, pc, cur, closing>>

(* Faulty variant: counts the header as freed payload.                     *)
InternalDeallocateWhole(a) ==
  /\ \E i \in DOMAIN allocd : allocd[i] = a /\ allocd' = RemoveAt(allocd, i)
  /\ free' = <<a>> \o free
  /\ header' = [header EXCEPT ![a] = FreeSegment(@.size)]
  /\ freed_bytes' = (freed_bytes + header[a].size) % Word

(* Faulty variant: a freed segment keeps its mark.                         *)
InternalDeallocateMarked(a) ==
  /\ \E i \in DOMAIN allocd : allocd[i] = a /\ allocd' = RemoveAt(allocd, i)
  /\ free' = <<a>> \o free
  /\ header' = [header EXCEPT ![a].allocated = FALSE]
  /\ freed_bytes' = (freed_bytes + PayloadSize(a)) % Word

(* internal_deallocate: the list surgery and the accounting that the sweep *)
(* and deallocate share.                                                   *)
InternalDeallocate(a) ==
  /\ \E i \in DOMAIN allocd : allocd[i] = a /\ allocd' = RemoveAt(allocd, i)
  /\ free' = <<a>> \o free
  /\ header' = [header EXCEPT ![a] = FreeSegment(@.size)]
  /\ freed_bytes' = (freed_bytes + PayloadSize(a)) % Word

(* deallocate, called by the runtime for a pointer it was given and with   *)
(* the size it asked for (both asserted by the code).                      *)
Deallocate(a) ==
  /\ pc = "idle"
  /\ a \in Range(allocd)
  /\ InternalDeallocate(a)
  /\ UNCHANGED <<next_gc_size, allocated_bytes, pc, cur, trigger, closing>>

----------------------------------------------------------------------------
(* run_gc *)

(* Faulty variant: does not mark the trigger.                              *)
GreyAllAndTrigger ==
  /\ pc = "grey"
  /\ header' = [a \in Headers |->
                 IF a \in Range(allocd) THEN [header[a] EXCEPT !.mark = Grey]
                 ELSE header[a]]
  /\ pc' = "mark"
  /\ UNCHANGED <<free, allocd, next_gc_size, allocated_bytes, freed_bytes, cur,
                 trigger, closing>>

(* First loop: grey everything allocated, then save the trigger.           *)
GreyAll ==
  /\ pc = "grey"
  /\ header' = [a \in Headers |->
                 IF a \in Range(allocd)
                 THEN [header[a] EXCEPT !.mark = IF a = trigger THEN Black ELSE Grey]
                 ELSE header[a]]
  /\ pc' = "mark"
  /\ UNCHANGED <<free, allocd, next_gc_size, allocated_bytes, freed_bytes, cur,
                 trigger, closing>>

(* The runtime_marker callback calls mark_used on whatever it reaches.     *)
RuntimeMarker(reached) ==
  /\ pc = "mark"
  /\ header' = [a \in Headers |->
                 IF a \in reached THEN [header[a] EXCEPT !.mark = Black] ELSE header[a]]
  /\ pc' = "sweep"
  /\ cur' = HeadOrNull(allocd)
  /\ UNCHANGED <<free, allocd, next_gc_size, allocated_bytes, freed_bytes,
                 trigger, closing>>

(* cur->next, read in the state the step leaves: in whichever list cur is. *)
NextOf(a, list) ==
  LET here == {i \in DOMAIN list : list[i] = a /\ i < Len(list)}
  IN  IF here = {} THEN Null ELSE list[(CHOOSE i \in here : TRUE) + 1]

FieldNext(a, in_allocd, in_free) ==
  IF a \in Range(in_allocd) THEN NextOf(a, in_allocd) ELSE NextOf(a, in_free)

(* Faulty variants: frees what was marked; starts over at the head.        *)
SweepFreesBlack ==
  /\ pc = "sweep" /\ cur # Null
  /\ header[cur].mark = Black
  /\ InternalDeallocate(cur)
  /\ cur' = FieldNext(cur, allocd', free')
  /\ UNCHANGED <<next_gc_size, allocated_bytes, pc, trigger, closing>>

SweepKeepsFromHead ==
  /\ pc = "sweep" /\ cur # Null
  /\ header[cur].mark # Grey
  /\ cur' = HeadOrNull(allocd)
  /\ UNCHANGED <<header, free, allocd, next_gc_size, allocated_bytes,
                 freed_bytes, pc, trigger, closing>>

SweepFrees ==
  /\ pc = "sweep" /\ cur # Null
  /\ header[cur].mark = Grey
  /\ InternalDeallocate(cur)
  /\ cur' = FieldNext(cur, allocd', free')
  /\ UNCHANGED <<next_gc_size, allocated_bytes, pc, trigger, closing>>

SweepKeeps ==
  /\ pc = "sweep" /\ cur # Null
  /\ header[cur].mark # Grey
  /\ cur' = FieldNext(cur, allocd, free)
  /\ UNCHANGED <<header, free, allocd, next_gc_size, allocated_bytes,
                 freed_bytes, pc, trigger, closing>>

FinishGc ==
  /\ pc = "sweep" /\ cur = Null
  /\ next_gc_size' = (2 * next_gc_size) % Word
  /\ pc' = IF closing THEN "closed" ELSE "idle"
  /\ UNCHANGED <<header, free, allocd, allocated_bytes, freed_bytes, cur,
                 trigger, closing>>

(* cleanup_manager: a last collection without a trigger, then the block is *)
(* given back.                                                             *)
CleanupManager ==
  /\ pc = "idle"
  /\ pc' = "grey"
  /\ trigger' = Null
  /\ closing' = TRUE
  /\ UNCHANGED <<header, free, allocd, next_gc_size, allocated_bytes,
                 freed_bytes, cur>>

InspectAllocation == (allocated_bytes - freed_bytes) % Word

----------------------------------------------------------------------------
RunGc ==
  \/ GreyAll
  \/ \E reached \in SUBSET Range(allocd) : RuntimeMarker(reached)
  \/ SweepFrees
  \/ SweepKeeps
  \/ FinishGc

Next ==
  \/ \E n \in Requests : Allocate(n) \/ AllocateFails(n)
  \/ \E a \in Address : Deallocate(a)
  \/ CleanupManager
  \/ RunGc

Spec == Init /\ [][Next]_vars

(* run_gc runs on the caller's stack: once started, nothing can hold it    *)
(* back.                                                                   *)
FairSpec == Spec /\ WF_vars(RunGc)

----------------------------------------------------------------------------
TypeOK ==
  /\ 0 \in Headers /\ Headers \subseteq Address
  /\ header \in [Headers -> MarkingInfo]
  /\ \A a \in Headers : header[a].size >= HeaderSize
  /\ free \in Seq(Headers) /\ allocd \in Seq(Headers)
  /\ next_gc_size \in Nat
  /\ allocated_bytes \in Nat /\ freed_bytes \in Nat
  /\ pc \in {"idle", "grey", "mark", "sweep", "closed"}
  /\ cur \in Headers \cup {Null} /\ trigger \in Headers \cup {Null}
  /\ closing \in BOOLEAN

(* The segments tile the block: every segment ends where another begins or *)
(* at the end of the block, and none begins inside another.  This is what  *)
(* keeps two live payloads apart, and it rests on the split arithmetic of  *)
(* allocate (memory_manager.c:155-163) over every sequence of requests.    *)
Payload(a)    == a + HeaderSize
SegmentEnd(a) == a + header[a].size

HeadersTileBlock ==
  /\ \A a \in Headers : SegmentEnd(a) \in Headers \cup {BlockSize}
  /\ \A a, b \in Headers : a < b => SegmentEnd(a) <= b

(* Every header is in exactly one of the two lists, once, and its          *)
(* `allocated` flag says in which: what the "Double free!" and "Could not  *)
(* find allocation!" assertions of internal_deallocate rely on, also in    *)
(* the middle of a sweep that edits the list it walks.                     *)
ListsPartitionHeaders ==
  /\ IsInjective(free) /\ IsInjective(allocd)
  /\ Range(free)   = {a \in Headers : ~header[a].allocated}
  /\ Range(allocd) = {a \in Headers : header[a].allocated}

(* inspect_allocation reports exactly the live payload bytes, however the  *)
(* two uint32_t counters have wrapped: as many as there are bytes of the   *)
(* block that lie in an allocated payload.                                 *)
LiveBytes == UNION {Payload(a) .. SegmentEnd(a) - 1 : a \in Range(allocd)}

InspectCountsLiveBytes == InspectAllocation = Cardinality(LiveBytes) % Word

(* The sweep hands internal_deallocate only segments that are allocated,   *)
(* although the segment it just freed leads its cursor into the free list: *)
(* the "Double free!" assertion (memory_manager.c:182) never fires.        *)
SweepNeverDoubleFrees ==
  pc = "sweep" /\ cur # Null /\ header[cur].mark = Grey => header[cur].allocated

(* The block that allocate is about to return is still allocated at the    *)
(* end of the collection that its own allocation started, although nothing *)
(* in the runtime refers to it yet.                                        *)
TriggerSurvivesCollection ==
  pc # "idle" /\ ~closing => trigger \in Range(allocd)

(* The allocator and the collector together keep the promise of BlockHeap: *)
(* payloads stay apart, a live payload keeps its place and size, and a     *)
(* collection reclaims no payload that the marking reached, nor the one    *)
(* whose allocation started it.  A payload begins after its header.        *)
LivePayloads == {Payload(a) : a \in {b \in Headers : header[b].allocated}}

HeapLive  == [p \in LivePayloads |-> PayloadSize(p - HeaderSize)]
HeapFresh == IF pc \in {"grey", "mark"} /\ trigger # Null
             THEN Payload(trigger) ELSE Null
HeapKept  == IF pc = "sweep"
             THEN {p \in LivePayloads : header[p - HeaderSize].mark = Black}
             ELSE {}

Heap == INSTANCE BlockHeap WITH
  HeapSize <- BlockSize, Nobody <- Null,
  live <- HeapLive, fresh <- HeapFresh, collecting <- pc = "sweep", kept <- HeapKept

KeepsHeapPromise == Heap!Spec

(* A collection that starts comes to an end, although the sweep's cursor   *)
(* crosses from the allocated list into the free list.                     *)
CollectionEnds == pc = "grey" ~> pc \in {"idle", "closed"}

(* memory_manager.c:96, "remove all the allocations that are still marked  *)
(* grey (not used)": nothing grey is left when the sweep has run.          *)
SweepRemovesAllGrey ==
  pc = "sweep" /\ cur = Null =>
    \A a \in Range(allocd) : header[a].mark # Grey
=============================================================================
