-------------------------------- MODULE Lists --------------------------------
(***************************************************************************)
(* The lists of src/util/list.c and the maps of map.c as the interpreter   *)
(* uses them, which GrowingList and OrderedMap show them to be: a list is  *)
(* the sequence of its items, and its buffer is known by its capacity,     *)
(* since list_push moves the buffer only to enlarge it and nothing makes   *)
(* it smaller; a map is a function.                                        *)
(***************************************************************************)
EXTENDS Buffers, Sequences

(* The capacity of a list of capacity cap once it holds n items.           *)
Capacity(cap, n) ==
  LET grown[c \in Nat] == IF n <= c THEN c ELSE grown[NextCapacity(c)]
  IN  grown[cap]

(* list_pop, n times.                                                      *)
DropLast(list, n) == SubSeq(list, 1, Len(list) - n)

(* map_insert, which replaces the value of a key that is there.            *)
Inserted(map, key, value) ==
  [k \in DOMAIN map \cup {key} |-> IF k = key THEN value ELSE map[k]]
=============================================================================
