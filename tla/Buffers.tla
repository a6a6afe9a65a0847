------------------------------- MODULE Buffers -------------------------------
(***************************************************************************)
(* What the lists and maps of src/util share: a buffer of cells 0 ..       *)
(* cap - 1, known by the function from its indices to what the cells hold, *)
(* the rule by which it grows, and the shifting of cells within it.        *)
(***************************************************************************)
EXTENDS Integers

CONSTANTS
  InitialCapacity   \* INITIAL_CAPACITY

ASSUME CapacityAssumption == InitialCapacity \in Nat \ {0}

NextCapacity(c) == IF c = 0 THEN InitialCapacity ELSE 2 * c

(* shift_items moves count cells, the first at index at and the others     *)
(* after it (dir 1) or before it (dir -1), one cell in direction dir; it   *)
(* starts at the far end, so no cell is overwritten before it is moved.    *)
ShiftItems(cells, at, count, dir) ==
  [j \in DOMAIN cells |->
    IF \E k \in 0 .. count - 1 : j = at + dir * (k + 1)
    THEN cells[j - dir] ELSE cells[j]]

(* realloc to c cells: those there were keep what they hold.               *)
Grown(cells, c, garbage) ==
  [j \in 0 .. c - 1 |-> IF j \in DOMAIN cells THEN cells[j] ELSE garbage]
=============================================================================
