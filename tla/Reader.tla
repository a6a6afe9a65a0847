------------------------------- MODULE Reader -------------------------------
(***************************************************************************)
(* What reading a form does to the two stacks of the interpreter.  The     *)
(* reader (read_form of src/runtime/reader.c and the reader macros of      *)
(* src/runtime/system_inherents.c) calls itself through the interpreter:   *)
(* each list is read by a call of its macro function, each element of it   *)
(* by a call of READ.  When it is done the stacks are as they were, but    *)
(* their buffers have grown to the depth of the form.  A form that was     *)
(* typed as 'x is marked as such, since it is not read like (QUOTE x).     *)
(***************************************************************************)
EXTENDS Forms, Lists, Integers, SequencesExt

Short(form)   == <<"quoted", form>>
IsShort(form) == form[1] = "quoted"

(* From a form stack of `size` items and capacity `cap`: the capacity it   *)
(* is left with, how many frames deep the reader went, and whether it had  *)
(* to go through a pointer into a buffer given back since.                 *)
RECURSIVE Read(_, _, _)

(* A macro call takes its function, the stream, the character, the list of *)
(* the evaluated arguments and, to evaluate one, its value.                *)
AfterMacroCall(size, cap) == Capacity(cap, size + 5)

(* The first element is read above the macro call, and so is what follows  *)
(* a quote; the list is then begun on the form stack (push_form_return),   *)
(* below the elements to come.  The second is put behind the first through *)
(* the pointer last_cons_ptr into that stack, any other through one into   *)
(* the heap.                                                               *)
ReadElement(sofar, element, k, size) ==
  LET base == size + 4 + (IF k = 1 THEN 0 ELSE 1)
      read == Read(element, base + 3, Capacity(sofar.cap, base + 4))
  IN  [stale  |-> sofar.stale \/ read.stale \/ (k = 2 /\ read.cap # sofar.cap),
       frames |-> Max({sofar.frames, 2 + read.frames}),
       cap    |-> read.cap]

Read(form, size, cap) ==
  LET called == [stale |-> FALSE, frames |-> 1, cap |-> AfterMacroCall(size, cap)]
  IN  IF IsList(form)
      THEN FoldLeftDomain(LAMBDA sofar, k : ReadElement(sofar, Elements(form)[k], k, size),
                          called, Elements(form))
      ELSE IF IsShort(form) THEN ReadElement(called, form[2], 1, size)
      ELSE IF form[1] = "string" THEN called
      ELSE [stale |-> FALSE, frames |-> 0, cap |-> cap]
=============================================================================
