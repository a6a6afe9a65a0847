------------------------------ MODULE Listener ------------------------------
(***************************************************************************)
(* What the program promises its user, without a stack or a bytecode: it   *)
(* asks for a form, prints the lines that form calls for, in order, and    *)
(* asks for the next, until it is told to quit.                            *)
(***************************************************************************)
EXTENDS Sequences, Naturals

CONSTANTS
  Programs,     \* the forms the user may type
  Lines,        \* form -> the lines it calls for, the one with its value last
  IsQuit(_),
  Nothing

VARIABLES
  asked,        \* the form that is being answered, or Nothing
  printed,      \* what was printed since it was typed
  open

vars == <<asked, printed, open>>

Asks ==
  /\ open /\ asked = Nothing
  /\ \E form \in Programs :
       IF IsQuit(form)
       THEN open' = FALSE /\ UNCHANGED asked
       ELSE asked' = form /\ UNCHANGED open
  /\ printed' = <<>>

Prints ==
  /\ asked # Nothing
  /\ printed' = Append(printed, Lines[asked][Len(printed) + 1])
  /\ asked' = IF Len(printed') = Len(Lines[asked]) THEN Nothing ELSE asked
  /\ UNCHANGED open

Init == asked = Nothing /\ printed = <<>> /\ open = TRUE

Next == Asks \/ Prints

Spec == Init /\ [][Next]_vars
=============================================================================
