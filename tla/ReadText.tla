------------------------------- MODULE ReadText ------------------------------
(***************************************************************************)
(* What reading a text promises: the reader of ReadForm against the syntax *)
(* of module Syntax, the effect on the stacks that module Reader sums up,  *)
(* and the collector, which may run whenever the reader allocates.         *)
(***************************************************************************)
EXTENDS ReadForm

LOCAL Standard == INSTANCE Syntax
LOCAL Summary  == INSTANCE Reader

TypedText == files[Stdin].chars
Meaning   == Standard!Meaning(TypedText)

(* A form of the program, from the objects it consists of.                 *)
RECURSIVE FormOf(_)
FormOf(form) ==
  CASE Kind(form) = "cons" ->
         List([k \in DOMAIN Conses(form) |-> FormOf(objects[Conses(form)[k]].car)])
    [] Kind(form) = "symbol" -> Sym(<<objects[form[2]].package, Name(form[2])>>)
    [] Kind(form) = "string" -> Str(objects[objects[form[2]].lexeme].chars)
    [] OTHER -> form

FormsOf(some) == [k \in DOMAIN some |-> FormOf(some[k])]

(* A form with its quotes as they were typed: only ' makes a list that     *)
(* begins with the QUOTE of COMMON-LISP, which USER does not import.       *)
RECURSIVE AsTyped(_)
AsTyped(form) ==
  IF form[1] # "cons" THEN form
  ELSE IF form[2][1] = Sym(<<"COMMON-LISP", Chars("QUOTE")>>)
  THEN Summary!Short(AsTyped(form[2][2]))
  ELSE List([k \in DOMAIN form[2] |-> AsTyped(form[2][k])])

(* Whether the parentheses of the text are all what the list macro takes   *)
(* them for (see CompleteTextNeverLoops).                                  *)
ParensEncloseLists == Standard!ParensEncloseLists(TypedText)

----------------------------------------------------------------------------
(* A form is read as it is typed, but for numbers: strtol (reader.c:370)   *)
(* goes on behind the token, so digits that happen to be there come with   *)
(* the number.                                                             *)
RECURSIVE ReadAs(_, _)
ReadAs(form, typed) ==
  IF typed[1] = "fixnum"
  THEN form[1] = "fixnum" /\ \E more \in Leftovers : form[2] \div 10^Len(more) = typed[2]
  ELSE IF typed[1] = "cons"
  THEN /\ form[1] = "cons" /\ DOMAIN form[2] = DOMAIN typed[2]
       /\ \A k \in DOMAIN typed[2] : ReadAs(form[2][k], typed[2][k])
  ELSE form = typed

(* The REPL gets the forms of the text, in order, each as it is typed, and *)
(* comes to the end of the input exactly if nothing but complete forms     *)
(* were typed: read_form and its macros put each character given back,     *)
(* copied and scanned twice to its one use.                                *)
ReadsWhatIsTyped ==
  /\ In("REPL", "read") /\ ParensEncloseLists =>
       LET got == Append(FormsOf(read_forms), FormOf(value))
       IN  /\ Len(got) <= Len(Meaning.forms)
           /\ \A k \in DOMAIN got : ReadAs(got[k], Meaning.forms[k])
  /\ ended \in {"end of input", "looping", "aborted"} /\ ParensEncloseLists =>
       /\ Len(read_forms) = Len(Meaning.forms)
       /\ (ended = "end of input") = (Meaning.then = "complete")

(* What Interpreter takes for the effect of reading a form, computed from  *)
(* the form alone, is what reading it character by character does: the     *)
(* stacks are as they were, the buffers have grown as predicted, and the   *)
(* reader goes through an old buffer only where Reader says it would.      *)
ReadingEffect(caps, form) ==
  LET effect == Summary!Read(AsTyped(form), 4, Capacity(caps.form, 4))
  IN  [form  |-> effect.cap, stale |-> effect.stale,
       frame |-> Capacity(caps.frame, 3 + effect.frames)]

EffectOf(some) ==
  FoldLeft(ReadingEffect,
           [form |-> InitialCapacity, frame |-> InitialCapacity, stale |-> FALSE], some)

SummaryIsRight ==
  /\ In("REPL", "read") =>
       LET effect == EffectOf(Append(FormsOf(read_forms), FormOf(value)))
       IN  /\ Len(form_stack) = 2 /\ Len(frame_stack) = 2
           /\ form_cap = effect.form /\ frame_cap = effect.frame
  /\ ended = "undefined" /\ Len(read_forms) < Len(Meaning.forms) =>
       EffectOf(SubSeq(Meaning.forms, 1, Len(read_forms) + 1)).stale

(* A complete text is read to its end, or until (QUIT): none of the loops  *)
(* over its characters, and not the mutual recursion of READ and the       *)
(* macros, goes on for ever, and nothing else stops the reader.  That is   *)
(* so if the list macro takes its parentheses for what they are, and the   *)
(* form stack stays where it is whenever a second element is read.         *)
ReadInPlace ==
  \A n \in DOMAIN Meaning.forms : ~EffectOf(SubSeq(Meaning.forms, 1, n)).stale

EveryTextIsRead ==
  (files # << >> /\ Meaning.then = "complete" /\ ParensEncloseLists /\ ReadInPlace)
    ~> ended \in {"end of input", "quit"}

(* That the reader got stuck in a loop on a complete text is what the      *)
(* FIXME at system_inherents.c:231 calls a possible bug: a loop over the   *)
(* characters that does not find its end belongs to a text without one.    *)
CompleteTextNeverLoops ==
  ended = "looping" => Meaning.then # "complete"
=============================================================================
