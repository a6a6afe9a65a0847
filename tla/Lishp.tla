------------------------------- MODULE Lishp --------------------------------
(***************************************************************************)
(* The reader, the compiler and the machine together, against what the     *)
(* user of the REPL was promised.                                          *)
(***************************************************************************)
EXTENDS Interpreter, Compiler, Reader, Evaluator

Nothing == <<"nothing">>

(* The form that was typed is the last return of the REPL until it is an   *)
(* argument of FORMAT, above the REPL's own call and FORMAT, T and the     *)
(* format string.                                                          *)
IsRead == repl = "reading" /\ acts = <<>>

AskedForm ==
  IF IsRead /\ ~IsQuit(ReadForm) THEN ReadForm
  ELSE IF acts # <<>> /\ acts[1].fn = "FORMAT" THEN form_stack[6]
  ELSE Nothing

StillOpen == repl # "quit" /\ (IsRead => ~IsQuit(ReadForm))

Lines == [form \in {f \in Programs : ~IsQuit(f)} |-> LinesFor(form)]

Promise == INSTANCE Listener WITH
  asked <- AskedForm, open <- StillOpen, Nothing <- Nothing

(* The program answers each form as its meaning says: with the lines it    *)
(* calls for, in their order, its value on the last, and only then asks    *)
(* for the next form, with nothing printed for it yet.                     *)
AnswersAsPromised == Promise!Spec

(* A form that was typed awaits its answer, and for ever so if reading it  *)
(* or evaluating it has led the program astray or failed an assertion.     *)
Unanswered == AskedForm # Nothing \/ repl \in {"undefined", "aborted"}

(* No form that was typed goes unanswered.                                 *)
AnswersEveryForm == Unanswered ~> ~Unanswered
=============================================================================
