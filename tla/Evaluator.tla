----------------------------- MODULE Evaluator ------------------------------
(***************************************************************************)
(* What a form means, defined on the form itself: its value, what it       *)
(* prints, and the tag it leaves for by GO, if it does.  The language is   *)
(* that of src/runtime/interpreter.c (its special forms) with the function *)
(* FORMAT of src/runtime/common_lisp_inherents.c, read as Common Lisp.     *)
(***************************************************************************)
EXTENDS Forms, Integers, TLC

NoTag == <<"no tag">>

(* The effect of a form: value, the lines it prints, the tag it goes to.   *)
Returns(value)    == [value |-> value, lines |-> <<>>, tag |-> NoTag]
GoesTo(tag)       == [value |-> Nil, lines |-> <<>>, tag |-> tag]

(* One effect after another, unless the first one goes elsewhere.          *)
Before(effect, Rest(_)) ==
  IF effect.tag # NoTag THEN effect
  ELSE LET rest == Rest(effect.value)
       IN  [rest EXCEPT !.lines = effect.lines \o @]

RECURSIVE Eval(_, _), EvalAll(_, _, _), EvalArgs(_, _, _),
          EvalLetStar(_, _, _), RunFrom(_, _, _)

(* The forms in order; the value is that of the last, or else value.       *)
EvalAll(forms, env, value) ==
  IF forms = <<>> THEN Returns(value)
  ELSE Before(Eval(Head(forms), env), LAMBDA v : EvalAll(Tail(forms), env, v))

EvalArgs(args, env, values) ==
  IF args = <<>> THEN Returns(values)
  ELSE Before(Eval(Head(args), env),
              LAMBDA v : EvalArgs(Tail(args), env, Append(values, v)))

EvalLetStar(bindings, body, env) ==
  IF bindings = <<>> THEN EvalAll(body, env, Nil)
  ELSE LET binding == Elements(Head(bindings))
       IN  Before(Eval(binding[2], env),
                  LAMBDA v : EvalLetStar(Tail(bindings), body, (binding[1] :> v) @@ env))

(* A tagbody from its k-th item on: tags are skipped, a form that goes to  *)
(* one of the tags goes on there, and the end is NIL.                      *)
RunFrom(items, k, env) ==
  IF k > Len(items) THEN Returns(Nil)
  ELSE IF ~IsCons(items[k]) THEN RunFrom(items, k + 1, env)
  ELSE LET effect == Eval(items[k], env)
           places == {i \in DOMAIN items : items[i] = effect.tag}
       IN  IF effect.tag # NoTag /\ places = {} THEN effect
           ELSE LET next == IF effect.tag = NoTag THEN k + 1 ELSE CHOOSE i \in places : TRUE
                IN  Before([effect EXCEPT !.tag = NoTag],
                           LAMBDA v : RunFrom(items, next, env))

Eval(form, env) ==
  IF IsSymbol(form) THEN Returns(env[form])
  ELSE IF ~IsCons(form) THEN Returns(form)
  ELSE LET name == Head(Elements(form))[2]
           args == Tail(Elements(form))
       IN  CASE name = "QUOTE"   -> Returns(args[1])
             [] name = "GO"      -> GoesTo(args[1])
             [] name = "PROGN"   -> EvalAll(args, env, Nil)
             [] name = "LET*"    -> EvalLetStar(Elements(args[1]), Tail(args), env)
             [] name = "TAGBODY" -> RunFrom(args, 1, env)
             [] name = "FORMAT"  ->
                  Before(EvalArgs(args, env, <<>>),
                         LAMBDA v : [Returns(Nil) EXCEPT !.lines = <<v>>])

(* What the REPL prints for a form: it evaluates (FORMAT T "~A~%" form).    *)
LinesFor(form) ==
  LET global == (Sym("T") :> T) @@ (Sym("NIL") :> Nil)
  IN  Eval(List(<<Sym("FORMAT"), T, Str("~A~%"), form>>), global).lines
=============================================================================
