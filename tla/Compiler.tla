------------------------------ MODULE Compiler ------------------------------
(***************************************************************************)
(* The compiler of src/runtime/interpreter.c (the analyze functions), from *)
(* a form to the bytecode that interpret_bytes runs.                       *)
(*                                                                         *)
(* An analysis appends to a list of bytes; it is modelled by what it       *)
(* appends, given how many bytes the list already holds (base), and by     *)
(* what it returns: 0, -1, or not at all because an assertion stops the    *)
(* program (Stop).                                                         *)
(***************************************************************************)
EXTENDS Forms, Integers, SequencesExt

Push(form)    == [op |-> "Push", target |-> form]
BindTag(ind)  == [op |-> "BindTag", index |-> ind]
Funcall(n)    == [op |-> "Funcall", arg_count |-> n]
GoReturn(tag) == [op |-> "GoReturn", target |-> tag]
Op(name)      == [op |-> name]

Stop == -2

Analysis(bytes, ret) == [bytes |-> bytes, ret |-> ret]
Ok(bytes)            == Analysis(bytes, 0)
Fails(bytes)         == Analysis(bytes, -1)
Stops                == Analysis(<<>>, Stop)

SpecialForms == {"GO", "LET*", "PROGN", "QUOTE", "TAGBODY"}

Returning(bytes, with_ret) == IF with_ret THEN Append(bytes, Op("RetForm")) ELSE bytes

(* What an analysis leaves when its caller ignores that it failed.         *)
Ignoring(analysis) == IF analysis.ret = -1 THEN Ok(analysis.bytes) ELSE analysis

(* One analysis after another; the first one that fails is the last.       *)
Then(first, Second(_)) ==
  IF first.ret # 0 THEN first
  ELSE LET second == Second(Len(first.bytes))
       IN  Analysis(first.bytes \o second.bytes, second.ret)

Each(items, Analyze(_, _)) ==
  FoldLeft(LAMBDA done, item : Then(done, LAMBDA n : Analyze(item, n)),
           Ok(<<>>), items)

----------------------------------------------------------------------------
RECURSIVE AnalyzeForm(_, _, _)

AnalyzeProgn(forms, base) ==
  Each(forms, LAMBDA form, n : AnalyzeForm(form, TRUE, base + n))

(* One binding of LET*: a scope, the name, the value (without RetForm).    *)
AnalyzeBinding(binding, base) ==
  IF ~IsCons(binding) THEN Stops
  ELSE LET parts == Elements(binding)
           value == IF Len(parts) > 1 THEN parts[2] ELSE Nil
           entry == Ok(<<Op("PushLexicalEnv"), Push(parts[1])>>)
           bound == Then(entry, LAMBDA n : Ignoring(AnalyzeForm(value, FALSE, base + n)))
       IN  Then(bound, LAMBDA n : Ok(<<Op("BindValue"), Op("Pop")>>))

AnalyzeLetStar(args, base) ==
  IF args = <<>> \/ ~IsList(args[1]) THEN Stops
  ELSE LET vars  == Elements(args[1])
           bound == Each(vars, LAMBDA var, n : AnalyzeBinding(var, base + n))
           body  == Then(bound, LAMBDA n : Ignoring(AnalyzeProgn(Tail(args), base + n)))
       IN  Then(body, LAMBDA n : Ok([i \in DOMAIN vars |-> Op("PopLexicalEnv")]))

(* The forms of a tagbody go to one list, with the bytes that bind its     *)
(* tags, each to the place its next form has there, kept aside.            *)
TagbodyForms(items) ==
  Each(items, LAMBDA item, n : IF IsCons(item) THEN AnalyzeForm(item, TRUE, n) ELSE Ok(<<>>))

TagsOf(items) == SelectSeq([i \in DOMAIN items |-> i], LAMBDA i : ~IsCons(items[i]))

TagBytes(items, bump) ==
  LET place(i) == Len(TagbodyForms(SubSeq(items, 1, i)).bytes)
  IN  FlattenSeq([k \in DOMAIN TagsOf(items) |->
        LET i == TagsOf(items)[k]
        IN  <<Push(items[i]), BindTag(place(i) + bump)>>])

(* The tag bytes go before the forms, and their indices are moved past     *)
(* them and past what the list already held; those inside the forms, of a  *)
(* tagbody within, stay as they were.  A failing form ends the analysis    *)
(* early, with the scope entered.                                          *)
AnalyzeTagbody(items, base) ==
  LET forms    == TagbodyForms(items)
      enter    == <<Op("PushLexicalEnv")>>
      tag_size == 2 * Len(TagsOf(items))
      leave    == <<Push(Nil), Op("RetForm"), Op("PopLexicalEnv")>>
  IN  IF items = <<>> THEN Ok(<<Push(Nil)>>)
      ELSE CASE forms.ret = Stop -> Stops
             [] forms.ret = -1   -> Ok(enter)
             [] forms.ret = 0    ->
                  Ok(enter \o TagBytes(items, tag_size + base + 1) \o forms.bytes \o leave)

AnalyzeSpecialForm(name, args, base) ==
  CASE name \in {"GO", "QUOTE"} /\ args = <<>> -> Stops
    [] name = "GO" /\ args # <<>>              -> Ok(<<GoReturn(args[1])>>)
    [] name = "QUOTE" /\ args # <<>>           -> Ok(<<Push(args[1]), Op("RetForm")>>)
    [] name = "LET*"                           -> AnalyzeLetStar(args, base)
    [] name = "PROGN"                          -> AnalyzeProgn(args, base)
    [] name = "TAGBODY"                        -> AnalyzeTagbody(args, base)

(* A call pushes its arguments unevaluated: interpret_function_call        *)
(* compiles each of them when it gets there.                               *)
AnalyzeCall(fn, args, with_ret) ==
  Ok(Returning(<<Push(fn), Op("LookupFunction")>>
               \o [i \in DOMAIN args |-> Push(args[i])]
               \o <<Funcall(Len(args))>>, with_ret))

AnalyzeCons(elements, with_ret, base) ==
  LET car == elements[1]
  IN  CASE car[1] = "cons"                 -> Stops
        [] car[1] \notin {"cons", "symbol"} -> Fails(<<>>)
        [] IsSymbol(car) /\ car[2] \in SpecialForms ->
             AnalyzeSpecialForm(car[2], Tail(elements), base)
        [] IsSymbol(car) /\ car[2] \notin SpecialForms ->
             AnalyzeCall(car, Tail(elements), with_ret)

AnalyzeForm(form, with_ret, base) ==
  CASE IsCons(form)   -> AnalyzeCons(Elements(form), with_ret, base)
    [] IsSymbol(form) -> Ok(Returning(<<Push(form), Op("LookupSymbol")>>, with_ret))
    [] OTHER          -> Ok(Returning(<<Push(form)>>, with_ret))

(* analyze_form on an empty list of bytes, as every caller has it.         *)
Compile(form) == AnalyzeForm(form, TRUE, 0)
=============================================================================
