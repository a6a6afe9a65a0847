------------------------------ MODULE MCLishp -------------------------------
(* Programs within the language as it is meant: what a form leaves is the  *)
(* value of its last form, tags are unique and reached from their own      *)
(* tagbody or its scopes, names are not rebound.                           *)
EXTENDS Lishp, Discipline

A == Sym("A")
B == Sym("B")
X == Sym("X")
True == Sym("T")

Call(name, args) == List(<<Sym(name)>> \o args)
Go(tag)          == Call("GO", <<tag>>)
Quote(form)      == Call("QUOTE", <<form>>)
Let(value, body) == Call("LET*", <<List(<<List(<<X, value>>)>>), body>>)
Progn(a, b)      == Call("PROGN", <<a, b>>)
Say(form)        == Call("FORMAT", <<True, Str("s"), form>>)
Tagbody(items)   == Call("TAGBODY", items)
Quit             == Call("QUIT", <<>>)

(* The items of tagbodies, and those tagbodies whose GOs have a place to   *)
(* go to and, item after item, come to an end.                             *)
Goes  == (Go(A) :> A) @@ (Go(B) :> B) @@ (Let(Fixnum(1), Go(B)) :> B)
Items == {A, B, Say(Fixnum(1))} \cup DOMAIN Goes

Places(items, tag) == {i \in DOMAIN items : items[i] = tag}

WellFormed(items) ==
  /\ \A tag \in {A, B} : Cardinality(Places(items, tag)) <= 1
  /\ \A i \in DOMAIN items : items[i] \in DOMAIN Goes => Places(items, Goes[items[i]]) # {}

ComesToEnd(items) ==
  LET next(i) == IF items[i] \in DOMAIN Goes
                 THEN CHOOSE j \in Places(items, Goes[items[i]]) : TRUE ELSE i + 1
      at[n \in 0 .. Len(items) + 1] ==
        IF n = 0 THEN 1
        ELSE IF at[n - 1] > Len(items) THEN at[n - 1] ELSE next(at[n - 1])
  IN  at[Len(items) + 1] > Len(items)

Bodies(n) ==
  {items \in UNION {[1 .. k -> Items] : k \in 1 .. n} : WellFormed(items) /\ ComesToEnd(items)}

Simple == {Nil, Fixnum(1), Quote(A), Say(Fixnum(1)), Quit}

Composed ==
  LET body == Tagbody(<<Go(A), Say(Nil), A, Say(True)>>)
  IN  {Say(body), Progn(body, Quote(A)), Progn(Say(True), body), Let(Say(body), X),
       Let(Fixnum(1), Progn(body, X)), Say(Let(Fixnum(1), Say(X))),
       Progn(Tagbody(<<Say(body), B>>), True), Tagbody(<<Say(body), Go(B), Say(True), B>>),
       Tagbody(<<Tagbody(<<Say(True), Go(B)>>), Say(Nil), B, Say(True)>>),
       Tagbody(<<Go(B), A, Say(Nil), Go(Fixnum(3)), B, Let(True, Go(A)), Fixnum(3)>>)}

Meant == Simple \cup Composed \cup {Tagbody(items) : items \in Bodies(3)}

(* A list whose second element makes the form stack grow is read through a *)
(* pointer into its old buffer, and may be lost (see LastConsIsLive).  A   *)
(* form that is the third in a list, at the right depth, finds the stack   *)
(* large enough.                                                           *)
ReadInPlace(form) == ~Read(form, 4, Capacity(InitialCapacity, 4)).stale

MaxDepth == 7

Within(form) ==
  LET progn[n \in 0 .. MaxDepth] == IF n = 0 THEN form ELSE Progn(True, progn[n - 1])
  IN  progn

(* Each program is typed within as many progns as that takes.              *)
Depth(form) == CHOOSE n \in 0 .. MaxDepth : ReadInPlace(Within(form)[n])

InPlace == {Within(form)[Depth(form)] : form \in Meant}

(* TLC works out a constant definition once, but what is substituted for a *)
(* CONSTANT again wherever it occurs; so that is only the name of one.     *)
MCPrograms == InPlace

(* The language of these programs: they, and the arguments that are        *)
(* evaluated in the course of them.                                        *)
Pushed(form) == {byte.target : byte \in {b \in Range(Compile(form).bytes) : b.op = "Push"}}

RECURSIVE Closed(_)
Closed(forms) ==
  LET more == forms \cup UNION {Pushed(form) : form \in forms}
  IN  IF more = forms THEN forms ELSE Closed(more)

Spoken     == Closed(InPlace \cup {T, Str("~A~%")})
MCLanguage == Spoken

Analyses == [form \in Spoken |-> Compile(form)]

CompiledOnce(form) == IF form \in Spoken THEN Analyses[form] ELSE Compile(form)

(* The compiler makes disciplined bytecode of all of it.                   *)
ASSUME LanguageIsRight == LanguageHoldsPrograms /\ LanguageIsDisciplined
=============================================================================
