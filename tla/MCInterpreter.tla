--------------------------- MODULE MCInterpreter ----------------------------
(* Programs at and beyond the edges of the language: tagbodies within      *)
(* tagbodies, GOs out of arguments and to nowhere, deep scopes, and what   *)
(* fails an assertion.                                                     *)
EXTENDS Interpreter, Compiler, Reader

A == Sym("A")
B == Sym("B")
True == Sym("T")

Call(name, args) == List(<<Sym(name)>> \o args)
Go(tag)          == Call("GO", <<tag>>)
Quote(form)      == Call("QUOTE", <<form>>)
Say              == Call("FORMAT", <<True, Str("s")>>)
SayAfter(form)   == Call("FORMAT", <<True, Str("s"), form>>)
Tagbody(items)   == Call("TAGBODY", items)
Let(name, value, body) ==
  Call("LET*", <<List(<<List(<<Sym(name), value>>)>>), body>>)
Scopes(n, body) ==
  Call("LET*", <<List([i \in 1 .. n |-> List(<<Sym("P" \o ToString(i)), Nil>>)]), body>>)
Quit        == Call("QUIT", <<>>)

Nested ==
  {Tagbody(<<Tagbody(<<Go(B), Quote(Fixnum(1)), B>>)>>),
   Tagbody(<<A, Tagbody(<<Go(B), Quote(A), B, Quote(B)>>)>>),
   Tagbody(<<Tagbody(<<Go(B), A>>), Say, B>>)}

Leaving ==
  {Tagbody(<<SayAfter(Go(A)), A>>),
   Tagbody(<<SayAfter(SayAfter(Go(A))), Say, A>>),
   Tagbody(<<Call("FORMAT", <<Go(A)>>), Call("FORMAT", <<Go(A)>>), A>>),
   Tagbody(<<Let("X", Go(A), Nil), A>>)}

Empty == {Tagbody(<<>>)}

DeepScopes == {Tagbody(<<Scopes(15, Go(A)), A>>)}

DeepCalls ==
  {Call("FORMAT", <<True, Call("FORMAT", <<True, Str("s")>> \o [i \in 1 .. 24 |-> Fixnum(i)])>>)}

DeepLists == {Quote(List(<<A>>))}

Deep == DeepScopes \cup DeepCalls \cup DeepLists

Failing ==
  {Go(A), A, Call("LIST", <<>>), Call("FORMAT", <<True>>), Call("QUOTE", <<>>),
   List(<<Fixnum(1)>>), Let("X", Quote(A), Say), Tagbody(<<List(<<Fixnum(1)>>)>>),
   Let("FORMAT", True, Sym("FORMAT")), Call("READ", <<>>)}

MCEdges ==
  UNION {Nested, Leaving, Empty, Deep, Failing, {Quit}}

(* What InterpreterProofs asks of the compiler and of the reader, for      *)
(* these forms and for stacks up to the depth they reach.                  *)
ASSUME OperandsAreNumbers ==
  \A form \in MCEdges : \A i \in DOMAIN Compile(form).bytes :
    LET byte == Compile(form).bytes[i]
    IN  /\ byte.op = "Funcall" => byte.arg_count \in Nat
        /\ byte.op = "BindTag" => byte.index \in Nat

ASSUME ReadingGrows ==
  \A form \in MCEdges, size \in 0 .. 16, cap \in 0 .. 32 :
    LET reading == Read(form, size, cap)
    IN  reading.cap \in Nat /\ cap <= reading.cap /\ reading.frames \in Nat
=============================================================================
