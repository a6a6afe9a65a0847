-------------------------- MODULE DisciplineProofs ---------------------------
(***************************************************************************)
(* Disciplined bytecode keeps the stacks in order: whatever is typed       *)
(* within the language, calls take and leave what is theirs, scopes are    *)
(* left, and the REPL prompts with clean stacks.                           *)
(***************************************************************************)
EXTENDS InterpreterProofs, Discipline, FiniteSetTheorems

----------------------------------------------------------------------------
(* The shapes of a bytecode                                                *)

ShapeIs(shape) ==
  /\ shape = Shape(shape.forms, shape.scopes)
  /\ IsSeq(shape.forms) /\ IsSeq(shape.scopes)

(* The first n items are the same.                                         *)
Agree(s, t, n) == \A i \in 1 .. n : s[i] = t[i]

(* ... of a sequence with one more.                                        *)
Reaches(s, t, n) == IsSeq(s) /\ Len(s) = n /\ Agree(s, t, n - 1)

(* ... of a sequence with no more.                                         *)
Cut(s, t, n) == IsSeq(s) /\ Len(s) = n /\ Agree(s, t, n)

LEMMA EmptyIs == IsSeq(<<>>) /\ Len(<<>>) = 0
BY DEF IsSeq

(* An item is put above n - 1 others.                                      *)
LEMMA AddedIs ==
  ASSUME NEW n \in Nat, NEW s, NEW t, IsSeq(t), Len(t) = n - 1,
         \A i \in 1 .. n - 1 : t[i] = s[i], NEW x
  PROVE  Reaches(t \o <<x>>, s, n) /\ (t \o <<x>>)[n] = x
<1> DEFINE u == t \o <<x>>
<1>1. IsSeq(<<x>>) /\ Len(<<x>>) = 1 /\ <<x>>[1] = x
  BY SingleIs
<1>2. /\ IsSeq(u) /\ Len(u) = n - 1 + 1
      /\ \A i \in 1 .. n - 1 + 1 : u[i] = IF i <= n - 1 THEN t[i] ELSE <<x>>[i - (n - 1)]
  <2> DEFINE one == <<x>>
  <2> HIDE DEF one
  <2>1. IsSeq(one) /\ Len(one) = 1
    BY <1>1 DEF one
  <2>2. /\ IsSeq(t \o one) /\ Len(t \o one) = Len(t) + Len(one)
        /\ \A i \in 1 .. Len(t) + Len(one) :
             (t \o one)[i] = IF i <= Len(t) THEN t[i] ELSE one[i - Len(t)]
    BY <2>1, ConcatIs, Zenon
  <2> QED  BY <2>1, <2>2, Zenon DEF one
<1> HIDE DEF u
<1>3. n >= 1
  BY <1>2, SeqIs
<1>4. Len(u) = n /\ n \in 1 .. n - 1 + 1 /\ ~(n <= n - 1) /\ n - (n - 1) = 1
  BY <1>2, <1>3
<1>5. \A i \in 1 .. n - 1 : i \in 1 .. n - 1 + 1 /\ i <= n - 1
  OBVIOUS
<1>6. Reaches(u, s, n)
  BY <1>2, <1>4, <1>5 DEF Reaches, Agree
<1>7. u[n] = x
  BY <1>1, <1>2, <1>4
<1> QED  BY <1>6, <1>7 DEF u

(* What a byte makes of a shape is a shape.                                *)
LEMMA AfterIs ==
  ASSUME NEW byte, byte.op = "Funcall" => byte.arg_count \in Nat,
         NEW shape, ShapeIs(shape)
  PROVE  ShapeIs(After(byte, shape))
<1>1. Taken(byte) \in Nat
  BY DEF Taken
<1>2. IsSeq(Given(byte))
  BY EmptyIs, SingleIs DEF Given
<1>3. IsSeq(DropLast(shape.forms, Taken(byte)) \o Given(byte))
  <2>1. IsSeq(DropLast(shape.forms, Taken(byte)))
    BY <1>1, DropLastIs DEF ShapeIs
  <2> QED  BY <1>2, <2>1, ConcatIs
<1>4. IsSeq(ScopesAfter(byte, shape))
  <2>1. CASE byte.op = "PushLexicalEnv"
    BY <2>1, AppendIs DEF ScopesAfter, ShapeIs
  <2>2. CASE byte.op = "PopLexicalEnv"
    BY <2>2, DropLastIs DEF ScopesAfter, ShapeIs
  <2>3. CASE byte.op = "BindTag"
    <3> DEFINE last == Len(shape.scopes)
               tags == Inserted(shape.scopes[last], Last(shape.forms), byte.index)
    <3>1. ScopesAfter(byte, shape) = [shape.scopes EXCEPT ![last] = tags]
      BY <2>3 DEF ScopesAfter
    <3> HIDE DEF last, tags
    <3>2. IsSeq(shape.scopes)
      BY DEF ShapeIs
    <3>3. IsSeq([shape.scopes EXCEPT ![last] = tags])
      BY <3>2, ExceptIs
    <3> QED  BY <3>1, <3>3, Zenon
  <2>4. CASE byte.op \notin {"PushLexicalEnv", "PopLexicalEnv", "BindTag"}
    BY <2>4 DEF ScopesAfter, ShapeIs
  <2> QED  BY <2>1, <2>2, <2>3, <2>4
<1> QED  BY <1>3, <1>4 DEF After, Shape, ShapeIs

(* The recursion of Shapes is well founded, and all of them are shapes.    *)
LEMMA ShapesAre ==
  ASSUME NEW bytes, TypedBytes(bytes)
  PROVE  /\ DOMAIN Shapes(bytes) = 0 .. Len(bytes)
         /\ Shapes(bytes)[0] = Entered
         /\ \A i \in 1 .. Len(bytes) : Shapes(bytes)[i] = After(bytes[i], Shapes(bytes)[i - 1])
         /\ \A i \in 0 .. Len(bytes) : ShapeIs(Shapes(bytes)[i])
<1> DEFINE n == Len(bytes)
           Next1(i, x) == After(bytes[i], x)
           Is(f, m) == f = [i \in 0 .. m |-> IF i = 0 THEN Entered ELSE Next1(i, f[i - 1])]
           Bad == {m \in 0 .. n : ~\E f : Is(f, m)}
           shape == CHOOSE f : Is(f, n)
<1>1. n \in Nat
  BY SeqIs DEF TypedBytes
<1>2. Shapes(bytes) = shape
  BY DEF Shapes
<1>3. ASSUME NEW i \in 1 .. n, NEW x, ShapeIs(x)  PROVE ShapeIs(Next1(i, x))
  BY <1>3, AfterIs DEF TypedBytes
<1>4. ShapeIs(Entered)
  BY EmptyIs DEF Entered, Shape, ShapeIs
<1> HIDE DEF n, Next1
<1>5. Bad = {}
  <2> SUFFICES ASSUME Bad # {}  PROVE FALSE
    OBVIOUS
  <2>1. Bad \subseteq Nat
    BY <1>1
  <2>2. PICK m \in Bad : \A k \in Bad : m <= k
    <3> HIDE DEF Bad
    <3> QED  BY <2>1, LeastIs
  <2>3. m \in 0 .. n /\ ~\E f : Is(f, m)
    OBVIOUS
  <2>4. m # 0
    <3> SUFFICES ASSUME m = 0  PROVE FALSE
      OBVIOUS
    <3> DEFINE f == [i \in 0 .. m |-> Entered]
    <3>1. f = [i \in 0 .. m |-> IF i = 0 THEN Entered ELSE Next1(i, f[i - 1])]
      OBVIOUS
    <3> HIDE DEF f
    <3> QED  BY <2>3, <3>1
  <2>5. m - 1 \in 0 .. n /\ m - 1 \notin Bad
    <3>1. m \in 0 .. n /\ m # 0 /\ ~(m <= m - 1)
      BY <1>1, <2>3, <2>4
    <3> HIDE DEF Bad
    <3> QED  BY <1>1, <2>2, <3>1
  <2>6. PICK f : Is(f, m - 1)
    BY <2>5
  <2> DEFINE g == [i \in 0 .. m |-> IF i < m THEN f[i] ELSE Next1(m, f[m - 1])]
  <2>7. \A i \in 0 .. m - 1 : f[i] = IF i = 0 THEN Entered ELSE Next1(i, f[i - 1])
    BY <2>6
  <2>8. \A i \in 0 .. m : g[i] = IF i = 0 THEN Entered ELSE Next1(i, g[i - 1])
    <3> SUFFICES ASSUME NEW i \in 0 .. m
                 PROVE  g[i] = IF i = 0 THEN Entered ELSE Next1(i, g[i - 1])
      OBVIOUS
    <3>1. m \in Nat /\ i \in Nat /\ m # 0
      BY <1>1, <2>3, <2>4
    <3>2. CASE i = m
      <4>1. g[i] = Next1(m, f[m - 1]) /\ g[i - 1] = f[m - 1]
        BY <3>1, <3>2
      <4> HIDE DEF g
      <4> QED  BY <3>1, <3>2, <4>1
    <3>3. CASE i # m
      <4>1. i \in 0 .. m - 1 /\ g[i] = f[i] /\ (i # 0 => g[i - 1] = f[i - 1])
        BY <3>1, <3>3
      <4> HIDE DEF g
      <4> QED  BY <2>7, <4>1
    <3> QED  BY <3>2, <3>3
  <2>9. Is(g, m)
    <3>1. g = [i \in 0 .. m |-> g[i]]
      OBVIOUS
    <3> HIDE DEF g
    <3> QED  BY <2>8, <3>1
  <2> QED  BY <2>3, <2>9
<1>6. Is(shape, n)
  <2>1. n \in 0 .. n
    BY <1>1
  <2>2. \E f : Is(f, n)
    BY <1>5, <2>1
  <2> QED  BY <2>2
<1> HIDE DEF shape
<1>7. /\ DOMAIN shape = 0 .. n /\ shape[0] = Entered
      /\ \A i \in 1 .. n : shape[i] = Next1(i, shape[i - 1])
  BY <1>1, <1>6
<1> DEFINE Wrong == {i \in 0 .. n : ~ShapeIs(shape[i])}
<1>8. Wrong = {}
  <2> SUFFICES ASSUME Wrong # {}  PROVE FALSE
    OBVIOUS
  <2>1. Wrong \subseteq Nat
    BY <1>1
  <2>2. PICK i \in Wrong : \A k \in Wrong : i <= k
    <3> HIDE DEF Wrong
    <3> QED  BY <2>1, LeastIs
  <2>3. i # 0
    BY <1>4, <1>7
  <2>4. i \in 1 .. n /\ i - 1 \in 0 .. n /\ ~(i <= i - 1)
    BY <1>1, <2>3
  <2>5. ShapeIs(shape[i - 1])
    <3>1. i - 1 \notin Wrong
      <4> HIDE DEF Wrong
      <4> QED  BY <2>2, <2>4
    <3> QED  BY <2>4, <3>1
  <2>6. ShapeIs(shape[i])
    BY <1>3, <1>7, <2>4, <2>5
  <2> QED  BY <2>6
<1> QED  BY <1>2, <1>7, <1>8 DEF n, Next1

----------------------------------------------------------------------------
(* The invariant                                                           *)

TagsAt(env, bindings) == IF env \in DOMAIN bindings THEN bindings[env] ELSE << >>

(* The frames, each with the tags that are bound in its environment.       *)
View(frames, bindings) ==
  [i \in DOMAIN frames |->
     [source |-> frames[i].source, tags |-> TagsAt(frames[i].env, bindings)]]

(* From f0 to f1 the forms, and from r0 to r1 the frames, are as the shape *)
(* says.                                                                   *)
FormsFill(known, f0, f1, forms) ==
  /\ f1 = f0 + Len(known)
  /\ \A k \in 1 .. Len(known) : known[k] # Unknown => forms[f0 + k] = known[k]

ScopesFill(tags, r0, r1, view) ==
  /\ r1 = r0 + Len(tags)
  /\ \A k \in 1 .. Len(tags) : view[r0 + k].source = "bytes" /\ view[r0 + k].tags = tags[k]

Fills(shape, f0, f1, r0, r1, forms, view) ==
  FormsFill(shape.forms, f0, f1, forms) /\ ScopesFill(shape.scopes, r0, r1, view)

BytesLaid(act, f0, f1, r0, r1, forms, view) ==
  /\ TypedBytes(act.bytes) /\ Disciplined(act.bytes)
  /\ act.index \in 0 .. Len(act.bytes)
  /\ Fills(Shapes(act.bytes)[act.index], f0, f1, r0, r1, forms, view)

(* A call has one form of its own, the list of the arguments evaluated so  *)
(* far, and one frame; below it are the function and the arguments.        *)
CallLaid(act, f0, f1, r0, r1, forms, view) ==
  /\ act.fn_index \in Nat /\ act.arg_count \in Nat /\ act.arg_i \in Nat
  /\ f0 = act.fn_index + act.arg_count + 1 /\ f1 = f0 + 1
  /\ \A k \in 1 .. act.arg_count : forms[act.fn_index + 1 + k] \in Language
  /\ r1 = r0 + 1 /\ view[r1].source = "funcall"

ActLaid(act, f0, f1, r0, r1, forms, view) ==
  \/ act.kind = "bytes" /\ BytesLaid(act, f0, f1, r0, r1, forms, view)
  \/ act.kind = "call" /\ CallLaid(act, f0, f1, r0, r1, forms, view)

(* Calls run bytecode, and bytecode calls where it has a Funcall.          *)
Follows(act, caller) ==
  \/ caller.kind = "call" /\ act.kind = "bytes"
  \/ /\ caller.kind = "bytes" /\ act.kind = "call"
     /\ caller.index < Len(caller.bytes)
     /\ caller.bytes[caller.index + 1].op = "Funcall"
     /\ caller.bytes[caller.index + 1].arg_count = act.arg_count

(* The activations have the stacks to themselves, one above the other,     *)
(* activation j the forms above f[j] and the frames above r[j]; below all  *)
(* of them is the REPL's call, and its call of READ or of FORMAT.          *)
Laid(f, r, xs, forms, view) ==
  /\ f \in [1 .. Len(xs) + 1 -> Nat] /\ r \in [1 .. Len(xs) + 1 -> Nat]
  /\ 2 <= f[1] /\ f[1] = (IF xs = <<>> THEN 2 ELSE 3 + xs[1].arg_count) /\ r[1] = 2
  /\ f[Len(xs) + 1] = Len(forms) /\ r[Len(xs) + 1] = Len(view)
  /\ forms[1] = Function("REPL") /\ forms[2] = Nil
  /\ view[1].source = "base" /\ view[2].source = "funcall"
  /\ \A j \in 1 .. Len(xs) : ActLaid(xs[j], f[j], f[j + 1], r[j], r[j + 1], forms, view)
  /\ \A j \in 1 .. Len(xs) - 1 : Follows(xs[j + 1], xs[j])

Going == repl \in {"prompt", "reading", "printing"}

LayoutInv ==
  Going => \E f, r : Laid(f, r, acts, form_stack, View(frame_stack, environment_bindings))

(* Below the REPL's calls nothing runs, and it prints what was typed.      *)
ReplInv ==
  /\ repl = "prompt" => acts = <<>>
  /\ repl = "reading" /\ acts = <<>> => ReadForm \in Language

(* No two frames share an environment, and only bytecode binds tags.       *)
ScopesInv ==
  /\ \A i, j \in 1 .. Len(frame_stack) : frame_stack[i].env = frame_stack[j].env => i = j
  /\ TagsBelongToBytecode

DInv == IInv /\ LayoutInv /\ ReplInv /\ ScopesInv

----------------------------------------------------------------------------
(* Layouts                                                                 *)

LEMMA ActGrows ==
  ASSUME NEW act, NEW f0 \in Nat, NEW f1, NEW r0 \in Nat, NEW r1, NEW forms, NEW view,
         ActLaid(act, f0, f1, r0, r1, forms, view)
  PROVE  f1 \in Nat /\ f0 <= f1 /\ r1 \in Nat /\ r0 <= r1
<1>1. CASE act.kind = "bytes" /\ BytesLaid(act, f0, f1, r0, r1, forms, view)
  <2> DEFINE shape == Shapes(act.bytes)[act.index]
  <2>1. ShapeIs(shape)
    BY <1>1, ShapesAre DEF BytesLaid
  <2>2. Fills(shape, f0, f1, r0, r1, forms, view)
    BY <1>1 DEF BytesLaid
  <2> HIDE DEF shape
  <2>3. Len(shape.forms) \in Nat /\ Len(shape.scopes) \in Nat
    BY <2>1, SeqIs DEF ShapeIs
  <2> QED  BY <2>2, <2>3 DEF Fills, FormsFill, ScopesFill
<1>2. CASE act.kind = "call" /\ CallLaid(act, f0, f1, r0, r1, forms, view)
  BY <1>2 DEF CallLaid
<1> QED  BY <1>1, <1>2 DEF ActLaid

(* A layout rises from each activation to those above it.                  *)
LEMMA Rises ==
  ASSUME NEW n \in Nat, NEW f \in [1 .. n + 1 -> Nat],
         \A j \in 1 .. n : f[j] <= f[j + 1],
         NEW i \in 1 .. n + 1, NEW j \in 1 .. n + 1, i <= j
  PROVE  f[i] <= f[j]
<1> DEFINE Low == {k \in i .. n + 1 : f[k] < f[i]}
<1>1. Low = {}
  <2> SUFFICES ASSUME Low # {}  PROVE FALSE
    OBVIOUS
  <2>1. Low \subseteq Nat
    OBVIOUS
  <2>2. PICK k \in Low : \A x \in Low : k <= x
    <3> HIDE DEF Low
    <3> QED  BY <2>1, LeastIs
  <2>3. k \in i .. n + 1 /\ f[k] < f[i] /\ k # i
    OBVIOUS
  <2>4. k - 1 \in i .. n + 1 /\ k - 1 \in 1 .. n /\ ~(k <= k - 1)
    BY <2>3
  <2>5. k - 1 \notin Low
    <3> HIDE DEF Low
    <3> QED  BY <2>2, <2>4
  <2>6. f[i] <= f[k - 1] /\ f[k - 1] <= f[k]
    <3>1. f[k - 1] <= f[k - 1 + 1] /\ k - 1 + 1 = k
      BY <2>3, <2>4
    <3>2. ~(f[k - 1] < f[i])
      BY <2>4, <2>5
    <3>3. f[i] \in Nat /\ f[k - 1] \in Nat
      BY <2>4
    <3> QED  BY <3>1, <3>2, <3>3
  <2> QED  BY <2>3, <2>4, <2>6
<1>2. j \in i .. n + 1 /\ f[i] \in Nat /\ f[j] \in Nat
  OBVIOUS
<1>3. ~(f[j] < f[i])
  BY <1>1, <1>2
<1> QED  BY <1>2, <1>3

LEMMA LayoutRises ==
  ASSUME NEW f, NEW r, NEW xs, IsSeq(xs), NEW forms, NEW view, Laid(f, r, xs, forms, view),
         NEW i \in 1 .. Len(xs) + 1, NEW j \in 1 .. Len(xs) + 1, i <= j
  PROVE  f[i] <= f[j] /\ r[i] <= r[j]
<1> DEFINE n == Len(xs)
<1>1. n \in Nat
  BY SeqIs
<1>2. /\ f \in [1 .. n + 1 -> Nat] /\ r \in [1 .. n + 1 -> Nat]
      /\ \A k \in 1 .. n : ActLaid(xs[k], f[k], f[k + 1], r[k], r[k + 1], forms, view)
  BY DEF Laid
<1>3. i \in 1 .. n + 1 /\ j \in 1 .. n + 1
  OBVIOUS
<1> HIDE DEF n
<1>4. ASSUME NEW k \in 1 .. n  PROVE f[k] <= f[k + 1] /\ r[k] <= r[k + 1]
  <2>1. f[k] \in Nat /\ r[k] \in Nat
    BY <1>1, <1>2
  <2> QED  BY <1>2, <2>1, ActGrows
<1> QED  BY <1>1, <1>2, <1>3, <1>4, Rises

(* What is above an activation does not concern it.                        *)
LEMMA ActStays ==
  ASSUME NEW act, NEW f0 \in Nat, NEW f1, NEW r0 \in Nat, NEW r1, NEW forms, NEW view,
         ActLaid(act, f0, f1, r0, r1, forms, view),
         NEW forms2, NEW view2,
         Agree(forms2, forms, f1), Agree(view2, view, r1)
  PROVE  ActLaid(act, f0, f1, r0, r1, forms2, view2)
<1>1. CASE act.kind = "bytes" /\ BytesLaid(act, f0, f1, r0, r1, forms, view)
  <2> DEFINE shape == Shapes(act.bytes)[act.index]
  <2>1. ShapeIs(shape)
    BY <1>1, ShapesAre DEF BytesLaid
  <2>2. Fills(shape, f0, f1, r0, r1, forms, view)
    BY <1>1 DEF BytesLaid
  <2> HIDE DEF shape
  <2>3. Len(shape.forms) \in Nat /\ Len(shape.scopes) \in Nat
    BY <2>1, SeqIs DEF ShapeIs
  <2>4. /\ \A k \in 1 .. Len(shape.forms) : forms2[f0 + k] = forms[f0 + k]
        /\ \A k \in 1 .. Len(shape.scopes) : view2[r0 + k] = view[r0 + k]
    <3>1. f1 = f0 + Len(shape.forms) /\ r1 = r0 + Len(shape.scopes)
      BY <2>2 DEF Fills, FormsFill, ScopesFill
    <3>2. \A k \in 1 .. Len(shape.forms) : f0 + k \in 1 .. f1
      BY <2>3, <3>1
    <3>3. \A k \in 1 .. Len(shape.scopes) : r0 + k \in 1 .. r1
      BY <2>3, <3>1
    <3> QED  BY <3>2, <3>3 DEF Agree
  <2>5. Fills(shape, f0, f1, r0, r1, forms2, view2)
    BY <2>2, <2>4 DEF Fills, FormsFill, ScopesFill
  <2> QED  BY <1>1, <2>5 DEF ActLaid, BytesLaid, shape
<1>2. CASE act.kind = "call" /\ CallLaid(act, f0, f1, r0, r1, forms, view)
  <2>1. \A k \in 1 .. act.arg_count : forms2[act.fn_index + 1 + k] = forms[act.fn_index + 1 + k]
    <3>1. \A k \in 1 .. act.arg_count : act.fn_index + 1 + k \in 1 .. f1
      BY <1>2 DEF CallLaid
    <3> QED  BY <3>1 DEF Agree
  <2>2. view2[r1] = view[r1]
    <3>1. r1 \in 1 .. r1
      BY <1>2 DEF CallLaid
    <3> QED  BY <3>1 DEF Agree
  <2> QED  BY <1>2, <2>1, <2>2 DEF ActLaid, CallLaid
<1> QED  BY <1>1, <1>2 DEF ActLaid

IsPlace(m, xs) == 1 <= m /\ m <= Len(xs) + 1

OnItsCaller(m, xs, f) ==
  IF m = 1 THEN f[1] = 3 + xs[1].arg_count ELSE Follows(xs[m], xs[m - 1])

Keeps(m, f, s, t) == IsSeq(s) /\ Agree(s, t, f[m])

TopIsLaid(m, f, r, xs, forms, view) ==
  ActLaid(xs[m], f[m], Len(forms), r[m], Len(view), forms, view)

(* The activation at place m is another, or goes on, and what was above it *)
(* is gone.                                                                *)
LEMMA Relaid ==
  ASSUME NEW f, NEW r, NEW xs, IsSeq(xs), NEW forms, NEW view, Laid(f, r, xs, forms, view),
         NEW m \in Nat, IsPlace(m, xs),
         NEW ys, Reaches(ys, xs, m),
         NEW forms2, Keeps(m, f, forms2, forms), NEW view2, Keeps(m, r, view2, view),
         TopIsLaid(m, f, r, ys, forms2, view2),
         OnItsCaller(m, ys, f)
  PROVE  \E f2, r2 : Laid(f2, r2, ys, forms2, view2)
<1> DEFINE n  == Len(xs)
           f1 == Len(forms2)
           r1 == Len(view2)
           f2 == [i \in 1 .. m + 1 |-> IF i <= m THEN f[i] ELSE f1]
           r2 == [i \in 1 .. m + 1 |-> IF i <= m THEN r[i] ELSE r1]
<1>0. n \in Nat /\ f1 \in Nat /\ r1 \in Nat
  BY SeqIs DEF Keeps
<1>1. 1 <= m /\ m <= n + 1
  BY DEF IsPlace
<1>2. /\ \A i \in 1 .. n + 1 : f[i] \in Nat /\ r[i] \in Nat
      /\ 2 <= f[1] /\ (n # 0 => f[1] = 3 + xs[1].arg_count) /\ r[1] = 2
      /\ forms[1] = Function("REPL") /\ forms[2] = Nil
      /\ view[1].source = "base" /\ view[2].source = "funcall"
      /\ \A x \in 1 .. n : ActLaid(xs[x], f[x], f[x + 1], r[x], r[x + 1], forms, view)
      /\ \A x \in 1 .. n - 1 : Follows(xs[x + 1], xs[x])
  BY EmptyIs DEF Laid
<1>3. \A i, x \in 1 .. n + 1 : i <= x => f[i] <= f[x] /\ r[i] <= r[x]
  BY LayoutRises
<1> HIDE DEF n, f1, r1
<1>4. f2 \in [1 .. m + 1 -> Nat] /\ r2 \in [1 .. m + 1 -> Nat]
  BY <1>0, <1>1, <1>2
<1>5. /\ \A i \in 1 .. m : f2[i] = f[i] /\ r2[i] = r[i]
      /\ f2[m + 1] = f1 /\ r2[m + 1] = r1
  BY <1>1
<1> HIDE DEF f2, r2
<1>6. \A i \in 1 .. m : f[i] <= f[m] /\ r[i] <= r[m]
  BY <1>0, <1>1, <1>3
<1>7. ys # <<>>
  <2>1. m # 0 /\ Len(ys) = m
    BY <1>1 DEF Reaches
  <2> QED  BY <2>1, EmptyIs
<1>8. 2 <= f2[1] /\ f2[1] = 3 + ys[1].arg_count /\ r2[1] = 2
  <2>1. 2 <= f[1] /\ r[1] = 2 /\ 1 \in 1 .. m
    BY <1>1, <1>2
  <2>2. f[1] = 3 + ys[1].arg_count
    <3>1. CASE m = 1
      BY <3>1 DEF OnItsCaller
    <3>2. CASE m # 1
      <4>1. 1 \in 1 .. m - 1 /\ n # 0
        BY <1>0, <1>1, <3>2
      <4>2. ys[1] = xs[1]
        BY <4>1 DEF Agree, Reaches
      <4> QED  BY <1>2, <4>1, <4>2
    <3> QED  BY <3>1, <3>2
  <2> QED  BY <1>5, <2>1, <2>2
<1>9. 2 <= f[m] /\ 2 <= r[m]
  <2>1. 1 \in 1 .. m /\ 2 <= f[1] /\ r[1] = 2
    BY <1>1, <1>2
  <2>2. 1 \in 1 .. n + 1 /\ m \in 1 .. n + 1
    BY <1>0, <1>1
  <2> QED  BY <1>2, <1>6, <2>1, <2>2
<1>10. /\ forms2[1] = Function("REPL") /\ forms2[2] = Nil
       /\ view2[1].source = "base" /\ view2[2].source = "funcall"
  <2>1. 1 \in 1 .. f[m] /\ 2 \in 1 .. f[m] /\ 1 \in 1 .. r[m] /\ 2 \in 1 .. r[m]
    <3>1. m \in 1 .. n + 1 /\ f[m] \in Nat /\ r[m] \in Nat
      BY <1>0, <1>1, <1>2
    <3> QED  BY <1>9, <3>1
  <2> QED  BY <1>2, <2>1 DEF Agree, Keeps
<1>11. ASSUME NEW j \in 1 .. m
       PROVE  ActLaid(ys[j], f2[j], f2[j + 1], r2[j], r2[j + 1], forms2, view2)
  <2>1. CASE j = m
    <3>1. f2[j] = f[m] /\ r2[j] = r[m] /\ f2[j + 1] = f1 /\ r2[j + 1] = r1
      BY <1>1, <1>5, <2>1
    <3> QED  BY <2>1, <3>1 DEF TopIsLaid, f1, r1
  <2>2. CASE j # m
    <3>1. j \in 1 .. m - 1 /\ j + 1 \in 1 .. m /\ j \in 1 .. n
      BY <1>0, <1>1, <2>2
    <3>2. ActLaid(xs[j], f[j], f[j + 1], r[j], r[j + 1], forms, view)
      BY <1>2, <3>1
    <3>3. f[j] \in Nat /\ r[j] \in Nat /\ f[j + 1] \in Nat /\ r[j + 1] \in Nat
          /\ f[m] \in Nat /\ r[m] \in Nat
      <4>1. j \in 1 .. n + 1 /\ j + 1 \in 1 .. n + 1 /\ m \in 1 .. n + 1
        BY <1>0, <1>1, <3>1
      <4> QED  BY <1>2, <4>1
    <3>4. Agree(forms2, forms, f[j + 1]) /\ Agree(view2, view, r[j + 1])
      <4>1. f[j + 1] <= f[m] /\ r[j + 1] <= r[m]
        BY <1>6, <3>1
      <4>2. (\A k \in 1 .. f[j + 1] : k \in 1 .. f[m]) /\ (\A k \in 1 .. r[j + 1] : k \in 1 .. r[m])
        BY <3>3, <4>1
      <4> QED  BY <4>2 DEF Agree, Keeps
    <3>5. ActLaid(xs[j], f[j], f[j + 1], r[j], r[j + 1], forms2, view2)
      BY <3>2, <3>3, <3>4, ActStays
    <3>6. ys[j] = xs[j]
      BY <3>1 DEF Agree, Reaches
    <3>7. f2[j] = f[j] /\ r2[j] = r[j] /\ f2[j + 1] = f[j + 1] /\ r2[j + 1] = r[j + 1]
      BY <1>5, <3>1
    <3> QED  BY <3>5, <3>6, <3>7
  <2> QED  BY <2>1, <2>2
<1>12. ASSUME NEW j \in 1 .. m - 1
       PROVE  Follows(ys[j + 1], ys[j])
  <2>1. CASE j = m - 1
    <3>1. m # 1 /\ j + 1 = m
      BY <1>1, <2>1
    <3> QED  BY <2>1, <3>1 DEF OnItsCaller
  <2>2. CASE j # m - 1
    <3>1. j + 1 \in 1 .. m - 1 /\ j \in 1 .. n - 1
      BY <1>0, <1>1, <2>2
    <3>2. Follows(xs[j + 1], xs[j])
      BY <1>2, <3>1
    <3>3. ys[j + 1] = xs[j + 1] /\ ys[j] = xs[j]
      BY <1>1, <3>1 DEF Agree, Reaches
    <3> QED  BY <3>2, <3>3
  <2> QED  BY <2>1, <2>2
<1>13. Len(ys) = m
  BY DEF Reaches
<1>14. Laid(f2, r2, ys, forms2, view2)
  <2>1. f2[m + 1] = Len(forms2) /\ r2[m + 1] = Len(view2)
    BY <1>5 DEF f1, r1
  <2> QED  BY <1>4, <1>7, <1>8, <1>10, <1>11, <1>12, <1>13, <2>1, Zenon DEF Laid
<1> QED  BY <1>14

(* Nothing runs but the REPL.                                              *)
LEMMA NothingLaid ==
  ASSUME NEW forms, NEW view, Len(forms) = 2, Len(view) = 2,
         forms[1] = Function("REPL"), forms[2] = Nil,
         view[1].source = "base", view[2].source = "funcall"
  PROVE  \E f, r : Laid(f, r, <<>>, forms, view)
<1> DEFINE two == [i \in 1 .. 1 |-> 2]
<1>1. two \in [1 .. Len(<<>>) + 1 -> Nat] /\ two[1] = 2 /\ Len(<<>>) = 0
  BY EmptyIs
<1> HIDE DEF two
<1>2. Laid(two, two, <<>>, forms, view)
  BY <1>1 DEF Laid
<1> QED  BY <1>2

(* The REPL calls a function.                                              *)
LEMMA FirstLaid ==
  ASSUME NEW act, act.arg_count \in Nat, NEW forms, IsSeq(forms), NEW view, Len(view) = 3,
         Len(forms) = 4 + act.arg_count,
         forms[1] = Function("REPL"), forms[2] = Nil,
         view[1].source = "base", view[2].source = "funcall",
         ActLaid(act, 3 + act.arg_count, Len(forms), 2, 3, forms, view)
  PROVE  \E f, r : Laid(f, r, <<act>>, forms, view)
<1> DEFINE n  == act.arg_count
           f1 == Len(forms)
           f == [i \in 1 .. 2 |-> IF i = 1 THEN 3 + n ELSE f1]
           r == [i \in 1 .. 2 |-> IF i = 1 THEN 2 ELSE 3]
           xs == <<act>>
<1>1. IsSeq(xs) /\ Len(xs) = 1 /\ xs[1] = act
  BY SingleIs
<1>2. f1 \in Nat /\ n \in Nat
  BY SeqIs
<1>3. /\ f \in [1 .. 1 + 1 -> Nat] /\ f[1] = 3 + n /\ f[1 + 1] = f1 /\ 2 <= f[1]
      /\ r \in [1 .. 1 + 1 -> Nat] /\ r[1] = 2 /\ r[1 + 1] = 3
  <2> HIDE DEF n, f1
  <2> QED  BY <1>2
<1>4. xs # <<>>
  BY <1>1, EmptyIs
<1>5. ASSUME NEW j \in 1 .. 1
      PROVE  ActLaid(xs[j], f[j], f[j + 1], r[j], r[j + 1], forms, view)
  <2>1. j = 1
    OBVIOUS
  <2> HIDE DEF f, r, xs
  <2> QED  BY <1>1, <1>3, <2>1 DEF n, f1
<1>6. \A j \in 1 .. 1 - 1 : Follows(xs[j + 1], xs[j])
  OBVIOUS
<1>7. f[1] = 3 + xs[1].arg_count
  BY <1>1, <1>3
<1> HIDE DEF f, r, xs
<1>8. Laid(f, r, xs, forms, view)
  BY <1>1, <1>3, <1>4, <1>5, <1>6, <1>7, Zenon DEF Laid, f1
<1> QED  BY <1>8 DEF xs

----------------------------------------------------------------------------
(* What a byte does to the stacks and to the shape                         *)

LEMMA NoneDropped ==
  ASSUME NEW s, IsSeq(s)
  PROVE  DropLast(s, 0) = s /\ DropLast(s, 0) \o <<>> = s
<1>1. PICK S : s \in Seq(S)
  BY DEF IsSeq
<1>2. Len(s) - 0 = Len(s)
  BY <1>1, LenProperties
<1>3. DropLast(s, 0) = s
  BY <1>1, <1>2, SubSeqFull DEF DropLast
<1> QED  BY <1>1, <1>3, ConcatEmptySeq

LEMMA FormsReplaced ==
  ASSUME NEW known, IsSeq(known), NEW f0 \in Nat, NEW forms, IsSeq(forms),
         FormsFill(known, f0, Len(forms), forms),
         NEW n \in Nat, n <= Len(known),
         NEW given, IsSeq(given), NEW new, IsSeq(new), FormsFill(given, 0, Len(new), new)
  PROVE  LET forms2 == DropLast(forms, n) \o new
         IN  /\ IsSeq(forms2) /\ Agree(forms2, forms, f0)
             /\ FormsFill(DropLast(known, n) \o given, f0, Len(forms2), forms2)
<1> DEFINE len == Len(known)
           more == Len(given)
           all == Len(forms)
           forms2 == DropLast(forms, n) \o new
           known2 == DropLast(known, n) \o given
<1>1. len \in Nat /\ more \in Nat /\ n <= len
  BY SeqIs
<1>2. /\ all = f0 + len /\ all \in Nat
      /\ \A k \in 1 .. len : known[k] # Unknown => forms[f0 + k] = known[k]
  BY <1>1 DEF FormsFill
<1>3. Len(new) = more /\ \A k \in 1 .. more : given[k] # Unknown => new[k] = given[k]
  <2>1. Len(new) = 0 + more /\ \A k \in 1 .. more : 0 + k = k
    BY <1>1 DEF FormsFill
  <2> QED  BY <1>1, <2>1 DEF FormsFill
<1>4. n <= all
  <2> HIDE DEF len, all
  <2> QED  BY <1>1, <1>2
<1>5. /\ IsSeq(DropLast(known, n)) /\ Len(DropLast(known, n)) = len - n
      /\ \A i \in 1 .. len - n : DropLast(known, n)[i] = known[i]
  BY DropLastIs
<1>6. /\ IsSeq(DropLast(forms, n)) /\ Len(DropLast(forms, n)) = all - n
      /\ \A i \in 1 .. all - n : DropLast(forms, n)[i] = forms[i]
  BY <1>4, DropLastIs
<1>7. /\ IsSeq(known2) /\ Len(known2) = len - n + more
      /\ \A i \in 1 .. len - n + more :
           known2[i] = IF i <= len - n THEN DropLast(known, n)[i] ELSE given[i - (len - n)]
  <2> DEFINE kept == DropLast(known, n)
  <2> HIDE DEF kept
  <2>1. IsSeq(kept) /\ IsSeq(given) /\ Len(kept) = len - n
    BY <1>5 DEF kept
  <2>2. /\ IsSeq(kept \o given) /\ Len(kept \o given) = Len(kept) + Len(given)
        /\ \A i \in 1 .. Len(kept) + Len(given) :
             (kept \o given)[i] = IF i <= Len(kept) THEN kept[i] ELSE given[i - Len(kept)]
    BY <2>1, ConcatIs, Zenon
  <2> QED  BY <2>1, <2>2, Zenon DEF kept
<1>8. /\ IsSeq(forms2) /\ Len(forms2) = all - n + more
      /\ \A i \in 1 .. all - n + more :
           forms2[i] = IF i <= all - n THEN DropLast(forms, n)[i] ELSE new[i - (all - n)]
  <2> DEFINE kept == DropLast(forms, n)
  <2> HIDE DEF kept
  <2>1. IsSeq(kept) /\ IsSeq(new) /\ Len(kept) = all - n /\ Len(new) = more
    BY <1>3, <1>6 DEF kept
  <2>2. /\ IsSeq(kept \o new) /\ Len(kept \o new) = Len(kept) + Len(new)
        /\ \A i \in 1 .. Len(kept) + Len(new) :
             (kept \o new)[i] = IF i <= Len(kept) THEN kept[i] ELSE new[i - Len(kept)]
    BY <2>1, ConcatIs, Zenon
  <2> QED  BY <2>1, <2>2, Zenon DEF kept
<1> HIDE DEF len, more, all, forms2, known2
<1>9. Agree(forms2, forms, f0)
  <2> SUFFICES ASSUME NEW i \in 1 .. f0  PROVE forms2[i] = forms[i]
    BY DEF Agree
  <2>1. i \in 1 .. all - n + more /\ i \in 1 .. all - n /\ i <= all - n
    BY <1>1, <1>2
  <2> QED  BY <1>6, <1>8, <2>1
<1>10. ASSUME NEW k \in 1 .. len - n + more, known2[k] # Unknown
       PROVE  forms2[f0 + k] = known2[k]
  <2>1. f0 + k \in 1 .. all - n + more
    BY <1>1, <1>2
  <2>2. CASE k <= len - n
    <3>1. k \in 1 .. len - n /\ k \in 1 .. len /\ f0 + k \in 1 .. all - n /\ f0 + k <= all - n
      BY <1>1, <1>2, <2>2
    <3>2. known2[k] = known[k] /\ forms2[f0 + k] = forms[f0 + k]
      BY <1>5, <1>6, <1>7, <1>8, <2>1, <2>2, <3>1
    <3> QED  BY <1>2, <1>10, <3>1, <3>2
  <2>3. CASE ~(k <= len - n)
    <3>1. PICK x \in Int : x = k - (len - n)
      BY <1>1
    <3>2. x \in 1 .. more /\ x = f0 + k - (all - n) /\ ~(f0 + k <= all - n)
      BY <1>1, <1>2, <2>3, <3>1
    <3>3. known2[k] = given[x]
      BY <1>7, <2>3, <3>1
    <3>4. PICK y \in Int : y = f0 + k
      BY <1>1
    <3>5. y \in 1 .. all - n + more /\ ~(y <= all - n) /\ y - (all - n) = x
      BY <1>1, <1>2, <2>1, <3>2, <3>4
    <3>6. forms2[y] = new[x]
      BY <1>8, <3>5
    <3> QED  BY <1>3, <1>10, <3>2, <3>3, <3>4, <3>6
  <2> QED  BY <2>2, <2>3
<1>11. Len(forms2) = f0 + Len(known2)
  BY <1>1, <1>2, <1>7, <1>8
<1>12. FormsFill(known2, f0, Len(forms2), forms2)
  BY <1>7, <1>10, <1>11 DEF FormsFill
<1> QED  BY <1>8, <1>9, <1>12 DEF forms2, known2

(* A scope is entered, ...                                                 *)
LEMMA ScopesPushed ==
  ASSUME NEW tags, IsSeq(tags), NEW r0 \in Nat, NEW view, IsSeq(view),
         ScopesFill(tags, r0, Len(view), view),
         NEW view2, Reaches(view2, view, Len(view) + 1),
         Last(view2) = [source |-> "bytes", tags |-> << >>]
  PROVE  ScopesFill(Append(tags, << >>), r0, Len(view2), view2) /\ Agree(view2, view, r0)
<1> DEFINE n == Len(tags)
           len == Len(view)
           more == Append(tags, << >>)
<1>1. /\ n \in Nat /\ len \in Nat /\ len = r0 + n
      /\ \A k \in 1 .. n : view[r0 + k].source = "bytes" /\ view[r0 + k].tags = tags[k]
  BY SeqIs DEF ScopesFill
<1>2. Len(view2) = len + 1
  BY DEF Reaches
<1>3. view2[len + 1].source = "bytes" /\ view2[len + 1].tags = << >>
  BY <1>2 DEF Last
<1>4. \A i \in 1 .. len + 1 - 1 : view2[i] = view[i]
  BY DEF Reaches, Agree
<1>5. /\ Len(more) = n + 1 /\ more[n + 1] = << >>
      /\ \A k \in 1 .. n : more[k] = tags[k]
  BY AppendIs
<1> HIDE DEF n, len, more
<1>6. Agree(view2, view, r0)
  BY <1>1, <1>4 DEF Agree
<1>7. len + 1 = r0 + (n + 1)
  BY <1>1
<1>8. ASSUME NEW k \in 1 .. n + 1
      PROVE  view2[r0 + k].source = "bytes" /\ view2[r0 + k].tags = more[k]
  <2>1. CASE k = n + 1
    BY <1>1, <1>3, <1>5, <1>7, <2>1
  <2>2. CASE k # n + 1
    <3>1. k \in 1 .. n
      BY <1>1, <2>2
    <3>2. PICK i \in Int : i = r0 + k
      BY <1>1
    <3>3. i \in 1 .. len + 1 - 1
      BY <1>1, <3>1, <3>2
    <3> QED  BY <1>1, <1>4, <1>5, <3>1, <3>2, <3>3
  <2> QED  BY <2>1, <2>2
<1> QED  BY <1>2, <1>5, <1>6, <1>7, <1>8 DEF ScopesFill, more

(* ... left, with those inside it, ...                                     *)
LEMMA ScopesCut ==
  ASSUME NEW tags, IsSeq(tags), NEW r0 \in Nat, NEW view, IsSeq(view),
         ScopesFill(tags, r0, Len(view), view),
         NEW n \in Nat, n <= Len(tags), NEW view2, Cut(view2, view, r0 + n)
  PROVE  ScopesFill(SubSeq(tags, 1, n), r0, Len(view2), view2) /\ Agree(view2, view, r0)
<1> DEFINE len == Len(tags)
           less == SubSeq(tags, 1, n)
<1>1. /\ len \in Nat /\ n <= len
      /\ \A k \in 1 .. len : view[r0 + k].source = "bytes" /\ view[r0 + k].tags = tags[k]
  BY SeqIs DEF ScopesFill
<1>2. Len(view2) = r0 + n /\ \A i \in 1 .. r0 + n : view2[i] = view[i]
  BY DEF Cut, Agree
<1>3. Len(less) = n /\ \A k \in 1 .. n : less[k] = tags[k]
  <2>1. n \in Int /\ n = IF 1 <= n THEN n ELSE 0
    OBVIOUS
  <2> QED  BY <2>1, SubSeqIs
<1> HIDE DEF len, less
<1>4. Agree(view2, view, r0)
  BY <1>2 DEF Agree
<1>5. ASSUME NEW k \in 1 .. n
      PROVE  view2[r0 + k].source = "bytes" /\ view2[r0 + k].tags = less[k]
  <2>1. PICK i \in Int : i = r0 + k
    OBVIOUS
  <2>2. k \in 1 .. len /\ i \in 1 .. r0 + n
    BY <1>1, <2>1
  <2> QED  BY <1>1, <1>2, <1>3, <2>1, <2>2
<1> QED  BY <1>2, <1>3, <1>4, <1>5 DEF ScopesFill, less

(* ... or given another tag.                                               *)
LEMMA ScopesBound ==
  ASSUME NEW tags, IsSeq(tags), tags # <<>>, NEW r0 \in Nat, NEW view, IsSeq(view),
         ScopesFill(tags, r0, Len(view), view), NEW x,
         NEW view2, Reaches(view2, view, Len(view)),
         Last(view2) = [source |-> Last(view).source, tags |-> x]
  PROVE  /\ ScopesFill([tags EXCEPT ![Len(tags)] = x], r0, Len(view2), view2)
         /\ Agree(view2, view, r0)
<1> DEFINE n == Len(tags)
           len == Len(view)
           other == [tags EXCEPT ![n] = x]
<1>1. /\ n \in Nat /\ 1 <= n /\ len \in Nat /\ len = r0 + n
      /\ \A k \in 1 .. n : view[r0 + k].source = "bytes" /\ view[r0 + k].tags = tags[k]
  BY SeqIs, NonemptyIs DEF ScopesFill
<1>2. Len(view2) = len
  BY DEF Reaches
<1>3. view2[len].source = view[len].source /\ view2[len].tags = x
  BY <1>2 DEF Last
<1>4. \A i \in 1 .. len - 1 : view2[i] = view[i]
  BY DEF Reaches, Agree
<1>5. Len(other) = n /\ \A k \in 1 .. n : other[k] = IF k = n THEN x ELSE tags[k]
  <2>1. Len(other) = n
    BY ExceptIs
  <2>2. DOMAIN tags = 1 .. n
    BY SeqIs
  <2> QED  BY <2>1, <2>2
<1> HIDE DEF n, len, other
<1>6. Agree(view2, view, r0)
  BY <1>1, <1>4 DEF Agree
<1>7. ASSUME NEW k \in 1 .. n
      PROVE  view2[r0 + k].source = "bytes" /\ view2[r0 + k].tags = other[k]
  <2>1. PICK i \in Int : i = r0 + k
    OBVIOUS
  <2>2. CASE k = n
    BY <1>1, <1>3, <1>5, <2>1, <2>2
  <2>3. CASE k # n
    <3>1. i \in 1 .. len - 1
      BY <1>1, <2>1, <2>3
    <3> QED  BY <1>1, <1>4, <1>5, <2>1, <2>3, <3>1
  <2> QED  BY <2>2, <2>3
<1> QED  BY <1>1, <1>2, <1>5, <1>6, <1>7 DEF ScopesFill, other, n

----------------------------------------------------------------------------
(* What the operations on frames and on tags do to the view                *)

LEMMA ViewIs ==
  ASSUME NEW frames, IsSeq(frames), NEW bindings
  PROVE  /\ IsSeq(View(frames, bindings)) /\ Len(View(frames, bindings)) = Len(frames)
         /\ \A i \in 1 .. Len(frames) :
              View(frames, bindings)[i] =
                [source |-> frames[i].source, tags |-> TagsAt(frames[i].env, bindings)]
<1> DEFINE n == Len(frames)
           Seen(i) == [source |-> frames[i].source, tags |-> TagsAt(frames[i].env, bindings)]
           view == View(frames, bindings)
<1>1. n \in Nat /\ view = [i \in 1 .. n |-> Seen(i)]
  BY SeqIs DEF View
<1> HIDE DEF n, Seen, view
<1>2. view \in Seq({Seen(i) : i \in 1 .. n}) /\ Len(view) = n
  BY <1>1
<1>3. IsSeq(view)
  BY <1>2 DEF IsSeq
<1>4. \A i \in 1 .. n : view[i] = Seen(i)
  BY <1>1
<1> QED  BY <1>2, <1>3, <1>4, Zenon DEF n, Seen, view

LEMMA ViewPushed ==
  ASSUME NEW frames, IsSeq(frames), NEW bindings,
         NEW frame, frame.env \notin DOMAIN bindings
  PROVE  LET view == View(frames, bindings)
             view2 == View(Append(frames, frame), bindings)
         IN  /\ Reaches(view2, view, Len(view) + 1)
             /\ Last(view2) = [source |-> frame.source, tags |-> << >>]
<1> DEFINE frames2 == Append(frames, frame)
           n == Len(frames)
           view == View(frames, bindings)
           view2 == View(frames2, bindings)
<1>1. /\ IsSeq(frames2) /\ Len(frames2) = n + 1 /\ frames2[n + 1] = frame
      /\ \A i \in 1 .. n : frames2[i] = frames[i]
  BY AppendIs
<1> HIDE DEF frames2
<1>2. /\ IsSeq(view2) /\ Len(view2) = n + 1 /\ Len(view) = n /\ n \in Nat
      /\ \A i \in 1 .. n + 1 : view2[i] =
           [source |-> frames2[i].source, tags |-> TagsAt(frames2[i].env, bindings)]
      /\ \A i \in 1 .. n : view[i] =
           [source |-> frames[i].source, tags |-> TagsAt(frames[i].env, bindings)]
  BY <1>1, ViewIs, SeqIs
<1> HIDE DEF n, view, view2
<1>3. \A i \in 1 .. n + 1 - 1 : view2[i] = view[i]
  <2> SUFFICES ASSUME NEW i \in 1 .. n + 1 - 1  PROVE view2[i] = view[i]
    OBVIOUS
  <2>1. i \in 1 .. n /\ i \in 1 .. n + 1
    BY <1>2
  <2> QED  BY <1>1, <1>2, <2>1
<1>4. view2[n + 1] = [source |-> frame.source, tags |-> << >>]
  <2>1. n + 1 \in 1 .. n + 1
    BY <1>2
  <2> QED  BY <1>1, <1>2, <2>1 DEF TagsAt
<1>5. Reaches(view2, view, Len(view) + 1)
  BY <1>2, <1>3 DEF Reaches, Agree
<1>6. Last(view2) = view2[n + 1]
  BY <1>2 DEF Last
<1> QED  BY <1>4, <1>5, <1>6 DEF view, view2, frames2

LEMMA ViewCut ==
  ASSUME NEW frames, IsSeq(frames), NEW bindings, NEW n \in Nat, n <= Len(frames)
  PROVE  Cut(View(SubSeq(frames, 1, n), bindings), View(frames, bindings), n)
<1> DEFINE frames2 == SubSeq(frames, 1, n)
           len == Len(frames)
           view == View(frames, bindings)
           view2 == View(frames2, bindings)
<1>1. IsSeq(frames2) /\ Len(frames2) = n /\ \A i \in 1 .. n : frames2[i] = frames[i]
  <2>1. n \in Int /\ n = IF 1 <= n THEN n ELSE 0
    OBVIOUS
  <2> QED  BY <2>1, SubSeqIs
<1> HIDE DEF frames2
<1>2. len \in Nat /\ n <= len
  BY SeqIs
<1>3. /\ IsSeq(view2) /\ Len(view2) = n
      /\ \A i \in 1 .. n : view2[i] =
           [source |-> frames2[i].source, tags |-> TagsAt(frames2[i].env, bindings)]
      /\ \A i \in 1 .. len : view[i] =
           [source |-> frames[i].source, tags |-> TagsAt(frames[i].env, bindings)]
  BY <1>1, ViewIs
<1> HIDE DEF len, view, view2
<1>4. \A i \in 1 .. n : view2[i] = view[i]
  <2>1. \A i \in 1 .. n : i \in 1 .. len
    BY <1>2
  <2> QED  BY <1>1, <1>3, <2>1
<1> QED  BY <1>3, <1>4 DEF Cut, Agree, view, view2, frames2

LEMMA ViewBound ==
  ASSUME NEW frames, IsSeq(frames), frames # <<>>, NEW bindings, NEW new,
         \A i \in 1 .. Len(frames) : frames[i].env = Last(frames).env => i = Len(frames)
  PROVE  LET view == View(frames, bindings)
             view2 == View(frames, Inserted(bindings, Last(frames).env, new))
         IN  /\ Reaches(view2, view, Len(view))
             /\ Last(view2) = [source |-> Last(view).source, tags |-> new]
<1> DEFINE n == Len(frames)
           env == Last(frames).env
           bindings2 == Inserted(bindings, env, new)
           view == View(frames, bindings)
           view2 == View(frames, bindings2)
<1>1. n \in Nat /\ 1 <= n
  BY SeqIs, NonemptyIs
<1>2. frames[n].env = env
  BY DEF Last
<1>3. /\ TagsAt(env, bindings2) = new
      /\ \A e : e # env => TagsAt(e, bindings2) = TagsAt(e, bindings)
  BY DEF TagsAt, Inserted
<1> HIDE DEF bindings2, env
<1>4. /\ IsSeq(view2) /\ Len(view2) = n /\ Len(view) = n
      /\ \A i \in 1 .. n : view2[i] =
           [source |-> frames[i].source, tags |-> TagsAt(frames[i].env, bindings2)]
      /\ \A i \in 1 .. n : view[i] =
           [source |-> frames[i].source, tags |-> TagsAt(frames[i].env, bindings)]
  BY ViewIs
<1>5. \A i \in 1 .. n : frames[i].env = env => i = n
  BY DEF env
<1> HIDE DEF n, view, view2
<1>6. \A i \in 1 .. n - 1 : view2[i] = view[i]
  <2> SUFFICES ASSUME NEW i \in 1 .. n - 1  PROVE view2[i] = view[i]
    OBVIOUS
  <2>1. i \in 1 .. n /\ i # n
    BY <1>1
  <2>2. frames[i].env # env
    BY <1>5, <2>1
  <2> QED  BY <1>3, <1>4, <2>1, <2>2
<1>7. view2[n] = [source |-> view[n].source, tags |-> new]
  <2>1. n \in 1 .. n
    BY <1>1
  <2> QED  BY <1>2, <1>3, <1>4, <2>1
<1>8. Last(view2) = view2[n] /\ Last(view) = view[n]
  BY <1>4 DEF Last
<1> QED  BY <1>4, <1>6, <1>7, <1>8 DEF Reaches, Agree, view, view2, bindings2, env

----------------------------------------------------------------------------
(* A bytecode goes on                                                      *)

FormsGo(known, known2, forms, forms2) ==
  /\ IsSeq(forms2)
  /\ \A f0 \in Nat : FormsFill(known, f0, Len(forms), forms) =>
       Agree(forms2, forms, f0) /\ FormsFill(known2, f0, Len(forms2), forms2)

ScopesGo(tags, tags2, view, view2) ==
  /\ IsSeq(view2)
  /\ \A r0 \in Nat : ScopesFill(tags, r0, Len(view), view) =>
       Agree(view2, view, r0) /\ ScopesFill(tags2, r0, Len(view2), view2)

LEMMA FormsGoNowhere ==
  ASSUME NEW known, NEW forms, IsSeq(forms)
  PROVE  FormsGo(known, known, forms, forms)
BY DEF FormsGo, Agree

LEMMA ScopesGoNowhere ==
  ASSUME NEW tags, NEW view, IsSeq(view)
  PROVE  ScopesGo(tags, tags, view, view)
BY DEF ScopesGo, Agree

LEMMA FormsGoOn ==
  ASSUME NEW known, IsSeq(known), NEW forms, IsSeq(forms),
         NEW n \in Nat, n <= Len(known),
         NEW given, IsSeq(given), NEW new, IsSeq(new), FormsFill(given, 0, Len(new), new)
  PROVE  FormsGo(known, DropLast(known, n) \o given, forms, DropLast(forms, n) \o new)
<1> DEFINE forms2 == DropLast(forms, n) \o new
           known2 == DropLast(known, n) \o given
<1>1. ASSUME NEW f0 \in Nat, FormsFill(known, f0, Len(forms), forms)
      PROVE  IsSeq(forms2) /\ Agree(forms2, forms, f0) /\ FormsFill(known2, f0, Len(forms2), forms2)
  BY <1>1, FormsReplaced
<1>2. IsSeq(forms2)
  BY DropLastIs, ConcatIs
<1> HIDE DEF forms2, known2
<1>3. FormsGo(known, known2, forms, forms2)
  BY <1>1, <1>2 DEF FormsGo
<1> QED  BY <1>3 DEF forms2, known2

IsTop(m, xs) == Len(xs) = m /\ 1 <= m

(* What is known of the running bytecode.                                  *)
LEMMA TopKnown ==
  ASSUME NEW f, NEW r, NEW xs, IsSeq(xs), NEW forms, NEW view, Laid(f, r, xs, forms, view),
         NEW m \in Nat, IsTop(m, xs), xs[m].kind = "bytes"
  PROVE  LET act   == xs[m]
             shape == Shapes(act.bytes)[act.index]
         IN  /\ TypedBytes(act.bytes) /\ Disciplined(act.bytes)
             /\ act.index \in 0 .. Len(act.bytes)
             /\ ShapeIs(shape)
             /\ f[m] \in Nat /\ FormsFill(shape.forms, f[m], Len(forms), forms)
             /\ r[m] \in Nat /\ ScopesFill(shape.scopes, r[m], Len(view), view)
<1> DEFINE act   == xs[m]
           shape == Shapes(act.bytes)[act.index]
<1>1. f[m] \in Nat /\ r[m] \in Nat /\ f[m + 1] = Len(forms) /\ r[m + 1] = Len(view)
  <2>1. /\ f \in [1 .. m + 1 -> Nat] /\ r \in [1 .. m + 1 -> Nat]
        /\ f[m + 1] = Len(forms) /\ r[m + 1] = Len(view)
    BY DEF Laid, IsTop
  <2>2. m \in 1 .. m + 1
    BY DEF IsTop
  <2> QED  BY <2>1, <2>2
<1>2. ActLaid(act, f[m], Len(forms), r[m], Len(view), forms, view)
  <2>1. ActLaid(act, f[m], f[m + 1], r[m], r[m + 1], forms, view)
    <3>1. \A j \in 1 .. m : ActLaid(xs[j], f[j], f[j + 1], r[j], r[j + 1], forms, view)
      BY DEF Laid, IsTop
    <3>2. m \in 1 .. m
      BY DEF IsTop
    <3> QED  BY <3>1, <3>2, Zenon
  <2> QED  BY <1>1, <2>1
<1>3. BytesLaid(act, f[m], Len(forms), r[m], Len(view), forms, view)
  BY <1>2 DEF ActLaid
<1>4. ShapeIs(shape)
  BY <1>3, ShapesAre DEF BytesLaid
<1> HIDE DEF act
<1>5. Fills(shape, f[m], Len(forms), r[m], Len(view), forms, view)
  BY <1>3 DEF BytesLaid
<1> HIDE DEF shape
<1>6. QED  BY <1>1, <1>3, <1>4, <1>5, Zenon DEF BytesLaid, Fills, act, shape

(* Its next byte is as Disciplined says.                                   *)
LEMMA NextKnown ==
  ASSUME NEW bytes, TypedBytes(bytes), Disciplined(bytes),
         NEW index \in Nat, index < Len(bytes)
  PROVE  LET byte  == bytes[index + 1]
             shape == Shapes(bytes)[index]
         IN  /\ byte.op = "Funcall" => byte.arg_count \in Nat
             /\ ShapeIs(shape)
             /\ FindsItsOwn(byte, shape)
             /\ Shapes(bytes)[index + 1] = After(byte, shape)
             /\ byte.op = "GoReturn" => GoesBack(byte.target, shape, Shapes(bytes))
<1> DEFINE n == Len(bytes)
<1>1. n \in Nat /\ DOMAIN bytes = 1 .. n
  BY SeqIs DEF TypedBytes
<1>2. PICK i \in Int : i = index + 1
  OBVIOUS
<1>3. i \in 1 .. n /\ i - 1 = index /\ index \in 0 .. n
  BY <1>1, <1>2
<1>4. /\ bytes[i].op = "Funcall" => bytes[i].arg_count \in Nat
      /\ FindsItsOwn(bytes[i], Shapes(bytes)[i - 1])
      /\ bytes[i].op = "GoReturn" => GoesBack(bytes[i].target, Shapes(bytes)[i - 1], Shapes(bytes))
  BY <1>1, <1>3 DEF Disciplined, TypedBytes
<1>5. Shapes(bytes)[i] = After(bytes[i], Shapes(bytes)[i - 1]) /\ ShapeIs(Shapes(bytes)[index])
  BY <1>3, ShapesAre
<1> HIDE DEF n
<1> QED  BY <1>2, <1>3, <1>4, <1>5

Moves(m, xs, ys) ==
  /\ xs[m].kind = "bytes" /\ ys[m].kind = "bytes" /\ ys[m].bytes = xs[m].bytes
  /\ ys[m].index \in 0 .. Len(xs[m].bytes)

StacksGo(m, xs, ys, forms, forms2, view, view2) ==
  LET shape  == Shapes(xs[m].bytes)[xs[m].index]
      shape2 == Shapes(xs[m].bytes)[ys[m].index]
  IN  /\ FormsGo(shape.forms, shape2.forms, forms, forms2)
      /\ ScopesGo(shape.scopes, shape2.scopes, view, view2)

(* Wherever it goes on, if the stacks are as its shape there says.         *)
LEMMA BytesGoOn ==
  ASSUME NEW f, NEW r, NEW xs, IsSeq(xs), NEW forms, NEW view, Laid(f, r, xs, forms, view),
         NEW m \in Nat, 1 < m, IsTop(m, xs),
         NEW ys, Reaches(ys, xs, m), Moves(m, xs, ys),
         NEW forms2, NEW view2, StacksGo(m, xs, ys, forms, forms2, view, view2)
  PROVE  \E f2, r2 : Laid(f2, r2, ys, forms2, view2)
<1> DEFINE act    == xs[m]
           shape  == Shapes(act.bytes)[act.index]
           shape2 == Shapes(act.bytes)[ys[m].index]
<1>1. /\ TypedBytes(act.bytes) /\ Disciplined(act.bytes)
      /\ f[m] \in Nat /\ FormsFill(shape.forms, f[m], Len(forms), forms)
      /\ r[m] \in Nat /\ ScopesFill(shape.scopes, r[m], Len(view), view)
  BY TopKnown DEF Moves
<1>2. /\ Agree(forms2, forms, f[m]) /\ FormsFill(shape2.forms, f[m], Len(forms2), forms2)
      /\ Agree(view2, view, r[m]) /\ ScopesFill(shape2.scopes, r[m], Len(view2), view2)
      /\ IsSeq(forms2) /\ IsSeq(view2)
  BY <1>1, Zenon DEF StacksGo, FormsGo, ScopesGo
<1>3. Keeps(m, f, forms2, forms) /\ Keeps(m, r, view2, view)
  BY <1>2 DEF Keeps
<1>4. TopIsLaid(m, f, r, ys, forms2, view2)
  <2>1. Fills(shape2, f[m], Len(forms2), r[m], Len(view2), forms2, view2)
    BY <1>2 DEF Fills
  <2> HIDE DEF act
  <2> QED  BY <1>1, <2>1, Zenon DEF TopIsLaid, ActLaid, BytesLaid, Moves, act
<1>5. IsPlace(m, xs)
  BY DEF IsPlace, IsTop
<1>6. OnItsCaller(m, ys, f)
  <2>1. \A j \in 1 .. m - 1 : Follows(xs[j + 1], xs[j])
    BY DEF Laid, IsTop
  <2>2. PICK j \in Int : j = m - 1
    OBVIOUS
  <2>3. j \in 1 .. m - 1 /\ j + 1 = m /\ m # 1
    BY <2>2
  <2>4. Follows(xs[m], xs[j]) /\ ys[j] = xs[j]
    BY <2>1, <2>2, <2>3 DEF Reaches, Agree
  <2>5. Follows(ys[m], ys[j])
    BY <2>4 DEF Follows, Moves
  <2> QED  BY <2>2, <2>3, <2>5 DEF OnItsCaller
<1> QED  BY <1>3, <1>4, <1>5, <1>6, Relaid

(* An activation is gone, with what was its own.                           *)
LEMMA Unlaid ==
  ASSUME NEW f, NEW r, NEW xs, IsSeq(xs), NEW forms, NEW view, Laid(f, r, xs, forms, view),
         NEW n \in Nat, IsTop(n, xs), 1 < n,
         NEW ys, Cut(ys, xs, n - 1),
         NEW forms2, Cut(forms2, forms, f[n]), NEW view2, Cut(view2, view, r[n])
  PROVE  \E f2, r2 : Laid(f2, r2, ys, forms2, view2)
<1> DEFINE m == n - 1
<1>1. m \in Nat /\ 1 <= m /\ m + 1 = n /\ m \in 1 .. n + 1 /\ n \in 1 .. n + 1 /\ m \in 1 .. n
      /\ m <= n
  OBVIOUS
<1>0. IsPlace(m, xs) /\ Len(xs) = n
  BY DEF IsPlace, IsTop
<1>2. Reaches(ys, xs, m) /\ ys[m] = xs[m]
  <2>1. \A i \in 1 .. m - 1 : i \in 1 .. m
    OBVIOUS
  <2>2. IsSeq(ys) /\ Len(ys) = m /\ \A i \in 1 .. m : ys[i] = xs[i]
    BY DEF Cut, Agree
  <2>3. m \in 1 .. m
    BY <1>1
  <2> HIDE DEF m
  <2> QED  BY <2>1, <2>2, <2>3 DEF Reaches, Agree
<1>3. /\ f[m] \in Nat /\ f[n] \in Nat /\ r[m] \in Nat /\ r[n] \in Nat
      /\ ActLaid(xs[m], f[m], f[n], r[m], r[n], forms, view)
  <2>1. /\ f \in [1 .. n + 1 -> Nat] /\ r \in [1 .. n + 1 -> Nat]
        /\ \A j \in 1 .. n : ActLaid(xs[j], f[j], f[j + 1], r[j], r[j + 1], forms, view)
    BY <1>0 DEF Laid
  <2> HIDE DEF m
  <2> QED  BY <1>1, <2>1
<1>4. f[m] <= f[n] /\ r[m] <= r[n]
  BY <1>3, ActGrows
<1>5. ActLaid(xs[m], f[m], f[n], r[m], r[n], forms2, view2)
  BY <1>3, ActStays DEF Cut
<1>6. TopIsLaid(m, f, r, ys, forms2, view2)
  BY <1>2, <1>5 DEF TopIsLaid, Cut
<1>7. Keeps(m, f, forms2, forms) /\ Keeps(m, r, view2, view)
  <2>1. (\A i \in 1 .. f[m] : i \in 1 .. f[n]) /\ (\A i \in 1 .. r[m] : i \in 1 .. r[n])
    BY <1>3, <1>4
  <2> QED  BY <2>1 DEF Keeps, Cut, Agree
<1>8. OnItsCaller(m, ys, f)
  <2>1. CASE m = 1
    <3>1. xs # <<>>
      <4>1. Len(xs) # 0
        BY <1>0
      <4> QED  BY <4>1, EmptyIs
    <3>2. f[1] = 3 + xs[1].arg_count
      BY <3>1 DEF Laid
    <3> QED  BY <1>2, <2>1, <3>2 DEF OnItsCaller
  <2>2. CASE m # 1
    <3>1. PICK j \in Int : j = m - 1
      BY <1>1
    <3>2. j \in 1 .. n - 1 /\ j + 1 = m
      BY <1>1, <2>2, <3>1
    <3>3. Follows(xs[m], xs[j]) /\ ys[j] = xs[j]
      BY <1>0, <3>2 DEF Laid, Cut, Agree
    <3> QED  BY <1>2, <2>2, <3>1, <3>3 DEF OnItsCaller
  <2> QED  BY <2>1, <2>2
<1> HIDE DEF m
<1> QED  BY <1>0, <1>1, <1>2, <1>6, <1>7, <1>8, Relaid

----------------------------------------------------------------------------
(* The steps of a bytecode                                                 *)

Seen     == View(frame_stack, environment_bindings)
TopShape == Shapes(Top.bytes)[Top.index]

LEMMA SeenIs ==
  ASSUME FramesInv
  PROVE  IsSeq(Seen) /\ Len(Seen) = Len(frame_stack)
BY ViewIs DEF FramesInv, Seen

(* A bytecode runs in a call.                                              *)
LEMMA BytesAreTop ==
  ASSUME ActsInv, acts # <<>>, Top.kind = "bytes"
  PROVE  /\ Len(acts) \in Nat /\ 1 < Len(acts) /\ IsTop(Len(acts), acts) /\ IsSeq(acts)
         /\ acts[Len(acts)] = Top
         /\ Top = [kind |-> "bytes", bytes |-> Top.bytes, index |-> Top.index]
<1>1. /\ Len(acts) \in Nat /\ 1 <= Len(acts) /\ Top = acts[Len(acts)]
      /\ TypedAct(Top) /\ acts[1].kind = "call" /\ IsSeq(acts)
  BY TopIs DEF ActsInv
<1> DEFINE n == Len(acts)
<1> HIDE DEF n
<1>2. n # 1
  BY <1>1 DEF n
<1>3. n \in Nat /\ 1 <= n
  BY <1>1 DEF n
<1>4. 1 < n
  BY <1>2, <1>3
<1> QED  BY <1>1, <1>3, <1>4 DEF TypedAct, IsTop, n

LEMMA RunningBytes ==
  ASSUME IInv, LayoutInv, InBytes
  PROVE  /\ Top.index \in Nat /\ Len(Top.bytes) \in Nat /\ TypedBytes(Top.bytes)
         /\ Top.index + 1 \in 0 .. Len(Top.bytes)
         /\ Byte.op = "Funcall" => Byte.arg_count \in Nat
         /\ ShapeIs(TopShape)
         /\ FindsItsOwn(Byte, TopShape)
         /\ Shapes(Top.bytes)[Top.index + 1] = After(Byte, TopShape)
         /\ Byte.op = "GoReturn" => GoesBack(Byte.target, TopShape, Shapes(Top.bytes))
         /\ \E f0, r0 \in Nat : /\ FormsFill(TopShape.forms, f0, Len(form_stack), form_stack)
                                /\ ScopesFill(TopShape.scopes, r0, Len(Seen), Seen)
<1> DEFINE n == Len(acts)
<1>1. acts # <<>> /\ Top.kind = "bytes" /\ Top.index < Len(Top.bytes) /\ Going
  BY DEF InBytes, Running, Going
<1>2. n \in Nat /\ 1 < n /\ IsTop(n, acts) /\ IsSeq(acts) /\ acts[n] = Top
  BY <1>1, BytesAreTop DEF IInv
<1>3. PICK f, r : Laid(f, r, acts, form_stack, Seen)
  BY <1>1 DEF LayoutInv, Seen
<1> HIDE DEF n
<1>4. acts[n].kind = "bytes"
  BY <1>1, <1>2
<1>5. /\ TypedBytes(acts[n].bytes) /\ Disciplined(acts[n].bytes)
      /\ acts[n].index \in 0 .. Len(acts[n].bytes)
      /\ ShapeIs(Shapes(acts[n].bytes)[acts[n].index])
      /\ f[n] \in Nat
      /\ FormsFill(Shapes(acts[n].bytes)[acts[n].index].forms, f[n], Len(form_stack), form_stack)
      /\ r[n] \in Nat
      /\ ScopesFill(Shapes(acts[n].bytes)[acts[n].index].scopes, r[n], Len(Seen), Seen)
  BY <1>2, <1>3, <1>4, TopKnown
<1>6. /\ TypedBytes(Top.bytes) /\ Disciplined(Top.bytes)
      /\ Top.index \in 0 .. Len(Top.bytes) /\ ShapeIs(TopShape)
      /\ f[n] \in Nat /\ FormsFill(TopShape.forms, f[n], Len(form_stack), form_stack)
      /\ r[n] \in Nat /\ ScopesFill(TopShape.scopes, r[n], Len(Seen), Seen)
  BY <1>2, <1>5 DEF TopShape
<1>7. Len(Top.bytes) \in Nat
  BY <1>6, SeqIs DEF TypedBytes
<1>8. Top.index \in Nat /\ Top.index + 1 \in 0 .. Len(Top.bytes)
  BY <1>1, <1>6, <1>7
<1>9. /\ Byte.op = "Funcall" => Byte.arg_count \in Nat
      /\ FindsItsOwn(Byte, TopShape)
      /\ Shapes(Top.bytes)[Top.index + 1] = After(Byte, TopShape)
      /\ Byte.op = "GoReturn" => GoesBack(Byte.target, TopShape, Shapes(Top.bytes))
  BY <1>1, <1>6, <1>8, NextKnown DEF Byte, TopShape
<1> QED  BY <1>6, <1>7, <1>8, <1>9

LEMMA MovesKeepLayout ==
  ASSUME NEW f, NEW r, NEW n \in Nat, 1 < n, IsTop(n, acts), IsSeq(acts),
         Laid(f, r, acts, form_stack, Seen), Reaches(acts', acts, n),
         Moves(n, acts, acts'),
         StacksGo(n, acts, acts', form_stack, form_stack', Seen, Seen')
  PROVE  LayoutInv'
<1>1. \E f2, r2 : Laid(f2, r2, acts', form_stack', Seen')
  BY BytesGoOn
<1> QED  BY <1>1 DEF LayoutInv, Seen

(* The bytecode goes on at some index, ...                                 *)
LEMMA JumpKeepsLayout ==
  ASSUME IInv, LayoutInv, InBytes, NEW target \in 0 .. Len(Top.bytes), JumpTo(target),
         NEW shape, shape = Shapes(Top.bytes)[target],
         FormsGo(TopShape.forms, shape.forms, form_stack, form_stack'),
         ScopesGo(TopShape.scopes, shape.scopes, Seen, Seen')
  PROVE  LayoutInv'
<1> DEFINE n   == Len(acts)
           act == [Top EXCEPT !.index = target]
<1>1. acts # <<>> /\ Top.kind = "bytes" /\ Going
  BY DEF InBytes, Running, Going
<1>2. /\ n \in Nat /\ 1 < n /\ IsTop(n, acts) /\ IsSeq(acts) /\ acts[n] = Top
      /\ Top = [kind |-> "bytes", bytes |-> Top.bytes, index |-> Top.index]
  BY <1>1, BytesAreTop DEF IInv
<1>3. PICK f, r : Laid(f, r, acts, form_stack, Seen)
  BY <1>1 DEF LayoutInv, Seen
<1>4. act.kind = "bytes" /\ act.bytes = Top.bytes /\ act.index = target
  BY <1>2
<1>5. acts' = Below \o <<act>>
  BY DEF JumpTo
<1> HIDE DEF n, act
<1>6. /\ IsSeq(Below) /\ Len(Below) = n - 1
      /\ \A i \in 1 .. n - 1 : Below[i] = acts[i]
  BY <1>1, TopIs DEF IInv, n
<1>7. Reaches(acts', acts, n) /\ acts'[n] = act
  <2>1. n \in Nat /\ IsSeq(Below) /\ Len(Below) = n - 1
    BY <1>2, <1>6
  <2>2. \A i \in 1 .. n - 1 : Below[i] = acts[i]
    BY <1>6
  <2> DEFINE below == Below
  <2> HIDE DEF below
  <2>3. n \in Nat /\ IsSeq(below) /\ Len(below) = n - 1 /\ \A i \in 1 .. n - 1 : below[i] = acts[i]
    BY <2>1, <2>2 DEF below
  <2>4. Reaches(below \o <<act>>, acts, n) /\ (below \o <<act>>)[n] = act
    BY <2>3, AddedIs
  <2> QED  BY <1>5, <2>4, Zenon DEF below
<1>8. Moves(n, acts, acts')
  BY <1>1, <1>2, <1>4, <1>7 DEF Moves
<1>9. StacksGo(n, acts, acts', form_stack, form_stack', Seen, Seen')
  BY <1>2, <1>4, <1>7 DEF StacksGo, TopShape
<1> QED  BY <1>2, <1>3, <1>7, <1>8, <1>9, MovesKeepLayout

(* ... or at the next.                                                     *)
LEMMA AdvanceKeepsLayout ==
  ASSUME IInv, LayoutInv, InBytes, Advance,
         FormsGo(TopShape.forms, DropLast(TopShape.forms, Taken(Byte)) \o Given(Byte),
                 form_stack, form_stack'),
         ScopesGo(TopShape.scopes, ScopesAfter(Byte, TopShape), Seen, Seen')
  PROVE  LayoutInv'
<1> DEFINE target == Top.index + 1
           shape  == Shapes(Top.bytes)[target]
<1>1. target \in 0 .. Len(Top.bytes) /\ shape = After(Byte, TopShape)
  BY RunningBytes
<1>2. JumpTo(target)
  BY DEF Advance
<1>3. /\ shape.forms = DropLast(TopShape.forms, Taken(Byte)) \o Given(Byte)
      /\ shape.scopes = ScopesAfter(Byte, TopShape)
  BY <1>1 DEF After, Shape
<1> HIDE DEF target
<1>4. PICK s : s = shape
  OBVIOUS
<1>5. /\ FormsGo(TopShape.forms, s.forms, form_stack, form_stack')
      /\ ScopesGo(TopShape.scopes, s.scopes, Seen, Seen')
  BY <1>3, <1>4
<1> QED  BY <1>1, <1>2, <1>4, <1>5, JumpKeepsLayout

(* Bytes that take and give forms.                                         *)
LEMMA GivenIs ==
  ASSUME NEW byte
  PROVE  /\ byte.op # "Funcall" => Taken(byte) \in Nat
         /\ byte.op = "Push" => FormsFill(Given(byte), 0, Len(<<byte.target>>), <<byte.target>>)
         /\ byte.op \in {"BindValue", "LookupSymbol", "LookupFunction", "Funcall"} =>
              \A x : FormsFill(Given(byte), 0, Len(<<x>>), <<x>>)
         /\ byte.op \notin {"Push", "BindValue", "LookupSymbol", "LookupFunction", "Funcall"} =>
              Given(byte) = <<>> /\ FormsFill(Given(byte), 0, Len(<<>>), <<>>)
<1>1. \A x : IsSeq(<<x>>) /\ Len(<<x>>) = 1 /\ <<x>>[1] = x
  BY SingleIs
<1>2. byte.op # "Funcall" => Taken(byte) \in Nat
  BY DEF Taken
<1>3. ASSUME byte.op = "Push"
      PROVE  FormsFill(Given(byte), 0, Len(<<byte.target>>), <<byte.target>>)
  <2> DEFINE new == <<byte.target>>
  <2>1. Given(byte) = new
    BY <1>3 DEF Given
  <2>2. Len(new) = 1
    BY <1>1
  <2> HIDE DEF new
  <2>3. FormsFill(new, 0, Len(new), new)
    BY <2>2 DEF FormsFill
  <2> QED  BY <2>1, <2>3 DEF new
<1>4. ASSUME byte.op \in {"BindValue", "LookupSymbol", "LookupFunction", "Funcall"}, NEW x
      PROVE  FormsFill(Given(byte), 0, Len(<<x>>), <<x>>)
  <2> DEFINE new   == <<x>>
             given == <<Unknown>>
  <2>1. Given(byte) = given
    BY <1>4 DEF Given
  <2>2. Len(new) = 1 /\ Len(given) = 1 /\ given[1] = Unknown
    BY <1>1
  <2> HIDE DEF new, given
  <2>3. FormsFill(given, 0, Len(new), new)
    BY <2>2 DEF FormsFill
  <2> QED  BY <2>1, <2>3 DEF new
<1>5. ASSUME byte.op \notin {"Push", "BindValue", "LookupSymbol", "LookupFunction", "Funcall"}
      PROVE  Given(byte) = <<>> /\ FormsFill(Given(byte), 0, Len(<<>>), <<>>)
  BY <1>5, EmptyIs DEF Given, FormsFill
<1> QED  BY <1>2, <1>3, <1>4, <1>5

LEMMA TakingIs ==
  ASSUME IInv, LayoutInv, InBytes
  PROVE  /\ IsSeq(TopShape.forms) /\ IsSeq(TopShape.scopes) /\ IsSeq(Given(Byte))
         /\ Taken(Byte) \in Nat /\ Taken(Byte) <= Len(TopShape.forms)
         /\ IsSeq(form_stack) /\ IsSeq(Seen) /\ IsSeq(frame_stack)
<1>1. /\ ShapeIs(TopShape) /\ FindsItsOwn(Byte, TopShape)
      /\ Byte.op = "Funcall" => Byte.arg_count \in Nat
  BY RunningBytes
<1>2. Taken(Byte) \in Nat
  BY <1>1, GivenIs DEF Taken
<1>3. IsSeq(Given(Byte))
  BY EmptyIs, SingleIs DEF Given
<1> QED  BY <1>1, <1>2, <1>3, SeenIs DEF ShapeIs, FindsItsOwn, IInv, FormsInv, FramesInv

LEMMA FormsStep ==
  ASSUME IInv, LayoutInv, InBytes,
         NEW new, IsSeq(new), FormsFill(Given(Byte), 0, Len(new), new),
         form_stack' = DropLast(form_stack, Taken(Byte)) \o new
  PROVE  FormsGo(TopShape.forms, DropLast(TopShape.forms, Taken(Byte)) \o Given(Byte),
                 form_stack, form_stack')
<1> DEFINE known == TopShape.forms
           n     == Taken(Byte)
           given == Given(Byte)
<1>1. /\ IsSeq(known) /\ IsSeq(form_stack) /\ n \in Nat /\ n <= Len(known) /\ IsSeq(given)
      /\ FormsFill(given, 0, Len(new), new)
  BY TakingIs
<1>2. form_stack' = DropLast(form_stack, n) \o new
  OBVIOUS
<1> HIDE DEF known, n, given
<1>3. FormsGo(known, DropLast(known, n) \o given, form_stack, DropLast(form_stack, n) \o new)
  BY <1>1, FormsGoOn
<1> QED  BY <1>2, <1>3, Zenon DEF known, n, given

LEMMA FormByteKeepsLayout ==
  ASSUME IInv, LayoutInv, InBytes, Advance,
         Byte.op \notin {"PushLexicalEnv", "PopLexicalEnv", "BindTag"},
         NEW new, IsSeq(new), FormsFill(Given(Byte), 0, Len(new), new),
         form_stack' = DropLast(form_stack, Taken(Byte)) \o new,
         UNCHANGED <<frame_stack, environment_bindings>>
  PROVE  LayoutInv'
<1>1. FormsGo(TopShape.forms, DropLast(TopShape.forms, Taken(Byte)) \o Given(Byte),
              form_stack, form_stack')
  BY FormsStep
<1>2. ScopesAfter(Byte, TopShape) = TopShape.scopes
  BY DEF ScopesAfter
<1>3. Seen' = Seen
  BY DEF Seen
<1>4. ScopesGo(TopShape.scopes, ScopesAfter(Byte, TopShape), Seen, Seen')
  BY <1>2, <1>3, TakingIs, ScopesGoNowhere
<1> QED  BY <1>1, <1>4, AdvanceKeepsLayout

LEMMA ScopeByteKeepsLayout ==
  ASSUME IInv, LayoutInv, InBytes, Advance,
         Byte.op \in {"PushLexicalEnv", "PopLexicalEnv"}, UNCHANGED form_stack,
         ScopesGo(TopShape.scopes, ScopesAfter(Byte, TopShape), Seen, Seen')
  PROVE  LayoutInv'
<1>1. DropLast(TopShape.forms, Taken(Byte)) \o Given(Byte) = TopShape.forms
  <2>1. Taken(Byte) = 0 /\ Given(Byte) = <<>>
    BY DEF Taken, Given
  <2> QED  BY <2>1, TakingIs, NoneDropped
<1>2. FormsGo(TopShape.forms, DropLast(TopShape.forms, Taken(Byte)) \o Given(Byte),
              form_stack, form_stack')
  BY <1>1, TakingIs, FormsGoNowhere
<1> QED  BY <1>2, AdvanceKeepsLayout

(* Bytes that enter, leave and mark scopes.                                *)
LEMMA ScopesGoIn ==
  ASSUME NEW tags, IsSeq(tags), NEW view, IsSeq(view),
         NEW view2, Reaches(view2, view, Len(view) + 1),
         Last(view2) = [source |-> "bytes", tags |-> << >>]
  PROVE  ScopesGo(tags, Append(tags, << >>), view, view2)
<1>1. ASSUME NEW r0 \in Nat, ScopesFill(tags, r0, Len(view), view)
      PROVE  Agree(view2, view, r0) /\ ScopesFill(Append(tags, << >>), r0, Len(view2), view2)
  BY <1>1, ScopesPushed
<1> QED  BY <1>1 DEF ScopesGo, Reaches

LEMMA ScopesGoOut ==
  ASSUME NEW tags, IsSeq(tags), NEW view, IsSeq(view), NEW n \in Nat, n <= Len(tags),
         NEW len, len = Len(view) - (Len(tags) - n), NEW view2, Cut(view2, view, len)
  PROVE  ScopesGo(tags, SubSeq(tags, 1, n), view, view2)
<1>1. ASSUME NEW r0 \in Nat, ScopesFill(tags, r0, Len(view), view)
      PROVE  Agree(view2, view, r0) /\ ScopesFill(SubSeq(tags, 1, n), r0, Len(view2), view2)
  <2>1. Len(tags) \in Nat /\ Len(view) = r0 + Len(tags)
    BY <1>1, SeqIs DEF ScopesFill
  <2>2. len = r0 + n
    BY <2>1
  <2>3. Cut(view2, view, r0 + n)
    BY <2>2
  <2> QED  BY <1>1, <2>3, ScopesCut
<1> QED  BY <1>1 DEF ScopesGo, Cut

LEMMA ScopesGoTag ==
  ASSUME NEW tags, IsSeq(tags), tags # <<>>, NEW view, IsSeq(view), NEW x,
         NEW view2, Reaches(view2, view, Len(view)),
         Last(view2) = [source |-> Last(view).source, tags |-> x]
  PROVE  ScopesGo(tags, [tags EXCEPT ![Len(tags)] = x], view, view2)
<1>1. ASSUME NEW r0 \in Nat, ScopesFill(tags, r0, Len(view), view)
      PROVE  /\ Agree(view2, view, r0)
             /\ ScopesFill([tags EXCEPT ![Len(tags)] = x], r0, Len(view2), view2)
  BY <1>1, ScopesBound
<1> QED  BY <1>1 DEF ScopesGo, Reaches

(* The environment of a new frame is nobody else's.                        *)
LEMMA NewFrameIs ==
  ASSUME IInv, NEW source, PushEnvironment(source)
  PROVE  \E frame : /\ frame.source = source /\ frame.env \notin DOMAIN environment_bindings
                    /\ \A i \in 1 .. Len(frame_stack) : frame_stack[i].env # frame.env
                    /\ frame_stack' = Append(frame_stack, frame)
<1> DEFINE free  == (0 .. MaxEnvs - 1) \ Reached
           new   == CHOOSE e \in free : TRUE
           frame == [env |-> new, source |-> source, prev |-> frame_cap]
<1>1. /\ \E e \in 0 .. MaxEnvs - 1 : e \notin Reached
      /\ frame_stack' = Append(frame_stack, frame)
  BY DEF PushEnvironment
<1>2. new \notin Reached
  BY <1>1
<1>3. /\ \A i \in 1 .. Len(frame_stack) : frame_stack[i].env \in Reached
      /\ DOMAIN environment_bindings \subseteq Reached
  <2>1. DOMAIN frame_stack = 1 .. Len(frame_stack)
    BY SeqIs DEF IInv, FramesInv
  <2> QED  BY <2>1, ReachedIs DEF IInv, FramesInv, TagsInv
<1> HIDE DEF new
<1>4. frame.source = source /\ frame.env = new
  OBVIOUS
<1> HIDE DEF frame
<1> QED  BY <1>1, <1>2, <1>3, <1>4

LEMMA PushScopeKeepsLayout ==
  ASSUME IInv, LayoutInv, InBytes, Advance, Byte.op = "PushLexicalEnv",
         UNCHANGED form_stack, UNCHANGED environment_bindings, PushEnvironment("bytes")
  PROVE  LayoutInv'
<1>1. PICK frame : /\ frame.source = "bytes" /\ frame.env \notin DOMAIN environment_bindings
                   /\ frame_stack' = Append(frame_stack, frame)
  BY NewFrameIs
<1> DEFINE seen2 == View(Append(frame_stack, frame), environment_bindings)
<1>2. /\ Reaches(seen2, Seen, Len(Seen) + 1)
      /\ Last(seen2) = [source |-> "bytes", tags |-> << >>]
  BY <1>1, ViewPushed, TakingIs DEF Seen
<1>3. Seen' = seen2
  BY <1>1 DEF Seen
<1> HIDE DEF seen2
<1>4. ScopesGo(TopShape.scopes, Append(TopShape.scopes, << >>), Seen, seen2)
  BY <1>2, TakingIs, ScopesGoIn
<1>5. ScopesAfter(Byte, TopShape) = Append(TopShape.scopes, << >>)
  BY DEF ScopesAfter
<1>6. ScopesGo(TopShape.scopes, ScopesAfter(Byte, TopShape), Seen, Seen')
  BY <1>3, <1>4, <1>5
<1> QED  BY <1>6, ScopeByteKeepsLayout

(* Popping the frames above n.                                             *)
LEMMA SeenCut ==
  ASSUME FramesInv, UNCHANGED environment_bindings,
         NEW n \in Nat, n <= Len(frame_stack), frame_stack' = SubSeq(frame_stack, 1, n)
  PROVE  Cut(Seen', Seen, n)
<1>1. Cut(View(SubSeq(frame_stack, 1, n), environment_bindings), Seen, n)
  BY ViewCut DEF FramesInv, Seen
<1>2. Seen' = View(SubSeq(frame_stack, 1, n), environment_bindings)
  BY DEF Seen
<1> QED  BY <1>1, <1>2

LEMMA PopScopeKeepsLayout ==
  ASSUME IInv, LayoutInv, InBytes, Advance, Byte.op = "PopLexicalEnv",
         UNCHANGED form_stack, UNCHANGED environment_bindings,
         Len(frame_stack) > 1, PopTo(Len(frame_stack) - 1)
  PROVE  LayoutInv'
<1> DEFINE tags == TopShape.scopes
           n    == Len(tags) - 1
           len  == Len(frame_stack) - 1
<1>1. Len(frame_stack) \in Nat /\ Len(frame_stack) > 1 /\ len \in Nat /\ len <= Len(frame_stack)
  BY SeqIs DEF IInv, FramesInv
<1>2. Cut(Seen', Seen, len)
  <2>1. frame_stack' = SubSeq(frame_stack, 1, len)
    BY DEF PopTo
  <2> HIDE DEF len
  <2> QED  BY <1>1, <2>1, SeenCut DEF IInv
<1>3. IsSeq(tags) /\ tags # <<>> /\ IsSeq(Seen) /\ Len(Seen) = Len(frame_stack)
  BY RunningBytes, TakingIs, SeenIs DEF FindsItsOwn, IInv
<1>4. ScopesAfter(Byte, TopShape) = SubSeq(tags, 1, n)
  BY DEF ScopesAfter, DropLast
<1> HIDE DEF tags
<1>5. Len(tags) \in Nat /\ 1 <= Len(tags)
  BY <1>3, SeqIs, NonemptyIs
<1>6. n \in Nat /\ n <= Len(tags) /\ len = Len(Seen) - (Len(tags) - n)
  BY <1>1, <1>3, <1>5
<1> HIDE DEF n, len
<1>7. PICK seen2 : seen2 = Seen'
  OBVIOUS
<1>8. ScopesGo(tags, SubSeq(tags, 1, n), Seen, seen2)
  BY <1>2, <1>3, <1>6, <1>7, ScopesGoOut
<1>9. ScopesGo(TopShape.scopes, ScopesAfter(Byte, TopShape), Seen, Seen')
  BY <1>4, <1>7, <1>8 DEF tags
<1> QED  BY <1>9, ScopeByteKeepsLayout

LEMMA LastForm ==
  ASSUME NEW known, IsSeq(known), NEW f0 \in Nat, NEW forms,
         FormsFill(known, f0, Len(forms), forms), 1 <= Len(known), Last(known) # Unknown
  PROVE  Last(forms) = Last(known)
<1> DEFINE n == Len(known)
<1>1. /\ n \in Nat /\ 1 <= n /\ Len(forms) = f0 + n
      /\ \A k \in 1 .. n : known[k] # Unknown => forms[f0 + k] = known[k]
  BY SeqIs DEF FormsFill
<1>2. Last(known) = known[n] /\ Last(forms) = forms[f0 + n]
  BY <1>1 DEF Last
<1> HIDE DEF n
<1>3. n \in 1 .. n
  BY <1>1
<1> QED  BY <1>1, <1>2, <1>3

LEMMA LastScope ==
  ASSUME NEW tags, IsSeq(tags), NEW r0 \in Nat, NEW view,
         ScopesFill(tags, r0, Len(view), view), tags # <<>>
  PROVE  Last(view).source = "bytes" /\ Last(view).tags = Last(tags)
<1> DEFINE n == Len(tags)
<1>1. /\ n \in Nat /\ 1 <= n /\ Len(view) = r0 + n
      /\ \A k \in 1 .. n : view[r0 + k].source = "bytes" /\ view[r0 + k].tags = tags[k]
  BY SeqIs, NonemptyIs DEF ScopesFill
<1>2. Last(tags) = tags[n] /\ Last(view) = view[r0 + n]
  BY <1>1 DEF Last
<1> HIDE DEF n
<1>3. n \in 1 .. n
  BY <1>1
<1> QED  BY <1>1, <1>2, <1>3

LEMMA LastSeen ==
  ASSUME FramesInv
  PROVE  /\ Last(Seen).source = Last(frame_stack).source
         /\ Last(Seen).tags = TagsAt(CurrentEnv, environment_bindings)
<1> DEFINE n == Len(frame_stack)
<1>1. n \in Nat /\ 1 <= n /\ n \in 1 .. n
  BY SeqIs DEF FramesInv
<1>2. /\ Len(Seen) = n
      /\ Seen[n] = [source |-> frame_stack[n].source,
                    tags |-> TagsAt(frame_stack[n].env, environment_bindings)]
  BY <1>1, ViewIs DEF FramesInv, Seen
<1> QED  BY <1>2 DEF Last, CurrentEnv

(* A tag is bound in a scope of the bytecode, as the shape has it.         *)
LEMMA BindTagFinds ==
  ASSUME IInv, LayoutInv, InBytes, Byte.op = "BindTag"
  PROVE  /\ Last(frame_stack).source = "bytes"
         /\ TagsAt(CurrentEnv, environment_bindings) = Last(TopShape.scopes)
         /\ Last(form_stack) = Last(TopShape.forms)
         /\ TopShape.scopes # <<>>
<1>1. /\ TopShape.scopes # <<>> /\ Last(TopShape.forms) # Unknown /\ 1 <= Len(TopShape.forms)
      /\ IsSeq(TopShape.forms) /\ IsSeq(TopShape.scopes)
  <2>1. Taken(Byte) = 1
    BY DEF Taken
  <2> QED  BY <2>1, RunningBytes, TakingIs DEF FindsItsOwn
<1>2. PICK f0, r0 \in Nat : /\ FormsFill(TopShape.forms, f0, Len(form_stack), form_stack)
                            /\ ScopesFill(TopShape.scopes, r0, Len(Seen), Seen)
  BY RunningBytes
<1>3. Last(form_stack) = Last(TopShape.forms)
  BY <1>1, <1>2, LastForm
<1>4. Last(Seen).source = "bytes" /\ Last(Seen).tags = Last(TopShape.scopes)
  BY <1>1, <1>2, LastScope
<1> QED  BY <1>1, <1>3, <1>4, LastSeen DEF IInv

LEMMA BindTagKeepsLayout ==
  ASSUME IInv, LayoutInv, ScopesInv, OpBindTag
  PROVE  LayoutInv'
<1> DEFINE tags == TopShape.scopes
           tag  == Last(form_stack)
           new  == Inserted(TagsAt(CurrentEnv, environment_bindings), tag, Byte.index)
           bound == Inserted(environment_bindings, CurrentEnv, new)
           seen2 == View(frame_stack, bound)
<1>1. /\ InBytes /\ Byte.op = "BindTag" /\ Advance /\ frame_stack' = frame_stack
      /\ environment_bindings' = bound
      /\ form_stack' = DropLast(form_stack, 1) \o <<>>
  BY DEF OpBindTag, At, scopes, Replaces, TagsAt
<1>2. /\ TagsAt(CurrentEnv, environment_bindings) = Last(tags)
      /\ Last(form_stack) = Last(TopShape.forms) /\ tags # <<>> /\ IsSeq(tags) /\ IsSeq(Seen)
  BY <1>1, BindTagFinds, TakingIs
<1>3. FormsGo(TopShape.forms, DropLast(TopShape.forms, Taken(Byte)) \o Given(Byte),
              form_stack, form_stack')
  <2>1. Taken(Byte) = 1
    BY <1>1 DEF Taken
  <2>2. FormsFill(Given(Byte), 0, Len(<<>>), <<>>)
    BY <1>1, GivenIs
  <2>3. form_stack' = DropLast(form_stack, Taken(Byte)) \o <<>>
    BY <1>1, <2>1
  <2> QED  BY <1>1, <2>2, <2>3, EmptyIs, FormsStep
<1>4. ScopesAfter(Byte, TopShape) = [tags EXCEPT ![Len(tags)] = new]
  <2>1. ScopesAfter(Byte, TopShape) =
          [tags EXCEPT ![Len(tags)] = Inserted(tags[Len(tags)], Last(TopShape.forms), Byte.index)]
    BY <1>1 DEF ScopesAfter
  <2> QED  BY <1>2, <2>1 DEF Last
<1>5. \A i \in 1 .. Len(frame_stack) :
        frame_stack[i].env = Last(frame_stack).env => i = Len(frame_stack)
  <2>1. Len(frame_stack) \in 1 .. Len(frame_stack)
    BY SeqIs DEF IInv, FramesInv
  <2> QED  BY <2>1 DEF ScopesInv, Last
<1>6. IsSeq(frame_stack) /\ frame_stack # <<>>
  <2>1. IsSeq(frame_stack) /\ Len(frame_stack) # 0
    BY SeqIs DEF IInv, FramesInv
  <2> QED  BY <2>1, EmptyIs
<1> HIDE DEF new
<1>7. /\ Reaches(seen2, Seen, Len(Seen))
      /\ Last(seen2) = [source |-> Last(Seen).source, tags |-> new]
  BY <1>5, <1>6, ViewBound DEF Seen, CurrentEnv
<1>8. Seen' = seen2
  BY <1>1 DEF Seen
<1> HIDE DEF tags, seen2
<1>9. ScopesGo(tags, [tags EXCEPT ![Len(tags)] = new], Seen, seen2)
  BY <1>2, <1>7, ScopesGoTag
<1>10. ScopesGo(TopShape.scopes, ScopesAfter(Byte, TopShape), Seen, Seen')
  BY <1>4, <1>8, <1>9 DEF tags
<1> QED  BY <1>1, <1>3, <1>10, AdvanceKeepsLayout

----------------------------------------------------------------------------
(* GO                                                                      *)

(* The innermost scope that holds the tag is the first frame, from above,  *)
(* that binds it or does not belong to the bytecode.                       *)
Holders(tag, tags) == {k \in 1 .. Len(tags) : tag \in DOMAIN tags[k]}
Stops(tag, view)   ==
  {i \in 1 .. Len(view) : tag \in DOMAIN view[i].tags \/ view[i].source # "bytes"}

LEMMA GoIsWithin ==
  ASSUME NEW tags, IsSeq(tags), NEW r0 \in Nat, NEW view,
         ScopesFill(tags, r0, Len(view), view), NEW tag, Holders(tag, tags) # {}
  PROVE  /\ Max(Holders(tag, tags)) \in Holders(tag, tags)
         /\ Max(Stops(tag, view)) = r0 + Max(Holders(tag, tags))
         /\ view[Max(Stops(tag, view))].tags = tags[Max(Holders(tag, tags))]
<1> DEFINE n     == Len(tags)
           all   == Len(view)
           held  == Holders(tag, tags)
           stops == Stops(tag, view)
<1>1. /\ n \in Nat /\ all \in Nat /\ all = r0 + n
      /\ \A k \in 1 .. n : view[r0 + k].source = "bytes" /\ view[r0 + k].tags = tags[k]
  BY SeqIs DEF ScopesFill
<1>2. held = {k \in 1 .. n : tag \in DOMAIN tags[k]} /\ held # {}
  BY DEF Holders
<1>3. stops = {i \in 1 .. all : tag \in DOMAIN view[i].tags \/ view[i].source # "bytes"}
  BY DEF Stops
<1> HIDE DEF n, all, held, stops
<1>4. Max(held) \in held /\ \A k \in held : k <= Max(held)
  <2>1. held \subseteq 1 .. n
    BY <1>2
  <2> QED  BY <1>1, <1>2, <2>1, MaxIs
<1>5. PICK k \in Int : k = Max(held)
  <2>1. \A x \in held : x \in Int
    BY <1>1, <1>2
  <2>2. Max(held) \in Int
    BY <1>4, <2>1
  <2> QED  BY <2>2
<1>6. PICK i \in Int : i = r0 + k
  OBVIOUS
<1>7. k \in 1 .. n /\ tag \in DOMAIN tags[k] /\ i \in 1 .. all /\ view[i].tags = tags[k]
  BY <1>1, <1>2, <1>4, <1>5, <1>6
<1>8. i \in stops
  BY <1>3, <1>7
<1>9. Max(stops) \in stops /\ \A x \in stops : x <= Max(stops)
  <2>1. stops \subseteq 1 .. all
    BY <1>3
  <2> QED  BY <1>1, <1>8, <2>1, MaxIs
<1>10. PICK j \in Int : j = Max(stops)
  <2>1. \A x \in stops : x \in Int
    BY <1>1, <1>3
  <2>2. Max(stops) \in Int
    BY <1>9, <2>1
  <2> QED  BY <2>2
<1>11. j = i
  <2>1. i <= j /\ j \in 1 .. all /\ (tag \in DOMAIN view[j].tags \/ view[j].source # "bytes")
    BY <1>3, <1>8, <1>9, <1>10
  <2>2. PICK x \in Int : x = j - r0
    BY <1>1
  <2>3. x \in 1 .. n /\ j = r0 + x
    BY <1>1, <1>6, <1>7, <2>1, <2>2
  <2>4. view[j].source = "bytes" /\ view[j].tags = tags[x]
    BY <1>1, <2>3
  <2>5. x \in held
    BY <1>2, <2>1, <2>3, <2>4
  <2>6. x <= k
    BY <1>4, <1>5, <2>5
  <2> QED  BY <1>6, <2>1, <2>2, <2>6
<1>12. Max(held) \in held /\ Max(stops) = r0 + Max(held) /\ view[Max(stops)].tags = tags[Max(held)]
  BY <1>4, <1>5, <1>6, <1>7, <1>10, <1>11
<1> QED  BY <1>12 DEF held, stops

LEMMA LandingIsStop ==
  ASSUME FramesInv, NEW tag
  PROVE  /\ Landing(tag) = Max(Stops(tag, Seen))
         /\ \A i \in 1 .. Len(frame_stack) :
              /\ Binds(i, tag) <=> tag \in DOMAIN Seen[i].tags
              /\ Binds(i, tag) => environment_bindings[frame_stack[i].env] = Seen[i].tags
<1> DEFINE n     == Len(frame_stack)
           stops == {i \in DOMAIN frame_stack : Binds(i, tag) \/ frame_stack[i].source # "bytes"}
<1>1. n \in Nat /\ DOMAIN frame_stack = 1 .. n
  BY SeqIs DEF FramesInv
<1>2. /\ Len(Seen) = n
      /\ \A i \in 1 .. n : Seen[i] = [source |-> frame_stack[i].source,
                                      tags |-> TagsAt(frame_stack[i].env, environment_bindings)]
  BY ViewIs DEF FramesInv, Seen
<1> HIDE DEF n
<1>3. DOMAIN << >> = {}
  OBVIOUS
<1>4. ASSUME NEW i \in 1 .. n
      PROVE  /\ Binds(i, tag) <=> tag \in DOMAIN Seen[i].tags
             /\ Binds(i, tag) => environment_bindings[frame_stack[i].env] = Seen[i].tags
             /\ Seen[i].source = frame_stack[i].source
  <2> DEFINE env == frame_stack[i].env
  <2>1. Seen[i].tags = TagsAt(env, environment_bindings) /\ Seen[i].source = frame_stack[i].source
    <3>1. Seen[i] = [source |-> frame_stack[i].source, tags |-> TagsAt(env, environment_bindings)]
      BY <1>2
    <3> HIDE DEF env
    <3> QED  BY <3>1
  <2>2. Binds(i, tag) <=>
          env \in DOMAIN environment_bindings /\ tag \in DOMAIN environment_bindings[env]
    BY DEF Binds
  <2> HIDE DEF env
  <2>3. CASE env \in DOMAIN environment_bindings
    <3>1. TagsAt(env, environment_bindings) = environment_bindings[env]
      BY <2>3 DEF TagsAt
    <3> QED  BY <2>1, <2>2, <2>3, <3>1 DEF env
  <2>4. CASE env \notin DOMAIN environment_bindings
    <3>1. TagsAt(env, environment_bindings) = << >>
      BY <2>4 DEF TagsAt
    <3> QED  BY <1>3, <2>1, <2>2, <2>4, <3>1
  <2> QED  BY <2>3, <2>4
<1>5. stops = {i \in 1 .. n : Binds(i, tag) \/ frame_stack[i].source # "bytes"}
  BY <1>1
<1> HIDE DEF stops
<1>6. stops = Stops(tag, Seen)
  BY <1>2, <1>4, <1>5 DEF Stops
<1>7. Landing(tag) = Max(stops)
  BY DEF Landing, stops
<1> QED  BY <1>4, <1>6, <1>7 DEF n

(* Where a GO lands, in the frames and in the bytecode.                    *)
LEMMA GoFinds ==
  ASSUME IInv, LayoutInv, InBytes, Byte.op = "GoReturn"
  PROVE  LET tags   == TopShape.scopes
             i      == Landing(Byte.target)
             target == environment_bindings[frame_stack[i].env][Byte.target]
         IN  \E k \in 1 .. Len(tags) :
               /\ i \in 1 .. Len(frame_stack) /\ Binds(i, Byte.target)
               /\ i = Len(Seen) - (Len(tags) - k)
               /\ target \in 0 .. Len(Top.bytes)
               /\ Shapes(Top.bytes)[target] = Shape(TopShape.forms, SubSeq(tags, 1, k))
<1> DEFINE tag    == Byte.target
           tags   == TopShape.scopes
           i      == Landing(tag)
           k      == Max(Holders(tag, tags))
           target == environment_bindings[frame_stack[i].env][tag]
<1>1. IsSeq(tags) /\ GoesBack(tag, TopShape, Shapes(Top.bytes)) /\ TypedBytes(Top.bytes)
  BY RunningBytes, TakingIs
<1>2. Len(tags) \in Nat /\ DOMAIN tags = 1 .. Len(tags)
  BY <1>1, SeqIs
<1>3. Holding(TopShape, tag) = Holders(tag, tags)
  BY <1>2 DEF Holding, Holders
<1>4. Holders(tag, tags) # {}
  BY <1>1, <1>3 DEF GoesBack
<1>5. /\ tags[k][tag] \in DOMAIN Shapes(Top.bytes)
      /\ Shapes(Top.bytes)[tags[k][tag]] = Shape(TopShape.forms, SubSeq(tags, 1, k))
  BY <1>1, <1>3 DEF GoesBack
<1>6. DOMAIN Shapes(Top.bytes) = 0 .. Len(Top.bytes)
  BY <1>1, ShapesAre
<1>7. PICK r0 \in Nat : ScopesFill(tags, r0, Len(Seen), Seen)
  BY RunningBytes
<1>8. FramesInv /\ Len(Seen) = Len(frame_stack)
  BY SeenIs DEF IInv
<1>9. i = Max(Stops(tag, Seen)) /\ i \in 1 .. Len(frame_stack)
  BY <1>8, LandingIs, LandingIsStop
<1> HIDE DEF tags, tag, i
<1>10. k \in Holders(tag, tags) /\ i = r0 + k /\ Seen[i].tags = tags[k]
  BY <1>1, <1>4, <1>7, <1>9, GoIsWithin
<1>11. k \in 1 .. Len(tags) /\ tag \in DOMAIN tags[k]
  BY <1>10 DEF Holders
<1>12. Binds(i, tag) /\ environment_bindings[frame_stack[i].env] = tags[k]
  BY <1>8, <1>9, <1>10, <1>11, LandingIsStop
<1>13. Len(Seen) = r0 + Len(tags)
  BY <1>7 DEF ScopesFill
<1> HIDE DEF k
<1>14. i = Len(Seen) - (Len(tags) - k)
  BY <1>2, <1>10, <1>11, <1>13
<1>15. target = tags[k][tag]
  BY <1>12
<1> HIDE DEF target
<1>16. /\ k \in 1 .. Len(tags) /\ i \in 1 .. Len(frame_stack) /\ Binds(i, tag)
       /\ i = Len(Seen) - (Len(tags) - k) /\ target \in 0 .. Len(Top.bytes)
       /\ Shapes(Top.bytes)[target] = Shape(TopShape.forms, SubSeq(tags, 1, k))
  BY <1>5, <1>6, <1>9, <1>11, <1>12, <1>14, <1>15
<1> QED  BY <1>16 DEF tags, tag, i, target

LEMMA GoKeepsLayout ==
  ASSUME IInv, LayoutInv, OpGoLands
  PROVE  LayoutInv'
<1> DEFINE tags   == TopShape.scopes
           i      == Landing(Byte.target)
           target == environment_bindings[frame_stack[i].env][Byte.target]
<1>1. /\ InBytes /\ Byte.op = "GoReturn" /\ JumpTo(target)
      /\ frame_stack' = SubSeq(frame_stack, 1, i)
      /\ form_stack' = form_stack /\ environment_bindings' = environment_bindings
  BY DEF OpGoLands, At, PopTo
<1>2. PICK k \in 1 .. Len(tags) :
        /\ i \in 1 .. Len(frame_stack) /\ i = Len(Seen) - (Len(tags) - k)
        /\ target \in 0 .. Len(Top.bytes)
        /\ Shapes(Top.bytes)[target] = Shape(TopShape.forms, SubSeq(tags, 1, k))
  BY <1>1, GoFinds
<1>3. Len(frame_stack) \in Nat /\ FramesInv
  BY SeqIs DEF IInv, FramesInv
<1> HIDE DEF i, target
<1>4. Cut(Seen', Seen, i)
  <2>1. i \in Nat /\ i <= Len(frame_stack)
    BY <1>2, <1>3
  <2> QED  BY <1>1, <1>3, <2>1, SeenCut
<1>5. IsSeq(tags) /\ IsSeq(Seen) /\ IsSeq(form_stack)
  BY <1>1, TakingIs
<1> HIDE DEF tags
<1>6. k \in Nat /\ k <= Len(tags)
  BY <1>2, <1>5, SeqIs
<1>7. PICK seen2 : seen2 = Seen'
  OBVIOUS
<1>8. PICK len : len = i /\ len = Len(Seen) - (Len(tags) - k)
  BY <1>2
<1>9. ScopesGo(tags, SubSeq(tags, 1, k), Seen, seen2)
  <2>1. Cut(seen2, Seen, len)
    BY <1>4, <1>7, <1>8
  <2> QED  BY <1>5, <1>6, <1>8, <2>1, ScopesGoOut
<1>10. PICK shape : shape = Shapes(Top.bytes)[target]
  OBVIOUS
<1>11. shape.forms = TopShape.forms /\ shape.scopes = SubSeq(tags, 1, k)
  BY <1>2, <1>10 DEF Shape
<1>12. FormsGo(TopShape.forms, shape.forms, form_stack, form_stack')
  BY <1>1, <1>5, <1>11, FormsGoNowhere
<1>13. ScopesGo(TopShape.scopes, shape.scopes, Seen, Seen')
  BY <1>7, <1>9, <1>11 DEF tags
<1> QED  BY <1>1, <1>2, <1>10, <1>12, <1>13, JumpKeepsLayout

----------------------------------------------------------------------------
(* Activations begin                                                       *)

Over(s, t) == IsSeq(s) /\ Agree(s, t, Len(t))

Begins(n, xs, ys, forms, forms2, view, view2) ==
  /\ ActLaid(ys[n + 1], Len(forms), Len(forms2), Len(view), Len(view2), forms2, view2)
  /\ Follows(ys[n + 1], xs[n])

LEMMA AnotherLaid ==
  ASSUME NEW f, NEW r, NEW xs, IsSeq(xs), NEW forms, NEW view, Laid(f, r, xs, forms, view),
         NEW n \in Nat, IsTop(n, xs), NEW ys, Reaches(ys, xs, n + 1),
         NEW forms2, Over(forms2, forms), NEW view2, Over(view2, view),
         Begins(n, xs, ys, forms, forms2, view, view2)
  PROVE  \E f2, r2 : Laid(f2, r2, ys, forms2, view2)
<1> DEFINE m == n + 1
<1>1. m \in Nat /\ IsPlace(m, xs) /\ m # 1 /\ m - 1 = n
  BY DEF IsPlace, IsTop
<1>2. f[m] = Len(forms) /\ r[m] = Len(view)
  BY DEF Laid, IsTop
<1>3. Keeps(m, f, forms2, forms) /\ Keeps(m, r, view2, view)
  BY <1>2 DEF Keeps, Over
<1>4. Reaches(ys, xs, m) /\ ys[n] = xs[n]
  <2>1. n \in 1 .. n + 1 - 1
    BY DEF IsTop
  <2>2. Agree(ys, xs, n + 1 - 1)
    BY DEF Reaches
  <2>3. \A i \in 1 .. n + 1 - 1 : ys[i] = xs[i]
    BY <2>2 DEF Agree
  <2> QED  BY <2>1, <2>3
<1>5. TopIsLaid(m, f, r, ys, forms2, view2)
  BY <1>2 DEF Begins, TopIsLaid
<1>6. OnItsCaller(m, ys, f)
  BY <1>1, <1>4 DEF Begins, OnItsCaller
<1> HIDE DEF m
<1> QED  BY <1>1, <1>3, <1>4, <1>5, <1>6, Relaid

LEMMA AnotherKeepsLayout ==
  ASSUME NEW f, NEW r, NEW n \in Nat, IsTop(n, acts), IsSeq(acts),
         Laid(f, r, acts, form_stack, Seen), Reaches(acts', acts, n + 1),
         Over(form_stack', form_stack), Over(Seen', Seen),
         Begins(n, acts, acts', form_stack, form_stack', Seen, Seen')
  PROVE  LayoutInv'
<1>1. \E f2, r2 : Laid(f2, r2, acts', form_stack', Seen')
  BY AnotherLaid
<1> QED  BY <1>1 DEF LayoutInv, Seen

LEMMA AppendedIs ==
  ASSUME NEW s, IsSeq(s), NEW n \in Nat, Len(s) = n, NEW x
  PROVE  /\ Reaches(Append(s, x), s, n + 1) /\ Append(s, x)[n + 1] = x
         /\ Over(Append(s, x), s)
<1>1. /\ IsSeq(Append(s, x)) /\ Len(Append(s, x)) = n + 1
      /\ \A i \in 1 .. n : Append(s, x)[i] = s[i]
      /\ Append(s, x)[n + 1] = x
  BY AppendIs
<1>2. \A i \in 1 .. n + 1 - 1 : i \in 1 .. n
  OBVIOUS
<1> QED  BY <1>1, <1>2 DEF Reaches, Agree, Over

(* What a call has pushed, the argument list last.                         *)
Puts(s, pushed, x, t) == t = s \o (pushed \o <<x>>)

LEMMA PushedIs ==
  ASSUME NEW s, IsSeq(s), NEW pushed, IsSeq(pushed), NEW n \in Nat, NEW p \in Nat,
         Len(s) = n, Len(pushed) = p, NEW x, NEW t, Puts(s, pushed, x, t)
  PROVE  /\ IsSeq(t) /\ Len(t) = n + p + 1 /\ Over(t, s)
         /\ \A i \in 1 .. p : t[n + i] = pushed[i]
<1> DEFINE one  == <<x>>
           more == pushed \o one
           all  == s \o more
<1>0. t = all
  BY DEF Puts
<1>1. IsSeq(one) /\ Len(one) = 1
  BY SingleIs
<1> HIDE DEF one
<1>2. /\ IsSeq(more) /\ Len(more) = p + 1
      /\ \A i \in 1 .. p + 1 : more[i] = IF i <= p THEN pushed[i] ELSE one[i - p]
  BY <1>1, ConcatIs
<1> HIDE DEF more
<1>3. /\ IsSeq(t) /\ Len(t) = n + (p + 1)
      /\ \A i \in 1 .. n + (p + 1) : t[i] = IF i <= n THEN s[i] ELSE more[i - n]
  <2>1. /\ IsSeq(all) /\ Len(all) = n + (p + 1)
        /\ \A i \in 1 .. n + (p + 1) : all[i] = IF i <= n THEN s[i] ELSE more[i - n]
    BY <1>2, ConcatIs
  <2> HIDE DEF all
  <2> QED  BY <1>0, <2>1
<1> HIDE DEF all
<1>4. \A i \in 1 .. n : t[i] = s[i]
  <2>1. \A i \in 1 .. n : i \in 1 .. n + (p + 1) /\ i <= n
    OBVIOUS
  <2> QED  BY <1>3, <2>1
<1>5. ASSUME NEW i \in 1 .. p  PROVE t[n + i] = pushed[i]
  <2>1. PICK k \in Int : k = n + i
    OBVIOUS
  <2>2. k \in 1 .. n + (p + 1) /\ ~(k <= n) /\ k - n = i
    BY <2>1
  <2>3. i \in 1 .. p + 1 /\ i <= p
    OBVIOUS
  <2> QED  BY <1>2, <1>3, <2>1, <2>2, <2>3
<1>6. IsSeq(t) /\ Len(t) = n + p + 1 /\ Over(t, s)
  BY <1>3, <1>4 DEF Over, Agree
<1> QED  BY <1>5, <1>6

(* A new call, laid.                                                       *)
LEMMA NewCallLaid ==
  ASSUME NEW fn, NEW fn_index \in Nat, NEW arg_count \in Nat,
         NEW f0 \in Nat, f0 = fn_index + arg_count + 1, NEW forms,
         \A k \in 1 .. arg_count : forms[fn_index + 1 + k] \in Language,
         NEW r0 \in Nat, NEW view, view[r0 + 1].source = "funcall"
  PROVE  ActLaid(CallAct(fn, fn_index, arg_count), f0, f0 + 1, r0, r0 + 1, forms, view)
BY DEF ActLaid, CallLaid, CallAct

(* The form stack of a call that begins.                                   *)
LEMMA CallFrame ==
  ASSUME IInv, PushEnvironment("funcall"), UNCHANGED environment_bindings,
         NEW n \in Nat, Len(frame_stack) = n
  PROVE  /\ Reaches(Seen', Seen, n + 1) /\ Over(Seen', Seen) /\ Len(Seen) = n /\ Len(Seen') = n + 1
         /\ Seen'[n + 1].source = "funcall"
<1>1. PICK frame : /\ frame.source = "funcall" /\ frame.env \notin DOMAIN environment_bindings
                   /\ frame_stack' = Append(frame_stack, frame)
  BY NewFrameIs
<1> DEFINE seen2 == View(Append(frame_stack, frame), environment_bindings)
<1>2. Len(Seen) = n
  BY SeenIs DEF IInv
<1>3. /\ Reaches(seen2, Seen, n + 1)
      /\ Last(seen2) = [source |-> "funcall", tags |-> << >>]
  <2>1. IsSeq(frame_stack)
    BY DEF IInv, FramesInv
  <2>2. /\ Reaches(seen2, Seen, Len(Seen) + 1)
        /\ Last(seen2) = [source |-> "funcall", tags |-> << >>]
    BY <1>1, <2>1, ViewPushed DEF Seen
  <2> HIDE DEF seen2
  <2> QED  BY <1>2, <2>2
<1>4. Seen' = seen2
  BY <1>1 DEF Seen
<1> HIDE DEF seen2
<1>5. IsSeq(seen2) /\ Len(seen2) = n + 1 /\ \A i \in 1 .. n + 1 - 1 : seen2[i] = Seen[i]
  BY <1>3 DEF Reaches, Agree
<1>6. seen2[n + 1].source = "funcall"
  BY <1>3, <1>5 DEF Last
<1>7. \A i \in 1 .. n : i \in 1 .. n + 1 - 1
  OBVIOUS
<1>8. Over(seen2, Seen)
  BY <1>2, <1>5, <1>7 DEF Over, Agree
<1> QED  BY <1>2, <1>3, <1>4, <1>5, <1>6, <1>8

LEMMA FuncallKeepsLayout ==
  ASSUME IInv, LayoutInv, OpFuncall
  PROVE  LayoutInv'
<1> DEFINE count == Byte.arg_count
           known == TopShape.forms
           fn_index == Len(form_stack) - (1 + count)
           call  == CallAct(form_stack[FunctionOffset + 1][2], fn_index, count)
           n     == Len(acts)
           len   == Len(frame_stack)
           size  == Len(form_stack)
<1>1. /\ InBytes /\ Byte.op = "Funcall" /\ acts # <<>> /\ Top.kind = "bytes"
      /\ Top.index < Len(Top.bytes) /\ Going
  BY DEF OpFuncall, At, InBytes, Running, Going
<1>2. n \in Nat /\ 1 < n /\ IsTop(n, acts) /\ IsSeq(acts) /\ acts[n] = Top
  BY <1>1, BytesAreTop DEF IInv
<1>3. PICK f, r : Laid(f, r, acts, form_stack, Seen)
  BY <1>1 DEF LayoutInv, Seen
<1>4. /\ count \in Nat /\ IsSeq(known) /\ count + 1 <= Len(known)
      /\ \A k \in Len(known) - count + 1 .. Len(known) : known[k] \in Language \ {Unknown}
  <2>1. Taken(Byte) = count + 1
    BY <1>1 DEF Taken
  <2> QED  BY <1>1, <2>1, RunningBytes, TakingIs DEF FindsItsOwn
<1>5. PICK f0 \in Nat : FormsFill(known, f0, Len(form_stack), form_stack)
  BY <1>1, RunningBytes
<1>6. /\ BeginCall(form_stack[FunctionOffset + 1][2], <<>>, count)
      /\ UNCHANGED environment_bindings
  BY DEF OpFuncall
<1>7. /\ acts' = Append(acts, call) /\ PushEnvironment("funcall")
      /\ form_stack' = form_stack \o (<<>> \o <<Nil>>)
  <2>1. Len(form_stack) + Len(<<>>) - (1 + count) = fn_index
    <3>1. Len(form_stack) \in Nat
      BY SeqIs DEF IInv, FormsInv
    <3> QED  BY <1>4, <3>1, EmptyIs
  <2> QED  BY <1>6, <2>1 DEF BeginCall, Pushes
<1>8. size \in Nat /\ IsSeq(form_stack) /\ len \in Nat
  BY SeqIs DEF IInv, FormsInv, FramesInv
<1>9. IsSeq(form_stack') /\ Len(form_stack') = size + 1 /\ Over(form_stack', form_stack)
  <2>1. IsSeq(<<>>) /\ Len(<<>>) = 0 /\ 0 \in Nat
    BY EmptyIs
  <2>2. size \in Nat /\ IsSeq(form_stack) /\ Len(form_stack) = size
    BY <1>8
  <2> DEFINE none == <<>>
             more == form_stack \o (none \o <<Nil>>)
  <2>3. form_stack' = more
    BY <1>7
  <2>4. PICK p \in Nat : p = 0
    OBVIOUS
  <2>5. IsSeq(none) /\ Len(none) = p
    BY <2>1, <2>4
  <2> HIDE DEF size, none
  <2>6. IsSeq(more) /\ Len(more) = size + p + 1 /\ Over(more, form_stack)
    <3>1. Puts(form_stack, none, Nil, more)
      BY DEF Puts
    <3> HIDE DEF more
    <3> QED  BY <2>2, <2>5, <3>1, PushedIs
  <2>7. size + p + 1 = size + 1
    BY <2>2, <2>4
  <2> HIDE DEF more
  <2> QED  BY <2>2, <2>3, <2>6, <2>7
<1>10. /\ Over(Seen', Seen) /\ Len(Seen) = len /\ Len(Seen') = len + 1
       /\ Seen'[len + 1].source = "funcall"
  BY <1>6, <1>7, <1>8, CallFrame
<1> HIDE DEF n, len
<1>11. Reaches(acts', acts, n + 1) /\ acts'[n + 1] = call
  <2>1. Len(acts) = n
    BY DEF n
  <2>2. Reaches(Append(acts, call), acts, n + 1) /\ Append(acts, call)[n + 1] = call
    <3> HIDE DEF call
    <3> QED  BY <1>2, <2>1, AppendedIs
  <2> QED  BY <1>7, <2>2
<1>12. fn_index \in Nat /\ size = fn_index + count + 1
  <2>1. Len(known) \in Nat /\ size = f0 + Len(known)
    BY <1>4, <1>5, SeqIs DEF FormsFill
  <2> HIDE DEF size, known, count
  <2> QED  BY <1>4, <1>8, <2>1 DEF size, count
<1>13. \A k \in 1 .. count : form_stack'[fn_index + 1 + k] \in Language
  <2> SUFFICES ASSUME NEW k \in 1 .. count
               PROVE  form_stack'[fn_index + 1 + k] \in Language
    OBVIOUS
  <2>1. /\ Len(known) \in Nat /\ size = f0 + Len(known)
        /\ \A x \in 1 .. Len(known) : known[x] # Unknown => form_stack[f0 + x] = known[x]
    BY <1>4, <1>5, SeqIs DEF FormsFill
  <2> DEFINE all == Len(known)
  <2>0. /\ all \in Nat /\ count \in Nat /\ count + 1 <= all /\ size = f0 + all
        /\ fn_index \in Nat /\ size = fn_index + count + 1
    BY <1>4, <1>12, <2>1
  <2> HIDE DEF all, fn_index, size, count, known
  <2>2. PICK x \in Int : x = all - count + k
    BY <2>0
  <2>3. x \in all - count + 1 .. all /\ x \in 1 .. all /\ fn_index + 1 + k = f0 + x
    BY <2>0, <2>2
  <2>4. known[x] \in Language /\ form_stack[f0 + x] = known[x]
    BY <1>4, <2>1, <2>3 DEF all
  <2>5. PICK i \in Int : i = f0 + x
    OBVIOUS
  <2>6. i \in 1 .. size
    BY <2>0, <2>3, <2>5
  <2>7. form_stack'[i] = form_stack[i]
    BY <1>9, <2>6 DEF Over, Agree, size
  <2> QED  BY <2>3, <2>4, <2>5, <2>7
<1>14. ActLaid(call, size, size + 1, len, len + 1, form_stack', Seen')
  <2> DEFINE forms2 == form_stack'
             view2  == Seen'
  <2>1. /\ \A k \in 1 .. count : forms2[fn_index + 1 + k] \in Language
        /\ view2[len + 1].source = "funcall"
    BY <1>10, <1>13
  <2> HIDE DEF forms2, view2, fn_index, size, count
  <2>2. ActLaid(call, size, size + 1, len, len + 1, forms2, view2)
    BY <1>4, <1>8, <1>12, <2>1, NewCallLaid DEF len
  <2> QED  BY <2>2 DEF forms2, view2
<1>15. Follows(call, Top)
  BY <1>1 DEF Follows, CallAct, Byte
<1>16. Begins(n, acts, acts', form_stack, form_stack', Seen, Seen')
  BY <1>2, <1>9, <1>10, <1>11, <1>14, <1>15 DEF Begins
<1> QED  BY <1>2, <1>3, <1>9, <1>10, <1>11, <1>16, AnotherKeepsLayout

----------------------------------------------------------------------------
(* The steps of a call                                                     *)

LEMMA TopCallKnown ==
  ASSUME NEW f, NEW r, NEW xs, IsSeq(xs), NEW forms, NEW view, Laid(f, r, xs, forms, view),
         NEW m \in Nat, IsTop(m, xs), xs[m].kind = "call"
  PROVE  /\ f[m] \in Nat /\ r[m] \in Nat
         /\ CallLaid(xs[m], f[m], Len(forms), r[m], Len(view), forms, view)
<1>1. /\ f \in [1 .. m + 1 -> Nat] /\ r \in [1 .. m + 1 -> Nat]
      /\ f[m + 1] = Len(forms) /\ r[m + 1] = Len(view)
      /\ \A j \in 1 .. m : ActLaid(xs[j], f[j], f[j + 1], r[j], r[j + 1], forms, view)
  BY DEF Laid, IsTop
<1>2. m \in 1 .. m /\ m \in 1 .. m + 1
  BY DEF IsTop
<1>3. f[m] \in Nat /\ r[m] \in Nat
  BY <1>1, <1>2
<1>4. ActLaid(xs[m], f[m], Len(forms), r[m], Len(view), forms, view)
  BY <1>1, <1>2
<1> QED  BY <1>3, <1>4 DEF ActLaid

LEMMA RunningCall ==
  ASSUME IInv, LayoutInv, Going, acts # <<>>, Top.kind = "call"
  PROVE  /\ Len(acts) \in Nat /\ IsTop(Len(acts), acts) /\ acts[Len(acts)] = Top
         /\ \E f, r : /\ Laid(f, r, acts, form_stack, Seen)
                      /\ f[Len(acts)] \in Nat /\ r[Len(acts)] \in Nat
                      /\ CallLaid(Top, f[Len(acts)], Len(form_stack), r[Len(acts)], Len(Seen),
                                  form_stack, Seen)
<1> DEFINE n == Len(acts)
<1>1. n \in Nat /\ 1 <= n /\ acts[n] = Top /\ IsSeq(acts)
  BY TopIs DEF IInv, ActsInv
<1>2. PICK f, r : Laid(f, r, acts, form_stack, Seen)
  BY DEF LayoutInv, Seen
<1>3. IsTop(n, acts)
  BY <1>1 DEF IsTop
<1> HIDE DEF n
<1>4. acts[n].kind = "call"
  BY <1>1
<1>5. /\ f[n] \in Nat /\ r[n] \in Nat
      /\ CallLaid(acts[n], f[n], Len(form_stack), r[n], Len(Seen), form_stack, Seen)
  BY <1>1, <1>2, <1>3, <1>4, TopCallKnown
<1> QED  BY <1>1, <1>2, <1>3, <1>5 DEF n

(* The bytecode of an argument begins with what the call has.              *)
LEMMA EnteredLaid ==
  ASSUME NEW bytes, TypedBytes(bytes), Disciplined(bytes),
         NEW f0 \in Nat, NEW r0 \in Nat, NEW forms, NEW view
  PROVE  ActLaid(BytesAct(bytes), f0, f0, r0, r0, forms, view)
<1>1. Shapes(bytes)[0] = Entered /\ 0 \in 0 .. Len(bytes)
  BY ShapesAre, SeqIs DEF TypedBytes
<1>2. Fills(Entered, f0, f0, r0, r0, forms, view)
  BY EmptyIs DEF Fills, FormsFill, ScopesFill, Entered, Shape
<1> QED  BY <1>1, <1>2 DEF ActLaid, BytesLaid, BytesAct

LEMMA EvaluateKeepsLayout ==
  ASSUME IInv, LayoutInv, CompilerIsTyped, LanguageIsDisciplined, EvaluateArg
  PROVE  LayoutInv'
<1> DEFINE form == form_stack[ArgOffset + 1]
           act  == BytesAct(Analyze(form).bytes)
           n    == Len(acts)
<1>1. /\ InCall /\ Going /\ acts # <<>> /\ Top.kind = "call" /\ Top.arg_i < Top.arg_count
      /\ Analyze(form).ret = 0 /\ acts' = Append(acts, act)
      /\ form_stack' = form_stack /\ Seen' = Seen
  BY DEF EvaluateArg, InCall, Running, Going, stacks, scopes, Seen
<1>2. n \in Nat /\ IsTop(n, acts) /\ acts[n] = Top /\ IsSeq(acts)
  BY <1>1, RunningCall DEF IInv, ActsInv
<1>3. PICK f, r : /\ Laid(f, r, acts, form_stack, Seen)
                  /\ CallLaid(Top, f[n], Len(form_stack), r[n], Len(Seen), form_stack, Seen)
  BY <1>1, RunningCall
<1>4. form \in Language
  <2>1. /\ Top.arg_i \in Nat /\ Top.arg_count \in Nat /\ Top.fn_index \in Nat
        /\ \A k \in 1 .. Top.arg_count : form_stack[Top.fn_index + 1 + k] \in Language
    BY <1>3 DEF CallLaid
  <2>2. PICK k \in Int : k = Top.arg_i + 1
    BY <2>1
  <2>3. k \in 1 .. Top.arg_count /\ Top.fn_index + 1 + k = ArgOffset + 1
    <3>1. \A i, count, index \in Nat : i < count =>
            i + 1 \in 1 .. count /\ index + 1 + (i + 1) = (index + 1 + i) + 1
      OBVIOUS
    <3>2. ArgOffset = Top.fn_index + 1 + Top.arg_i
      BY DEF ArgOffset
    <3> QED  BY <1>1, <2>1, <2>2, <3>1, <3>2
  <2> QED  BY <2>1, <2>3
<1> HIDE DEF form
<1>5. TypedBytes(Analyze(form).bytes) /\ Disciplined(Analyze(form).bytes)
  BY <1>1, <1>4 DEF CompilerIsTyped, LanguageIsDisciplined
<1>6. Len(form_stack) \in Nat /\ Len(Seen) \in Nat /\ IsSeq(form_stack) /\ IsSeq(Seen)
  BY SeenIs, SeqIs DEF IInv, FormsInv
<1>7. ActLaid(act, Len(form_stack), Len(form_stack), Len(Seen), Len(Seen), form_stack, Seen)
  BY <1>5, <1>6, EnteredLaid
<1>8. Follows(act, Top)
  BY <1>1 DEF Follows, BytesAct
<1> HIDE DEF n, act
<1>9. Reaches(acts', acts, n + 1) /\ acts'[n + 1] = act
  <2>1. Len(acts) = n
    BY DEF n
  <2>2. Reaches(Append(acts, act), acts, n + 1) /\ Append(acts, act)[n + 1] = act
    BY <1>2, <2>1, AppendedIs
  <2> QED  BY <1>1, <2>2
<1>10. Begins(n, acts, acts', form_stack, form_stack', Seen, Seen')
  BY <1>1, <1>2, <1>7, <1>8, <1>9 DEF Begins
<1>11. Over(form_stack', form_stack) /\ Over(Seen', Seen)
  BY <1>1, <1>6 DEF Over, Agree
<1> QED  BY <1>2, <1>3, <1>9, <1>10, <1>11, AnotherKeepsLayout

(* A call goes on with another argument: only the list of the evaluated    *)
(* ones is another.                                                        *)
CallMoves(m, xs, ys) ==
  /\ xs[m].kind = "call" /\ ys[m].kind = "call" /\ ys[m].fn_index = xs[m].fn_index
  /\ ys[m].arg_count = xs[m].arg_count /\ ys[m].arg_i \in Nat

LEMMA CallGoesOn ==
  ASSUME NEW f, NEW r, NEW xs, IsSeq(xs), NEW forms, NEW view, IsSeq(view),
         Laid(f, r, xs, forms, view),
         NEW m \in Nat, IsTop(m, xs), NEW ys, Reaches(ys, xs, m), CallMoves(m, xs, ys),
         NEW forms2, Reaches(forms2, forms, Len(forms))
  PROVE  \E f2, r2 : Laid(f2, r2, ys, forms2, view)
<1>1. /\ f[m] \in Nat /\ r[m] \in Nat
      /\ CallLaid(xs[m], f[m], Len(forms), r[m], Len(view), forms, view)
  BY TopCallKnown DEF CallMoves
<1> DEFINE f0 == f[m]
           r0 == r[m]
           index == xs[m].fn_index
           count == xs[m].arg_count
<1>2. /\ index \in Nat /\ count \in Nat /\ f0 = index + count + 1 /\ Len(forms) = f0 + 1
      /\ \A k \in 1 .. count : forms[index + 1 + k] \in Language
      /\ Len(view) = r0 + 1 /\ view[Len(view)].source = "funcall" /\ f0 \in Nat /\ r0 \in Nat
  BY <1>1 DEF CallLaid
<1>3. IsSeq(forms2) /\ Len(forms2) = f0 + 1 /\ \A i \in 1 .. f0 + 1 - 1 : forms2[i] = forms[i]
  <2>1. IsSeq(forms2) /\ Len(forms2) = Len(forms) /\ Agree(forms2, forms, Len(forms) - 1)
    BY DEF Reaches
  <2> HIDE DEF f0
  <2>2. Len(forms) = f0 + 1 /\ f0 \in Nat
    BY <1>2
  <2>3. \A i \in 1 .. Len(forms) - 1 : forms2[i] = forms[i]
    BY <2>1 DEF Agree
  <2> QED  BY <2>1, <2>2, <2>3
<1> HIDE DEF f0, r0, index, count
<1>4. \A i \in 1 .. f0 : forms2[i] = forms[i]
  <2>1. \A i \in 1 .. f0 : i \in 1 .. f0 + 1 - 1
    BY <1>2
  <2> QED  BY <1>3, <2>1
<1>5. \A k \in 1 .. count : forms2[index + 1 + k] \in Language
  <2> SUFFICES ASSUME NEW k \in 1 .. count  PROVE forms2[index + 1 + k] \in Language
    OBVIOUS
  <2>1. PICK i \in Int : i = index + 1 + k
    BY <1>2
  <2>2. i \in 1 .. f0
    BY <1>2, <2>1
  <2> QED  BY <1>2, <1>4, <2>1, <2>2
<1>6. CallLaid(ys[m], f0, Len(forms2), r0, Len(view), forms2, view)
  BY <1>2, <1>3, <1>5 DEF CallLaid, CallMoves, index, count
<1>7. TopIsLaid(m, f, r, ys, forms2, view)
  BY <1>6 DEF TopIsLaid, ActLaid, CallMoves, f0, r0
<1>8. Keeps(m, f, forms2, forms) /\ Keeps(m, r, view, view)
  BY <1>3, <1>4 DEF Keeps, Agree, f0
<1>9. IsPlace(m, xs)
  BY DEF IsPlace, IsTop
<1>10. OnItsCaller(m, ys, f)
  <2>1. CASE m = 1
    <3>1. xs # <<>>
      <4>1. Len(xs) # 0
        BY DEF IsTop
      <4> QED  BY <4>1, EmptyIs
    <3>2. f[1] = 3 + xs[1].arg_count
      BY <3>1 DEF Laid
    <3> QED  BY <2>1, <3>2 DEF OnItsCaller, CallMoves
  <2>2. CASE m # 1
    <3>1. \A j \in 1 .. m - 1 : Follows(xs[j + 1], xs[j])
      BY DEF Laid, IsTop
    <3>2. PICK j \in Int : j = m - 1
      OBVIOUS
    <3>3. j \in 1 .. m - 1 /\ j + 1 = m
      BY <2>2, <3>2 DEF IsTop
    <3>4. Follows(xs[m], xs[j]) /\ ys[j] = xs[j]
      BY <3>1, <3>2, <3>3 DEF Reaches, Agree
    <3>5. Follows(ys[m], ys[j])
      BY <3>4 DEF Follows, CallMoves
    <3> QED  BY <2>2, <3>2, <3>5 DEF OnItsCaller
  <2> QED  BY <2>1, <2>2
<1> QED  BY <1>7, <1>8, <1>9, <1>10, Relaid

(* When an argument's bytecode has run, the stacks are as before it.       *)
LEMMA ArgHasRun ==
  ASSUME IInv, LayoutInv, ArgReady
  PROVE  /\ Len(Below) \in Nat /\ IsTop(Len(Below), Below) /\ IsSeq(Below)
         /\ Last(Below).kind = "call"
         /\ \E f, r : Laid(f, r, Below, form_stack, Seen)
<1> DEFINE n == Len(acts)
           m == n - 1
<1>1. acts # <<>> /\ Top.kind = "bytes" /\ Going /\ Top.index >= Len(Top.bytes)
  BY DEF ArgReady, Running, Going
<1>2. n \in Nat /\ 1 < n /\ IsTop(n, acts) /\ IsSeq(acts) /\ acts[n] = Top
  BY <1>1, BytesAreTop DEF IInv
<1>3. PICK f, r : Laid(f, r, acts, form_stack, Seen)
  BY <1>1 DEF LayoutInv, Seen
<1>4. IsSeq(Below) /\ Len(Below) = m /\ \A i \in 1 .. m : Below[i] = acts[i]
  BY <1>1, TopIs DEF IInv
<1>5. /\ \A j \in 1 .. n - 1 : Follows(acts[j + 1], acts[j])
  BY <1>3 DEF Laid
<1> HIDE DEF n
<1>6. m \in Nat /\ 1 <= m /\ m + 1 = n /\ m \in 1 .. n - 1 /\ m \in 1 .. m
  BY <1>2
<1>7. Last(Below) = acts[m] /\ IsTop(m, Below)
  BY <1>4, <1>6 DEF Last, IsTop
<1>8. acts[m].kind = "call"
  <2>1. Follows(acts[n], acts[m])
    BY <1>5, <1>6
  <2> QED  BY <1>1, <1>2, <2>1 DEF Follows
<1>9. acts[n].kind = "bytes"
  BY <1>1, <1>2
<1>10. /\ TypedBytes(acts[n].bytes) /\ acts[n].index \in 0 .. Len(acts[n].bytes)
       /\ f[n] \in Nat
       /\ FormsFill(Shapes(acts[n].bytes)[acts[n].index].forms, f[n], Len(form_stack), form_stack)
       /\ r[n] \in Nat
       /\ ScopesFill(Shapes(acts[n].bytes)[acts[n].index].scopes, r[n], Len(Seen), Seen)
       /\ Disciplined(acts[n].bytes)
  BY <1>2, <1>3, <1>9, TopKnown
<1>11. Shapes(acts[n].bytes)[acts[n].index] = Entered
  <2>1. Len(Top.bytes) \in Nat /\ Top.index \in 0 .. Len(Top.bytes)
    BY <1>2, <1>10, SeqIs DEF TypedBytes
  <2>2. Top.index = Len(Top.bytes)
    BY <1>1, <2>1
  <2> QED  BY <1>2, <1>10, <2>2 DEF Disciplined
<1>12. Len(form_stack) = f[n] /\ Len(Seen) = r[n]
  <2>1. /\ Len(form_stack) = f[n] + Len(Entered.forms) /\ Len(Seen) = r[n] + Len(Entered.scopes)
    BY <1>10, <1>11 DEF FormsFill, ScopesFill
  <2>2. Len(Entered.forms) = 0 /\ Len(Entered.scopes) = 0
    BY EmptyIs DEF Entered, Shape
  <2> QED  BY <1>10, <2>1, <2>2
<1>13. Cut(form_stack, form_stack, f[n]) /\ Cut(Seen, Seen, r[n])
  BY <1>12, SeenIs DEF Cut, Agree, IInv, FormsInv
<1>14. Cut(Below, acts, n - 1)
  BY <1>4 DEF Cut, Agree
<1>15. \E f2, r2 : Laid(f2, r2, Below, form_stack, Seen)
  <2> DEFINE below == Below
             seen  == Seen
  <2> HIDE DEF below, seen
  <2>1. /\ Laid(f, r, acts, form_stack, seen) /\ Cut(below, acts, n - 1)
        /\ Cut(form_stack, form_stack, f[n]) /\ Cut(seen, seen, r[n])
    BY <1>3, <1>13, <1>14 DEF below, seen
  <2>2. \E f2, r2 : Laid(f2, r2, below, form_stack, seen)
    BY <1>2, <2>1, Unlaid
  <2> QED  BY <2>2 DEF below, seen
<1> QED  BY <1>4, <1>6, <1>7, <1>8, <1>15

LEMMA CallMovesKeepLayout ==
  ASSUME NEW f, NEW r, NEW m \in Nat, IsTop(m, Below), IsSeq(Below), IsSeq(Seen),
         Laid(f, r, Below, form_stack, Seen), Reaches(acts', Below, m),
         CallMoves(m, Below, acts'), Reaches(form_stack', form_stack, Len(form_stack)),
         Seen' = Seen
  PROVE  LayoutInv'
<1> DEFINE below  == Below
           seen   == Seen
           forms2 == form_stack'
           ys     == acts'
<1>1. /\ IsTop(m, below) /\ IsSeq(below) /\ IsSeq(seen) /\ Laid(f, r, below, form_stack, seen)
      /\ Reaches(ys, below, m) /\ CallMoves(m, below, ys)
      /\ Reaches(forms2, form_stack, Len(form_stack))
  OBVIOUS
<1> HIDE DEF below, seen, forms2, ys
<1>2. \E f2, r2 : Laid(f2, r2, ys, forms2, seen)
  BY <1>1, CallGoesOn
<1>3. \E f2, r2 : Laid(f2, r2, acts', form_stack', Seen')
  BY <1>2 DEF ys, forms2, seen
<1> QED  BY <1>3 DEF LayoutInv, Seen

LEMMA AddArgKeepsLayout ==
  ASSUME IInv, LayoutInv, AddArg
  PROVE  LayoutInv'
<1> DEFINE m      == Len(Below)
           call   == Last(Below)
           evaled == EvaledOffset(call) + 1
           cons   == Append(Elements(form_stack[evaled]), Last(last_return_value))
           buffer == IF call.arg_i = 0 THEN form_cap ELSE Heap
           arg_i  == call.arg_i + 1
           act    == [call EXCEPT !.arg_i = arg_i, !.cur_cons = buffer]
<1>1. /\ ArgReady /\ form_stack' = [form_stack EXCEPT ![evaled] = List(cons)]
      /\ acts' = Front(Below) \o <<act>> /\ Seen' = Seen
  BY DEF AddArg, scopes, Seen
<1>2. m \in Nat /\ IsTop(m, Below) /\ IsSeq(Below) /\ call.kind = "call" /\ Below[m] = call
  BY <1>1, ArgHasRun DEF Last
<1>3. PICK f, r : Laid(f, r, Below, form_stack, Seen)
  BY <1>1, ArgHasRun
<1>4. /\ call.fn_index \in Nat /\ call.arg_count \in Nat /\ call.arg_i \in Nat
      /\ Len(form_stack) = EvaledOffset(call) + 1
  <2> DEFINE below == Below
             seen  == Seen
  <2>1. /\ Laid(f, r, below, form_stack, seen) /\ IsSeq(below) /\ m \in Nat /\ IsTop(m, below)
        /\ below[m].kind = "call"
    BY <1>2, <1>3
  <2> HIDE DEF below, seen, m, call
  <2>2. CallLaid(below[m], f[m], Len(form_stack), r[m], Len(seen), form_stack, seen)
    BY <2>1, TopCallKnown
  <2>3. CallLaid(call, f[m], Len(form_stack), r[m], Len(seen), form_stack, seen)
    BY <1>2, <2>2 DEF below
  <2> QED  BY <2>3 DEF CallLaid, EvaledOffset
<1>5. TypedAct(call)
  <2>1. acts # <<>>
    BY <1>1 DEF ArgReady, Running
  <2>2. /\ Len(acts) \in Nat /\ Len(Below) = Len(acts) - 1
        /\ \A i \in 1 .. Len(acts) - 1 : Below[i] = acts[i]
        /\ \A i \in 1 .. Len(acts) : TypedAct(acts[i])
    BY <2>1, TopIs DEF IInv, ActsInv
  <2>3. m \in 1 .. Len(acts) - 1 /\ m \in 1 .. Len(acts)
    BY <1>2, <2>2 DEF IsTop
  <2> QED  BY <1>2, <2>2, <2>3
<1> HIDE DEF m, call
<1>6. /\ act.kind = "call" /\ act.fn_index = call.fn_index /\ act.arg_count = call.arg_count
      /\ act.arg_i = arg_i
  <2> HIDE DEF arg_i, buffer
  <2>1. call = [kind |-> "call", fn |-> call.fn, fn_index |-> call.fn_index,
                arg_count |-> call.arg_count, arg_i |-> call.arg_i, cur_cons |-> call.cur_cons]
    BY <1>2, <1>5 DEF TypedAct
  <2> QED  BY <2>1
<1>7. arg_i \in Nat
  BY <1>4
<1> HIDE DEF arg_i, buffer, act
<1>8. Reaches(acts', Below, m) /\ acts'[m] = act
  <2> DEFINE below == Below
             front == Front(Below)
  <2>1. 1 <= Len(below) /\ IsSeq(below) /\ Len(below) = m
    BY <1>2 DEF IsTop
  <2>2. IsSeq(front) /\ Len(front) = m - 1 /\ \A i \in 1 .. m - 1 : front[i] = below[i]
    <3> HIDE DEF below
    <3>1. \A i \in 1 .. Len(below) : below[i] = below[i]
      OBVIOUS
    <3> QED  BY <2>1, <3>1, FrontAgrees DEF below
  <2> HIDE DEF below, front
  <2>3. Reaches(front \o <<act>>, below, m) /\ (front \o <<act>>)[m] = act
    BY <1>2, <2>2, AddedIs
  <2> QED  BY <1>1, <2>3 DEF below, front
<1>9. CallMoves(m, Below, acts')
  BY <1>2, <1>6, <1>7, <1>8 DEF CallMoves
<1>10. Reaches(form_stack', form_stack, Len(form_stack))
  <2> DEFINE size == Len(form_stack)
  <2>1. IsSeq(form_stack) /\ size \in Nat /\ DOMAIN form_stack = 1 .. size
    BY SeqIs DEF IInv, FormsInv
  <2>2. evaled = size
    BY <1>4
  <2> HIDE DEF evaled, cons
  <2>3. IsSeq(form_stack') /\ Len(form_stack') = size
    BY <1>1, <2>1, ExceptIs
  <2> HIDE DEF size
  <2>4. \A i \in 1 .. size - 1 : form_stack'[i] = form_stack[i]
    <3> SUFFICES ASSUME NEW i \in 1 .. size - 1  PROVE form_stack'[i] = form_stack[i]
      OBVIOUS
    <3>1. i \in 1 .. size /\ i # evaled
      BY <2>1, <2>2
    <3> QED  BY <1>1, <2>1, <3>1
  <2> QED  BY <2>3, <2>4 DEF Reaches, Agree, size
<1>11. IsSeq(Seen)
  BY SeenIs DEF IInv
<1> QED  BY <1>1, <1>2, <1>3, <1>8, <1>9, <1>10, <1>11, CallMovesKeepLayout

(* n + 1 items are dropped one and then n.                                 *)
LEMMA DropDrop ==
  ASSUME NEW s, IsSeq(s), NEW len \in Nat, Len(s) = len, NEW n \in Nat, n + 1 <= len
  PROVE  LET t == SubSeq(s, 1, len - 1)
         IN  /\ IsSeq(t) /\ Len(t) = len - 1 /\ \A i \in 1 .. len - 1 : t[i] = s[i]
             /\ DropLast(t, n) = DropLast(s, n + 1)
<1> DEFINE t == SubSeq(s, 1, len - 1)
           u == SubSeq(t, 1, len - 1 - n)
           v == SubSeq(s, 1, len - (n + 1))
           m == len - (n + 1)
<1>1. /\ len - 1 \in Int /\ len - 1 <= len /\ len - 1 >= 0
      /\ m \in Nat /\ m <= len - 1 /\ len - 1 - n = m
  OBVIOUS
<1>2. IsSeq(t) /\ Len(t) = len - 1 /\ \A i \in 1 .. len - 1 : t[i] = s[i]
  <2> DEFINE less == len - 1
  <2>1. less \in Int /\ less <= Len(s) /\ less = IF 1 <= less THEN less ELSE 0
    BY <1>1
  <2> HIDE DEF less
  <2>2. /\ IsSeq(SubSeq(s, 1, less)) /\ Len(SubSeq(s, 1, less)) = less
        /\ \A i \in 1 .. less : SubSeq(s, 1, less)[i] = s[i]
    BY <2>1, SubSeqIs
  <2> QED  BY <2>2 DEF less
<1> HIDE DEF t, m
<1>3. m = IF 1 <= m THEN m ELSE 0
  BY <1>1
<1>4. IsSeq(u) /\ Len(u) = m /\ \A i \in 1 .. m : u[i] = t[i]
  <2>1. m <= Len(t) /\ u = SubSeq(t, 1, m)
    BY <1>1, <1>2
  <2> HIDE DEF u
  <2>2. /\ IsSeq(SubSeq(t, 1, m)) /\ Len(SubSeq(t, 1, m)) = m
        /\ \A i \in 1 .. m : SubSeq(t, 1, m)[i] = t[i]
    BY <1>1, <1>2, <1>3, <2>1, SubSeqIs
  <2> QED  BY <2>1, <2>2
<1>5. IsSeq(v) /\ Len(v) = m /\ \A i \in 1 .. m : v[i] = s[i]
  <2>1. m <= Len(s) /\ v = SubSeq(s, 1, m)
    BY <1>1 DEF m
  <2> HIDE DEF v
  <2>2. /\ IsSeq(SubSeq(s, 1, m)) /\ Len(SubSeq(s, 1, m)) = m
        /\ \A i \in 1 .. m : SubSeq(s, 1, m)[i] = s[i]
    BY <1>1, <1>3, <2>1, SubSeqIs
  <2> QED  BY <2>1, <2>2
<1>6. DropLast(t, n) = u /\ DropLast(s, n + 1) = v
  BY <1>2 DEF DropLast
<1> HIDE DEF u, v
<1>7. u = v
  <2>1. PICK U : u \in Seq(U)
    BY <1>4 DEF IsSeq
  <2>2. PICK V : v \in Seq(V)
    BY <1>5 DEF IsSeq
  <2>3. u \in Seq(U \cup V) /\ v \in Seq(U \cup V)
    BY <2>1, <2>2, SeqMonotonic
  <2>4. \A i \in 1 .. m : u[i] = v[i]
    <3>1. \A i \in 1 .. m : i \in 1 .. len - 1
      BY <1>1
    <3> QED  BY <1>2, <1>4, <1>5, <3>1
  <2> QED  BY <1>4, <1>5, <2>3, <2>4, SeqEqual
<1> QED  BY <1>2, <1>6, <1>7 DEF t

(* What the call leaves when the caller goes on behind its Funcall.        *)
Returns(m, xs, ys, n) ==
  LET caller == xs[m]
      byte   == caller.bytes[caller.index + 1]
  IN  /\ caller.kind = "bytes" /\ caller.index < Len(caller.bytes)
      /\ byte.op = "Funcall" /\ n = byte.arg_count + 1
      /\ ys[m] = [kind |-> "bytes", bytes |-> caller.bytes, index |-> caller.index + 1]

LEMMA ReturnGoesOn ==
  ASSUME NEW f, NEW r, NEW xs, IsSeq(xs), NEW forms, IsSeq(forms), NEW view, IsSeq(view),
         Laid(f, r, xs, forms, view),
         NEW m \in Nat, 1 < m, IsTop(m, xs), NEW ys, Reaches(ys, xs, m),
         NEW n, Returns(m, xs, ys, n), NEW form
  PROVE  Moves(m, xs, ys) /\ StacksGo(m, xs, ys, forms, DropLast(forms, n) \o <<form>>, view, view)
<1> DEFINE bytes == xs[m].bytes
           index == xs[m].index
           byte  == bytes[index + 1]
           shape == Shapes(bytes)[index]
           new   == <<form>>
<1>1. TypedBytes(bytes) /\ Disciplined(bytes) /\ index \in 0 .. Len(bytes)
  BY TopKnown DEF Returns
<1>2. Len(bytes) \in Nat /\ index \in Nat /\ index + 1 \in 0 .. Len(bytes) /\ index < Len(bytes)
  <2>1. Len(bytes) \in Nat /\ index < Len(bytes)
    BY <1>1, SeqIs DEF TypedBytes, Returns
  <2> HIDE DEF bytes, index
  <2> QED  BY <1>1, <2>1
<1>3. /\ byte.op = "Funcall" /\ byte.arg_count \in Nat /\ ShapeIs(shape)
      /\ FindsItsOwn(byte, shape) /\ Shapes(bytes)[index + 1] = After(byte, shape)
  <2>1. byte.op = "Funcall"
    BY DEF Returns
  <2> HIDE DEF bytes, index
  <2> QED  BY <1>1, <1>2, <2>1, NextKnown
<1>4. Taken(byte) = n /\ n \in Nat /\ n <= Len(shape.forms)
  <2>1. n = byte.arg_count + 1
    BY DEF Returns
  <2> HIDE DEF byte, shape
  <2>2. Taken(byte) = n
    BY <1>3, <2>1 DEF Taken
  <2> QED  BY <1>3, <2>1, <2>2 DEF FindsItsOwn
<1>5. FormsFill(Given(byte), 0, Len(new), new) /\ IsSeq(Given(byte)) /\ IsSeq(new)
  BY <1>3, GivenIs, SingleIs DEF Given
<1>6. IsSeq(shape.forms)
  BY <1>3 DEF ShapeIs
<1>7. /\ After(byte, shape).forms = DropLast(shape.forms, n) \o Given(byte)
      /\ After(byte, shape).scopes = shape.scopes
  BY <1>3, <1>4 DEF After, Shape, ScopesAfter
<1> DEFINE known == shape.forms
           given == Given(byte)
           after == After(byte, shape)
<1>8. FormsGo(known, after.forms, forms, DropLast(forms, n) \o new)
  <2>1. /\ IsSeq(known) /\ IsSeq(forms) /\ n \in Nat /\ n <= Len(known)
        /\ IsSeq(given) /\ IsSeq(new) /\ FormsFill(given, 0, Len(new), new)
    BY <1>4, <1>5, <1>6
  <2> HIDE DEF known, given, new
  <2>2. FormsGo(known, DropLast(known, n) \o given, forms, DropLast(forms, n) \o new)
    BY <2>1, FormsGoOn
  <2> QED  BY <1>7, <2>2 DEF known, given
<1>9. ScopesGo(shape.scopes, after.scopes, view, view)
  BY <1>7, ScopesGoNowhere
<1>10. Moves(m, xs, ys)
  <2>1. ys[m] = [kind |-> "bytes", bytes |-> bytes, index |-> index + 1] /\ xs[m].kind = "bytes"
    BY DEF Returns
  <2> HIDE DEF bytes, index
  <2>2. ys[m].kind = "bytes" /\ ys[m].bytes = bytes /\ ys[m].index = index + 1
    BY <2>1
  <2> QED  BY <1>2, <2>1, <2>2 DEF Moves, bytes
<1> DEFINE forms2 == DropLast(forms, n) \o new
<1>11. StacksGo(m, xs, ys, forms, forms2, view, view)
  <2>1. ys[m].index = index + 1
    BY DEF Returns
  <2>2. Shapes(xs[m].bytes)[xs[m].index] = shape /\ Shapes(xs[m].bytes)[ys[m].index] = after
    BY <1>3, <2>1
  <2> HIDE DEF shape, after, forms2
  <2> QED  BY <1>8, <1>9, <2>2, Zenon DEF StacksGo, forms2
<1> QED  BY <1>10, <1>11 DEF forms2

LEMMA FinishInBytes ==
  ASSUME NEW f, NEW r, NEW xs, IsSeq(xs), NEW forms, IsSeq(forms), NEW view, IsSeq(view),
         Laid(f, r, xs, forms, view),
         NEW m \in Nat, 1 < m, IsTop(m, xs), NEW ys, Reaches(ys, xs, m),
         NEW n, Returns(m, xs, ys, n), NEW form
  PROVE  \E f2, r2 : Laid(f2, r2, ys, DropLast(forms, n) \o <<form>>, view)
BY ReturnGoesOn, BytesGoOn

(* The REPL's call ends, ...                                               *)
LEMMA FirstReturns ==
  ASSUME NEW f, NEW r, NEW xs, IsSeq(xs), NEW forms, IsSeq(forms), NEW view,
         Laid(f, r, xs, forms, view), IsTop(1, xs), xs[1].kind = "call",
         NEW view2, Cut(view2, view, r[1]),
         NEW n, n = xs[1].arg_count + 2
  PROVE  \E f2, r2 : Laid(f2, r2, <<>>, DropLast(forms, n) \o <<>>, view2)
<1>1. PICK m \in Nat : m = 1
  OBVIOUS
<1>2. CallLaid(xs[m], f[m], Len(forms), r[m], Len(view), forms, view)
  BY <1>1, TopCallKnown
<1>3. Len(forms) \in Nat /\ n \in Nat /\ Len(forms) = 2 + n
  <2>1. /\ xs[1].arg_count \in Nat /\ Len(forms) = f[1] + 1
    BY <1>1, <1>2 DEF CallLaid
  <2>2. f[1] = 3 + xs[1].arg_count
    BY EmptyIs DEF Laid, IsTop
  <2> QED  BY <2>1, <2>2
<1>4. /\ forms[1] = Function("REPL") /\ forms[2] = Nil /\ r[1] = 2
      /\ view[1].source = "base" /\ view[2].source = "funcall"
  BY DEF Laid
<1> DEFINE left == DropLast(forms, n)
<1>5. IsSeq(left) /\ Len(left) = 2 /\ left[1] = forms[1] /\ left[2] = forms[2]
  <2>1. /\ IsSeq(left) /\ Len(left) = (IF n <= Len(forms) THEN Len(forms) - n ELSE 0)
        /\ \A i \in 1 .. Len(forms) - n : left[i] = forms[i]
    BY <1>3, DropLastIs
  <2> HIDE DEF left
  <2>2. n <= Len(forms) /\ Len(forms) - n = 2
    BY <1>3
  <2>3. IsSeq(left) /\ Len(left) = 2 /\ \A i \in 1 .. 2 : left[i] = forms[i]
    BY <2>1, <2>2
  <2>4. 1 \in 1 .. 2 /\ 2 \in 1 .. 2
    OBVIOUS
  <2> QED  BY <2>3, <2>4
<1> HIDE DEF left
<1>6. left \o <<>> = left
  BY <1>5, NoneDropped
<1>7. Len(view2) = 2 /\ view2[1] = view[1] /\ view2[2] = view[2]
  BY <1>4 DEF Cut, Agree
<1>8. \E f2, r2 : Laid(f2, r2, <<>>, left, view2)
  BY <1>4, <1>5, <1>7, NothingLaid
<1> QED  BY <1>6, <1>8 DEF left

(* The caller is one activation further down.                              *)
CallerAt(n, xs, ys) ==
  /\ xs[1].kind = "call" /\ xs[n].kind = "call"
  /\ ys[n - 1] = [kind |-> "bytes", bytes |-> xs[n - 1].bytes, index |-> xs[n - 1].index + 1]

(* ... and any other, to the bytecode that called.                         *)
LEMMA LaterReturns ==
  ASSUME NEW f, NEW r, NEW xs, IsSeq(xs), NEW forms, IsSeq(forms), NEW view, IsSeq(view),
         Laid(f, r, xs, forms, view), NEW n \in Nat, IsTop(n, xs), 1 < n,
         NEW ys, Reaches(ys, xs, n - 1), CallerAt(n, xs, ys),
         NEW view2, Cut(view2, view, r[n]), NEW form,
         NEW k, k = xs[n].arg_count + 2
  PROVE  \E f2, r2 : Laid(f2, r2, ys, DropLast(forms, k) \o <<form>>, view2)
<1>1. PICK m \in Nat : m = n - 1 /\ 1 <= m /\ m + 1 = n
  OBVIOUS
<1>2. f[n] \in Nat /\ CallLaid(xs[n], f[n], Len(forms), r[n], Len(view), forms, view)
  BY TopCallKnown DEF CallerAt
<1>3. xs[n].arg_count \in Nat /\ Len(forms) = f[n] + 1 /\ xs[n].arg_count + 1 <= f[n]
  <2>1. /\ xs[n].fn_index \in Nat /\ xs[n].arg_count \in Nat
        /\ f[n] = xs[n].fn_index + xs[n].arg_count + 1 /\ Len(forms) = f[n] + 1
    BY <1>2 DEF CallLaid
  <2> QED  BY <2>1
<1> DEFINE below  == SubSeq(xs, 1, m)
           count  == xs[n].arg_count
           len    == f[n] + 1
           forms1 == SubSeq(forms, 1, len - 1)
<1>4. Cut(below, xs, m)
  <2>1. m \in Int /\ m <= Len(xs) /\ m = IF 1 <= m THEN m ELSE 0
    BY <1>1 DEF IsTop
  <2>2. /\ IsSeq(below) /\ Len(below) = (IF 1 <= m THEN m ELSE 0)
        /\ \A i \in 1 .. m : below[i] = xs[i]
    BY <2>1, SubSeqIs
  <2> HIDE DEF below
  <2> QED  BY <2>1, <2>2 DEF Cut, Agree
<1>5. /\ Cut(forms1, forms, f[n])
      /\ DropLast(forms1, count + 1) = DropLast(forms, k)
  <2>1. /\ len \in Nat /\ Len(forms) = len /\ count + 1 \in Nat /\ count + 1 + 1 <= len
        /\ k = count + 1 + 1 /\ len - 1 = f[n]
    <3>1. \A x, y \in Nat : y + 1 <= x => /\ x + 1 \in Nat /\ y + 1 \in Nat /\ y + 1 + 1 <= x + 1
                                         /\ y + 2 = y + 1 + 1 /\ x + 1 - 1 = x
      OBVIOUS
    <3>2. f[n] \in Nat /\ count \in Nat /\ count + 1 <= f[n] /\ Len(forms) = len /\ k = count + 2
      BY <1>2, <1>3
    <3> HIDE DEF count
    <3>3. /\ len \in Nat /\ count + 1 \in Nat /\ count + 1 + 1 <= len
          /\ count + 2 = count + 1 + 1 /\ len - 1 = f[n]
      BY <3>1, <3>2
    <3> QED  BY <3>2, <3>3
  <2> HIDE DEF len, count
  <2>2. PICK c \in Nat : c = count + 1
    BY <2>1
  <2>3. /\ IsSeq(forms1) /\ Len(forms1) = len - 1
        /\ \A i \in 1 .. len - 1 : forms1[i] = forms[i]
        /\ DropLast(forms1, c) = DropLast(forms, c + 1)
    BY <2>1, <2>2, DropDrop
  <2> HIDE DEF forms1
  <2> QED  BY <2>1, <2>2, <2>3 DEF Cut, Agree
<1> HIDE DEF below, len, forms1
<1>6. PICK f1, r1 : Laid(f1, r1, below, forms1, view2)
  <2>1. Cut(below, xs, n - 1)
    BY <1>1, <1>4
  <2> QED  BY <1>5, <2>1, Unlaid
<1>7. Follows(xs[n], xs[m])
  <2>1. \A j \in 1 .. n - 1 : Follows(xs[j + 1], xs[j])
    BY DEF Laid, IsTop
  <2>2. m \in 1 .. n - 1
    BY <1>1
  <2> QED  BY <1>1, <2>1, <2>2
<1>8. /\ xs[m].kind = "bytes" /\ xs[m].index < Len(xs[m].bytes)
      /\ xs[m].bytes[xs[m].index + 1].op = "Funcall"
      /\ xs[m].bytes[xs[m].index + 1].arg_count = count
  BY <1>7 DEF Follows, CallerAt
<1>9. below[m] = xs[m] /\ IsSeq(below) /\ IsTop(m, below) /\ IsSeq(forms1) /\ IsSeq(view2)
  BY <1>1, <1>4, <1>5 DEF Cut, Agree, IsTop
<1>10. 1 < m
  BY <1>1, <1>8 DEF CallerAt
<1>11. Reaches(ys, below, m)
  <2>1. IsSeq(ys) /\ Len(ys) = m /\ \A i \in 1 .. m - 1 : ys[i] = xs[i] /\ below[i] = xs[i]
    BY <1>1, <1>4 DEF Reaches, Cut, Agree
  <2> QED  BY <2>1 DEF Reaches, Agree
<1>12. Returns(m, below, ys, count + 1)
  <2>1. ys[m] = [kind |-> "bytes", bytes |-> xs[m].bytes, index |-> xs[m].index + 1]
    BY <1>1 DEF CallerAt
  <2> HIDE DEF count
  <2> QED  BY <1>8, <1>9, <2>1, Zenon DEF Returns
<1>13. \E f2, r2 : Laid(f2, r2, ys, DropLast(forms1, count + 1) \o <<form>>, view2)
  <2> DEFINE c == count + 1
  <2> HIDE DEF count, c
  <2>1. Returns(m, below, ys, c)
    BY <1>12 DEF c
  <2>2. \E f2, r2 : Laid(f2, r2, ys, DropLast(forms1, c) \o <<form>>, view2)
    BY <1>6, <1>9, <1>10, <1>11, <2>1, FinishInBytes
  <2> QED  BY <2>2 DEF c
<1> QED  BY <1>5, <1>13

LEMMA FinishKeepsLayout ==
  ASSUME IInv, LayoutInv, InCall, NEW form, FinishCall(form), UNCHANGED environment_bindings
  PROVE  LayoutInv'
<1> DEFINE n      == Len(acts)
           c      == Top.arg_count
           seen   == Seen
           seen2  == Seen'
           forms2 == form_stack'
           ys     == acts'
<1>1. acts # <<>> /\ Top.kind = "call" /\ Going
  BY DEF InCall, Running, Going
<1>2. n \in Nat /\ IsTop(n, acts) /\ acts[n] = Top /\ 1 <= n /\ IsSeq(acts)
  BY <1>1, RunningCall, TopIs DEF IInv, ActsInv
<1>3. PICK f, r : /\ Laid(f, r, acts, form_stack, seen)
                  /\ f[n] \in Nat /\ r[n] \in Nat
                  /\ CallLaid(Top, f[n], Len(form_stack), r[n], Len(seen), form_stack, seen)
  BY <1>1, RunningCall
<1>4. IsSeq(form_stack) /\ IsSeq(seen) /\ Len(seen) = Len(frame_stack)
  BY SeenIs DEF IInv, FormsInv
<1>5. acts[1].kind = "call" /\ IsSeq(Below) /\ Len(Below) = n - 1
      /\ \A i \in 1 .. n - 1 : Below[i] = acts[i]
  BY <1>1, TopIs DEF IInv
<1>6. Cut(seen2, seen, r[n])
  <2>1. Len(frame_stack) = r[n] + 1
    BY <1>3, <1>4 DEF CallLaid
  <2>2. frame_stack' = SubSeq(frame_stack, 1, Len(frame_stack) - 1)
    BY DEF FinishCall
  <2>3. PICK k \in Nat : k = r[n] /\ k <= Len(frame_stack) /\ k = Len(frame_stack) - 1
    BY <1>3, <2>1
  <2>4. Cut(Seen', Seen, k)
    BY <2>2, <2>3, SeenCut DEF IInv
  <2> QED  BY <2>3, <2>4
<1> HIDE DEF n, seen
<1>7. CASE Below = <<>>
  <2>1. n = 1
    BY <1>2, <1>5, <1>7, EmptyIs
  <2>2. /\ form_stack' = DropLast(form_stack, c + 2) \o <<>> /\ acts' = <<>>
    BY <1>7 DEF FinishCall
  <2>3. acts[1].arg_count = c
    BY <1>2, <2>1
  <2> HIDE DEF c, seen2
  <2>4. PICK k : k = c + 2
    OBVIOUS
  <2>5. k = acts[1].arg_count + 2 /\ Cut(seen2, seen, r[1]) /\ IsTop(1, acts)
    BY <1>2, <1>6, <2>1, <2>3, <2>4
  <2>6. \E f2, r2 : Laid(f2, r2, <<>>, DropLast(form_stack, k) \o <<>>, seen2)
    BY <1>2, <1>3, <1>4, <1>5, <2>5, FirstReturns
  <2>7. \E f2, r2 : Laid(f2, r2, acts', form_stack', Seen')
    BY <2>2, <2>4, <2>6 DEF seen2
  <2> QED  BY <2>7 DEF LayoutInv, Seen
<1>8. CASE Below # <<>>
  <2>1. 1 <= n - 1
    BY <1>2, <1>5, <1>8, NonemptyIs
  <2>2. /\ form_stack' = DropLast(form_stack, c + 2) \o <<form>>
        /\ acts' = Front(Below) \o <<[Last(Below) EXCEPT !.index = @ + 1]>>
    BY <1>8 DEF FinishCall
  <2>3. acts[n].arg_count = c /\ acts[n].kind = "call"
    BY <1>1, <1>2
  <2>4. PICK m \in Nat : m = n - 1 /\ 1 <= m /\ m < n /\ m \in 1 .. n - 1
    BY <1>2, <2>1
  <2>5. Last(Below) = acts[m]
    BY <1>5, <2>4 DEF Last
  <2>6. acts[m] = [kind |-> "bytes", bytes |-> acts[m].bytes, index |-> acts[m].index]
    <3>1. TypedAct(acts[m])
      BY <2>4 DEF IInv, ActsInv, n
    <3>2. Follows(acts[n], acts[m])
      <4>1. \A j \in 1 .. n - 1 : Follows(acts[j + 1], acts[j])
        BY <1>3 DEF Laid, n
      <4>2. m + 1 = n
        BY <1>2, <2>4
      <4> QED  BY <2>4, <4>1, <4>2
    <3>3. acts[m].kind = "bytes"
      BY <2>3, <3>2 DEF Follows
    <3> QED  BY <3>1, <3>3 DEF TypedAct
  <2> DEFINE act == [kind |-> "bytes", bytes |-> acts[m].bytes, index |-> acts[m].index + 1]
             front == Front(Below)
  <2>7. [Last(Below) EXCEPT !.index = @ + 1] = act
    BY <2>5, <2>6
  <2>8. IsSeq(front) /\ Len(front) = m - 1 /\ \A i \in 1 .. m - 1 : front[i] = acts[i]
    <3> DEFINE below == Below
    <3>1. IsSeq(below) /\ Len(below) = m /\ 1 <= m /\ \A i \in 1 .. m : below[i] = acts[i]
      BY <1>5, <2>4
    <3> HIDE DEF below
    <3>2. /\ IsSeq(Front(below)) /\ Len(Front(below)) = Len(below) - 1
          /\ \A i \in 1 .. Len(below) - 1 : Front(below)[i] = acts[i]
      BY <3>1, FrontAgrees
    <3> QED  BY <3>1, <3>2 DEF below
  <2> HIDE DEF act, front, ys, forms2, c, seen2
  <2>9. ys = front \o <<act>> /\ forms2 = DropLast(form_stack, c + 2) \o <<form>>
    BY <2>2, <2>7 DEF ys, forms2, front
  <2>10. Reaches(ys, acts, m) /\ ys[m] = act
    <3>1. m \in Nat /\ IsSeq(front) /\ Len(front) = m - 1 /\ \A i \in 1 .. m - 1 : front[i] = acts[i]
      BY <2>4, <2>8
    <3>2. Reaches(front \o <<act>>, acts, m) /\ (front \o <<act>>)[m] = act
      BY <3>1, AddedIs
    <3> QED  BY <2>9, <3>2, Zenon
  <2>11. CallerAt(n, acts, ys)
    BY <1>5, <2>3, <2>4, <2>10 DEF CallerAt, act
  <2>12. PICK k : k = c + 2
    OBVIOUS
  <2>13. k = acts[n].arg_count + 2 /\ Reaches(ys, acts, n - 1) /\ 1 < n
    BY <1>2, <2>1, <2>3, <2>4, <2>10, <2>12
  <2>14. \E f2, r2 : Laid(f2, r2, ys, DropLast(form_stack, k) \o <<form>>, seen2)
    BY <1>2, <1>3, <1>4, <1>6, <2>11, <2>13, LaterReturns
  <2>15. \E f2, r2 : Laid(f2, r2, ys, forms2, seen2)
    BY <2>9, <2>12, <2>14
  <2>16. \E f2, r2 : Laid(f2, r2, acts', form_stack', Seen')
    BY <2>15 DEF ys, forms2, seen2
  <2> QED  BY <2>16 DEF LayoutInv, Seen
<1> QED  BY <1>7, <1>8

(* The REPL calls READ, and FORMAT.                                        *)
LEMMA NothingIsLaid ==
  ASSUME IInv, LayoutInv, Going, acts = <<>>
  PROVE  /\ Len(form_stack) = 2 /\ form_stack[1] = Function("REPL") /\ form_stack[2] = Nil
         /\ Len(Seen) = 2 /\ Seen[1].source = "base" /\ Seen[2].source = "funcall"
<1>1. PICK f, r : Laid(f, r, <<>>, form_stack, Seen)
  BY DEF LayoutInv, Seen
<1>2. Len(<<>>) + 1 = 1
  BY EmptyIs
<1> QED  BY <1>1, <1>2 DEF Laid

LEMMA ReplCallKeepsLayout ==
  ASSUME IInv, LayoutInv, Going, acts = <<>>, UNCHANGED environment_bindings,
         NEW fn, NEW pushed, IsSeq(pushed), NEW arg_count \in Nat, Len(pushed) = 1 + arg_count,
         \A k \in 1 .. arg_count : pushed[1 + k] \in Language, BeginCall(fn, pushed, arg_count)
  PROVE  LayoutInv'
<1> DEFINE forms2 == form_stack'
           seen2  == Seen'
           act    == CallAct(fn, 2, arg_count)
<1>1. /\ Len(form_stack) = 2 /\ form_stack[1] = Function("REPL") /\ form_stack[2] = Nil
      /\ Len(Seen) = 2 /\ Seen[1].source = "base" /\ Seen[2].source = "funcall"
      /\ IsSeq(form_stack) /\ Len(frame_stack) = 2
  BY NothingIsLaid, SeenIs DEF IInv, FormsInv
<1>2. /\ acts' = <<act>> /\ form_stack' = form_stack \o (pushed \o <<Nil>>)
      /\ PushEnvironment("funcall")
  <2>1. Len(form_stack) + Len(pushed) - (1 + arg_count) = 2
    BY <1>1
  <2>2. acts' = Append(<<>>, act)
    BY <2>1 DEF BeginCall
  <2>3. \A x : Append(<<>>, x) = <<x>>
    OBVIOUS
  <2> HIDE DEF act
  <2>4. acts' = <<act>>
    BY <2>2, <2>3
  <2> QED  BY <2>4 DEF BeginCall, Pushes
<1>3. PICK p \in Nat : p = 1 + arg_count
  OBVIOUS
<1>4. /\ IsSeq(forms2) /\ Len(forms2) = 4 + arg_count /\ Over(forms2, form_stack)
      /\ \A i \in 1 .. p : forms2[2 + i] = pushed[i]
  <2>1. PICK n \in Nat : n = 2
    OBVIOUS
  <2> DEFINE t == form_stack \o (pushed \o <<Nil>>)
  <2>2. /\ IsSeq(t) /\ Len(t) = n + p + 1 /\ Over(t, form_stack)
        /\ \A i \in 1 .. p : t[n + i] = pushed[i]
    <3>1. IsSeq(form_stack) /\ Len(form_stack) = n /\ Len(pushed) = p
      BY <1>1, <1>3, <2>1
    <3>2. Puts(form_stack, pushed, Nil, t)
      BY DEF Puts
    <3> HIDE DEF t, forms2
    <3> QED  BY <3>1, <3>2, PushedIs
  <2>3. forms2 = t
    BY <1>2
  <2> HIDE DEF t, forms2
  <2> QED  BY <1>3, <2>1, <2>2, <2>3
<1>5. forms2[1] = form_stack[1] /\ forms2[2] = form_stack[2]
  <2> HIDE DEF forms2
  <2> QED  BY <1>1, <1>4 DEF Over, Agree
<1>6. \A k \in 1 .. arg_count : forms2[2 + 1 + k] \in Language
  <2> HIDE DEF forms2
  <2>1. \A k \in 1 .. arg_count : 1 + k \in 1 .. p /\ 2 + (1 + k) = 2 + 1 + k
    BY <1>3
  <2> QED  BY <1>4, <2>1
<1>7. Len(seen2) = 3 /\ seen2[1] = Seen[1] /\ seen2[2] = Seen[2] /\ seen2[3].source = "funcall"
  <2>1. PICK n \in Nat : n = 2
    OBVIOUS
  <2>2. Over(Seen', Seen) /\ Len(Seen) = n /\ Len(Seen') = n + 1 /\ Seen'[n + 1].source = "funcall"
    BY <1>1, <1>2, <2>1, CallFrame
  <2> HIDE DEF Seen
  <2>3. Agree(seen2, Seen, 2) /\ Len(seen2) = 3 /\ seen2[3].source = "funcall"
    BY <2>1, <2>2 DEF Over
  <2> HIDE DEF seen2
  <2> QED  BY <2>3 DEF Agree
<1> HIDE DEF forms2, seen2
<1>8. ActLaid(act, 3 + arg_count, Len(forms2), 2, 3, forms2, seen2)
  <2>1. PICK f0 \in Nat : f0 = 3 + arg_count
    OBVIOUS
  <2>2. PICK i \in Nat : i = 2
    OBVIOUS
  <2>3. /\ f0 = i + arg_count + 1 /\ i + 1 = 3 /\ f0 + 1 = Len(forms2)
    BY <1>4, <2>1, <2>2
  <2>4. /\ \A k \in 1 .. arg_count : forms2[i + 1 + k] \in Language
        /\ seen2[i + 1].source = "funcall"
    BY <1>6, <1>7, <2>2, <2>3
  <2>5. ActLaid(CallAct(fn, i, arg_count), f0, f0 + 1, i, i + 1, forms2, seen2)
    BY <2>3, <2>4, NewCallLaid
  <2> QED  BY <2>1, <2>2, <2>3, <2>5
<1>9. act.arg_count = arg_count
  BY DEF CallAct
<1> HIDE DEF act
<1>10. \E f, r : Laid(f, r, <<act>>, forms2, seen2)
  BY <1>1, <1>4, <1>5, <1>7, <1>8, <1>9, FirstLaid
<1>11. \E f, r : Laid(f, r, acts', form_stack', Seen')
  BY <1>2, <1>10 DEF forms2, seen2
<1> QED  BY <1>11 DEF LayoutInv, Seen

----------------------------------------------------------------------------
(* Every step keeps the layout                                             *)

LEMMA FormOpKeepsLayout ==
  ASSUME IInv, LayoutInv,
         OpPush \/ OpPop \/ OpRetForm \/ OpBindValue \/ OpLookupSymbol \/ OpLookupFunction
  PROVE  LayoutInv'
<1> DEFINE target == Byte.target
<1>1. ASSUME NEW op, At(op), op \in {"Pop", "RetForm"}, Replaces(1, <<>>), Advance,
             UNCHANGED <<frame_stack, environment_bindings>>
      PROVE  LayoutInv'
  <2>1. InBytes /\ Byte.op \in {"Pop", "RetForm"} /\ form_stack' = DropLast(form_stack, 1) \o <<>>
    BY <1>1 DEF At, Replaces
  <2>2. Taken(Byte) = 1
    BY <2>1 DEF Taken
  <2>3. FormsFill(Given(Byte), 0, Len(<<>>), <<>>) /\ IsSeq(<<>>)
    BY <2>1, GivenIs, EmptyIs
  <2>4. form_stack' = DropLast(form_stack, Taken(Byte)) \o <<>>
    BY <2>1, <2>2
  <2>5. Byte.op \notin {"PushLexicalEnv", "PopLexicalEnv", "BindTag"}
    BY <2>1
  <2> DEFINE none == <<>>
  <2>6. IsSeq(none) /\ FormsFill(Given(Byte), 0, Len(none), none)
        /\ form_stack' = DropLast(form_stack, Taken(Byte)) \o none
    BY <2>3, <2>4
  <2> HIDE DEF none
  <2> QED  BY <1>1, <2>1, <2>5, <2>6, FormByteKeepsLayout
<1>2. ASSUME NEW op, At(op), op \in {"BindValue", "LookupSymbol", "LookupFunction"},
             NEW n, n = (IF op = "BindValue" THEN 2 ELSE 1),
             NEW value, Replaces(n, <<value>>), Advance,
             UNCHANGED <<frame_stack, environment_bindings>>
      PROVE  LayoutInv'
  <2> DEFINE one == <<value>>
  <2>1. /\ InBytes /\ Byte.op = op /\ form_stack' = DropLast(form_stack, n) \o one
    BY <1>2 DEF At, Replaces
  <2>2. Taken(Byte) = n
    BY <1>2, <2>1 DEF Taken
  <2>3. FormsFill(Given(Byte), 0, Len(one), one) /\ IsSeq(one)
    BY <1>2, <2>1, GivenIs, SingleIs
  <2>4. Byte.op \notin {"PushLexicalEnv", "PopLexicalEnv", "BindTag"}
    BY <1>2, <2>1
  <2> HIDE DEF one
  <2> QED  BY <1>2, <2>1, <2>2, <2>3, <2>4, FormByteKeepsLayout
<1>3. CASE OpPush
  <2> DEFINE one == <<target>>
  <2>1. InBytes /\ Byte.op = "Push" /\ Advance /\ form_stack' = form_stack \o one
        /\ UNCHANGED <<frame_stack, environment_bindings>>
    BY <1>3 DEF OpPush, At, Pushes, scopes
  <2>2. Taken(Byte) = 0
    BY <2>1 DEF Taken
  <2>3. FormsFill(Given(Byte), 0, Len(one), one) /\ IsSeq(one)
    BY <2>1, GivenIs, SingleIs
  <2>4. DropLast(form_stack, 0) = form_stack
    BY NoneDropped DEF IInv, FormsInv
  <2>5. Byte.op \notin {"PushLexicalEnv", "PopLexicalEnv", "BindTag"}
    BY <2>1
  <2> HIDE DEF one
  <2>6. form_stack' = DropLast(form_stack, Taken(Byte)) \o one
    BY <2>1, <2>2, <2>4
  <2> QED  BY <2>1, <2>3, <2>5, <2>6, FormByteKeepsLayout
<1>4. CASE OpPop
  BY <1>1, <1>4 DEF OpPop, scopes
<1>5. CASE OpRetForm
  BY <1>1, <1>5 DEF OpRetForm
<1>6. CASE OpBindValue
  BY <1>2, <1>6 DEF OpBindValue
<1>7. CASE OpLookupSymbol
  BY <1>2, <1>7 DEF OpLookupSymbol, scopes
<1>8. CASE OpLookupFunction
  BY <1>2, <1>8 DEF OpLookupFunction, scopes
<1> QED  BY <1>3, <1>4, <1>5, <1>6, <1>7, <1>8

(* GoReturn finds its tag in the running bytecode: it never leaves it.     *)
LEMMA GoStays ==
  ASSUME IInv, LayoutInv
  PROVE  ~OpGoLeaves /\ ~OpGoLeavesRepl
<1> SUFFICES ASSUME At("GoReturn"), ~Binds(Landing(Byte.target), Byte.target)  PROVE FALSE
  BY DEF OpGoLeaves, OpGoLeavesRepl
<1>1. InBytes /\ Byte.op = "GoReturn"
  BY DEF At
<1>2. Binds(Landing(Byte.target), Byte.target)
  BY <1>1, GoFinds
<1> QED  BY <1>2

LEMMA RunByteKeepsLayout ==
  ASSUME IInv, LayoutInv, ScopesInv, RunByte
  PROVE  LayoutInv'
<1>1. CASE OpPush \/ OpPop \/ OpRetForm \/ OpBindValue \/ OpLookupSymbol \/ OpLookupFunction
  BY <1>1, FormOpKeepsLayout
<1>2. CASE OpBindTag
  BY <1>2, BindTagKeepsLayout
<1>3. CASE OpPushLexicalEnv
  BY <1>3, PushScopeKeepsLayout DEF OpPushLexicalEnv, At, stacks
<1>4. CASE OpPopLexicalEnv
  BY <1>4, PopScopeKeepsLayout DEF OpPopLexicalEnv, At, stacks
<1>5. CASE OpFuncall
  BY <1>5, FuncallKeepsLayout
<1>6. CASE OpGoLands
  BY <1>6, GoKeepsLayout
<1> QED  BY <1>1, <1>2, <1>3, <1>4, <1>5, <1>6, GoStays DEF RunByte

LEMMA CallStepKeepsLayout ==
  ASSUME IInv, LayoutInv, CompilerIsTyped, LanguageIsDisciplined,
         EvaluateArg \/ AddArg \/ CallFormat \/ CallRead
  PROVE  LayoutInv'
<1>1. CASE EvaluateArg
  BY <1>1, EvaluateKeepsLayout
<1>2. CASE AddArg
  BY <1>2, AddArgKeepsLayout
<1>3. CASE CallFormat
  <2>1. InCall /\ FinishCall(Nil) /\ UNCHANGED environment_bindings
    BY <1>3 DEF CallFormat, CallIsReady
  <2> QED  BY <2>1, FinishKeepsLayout
<1>4. CASE CallRead
  <2>1. InCall /\ UNCHANGED environment_bindings /\ \E form \in Programs : FinishCall(form)
    BY <1>4 DEF CallRead, CallIsReady
  <2> QED  BY <2>1, FinishKeepsLayout
<1> QED  BY <1>1, <1>2, <1>3, <1>4

LEMMA ReplKeepsLayout ==
  ASSUME IInv, LayoutInv, ReplInv, LanguageHoldsPrograms, ReplReads \/ ReplPrints \/ ReplQuits
  PROVE  LayoutInv'
<1>1. CASE ReplReads
  <2> DEFINE pushed == <<Function("READ")>>
  <2>1. /\ Going /\ acts = <<>> /\ UNCHANGED environment_bindings /\ BeginCall("READ", pushed, 0)
    BY <1>1 DEF ReplReads, ReplInv, Going
  <2>2. IsSeq(pushed) /\ Len(pushed) = 1 + 0
    BY SingleIs
  <2> HIDE DEF pushed
  <2>3. PICK count \in Nat : count = 0
    OBVIOUS
  <2>4. /\ Len(pushed) = 1 + count /\ BeginCall("READ", pushed, count)
        /\ \A k \in 1 .. count : pushed[1 + k] \in Language
    BY <2>1, <2>2, <2>3
  <2> QED  BY <2>1, <2>2, <2>4, ReplCallKeepsLayout
<1>2. CASE ReplPrints
  <2> DEFINE text   == Str("~A~%")
             form   == ReadForm
             fn     == Function("FORMAT")
             pushed == <<fn, T, text, form>>
  <2>1. /\ Going /\ acts = <<>> /\ UNCHANGED environment_bindings /\ BeginCall("FORMAT", pushed, 3)
    BY <1>2 DEF ReplPrints, Going
  <2>2. T \in Language /\ text \in Language /\ form \in Language
    BY <1>2 DEF ReplPrints, ReplInv, LanguageHoldsPrograms
  <2> HIDE DEF text, form, fn
  <2>3. IsSeq(pushed) /\ Len(pushed) = 4
    <3>1. pushed \in Seq({fn, T, text, form})
      OBVIOUS
    <3> QED  BY <3>1 DEF IsSeq
  <2>4. pushed[2] \in Language /\ pushed[3] \in Language /\ pushed[4] \in Language
    BY <2>2
  <2> HIDE DEF pushed
  <2>5. PICK count \in Nat : count = 3
    OBVIOUS
  <2>6. \A k \in 1 .. count : pushed[1 + k] \in Language
    <3> SUFFICES ASSUME NEW k \in 1 .. count  PROVE pushed[1 + k] \in Language
      OBVIOUS
    <3>1. 1 + k = 2 \/ 1 + k = 3 \/ 1 + k = 4
      BY <2>5
    <3> QED  BY <2>4, <3>1
  <2>7. Len(pushed) = 1 + count /\ BeginCall("FORMAT", pushed, count)
    BY <2>1, <2>3, <2>5
  <2> QED  BY <2>1, <2>3, <2>6, <2>7, ReplCallKeepsLayout
<1>3. CASE ReplQuits
  <2>1. repl' = "quit"
    BY <1>3 DEF ReplQuits
  <2> QED  BY <2>1 DEF LayoutInv, Going
<1> QED  BY <1>1, <1>2, <1>3

LEMMA NextKeepsLayout ==
  ASSUME CompilerIsTyped, LanguageHoldsPrograms, LanguageIsDisciplined, DInv, [Next]_vars
  PROVE  LayoutInv'
<1> IInv /\ LayoutInv /\ ReplInv /\ ScopesInv
  BY DEF DInv
<1>1. CASE RunByte
  BY <1>1, RunByteKeepsLayout
<1>2. CASE EvaluateArg \/ AddArg \/ CallFormat \/ CallRead
  BY <1>2, CallStepKeepsLayout
<1>3. CASE ReplReads \/ ReplPrints \/ ReplQuits
  BY <1>3, ReplKeepsLayout
<1>4. CASE Abort \/ Astray
  <2>1. repl' \in {"aborted", "undefined"}
    BY <1>4 DEF Abort, Astray, Ends
  <2> QED  BY <2>1 DEF LayoutInv, Going
<1>5. CASE UNCHANGED vars
  BY <1>5 DEF vars, LayoutInv, Going
<1> QED  BY <1>1, <1>2, <1>3, <1>4, <1>5 DEF Next

----------------------------------------------------------------------------
(* Every step keeps the scopes apart                                       *)

LEMMA PushKeepsScopes ==
  ASSUME IInv, ScopesInv, NEW source, PushEnvironment(source), UNCHANGED environment_bindings
  PROVE  ScopesInv'
<1>1. PICK frame : /\ frame.source = source /\ frame.env \notin DOMAIN environment_bindings
                   /\ \A i \in 1 .. Len(frame_stack) : frame_stack[i].env # frame.env
                   /\ frame_stack' = Append(frame_stack, frame)
  BY NewFrameIs
<1> DEFINE n == Len(frame_stack)
           frames == frame_stack'
<1>2. IsSeq(frame_stack) /\ n \in Nat /\ DOMAIN frame_stack = 1 .. n
  BY SeqIs DEF IInv, FramesInv
<1>3. /\ IsSeq(frames) /\ Len(frames) = n + 1 /\ DOMAIN frames = 1 .. n + 1
      /\ \A i \in 1 .. n : frames[i] = frame_stack[i]
      /\ frames[n + 1] = frame
  <2> DEFINE s == Append(frame_stack, frame)
  <2>1. /\ IsSeq(s) /\ Len(s) = n + 1 /\ s[n + 1] = frame
        /\ \A i \in 1 .. n : s[i] = frame_stack[i]
    BY <1>2, AppendIs
  <2> HIDE DEF s
  <2>2. DOMAIN s = 1 .. n + 1
    BY <2>1, SeqIs
  <2> QED  BY <1>1, <2>1, <2>2 DEF s
<1>4. /\ \A i, j \in 1 .. n : frame_stack[i].env = frame_stack[j].env => i = j
      /\ \A i \in 1 .. n : frame_stack[i].source # "bytes" =>
           frame_stack[i].env \notin DOMAIN environment_bindings
      /\ \A i \in 1 .. n : frame_stack[i].env # frame.env
  BY <1>1, <1>2 DEF ScopesInv, TagsBelongToBytecode
<1> HIDE DEF n, frames
<1>5. \A i \in 1 .. n + 1 : i \in 1 .. n \/ i = n + 1
  BY <1>2
<1>6. \A i, j \in 1 .. n + 1 : frames[i].env = frames[j].env => i = j
  BY <1>3, <1>4, <1>5
<1>7. \A i \in 1 .. n + 1 : frames[i].source # "bytes" =>
        frames[i].env \notin DOMAIN environment_bindings
  BY <1>1, <1>3, <1>4, <1>5
<1> QED  BY <1>3, <1>6, <1>7 DEF ScopesInv, TagsBelongToBytecode, frames

LEMMA CutKeepsScopes ==
  ASSUME IInv, ScopesInv, UNCHANGED environment_bindings,
         NEW n \in Nat, n <= Len(frame_stack), frame_stack' = SubSeq(frame_stack, 1, n)
  PROVE  ScopesInv'
<1> DEFINE frames == frame_stack'
<1>1. IsSeq(frame_stack) /\ Len(frame_stack) \in Nat /\ DOMAIN frame_stack = 1 .. Len(frame_stack)
  BY SeqIs DEF IInv, FramesInv
<1>2. IsSeq(frames) /\ Len(frames) = n /\ DOMAIN frames = 1 .. n
      /\ \A i \in 1 .. n : frames[i] = frame_stack[i]
  <2> DEFINE s == SubSeq(frame_stack, 1, n)
  <2>1. n \in Int /\ n = IF 1 <= n THEN n ELSE 0
    OBVIOUS
  <2>2. IsSeq(s) /\ Len(s) = (IF 1 <= n THEN n ELSE 0) /\ \A i \in 1 .. n : s[i] = frame_stack[i]
    BY <1>1, <2>1, SubSeqIs
  <2> HIDE DEF s
  <2>3. Len(s) = n
    BY <2>1, <2>2
  <2>4. DOMAIN s = 1 .. n
    BY <2>2, <2>3, SeqIs
  <2> QED  BY <2>2, <2>3, <2>4 DEF s
<1>3. \A i \in 1 .. n : i \in 1 .. Len(frame_stack)
  BY <1>1
<1> HIDE DEF frames
<1> QED  BY <1>1, <1>2, <1>3 DEF ScopesInv, TagsBelongToBytecode, frames

LEMMA BindTagKeepsScopes ==
  ASSUME IInv, LayoutInv, ScopesInv, OpBindTag
  PROVE  ScopesInv'
<1>1. InBytes /\ Byte.op = "BindTag"
  BY DEF OpBindTag, At
<1>2. Last(frame_stack).source = "bytes"
  BY <1>1, BindTagFinds
<1> DEFINE n == Len(frame_stack)
<1>3. n \in Nat /\ 1 <= n /\ DOMAIN frame_stack = 1 .. n /\ Last(frame_stack) = frame_stack[n]
  BY SeqIs DEF IInv, FramesInv, Last
<1>4. UNCHANGED frame_stack
  BY DEF OpBindTag, scopes
<1>5. \E new : environment_bindings' = Inserted(environment_bindings, frame_stack[n].env, new)
  BY <1>3 DEF OpBindTag, CurrentEnv
<1>6. DOMAIN environment_bindings' = DOMAIN environment_bindings \cup {frame_stack[n].env}
  BY <1>5 DEF Inserted
<1>7. ASSUME NEW i \in 1 .. n, frame_stack[i].source # "bytes"
      PROVE  frame_stack[i].env \notin DOMAIN environment_bindings'
  <2>1. i # n /\ n \in 1 .. n
    <3>1. frame_stack[n].source = "bytes" /\ frame_stack[i].source # "bytes"
      BY <1>2, <1>3, <1>7
    <3> HIDE DEF n
    <3> QED  BY <1>3, <3>1
  <2>2. frame_stack[i].env # frame_stack[n].env
    BY <2>1 DEF ScopesInv
  <2>3. frame_stack[i].env \notin DOMAIN environment_bindings
    BY <1>3, <1>7 DEF ScopesInv, TagsBelongToBytecode
  <2> QED  BY <1>6, <2>2, <2>3
<1> QED  BY <1>3, <1>4, <1>7 DEF ScopesInv, TagsBelongToBytecode

LEMMA PopToKeepsScopes ==
  ASSUME IInv, ScopesInv, UNCHANGED environment_bindings, NEW n \in 1 .. Len(frame_stack),
         PopTo(n)
  PROVE  ScopesInv'
<1>1. n \in Nat /\ n <= Len(frame_stack) /\ frame_stack' = SubSeq(frame_stack, 1, n)
  <2>1. Len(frame_stack) \in Nat
    BY SeqIs DEF IInv, FramesInv
  <2> QED  BY <2>1 DEF PopTo
<1> QED  BY <1>1, CutKeepsScopes

LEMMA FinishKeepsScopes ==
  ASSUME IInv, ScopesInv, UNCHANGED environment_bindings, NEW form, FinishCall(form)
  PROVE  ScopesInv'
<1> DEFINE len == Len(frame_stack)
<1>1. len \in Nat /\ 1 <= len
  BY SeqIs DEF IInv, FramesInv
<1> HIDE DEF len
<1>2. PICK n \in Nat : n = len - 1
  BY <1>1
<1>3. n <= Len(frame_stack) /\ frame_stack' = SubSeq(frame_stack, 1, n)
  BY <1>1, <1>2 DEF FinishCall, len
<1> QED  BY <1>3, CutKeepsScopes

LEMMA NextKeepsScopes ==
  ASSUME DInv, [Next]_vars
  PROVE  ScopesInv'
<1> IInv /\ LayoutInv /\ ScopesInv
  BY DEF DInv
<1>1. ASSUME UNCHANGED <<frame_stack, environment_bindings>>  PROVE ScopesInv'
  BY <1>1 DEF ScopesInv, TagsBelongToBytecode
<1>2. CASE OpPush \/ OpPop \/ OpRetForm \/ OpBindValue \/ OpLookupSymbol \/ OpLookupFunction
  BY <1>1, <1>2
     DEF OpPush, OpPop, OpRetForm, OpBindValue, OpLookupSymbol, OpLookupFunction, scopes
<1>3. CASE OpBindTag
  BY <1>3, BindTagKeepsScopes
<1>4. CASE OpPushLexicalEnv
  BY <1>4, PushKeepsScopes DEF OpPushLexicalEnv
<1>5. CASE OpPopLexicalEnv
  <2> DEFINE len == Len(frame_stack)
  <2>1. len \in Nat /\ len > 1
    BY <1>5, SeqIs DEF OpPopLexicalEnv, IInv, FramesInv
  <2>2. PICK n \in 1 .. len : n = len - 1
    <3> HIDE DEF len
    <3> QED  BY <2>1
  <2>3. PopTo(n) /\ UNCHANGED environment_bindings
    BY <1>5, <2>2 DEF OpPopLexicalEnv
  <2> QED  BY <2>3, PopToKeepsScopes
<1>6. CASE OpFuncall
  BY <1>6, PushKeepsScopes DEF OpFuncall, BeginCall
<1>7. CASE OpGoLands
  <2>1. PopTo(Landing(Byte.target)) /\ UNCHANGED environment_bindings
    BY <1>7 DEF OpGoLands
  <2>2. Landing(Byte.target) \in 1 .. Len(frame_stack)
    BY LandingIs DEF IInv
  <2> QED  BY <2>1, <2>2, PopToKeepsScopes
<1>8. CASE EvaluateArg \/ AddArg
  BY <1>1, <1>8 DEF EvaluateArg, AddArg, scopes
<1>9. CASE CallFormat \/ CallRead
  <2>1. UNCHANGED environment_bindings /\ \E form : FinishCall(form)
    BY <1>9 DEF CallFormat, CallRead
  <2> QED  BY <2>1, FinishKeepsScopes
<1>10. CASE ReplReads \/ ReplPrints
  <2>1. UNCHANGED environment_bindings /\ PushEnvironment("funcall")
    BY <1>10 DEF ReplReads, ReplPrints, BeginCall
  <2> QED  BY <2>1, PushKeepsScopes
<1>11. CASE ReplQuits
  <2>1. Len(frame_stack) \in Nat
    BY SeqIs DEF IInv, FramesInv
  <2>2. Len(frame_stack) - 1 > 0 /\ UNCHANGED environment_bindings
        /\ frame_stack' = SubSeq(frame_stack, 1, Len(frame_stack) - 1)
    BY <1>11 DEF ReplQuits
  <2>3. PICK n \in Nat : n = Len(frame_stack) - 1
    BY <2>1, <2>2
  <2>4. n <= Len(frame_stack) /\ frame_stack' = SubSeq(frame_stack, 1, n)
    BY <2>1, <2>2, <2>3
  <2> QED  BY <2>2, <2>4, CutKeepsScopes
<1>12. CASE Abort \/ Astray
  BY <1>1, <1>12 DEF Abort, Astray, Ends
<1>13. CASE UNCHANGED vars
  BY <1>1, <1>13 DEF vars
<1> QED  BY <1>2, <1>3, <1>4, <1>5, <1>6, <1>7, <1>8, <1>9, <1>10, <1>11, <1>12, <1>13, GoStays
         DEF Next, RunByte

----------------------------------------------------------------------------
(* Every step keeps what the REPL knows                                    *)

LEMMA NotEmpty ==
  ASSUME NEW s, IsSeq(s), NEW x
  PROVE  Append(s, x) # <<>> /\ s \o <<x>> # <<>>
<1>1. Len(s) \in Nat /\ Len(Append(s, x)) = Len(s) + 1
  BY SeqIs, AppendIs
<1>2. Len(s \o <<x>>) = Len(s) + 1
  <2> DEFINE one == <<x>>
  <2>1. IsSeq(one) /\ Len(one) = 1
    BY SingleIs
  <2> HIDE DEF one
  <2>2. Len(s \o one) = Len(s) + 1
    BY <2>1, ConcatIs
  <2> QED  BY <2>2 DEF one
<1>3. Len(<<>>) = 0 /\ Len(s) + 1 # 0
  BY <1>1, EmptyIs
<1> QED  BY <1>1, <1>2, <1>3

LEMMA NotThere ==
  ASSUME ReplInv, acts' # <<>>, UNCHANGED repl, repl # "prompt"
  PROVE  ReplInv'
BY DEF ReplInv

LEMMA FinishKeepsRepl ==
  ASSUME IInv, LayoutInv, ReplInv, InCall, NEW form, FinishCall(form), Below # <<>>, UNCHANGED repl
  PROVE  ReplInv'
<1>1. acts # <<>> /\ repl # "prompt"
  BY DEF InCall, Running
<1>2. IsSeq(Front(Below))
  <2> DEFINE below == Below
  <2>1. IsSeq(below) /\ below # <<>>
    BY <1>1, TopIs DEF IInv
  <2> HIDE DEF below
  <2>2. 1 <= Len(below) /\ \A i \in 1 .. Len(below) : below[i] = below[i]
    BY <2>1, NonemptyIs
  <2>3. IsSeq(Front(below))
    BY <2>1, <2>2, FrontAgrees
  <2> QED  BY <2>3 DEF below
<1>3. acts' # <<>>
  BY <1>2, NotEmpty DEF FinishCall
<1> QED  BY <1>1, <1>3, NotThere

(* Only a call the REPL has made itself ends where it goes on.             *)
LEMMA CallReadKeepsRepl ==
  ASSUME IInv, LayoutInv, ReplInv, LanguageHoldsPrograms, CallRead
  PROVE  ReplInv'
<1>1. PICK form \in Programs : FinishCall(form)
  BY DEF CallRead
<1>2. InCall /\ Len(frame_stack) > 1 /\ UNCHANGED repl
  BY DEF CallRead, CallIsReady
<1>3. CASE Below # <<>>
  BY <1>1, <1>2, <1>3, FinishKeepsRepl
<1>4. CASE Below = <<>>
  <2> DEFINE n == Len(frame_stack) - 1
             returns == last_return_value'
  <2>1. repl # "prompt"
    BY <1>2 DEF InCall, Running
  <2>2. /\ FramesInv /\ IsSeq(last_return_value) /\ Len(frame_stack) \in Nat
        /\ Len(last_return_value) = Len(frame_stack)
    BY SeqIs DEF IInv, FramesInv
  <2>3. n \in 1 .. Len(frame_stack) /\ n \in Nat
    BY <1>2, <2>2
  <2>4. returns = [SubSeq(last_return_value, 1, n) EXCEPT ![n] = form]
    BY <1>1 DEF FinishCall
  <2> HIDE DEF n, returns
  <2>5. /\ IsSeq([SubSeq(last_return_value, 1, n) EXCEPT ![n] = form])
        /\ Len([SubSeq(last_return_value, 1, n) EXCEPT ![n] = form]) = n
    BY <2>2, <2>3, ReturnsAre
  <2>6. n \in DOMAIN SubSeq(last_return_value, 1, n)
    <3> DEFINE s == SubSeq(last_return_value, 1, n)
    <3>1. n \in Int /\ n <= Len(last_return_value) /\ n = (IF 1 <= n THEN n ELSE 0)
      BY <2>2, <2>3
    <3>2. IsSeq(s) /\ Len(s) = IF 1 <= n THEN n ELSE 0
      BY <2>2, <3>1, SubSeqIs
    <3> HIDE DEF s
    <3>3. DOMAIN s = 1 .. n
      BY <3>1, <3>2, SeqIs
    <3> QED  BY <2>3, <3>3 DEF s
  <2>7. returns[n] = form
    <3> DEFINE s == SubSeq(last_return_value, 1, n)
    <3> HIDE DEF s
    <3>1. n \in DOMAIN s /\ returns = [s EXCEPT ![n] = form]
      BY <2>4, <2>6 DEF s
    <3> QED  BY <3>1
  <2>8. Len(returns) = n
    BY <2>4, <2>5
  <2>9. returns[Len(returns)] = form
    BY <2>7, <2>8
  <2>10. ReadForm' = form
    BY <2>9 DEF returns, ReadForm, Last
  <2>11. ReadForm' \in Language
    BY <2>10 DEF LanguageHoldsPrograms
  <2> QED  BY <1>2, <2>1, <2>11 DEF ReplInv
<1> QED  BY <1>3, <1>4

LEMMA RunByteKeepsRepl ==
  ASSUME IInv, LayoutInv, ReplInv, RunByte
  PROVE  ReplInv'
<1>1. ASSUME NEW op, At(op), NEW index, JumpTo(index), UNCHANGED repl  PROVE ReplInv'
  <2>1. acts # <<>> /\ repl # "prompt"
    BY <1>1 DEF At, InBytes, Running
  <2>2. IsSeq(Below)
    BY <2>1, TopIs DEF IInv
  <2>3. acts' # <<>>
    BY <1>1, <2>2, NotEmpty DEF JumpTo
  <2> QED  BY <1>1, <2>1, <2>3, NotThere
<1>2. CASE OpPush \/ OpPop \/ OpRetForm \/ OpBindTag \/ OpBindValue
  BY <1>1, <1>2 DEF OpPush, OpPop, OpRetForm, OpBindTag, OpBindValue, Advance, session
<1>3. CASE OpPushLexicalEnv \/ OpPopLexicalEnv \/ OpLookupSymbol \/ OpLookupFunction
  BY <1>1, <1>3
     DEF OpPushLexicalEnv, OpPopLexicalEnv, OpLookupSymbol, OpLookupFunction, Advance, session
<1>4. CASE OpGoLands
  BY <1>1, <1>4 DEF OpGoLands, session
<1>5. CASE OpFuncall
  <2>1. UNCHANGED repl /\ repl # "prompt" /\ \E act : acts' = Append(acts, act)
    BY <1>5 DEF OpFuncall, BeginCall, session, At, InBytes, Running
  <2>2. acts' # <<>>
    BY <2>1, NotEmpty DEF IInv, ActsInv
  <2> QED  BY <2>1, <2>2, NotThere
<1> QED  BY <1>2, <1>3, <1>4, <1>5, GoStays DEF RunByte

LEMMA NextKeepsRepl ==
  ASSUME LanguageHoldsPrograms, DInv, [Next]_vars
  PROVE  ReplInv'
<1> IInv /\ LayoutInv /\ ReplInv /\ ScopesInv
  BY DEF DInv
<1>1. CASE RunByte
  BY <1>1, RunByteKeepsRepl
<1>2. CASE EvaluateArg
  <2>1. UNCHANGED repl /\ repl # "prompt" /\ \E act : acts' = Append(acts, act)
    BY <1>2 DEF EvaluateArg, session, InCall, Running
  <2>2. acts' # <<>>
    BY <2>1, NotEmpty DEF IInv, ActsInv
  <2> QED  BY <2>1, <2>2, NotThere
<1>3. CASE AddArg
  <2>1. ArgReady /\ UNCHANGED repl /\ repl # "prompt" /\ \E act : acts' = Front(Below) \o <<act>>
    BY <1>3 DEF AddArg, session, ArgReady, Running
  <2>2. IsSeq(Front(Below))
    <3> DEFINE below == Below
    <3>1. IsSeq(below) /\ IsTop(Len(below), below)
      BY <2>1, ArgHasRun
    <3> HIDE DEF below
    <3>2. 1 <= Len(below) /\ \A i \in 1 .. Len(below) : below[i] = below[i]
      BY <3>1 DEF IsTop
    <3>3. IsSeq(Front(below))
      BY <3>1, <3>2, FrontAgrees
    <3> QED  BY <3>3 DEF below
  <2>3. acts' # <<>>
    BY <2>1, <2>2, NotEmpty
  <2> QED  BY <2>1, <2>3, NotThere
<1>4. CASE CallFormat
  <2>1. InCall /\ FinishCall(Nil) /\ repl' = IF Below = <<>> THEN "prompt" ELSE repl
    BY <1>4 DEF CallFormat, CallIsReady
  <2>2. CASE Below = <<>>
    BY <2>1, <2>2 DEF FinishCall, ReplInv
  <2>3. CASE Below # <<>>
    BY <2>1, <2>3, FinishKeepsRepl
  <2> QED  BY <2>2, <2>3
<1>5. CASE CallRead
  BY <1>5, CallReadKeepsRepl
<1>6. CASE ReplReads \/ ReplPrints
  <2>1. repl' # "prompt" /\ \E act : acts' = Append(acts, act)
    BY <1>6 DEF ReplReads, ReplPrints, BeginCall
  <2>2. acts' # <<>>
    BY <2>1, NotEmpty DEF IInv, ActsInv
  <2> QED  BY <2>1, <2>2 DEF ReplInv
<1>7. CASE ReplQuits \/ Abort \/ Astray
  <2>1. repl' \in {"quit", "aborted", "undefined"}
    BY <1>7 DEF ReplQuits, Abort, Astray, Ends
  <2> QED  BY <2>1 DEF ReplInv
<1>8. CASE UNCHANGED vars
  BY <1>8 DEF vars, ReplInv, ReadForm
<1> QED  BY <1>1, <1>2, <1>3, <1>4, <1>5, <1>6, <1>7, <1>8 DEF Next

----------------------------------------------------------------------------
(* The invariant holds                                                     *)

LEMMA InitEstablishesDInv ==
  ASSUME Init
  PROVE  DInv
<1>1. IInv
  BY InitEstablishesInvariant
<1>2. LayoutInv
  <2> DEFINE base == [env |-> 0, source |-> "base", prev |-> NoBuffer]
             call == [env |-> 1, source |-> "funcall", prev |-> Capacity(0, 1)]
             forms == form_stack
             fn    == Function("REPL")
  <2>1. /\ acts = <<>> /\ frame_stack = <<base, call>> /\ forms = <<fn, Nil>>
    BY DEF Init
  <2>2. base.source = "base" /\ call.source = "funcall"
    OBVIOUS
  <2> HIDE DEF base, call, forms, fn
  <2>3. /\ Len(frame_stack) = 2 /\ frame_stack[1] = base /\ frame_stack[2] = call
        /\ Len(forms) = 2 /\ forms[1] = fn /\ forms[2] = Nil
    BY <2>1
  <2>4. IsSeq(frame_stack)
    BY <1>1 DEF IInv, FramesInv
  <2>5. 1 \in 1 .. 2 /\ 2 \in 1 .. 2
    OBVIOUS
  <2>6. Len(Seen) = 2 /\ Seen[1].source = "base" /\ Seen[2].source = "funcall"
    <3>1. /\ Len(Seen) = Len(frame_stack)
          /\ \A i \in 1 .. Len(frame_stack) :
               Seen[i] = [source |-> frame_stack[i].source,
                          tags |-> TagsAt(frame_stack[i].env, environment_bindings)]
      BY <2>4, ViewIs DEF Seen
    <3>2. \A i \in 1 .. 2 : Seen[i].source = frame_stack[i].source
      BY <2>3, <3>1
    <3> QED  BY <2>2, <2>3, <2>5, <3>1, <3>2
  <2>7. \E f, r : Laid(f, r, <<>>, forms, Seen)
    <3> DEFINE seen == Seen
    <3>1. Len(seen) = 2 /\ seen[1].source = "base" /\ seen[2].source = "funcall"
      BY <2>6
    <3> HIDE DEF seen
    <3>2. forms[1] = Function("REPL")
      BY <2>3 DEF fn
    <3>3. \E f, r : Laid(f, r, <<>>, forms, seen)
      BY <2>3, <3>1, <3>2, NothingLaid
    <3> QED  BY <3>3 DEF seen
  <2> QED  BY <2>1, <2>7 DEF LayoutInv, Seen, forms
<1>3. ReplInv
  BY DEF Init, ReplInv
<1>4. ScopesInv
  <2> DEFINE base == [env |-> 0, source |-> "base", prev |-> NoBuffer]
             call == [env |-> 1, source |-> "funcall", prev |-> Capacity(0, 1)]
  <2>1. frame_stack = <<base, call>> /\ environment_bindings = << >>
    BY DEF Init
  <2>2. base.env = 0 /\ call.env = 1
    OBVIOUS
  <2> HIDE DEF base, call
  <2>3. Len(frame_stack) = 2 /\ frame_stack[1].env = 0 /\ frame_stack[2].env = 1
    BY <2>1, <2>2
  <2>4. \A i \in 1 .. Len(frame_stack) : i = 1 \/ i = 2
    BY <2>3
  <2>5. \A i, j \in 1 .. Len(frame_stack) : frame_stack[i].env = frame_stack[j].env => i = j
    BY <2>3, <2>4
  <2>6. DOMAIN environment_bindings = {}
    BY <2>1
  <2> QED  BY <2>5, <2>6 DEF ScopesInv, TagsBelongToBytecode
<1> QED  BY <1>1, <1>2, <1>3, <1>4 DEF DInv

LEMMA DisciplineKept ==
  ASSUME CompilerIsTyped, ReaderGrows, LanguageHoldsPrograms, LanguageIsDisciplined
  PROVE  Spec => []DInv
<1>1. Init => DInv
  BY InitEstablishesDInv
<1>2. DInv /\ [Next]_vars => DInv'
  <2> SUFFICES ASSUME DInv, [Next]_vars  PROVE DInv'
    OBVIOUS
  <2>1. IInv'
    BY NextKeepsInvariant DEF DInv
  <2>2. LayoutInv' /\ ReplInv' /\ ScopesInv'
    BY NextKeepsLayout, NextKeepsRepl, NextKeepsScopes
  <2> QED  BY <2>1, <2>2 DEF DInv
<1> QED  BY <1>1, <1>2, PTL DEF Spec

----------------------------------------------------------------------------
(* One funcall frame for each call                                         *)

CallsIn(xs)   == {j \in 1 .. Len(xs) : xs[j].kind = "call"}
CallsOf(view) == {i \in 1 .. Len(view) : view[i].source = "funcall"}

(* Any frame above the REPL's belongs to some activation.                  *)
LEMMA BelongsToOne ==
  ASSUME NEW n \in Nat, NEW r \in [1 .. n + 1 -> Nat], r[1] = 2, NEW i \in Nat, 2 < i, i <= r[n + 1]
  PROVE  \E j \in 1 .. n : r[j] + 1 <= i /\ i <= r[j + 1]
<1> DEFINE D == {j \in 1 .. n + 1 : i <= r[j]}
<1>1. D \subseteq Nat /\ n + 1 \in D
  OBVIOUS
<1>2. PICK j \in D : \A k \in D : j <= k
  <2> HIDE DEF D
  <2>1. D # {}
    BY <1>1
  <2> QED  BY <1>1, <2>1, LeastIs
<1>3. j \in 1 .. n + 1 /\ i <= r[j] /\ j # 1
  OBVIOUS
<1>4. PICK k \in 1 .. n : j = k + 1
  BY <1>3
<1>5. k \in 1 .. n + 1 /\ ~(j <= k)
  BY <1>4
<1>6. k \notin D
  <2> HIDE DEF D
  <2> QED  BY <1>2, <1>5
<1>7. ~(i <= r[k]) /\ r[k] \in Nat
  BY <1>5, <1>6
<1>8. r[k] + 1 <= i /\ i <= r[k + 1]
  <2>1. i <= r[k + 1]
    BY <1>3, <1>4
  <2> HIDE DEF D
  <2> QED  BY <1>7, <2>1
<1> QED  BY <1>8

(* A call has one frame, a funcall frame, and bytecode those of its scopes.*)
FramesOf(j, r, xs, view) ==
  /\ r[j] \in Nat /\ r[j + 1] \in Nat /\ 2 <= r[j] /\ r[j + 1] <= Len(view)
  /\ xs[j].kind = "call" => r[j + 1] = r[j] + 1 /\ view[r[j] + 1].source = "funcall"
  /\ xs[j].kind # "call" =>
       \A i \in Nat : r[j] + 1 <= i /\ i <= r[j + 1] => view[i].source = "bytes"

LEMMA FramesOfActs ==
  ASSUME NEW f, NEW r, NEW xs, IsSeq(xs), NEW forms, NEW view, Laid(f, r, xs, forms, view),
         NEW j \in 1 .. Len(xs)
  PROVE  FramesOf(j, r, xs, view)
<1> DEFINE n == Len(xs)
<1>1. /\ n \in Nat /\ r \in [1 .. n + 1 -> Nat] /\ r[1] = 2 /\ r[n + 1] = Len(view)
      /\ ActLaid(xs[j], f[j], f[j + 1], r[j], r[j + 1], forms, view)
  BY SeqIs DEF Laid
<1>2. j \in 1 .. n
  OBVIOUS
<1>3. \A a, b \in 1 .. n + 1 : a <= b => r[a] <= r[b]
  BY LayoutRises
<1> HIDE DEF n
<1>4. 1 \in 1 .. n + 1 /\ j \in 1 .. n + 1 /\ j + 1 \in 1 .. n + 1 /\ n + 1 \in 1 .. n + 1
      /\ 1 <= j /\ j + 1 <= n + 1
  BY <1>1, <1>2
<1>5. r[j] \in Nat /\ r[j + 1] \in Nat /\ 2 <= r[j] /\ r[j + 1] <= Len(view)
  BY <1>1, <1>3, <1>4
<1>6. ASSUME xs[j].kind = "call"
      PROVE  r[j + 1] = r[j] + 1 /\ view[r[j] + 1].source = "funcall"
  <2>1. CallLaid(xs[j], f[j], f[j + 1], r[j], r[j + 1], forms, view)
    BY <1>1, <1>6 DEF ActLaid
  <2> QED  BY <2>1 DEF CallLaid
<1>7. ASSUME xs[j].kind # "call", NEW i \in Nat, r[j] + 1 <= i, i <= r[j + 1]
      PROVE  view[i].source = "bytes"
  <2> DEFINE tags == Shapes(xs[j].bytes)[xs[j].index].scopes
             r0   == r[j]
  <2>1. BytesLaid(xs[j], f[j], f[j + 1], r[j], r[j + 1], forms, view)
    BY <1>1, <1>7 DEF ActLaid
  <2>2. ScopesFill(tags, r0, r[j + 1], view)
    BY <2>1 DEF BytesLaid, Fills
  <2> HIDE DEF tags, r0
  <2>3. r[j + 1] = r0 + Len(tags) /\ \A k \in 1 .. Len(tags) : view[r0 + k].source = "bytes"
    BY <2>2 DEF ScopesFill
  <2>4. r0 \in Nat /\ r0 + 1 <= i
    BY <1>5, <1>7 DEF r0
  <2>5. PICK k \in Int : k = i - r0
    BY <2>4
  <2>6. Len(tags) \in Int
    <3>1. ShapeIs(Shapes(xs[j].bytes)[xs[j].index])
      BY <2>1, ShapesAre DEF BytesLaid
    <3> QED  BY <3>1, SeqIs DEF ShapeIs, tags
  <2>7. k \in 1 .. Len(tags) /\ r0 + k = i
    BY <1>7, <2>3, <2>4, <2>5, <2>6
  <2> QED  BY <2>3, <2>7
<1> QED  BY <1>5, <1>6, <1>7 DEF FramesOf

LEMMA CallsHaveFrames ==
  ASSUME NEW f, NEW r, NEW xs, IsSeq(xs), NEW forms, NEW view, Laid(f, r, xs, forms, view),
         Len(view) \in Nat
  PROVE  Cardinality(CallsOf(view)) = Cardinality(CallsIn(xs)) + 1
<1> DEFINE n  == Len(xs)
           S  == CallsIn(xs) \cup {0}
           FF == CallsOf(view)
           g  == [j \in S |-> IF j = 0 THEN 2 ELSE r[j] + 1]
<1>1. /\ n \in Nat /\ r \in [1 .. n + 1 -> Nat] /\ r[1] = 2 /\ r[n + 1] = Len(view)
      /\ view[1].source = "base" /\ view[2].source = "funcall"
  BY SeqIs DEF Laid
<1>2. \A a, b \in 1 .. n + 1 : a <= b => r[a] <= r[b]
  BY LayoutRises
<1>3. ASSUME NEW j \in 1 .. n
      PROVE  /\ r[j] \in Nat /\ r[j + 1] \in Nat /\ 2 <= r[j] /\ r[j + 1] <= Len(view)
             /\ xs[j].kind = "call" => r[j + 1] = r[j] + 1 /\ view[r[j] + 1].source = "funcall"
             /\ xs[j].kind # "call" =>
                  \A i \in Nat : r[j] + 1 <= i /\ i <= r[j + 1] => view[i].source = "bytes"
  <2>1. FramesOf(j, r, xs, view)
    BY FramesOfActs
  <2> QED  BY <2>1 DEF FramesOf
<1>4. \A j \in CallsIn(xs) : j \in 1 .. n /\ xs[j].kind = "call"
  BY DEF CallsIn
<1>5. \A j \in 1 .. n : xs[j].kind = "call" => j \in CallsIn(xs)
  BY DEF CallsIn
<1>6. 2 <= Len(view)
  <2>1. 1 \in 1 .. n + 1 /\ n + 1 \in 1 .. n + 1 /\ 1 <= n + 1
    BY <1>1
  <2> HIDE DEF n
  <2> QED  BY <1>1, <1>2, <2>1
<1> HIDE DEF n
<1>7. \A j \in S : g[j] \in FF
  <2> SUFFICES ASSUME NEW j \in S  PROVE g[j] \in FF
    OBVIOUS
  <2>1. CASE j = 0
    BY <1>1, <1>6, <2>1 DEF CallsOf
  <2>2. CASE j # 0
    <3>1. j \in 1 .. n /\ xs[j].kind = "call"
      BY <1>4, <2>2
    <3>2. g[j] = r[j] + 1 /\ r[j] + 1 \in 1 .. Len(view) /\ view[r[j] + 1].source = "funcall"
      BY <1>3, <2>2, <3>1
    <3> QED  BY <3>2 DEF CallsOf
  <2> QED  BY <2>1, <2>2
<1>8. \A a, b \in S : g[a] = g[b] => a = b
  <2> HIDE DEF FF
  <2>1. \A j \in CallsIn(xs) : j \in 1 .. n /\ r[j] \in Nat /\ 2 <= r[j] /\ r[j + 1] = r[j] + 1
    BY <1>3, <1>4
  <2>2. ASSUME NEW a \in CallsIn(xs), NEW b \in CallsIn(xs), a < b  PROVE r[a] + 1 # r[b] + 1
    <3>1. /\ a \in 1 .. n /\ b \in 1 .. n /\ r[a] \in Nat /\ r[b] \in Nat /\ r[a + 1] = r[a] + 1
      BY <2>1
    <3>2. a + 1 \in 1 .. n + 1 /\ b \in 1 .. n + 1 /\ a + 1 <= b
      BY <1>1, <2>2, <3>1
    <3>3. r[a + 1] <= r[b]
      BY <1>2, <3>2
    <3> QED  BY <3>1, <3>3
  <2>3. \A a, b \in CallsIn(xs) : a < b \/ b < a \/ a = b
    BY <1>1, <2>1
  <2>4. \A a, b \in CallsIn(xs) : r[a] + 1 = r[b] + 1 => a = b
    BY <2>2, <2>3
  <2>5. \A j \in CallsIn(xs) : j # 0 /\ r[j] + 1 # 2
    BY <1>1, <2>1
  <2>6. \A j \in S : (j = 0 /\ g[j] = 2) \/ (j \in CallsIn(xs) /\ g[j] = r[j] + 1)
    BY <2>5
  <2> HIDE DEF g
  <2> QED  BY <2>4, <2>5, <2>6
<1>9. \A i \in FF : \E j \in S : g[j] = i
  <2> SUFFICES ASSUME NEW i \in FF  PROVE \E j \in S : g[j] = i
    OBVIOUS
  <2>1. i \in 1 .. Len(view) /\ view[i].source = "funcall" /\ i # 1
    BY <1>1 DEF CallsOf
  <2>2. CASE i = 2
    <3>1. 0 \in S /\ g[0] = 2
      OBVIOUS
    <3> QED  BY <2>2, <3>1
  <2>3. CASE i # 2
    <3>1. i \in Nat /\ 2 < i /\ i <= r[n + 1]
      BY <1>1, <2>1, <2>3
    <3>2. PICK j \in 1 .. n : r[j] + 1 <= i /\ i <= r[j + 1]
      BY <1>1, <3>1, BelongsToOne
    <3>3. xs[j].kind = "call"
      BY <1>3, <2>1, <3>1, <3>2
    <3>4. r[j] \in Nat /\ r[j + 1] = r[j] + 1
      BY <1>3, <3>3
    <3>5. i = r[j] + 1
      BY <3>1, <3>2, <3>4
    <3>6. j \in S /\ j # 0
      BY <1>1, <1>5, <3>3
    <3>7. g[j] = r[j] + 1
      BY <3>6
    <3> QED  BY <3>5, <3>6, <3>7
  <2> QED  BY <2>2, <2>3
<1>10. IsFiniteSet(CallsIn(xs))
  <2>1. IsFiniteSet(1 .. n)
    BY <1>1, FS_Interval
  <2>2. CallsIn(xs) \in SUBSET (1 .. n)
    BY <1>4
  <2> QED  BY <2>1, <2>2, FS_Subset
<1>11. IsFiniteSet(S) /\ Cardinality(S) = Cardinality(CallsIn(xs)) + 1
  <2>1. 0 \notin CallsIn(xs)
    BY <1>1, <1>4
  <2> QED  BY <1>10, <2>1, FS_AddElement
<1>12. ExistsBijection(S, FF)
  <2>1. g \in [S -> FF] /\ DOMAIN g = S
    <3>1. g = [j \in S |-> g[j]] /\ DOMAIN g = S
      OBVIOUS
    <3> HIDE DEF g, S, FF
    <3> QED  BY <1>7, <3>1
  <2> HIDE DEF g, S, FF
  <2>2. g \in Injection(S, FF) /\ g \in Surjection(S, FF)
    BY <1>8, <1>9, <2>1 DEF Injection, IsInjective, Surjection
  <2> QED  BY <2>2 DEF ExistsBijection, Bijection
<1> HIDE DEF S, FF
<1>13. Cardinality(FF) = Cardinality(S)
  BY <1>11, <1>12, FS_Bijection
<1> QED  BY <1>11, <1>13 DEF FF

----------------------------------------------------------------------------
(* What follows from the layout                                            *)

LEMMA CleanFollows ==
  ASSUME DInv
  PROVE  PromptIsClean
<1> SUFFICES ASSUME repl = "prompt"
             PROVE  form_stack = <<Function("REPL"), Nil>> /\ Len(frame_stack) = 2
  BY DEF PromptIsClean
<1>1. IInv /\ LayoutInv /\ ReplInv /\ Going /\ acts = <<>>
  BY DEF DInv, ReplInv, Going
<1>2. /\ Len(form_stack) = 2 /\ form_stack[1] = Function("REPL") /\ form_stack[2] = Nil
      /\ Len(Seen) = 2 /\ IsSeq(form_stack)
  BY <1>1, NothingIsLaid DEF IInv, FormsInv
<1>3. Len(frame_stack) = 2
  BY <1>1, <1>2, SeenIs DEF IInv
<1>4. form_stack = <<Function("REPL"), Nil>>
  <2> DEFINE fn  == Function("REPL")
             nil == Nil
             two == <<fn, nil>>
  <2>1. form_stack[1] = fn /\ form_stack[2] = nil
    BY <1>2
  <2> HIDE DEF fn, nil
  <2>2. PICK X : form_stack \in Seq(X)
    BY <1>2 DEF IsSeq
  <2>3. two \in Seq(X \cup {fn, nil}) /\ form_stack \in Seq(X \cup {fn, nil})
    <3>1. two \in Seq({fn, nil})
      OBVIOUS
    <3> HIDE DEF two
    <3> QED  BY <2>2, <3>1, SeqMonotonic
  <2>4. Len(two) = 2 /\ two[1] = fn /\ two[2] = nil
    OBVIOUS
  <2> HIDE DEF two
  <2>5. \A i \in 1 .. 2 : form_stack[i] = two[i]
    <3>1. \A i \in 1 .. 2 : i = 1 \/ i = 2
      OBVIOUS
    <3> QED  BY <2>1, <2>4, <3>1
  <2>6. form_stack = two
    BY <1>2, <2>3, <2>4, <2>5, SeqEqual
  <2> QED  BY <2>6 DEF two, fn, nil
<1> QED  BY <1>3, <1>4

(* When an argument has run, the call is as it would be on top.            *)
LEMMA CallHasItsOwn ==
  ASSUME IInv, LayoutInv, ArgReady
  PROVE  /\ Len(form_stack) = EvaledOffset(Last(Below)) + 1
         /\ Last(Seen).source = "funcall"
<1> DEFINE m == Len(Below)
           below == Below
<1>1. m \in Nat /\ IsTop(m, below) /\ IsSeq(below) /\ Last(Below).kind = "call"
  BY ArgHasRun
<1>2. PICK f, r : Laid(f, r, below, form_stack, Seen)
  BY ArgHasRun
<1>3. Last(Below) = below[m]
  BY DEF Last
<1> HIDE DEF m, below
<1>4. f[m] \in Nat /\ r[m] \in Nat
      /\ CallLaid(below[m], f[m], Len(form_stack), r[m], Len(Seen), form_stack, Seen)
  BY <1>1, <1>2, <1>3, TopCallKnown
<1>5. Len(form_stack) = EvaledOffset(below[m]) + 1 /\ Seen[Len(Seen)].source = "funcall"
  BY <1>4 DEF CallLaid, EvaledOffset
<1> QED  BY <1>3, <1>5 DEF Last

LEMMA OwnFollows ==
  ASSUME DInv
  PROVE  CallPopsItsOwn
<1>1. ASSUME InCall  PROVE Len(form_stack) = EvaledOffset(Top) + 1
  <2>1. Going /\ acts # <<>> /\ Top.kind = "call"
    BY <1>1 DEF InCall, Running, Going
  <2>2. PICK f0, r0 : CallLaid(Top, f0, Len(form_stack), r0, Len(Seen), form_stack, Seen)
    BY <2>1, RunningCall DEF DInv
  <2> QED  BY <2>2 DEF CallLaid, EvaledOffset
<1>2. ASSUME ArgReady  PROVE Len(form_stack) = EvaledOffset(Last(Below)) + 1
  BY <1>2, CallHasItsOwn DEF DInv
<1> QED  BY <1>1, <1>2 DEF CallPopsItsOwn

LEMMA ScopesFollow ==
  ASSUME DInv
  PROVE  ScopesAreLeft
<1> SUFFICES ASSUME ArgReady  PROVE Last(frame_stack).source = "funcall"
  BY DEF ScopesAreLeft
<1>1. Last(Seen).source = "funcall"
  BY CallHasItsOwn DEF DInv
<1> QED  BY <1>1, LastSeen DEF DInv, IInv

LEMMA FramesFollow ==
  ASSUME DInv
  PROVE  FramesFollowCalls
<1> SUFFICES ASSUME Going  PROVE Cardinality(FuncallFrames) = Cardinality(Calls) + 1
  BY DEF FramesFollowCalls, Going
<1>1. IInv /\ IsSeq(acts) /\ IsSeq(frame_stack)
  BY DEF DInv, IInv, ActsInv, FramesInv
<1>2. PICK f, r : Laid(f, r, acts, form_stack, Seen)
  BY DEF DInv, LayoutInv, Seen
<1>3. Len(Seen) \in Nat /\ Len(Seen) = Len(frame_stack)
  BY <1>1, SeenIs, SeqIs DEF IInv
<1>4. Cardinality(CallsOf(Seen)) = Cardinality(CallsIn(acts)) + 1
  BY <1>1, <1>2, <1>3, CallsHaveFrames
<1>5. CallsIn(acts) = Calls
  BY <1>1, SeqIs DEF CallsIn, Calls
<1>6. CallsOf(Seen) = FuncallFrames
  <2>1. DOMAIN frame_stack = 1 .. Len(frame_stack)
    BY <1>1, SeqIs
  <2>2. \A i \in 1 .. Len(frame_stack) : Seen[i].source = frame_stack[i].source
    <3> SUFFICES ASSUME NEW i \in 1 .. Len(frame_stack)
                 PROVE  Seen[i].source = frame_stack[i].source
      OBVIOUS
    <3> DEFINE source == frame_stack[i].source
               tags   == TagsAt(frame_stack[i].env, environment_bindings)
               all    == View(frame_stack, environment_bindings)
    <3>1. all[i] = [source |-> source, tags |-> tags]
      BY <1>1, ViewIs
    <3>2. Seen = all
      BY DEF Seen
    <3> HIDE DEF source, tags, all
    <3>3. Seen[i].source = source
      BY <3>1, <3>2
    <3> QED  BY <3>3 DEF source
  <2> QED  BY <1>3, <2>1, <2>2 DEF CallsOf, FuncallFrames
<1> QED  BY <1>4, <1>5, <1>6

----------------------------------------------------------------------------
(* The theorems.  The language is one the compiler makes disciplined       *)
(* bytecode of, and the rest is what interpreter.c does with it: calls in  *)
(* arguments of calls, scopes within scopes and GOs out of them.           *)

(* Whatever was typed and printed before, the REPL prompts with its own    *)
(* call on the form stack and its own frame on the base one.               *)
THEOREM PromptCorrect ==
  ASSUME CompilerIsTyped, ReaderGrows, LanguageHoldsPrograms, LanguageIsDisciplined
  PROVE  Spec => []PromptIsClean
<1>1. DInv => PromptIsClean
  BY CleanFollows
<1> QED  BY <1>1, DisciplineKept, PTL

(* What interpret_function_call pops at its end is what was pushed for it: *)
(* the evaluated arguments, the arguments and the function.                *)
THEOREM CallsCorrect ==
  ASSUME CompilerIsTyped, ReaderGrows, LanguageHoldsPrograms, LanguageIsDisciplined
  PROVE  Spec => []CallPopsItsOwn
<1>1. DInv => CallPopsItsOwn
  BY OwnFollows
<1> QED  BY <1>1, DisciplineKept, PTL

(* As many funcall frames are on the stack as there are calls under way,   *)
(* with the REPL's.                                                        *)
THEOREM FramesCorrect ==
  ASSUME CompilerIsTyped, ReaderGrows, LanguageHoldsPrograms, LanguageIsDisciplined
  PROVE  Spec => []FramesFollowCalls
<1>1. DInv => FramesFollowCalls
  BY FramesFollow
<1> QED  BY <1>1, DisciplineKept, PTL

(* The bytecode of an argument leaves every scope that it enters.          *)
THEOREM ScopesCorrect ==
  ASSUME CompilerIsTyped, ReaderGrows, LanguageHoldsPrograms, LanguageIsDisciplined
  PROVE  Spec => []ScopesAreLeft
<1>1. DInv => ScopesAreLeft
  BY ScopesFollow
<1> QED  BY <1>1, DisciplineKept, PTL

(* No frame of a call ever has tags, which handle_go_result would take for *)
(* the running bytecode's.                                                 *)
THEOREM TagsCorrect ==
  ASSUME CompilerIsTyped, ReaderGrows, LanguageHoldsPrograms, LanguageIsDisciplined
  PROVE  Spec => []TagsBelongToBytecode
<1>1. DInv => TagsBelongToBytecode
  BY DEF DInv, ScopesInv
<1> QED  BY <1>1, DisciplineKept, PTL
=============================================================================
