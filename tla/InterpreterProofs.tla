-------------------------- MODULE InterpreterProofs --------------------------
(***************************************************************************)
(* The stacks of Interpreter keep their types, and frames and environments *)
(* stay one chain, whatever forms are typed and whatever bytecode the      *)
(* compiler makes of them.                                                 *)
(***************************************************************************)
EXTENDS Interpreter, ListLemmas

----------------------------------------------------------------------------
(* Environments                                                            *)

(* An environment is an Environment of [parent, vals], and parents lead up *)
(* to one without: no set of environments has all of its parents within.   *)
EnvsInv ==
  /\ DOMAIN envs \subseteq Nat
  /\ \A e \in DOMAIN envs :
       /\ envs[e] = [parent |-> envs[e].parent, vals |-> envs[e].vals]
       /\ envs[e].parent \in DOMAIN envs \cup {NoEnv}
  /\ \A some \in SUBSET DOMAIN envs :
       some # {} => \E e \in some : envs[e].parent \notin some

(* The ancestors are the least set that is closed under parents.           *)
LEMMA AncestryIs ==
  ASSUME EnvsInv, NEW env \in DOMAIN envs
  PROVE  /\ env \in Ancestry(env) /\ Ancestry(env) \subseteq DOMAIN envs
         /\ \A e \in Ancestry(env) : envs[e].parent \in Ancestry(env) \cup {NoEnv}
<1> DEFINE Parent(e) == envs[e].parent
           Closed(S) == \A s \in S : Parent(s) # NoEnv => Parent(s) \in S
           Least(e)  == {d \in DOMAIN envs :
                          \A S \in SUBSET DOMAIN envs : e \in S /\ Closed(S) => d \in S}
           Above(e)  == IF Parent(e) = NoEnv THEN {} ELSE Least(Parent(e))
           First     == [e \in DOMAIN envs |-> Least(e)]
           Is(f)     == f = [e \in DOMAIN envs |->
                              {e} \cup IF Parent(e) = NoEnv THEN {} ELSE f[Parent(e)]]
           up        == CHOOSE f : Is(f)
<1>1. \A e \in DOMAIN envs : Parent(e) # NoEnv => Parent(e) \in DOMAIN envs
  BY DEF EnvsInv
<1>2. \A S \in SUBSET DOMAIN envs : S # {} => \E e \in S : Parent(e) \notin S
  BY DEF EnvsInv
<1>3. Ancestry(env) = up[env]
  BY DEF Ancestry
<1> HIDE DEF Parent
<1>4. \A e \in DOMAIN envs : Least(e) = {e} \cup Above(e)
  <2> SUFFICES ASSUME NEW e \in DOMAIN envs  PROVE Least(e) = {e} \cup Above(e)
    OBVIOUS
  <2>1. e \in Least(e)
    OBVIOUS
  <2>2. CASE Parent(e) = NoEnv
    <3>1. {e} \in SUBSET DOMAIN envs /\ e \in {e} /\ Closed({e})
      BY <2>2
    <3>2. \A d \in Least(e) : d \in {e}
      BY <3>1
    <3> QED  BY <2>1, <2>2, <3>2
  <2>3. CASE Parent(e) # NoEnv
    <3> DEFINE W == {e} \cup Least(Parent(e))
    <3>1. Parent(e) \in DOMAIN envs /\ Parent(e) \in Least(Parent(e))
      BY <1>1, <2>3
    <3>2. ASSUME NEW s \in Least(Parent(e)), Parent(s) # NoEnv
          PROVE  Parent(s) \in Least(Parent(e))
      <4>1. Parent(s) \in DOMAIN envs
        BY <1>1, <3>2
      <4>2. ASSUME NEW S \in SUBSET DOMAIN envs, Parent(e) \in S, Closed(S)
            PROVE  Parent(s) \in S
        BY <3>2, <4>2
      <4> QED  BY <4>1, <4>2
    <3>3. W \in SUBSET DOMAIN envs /\ e \in W /\ Closed(W)
      BY <3>1, <3>2
    <3>4. Least(e) \subseteq W
      <4> HIDE DEF W
      <4> QED  BY <3>3
    <3>5. Least(Parent(e)) \subseteq Least(e)
      BY <2>3
    <3>6. Least(e) = W
      <4> HIDE DEF Least
      <4> QED  BY <2>1, <3>4, <3>5
    <3> QED  BY <2>3, <3>6
  <2> QED  BY <2>2, <2>3
<1>5. Is(First)
  <2>1. \A e \in DOMAIN envs :
          First[e] = {e} \cup IF Parent(e) = NoEnv THEN {} ELSE First[Parent(e)]
    <3> HIDE DEF Least
    <3> QED  BY <1>1, <1>4
  <2>2. First = [e \in DOMAIN envs |-> First[e]]
    OBVIOUS
  <2> HIDE DEF First
  <2> QED  BY <2>1, <2>2
<1>6. Is(up)
  BY <1>5
<1> HIDE DEF up
<1> DEFINE Good(e) == /\ e \in up[e] /\ up[e] \subseteq DOMAIN envs
                      /\ \A d \in up[e] : Parent(d) \in up[e] \cup {NoEnv}
           Bad     == {e \in DOMAIN envs : ~Good(e)}
<1>7. \A e \in DOMAIN envs :
        up[e] = {e} \cup IF Parent(e) = NoEnv THEN {} ELSE up[Parent(e)]
  BY <1>6
<1>8. \A e \in DOMAIN envs : Parent(e) = NoEnv \/ Good(Parent(e)) => Good(e)
  BY <1>1, <1>7
<1>9. Bad = {}
  <2> SUFFICES ASSUME Bad # {}  PROVE FALSE
    OBVIOUS
  <2>1. PICK e \in Bad : Parent(e) \notin Bad
    <3>1. Bad \in SUBSET DOMAIN envs
      OBVIOUS
    <3> HIDE DEF Bad
    <3> QED  BY <1>2, <3>1
  <2>2. Parent(e) = NoEnv \/ Good(Parent(e))
    BY <1>1, <2>1
  <2>3. e \in DOMAIN envs /\ ~Good(e)
    OBVIOUS
  <2> HIDE DEF Good, Bad
  <2> QED  BY <1>8, <2>2, <2>3
<1>10. Good(env)
  <2> HIDE DEF Good
  <2> QED  BY <1>9
<1> QED  BY <1>3, <1>10 DEF Parent
(* So are the environments the marker reaches.                             *)
LEMMA ReachedIs ==
  ASSUME EnvsInv, DOMAIN environment_bindings \subseteq DOMAIN envs,
         \A i \in DOMAIN frame_stack : frame_stack[i].env \in DOMAIN envs
  PROVE  /\ Reached \subseteq DOMAIN envs
         /\ \A i \in DOMAIN frame_stack : frame_stack[i].env \in Reached
         /\ DOMAIN environment_bindings \subseteq Reached
         /\ \A e \in Reached : envs[e].parent \in Reached \cup {NoEnv}
<1>1. \A e \in DOMAIN envs :
        /\ e \in Ancestry(e) /\ Ancestry(e) \subseteq DOMAIN envs
        /\ \A d \in Ancestry(e) : envs[d].parent \in Ancestry(e) \cup {NoEnv}
  BY AncestryIs
<1>2. \A d : d \in Reached <=>
        \/ \E i \in DOMAIN frame_stack : d \in Ancestry(frame_stack[i].env)
        \/ \E e \in DOMAIN environment_bindings : d \in Ancestry(e)
  <2> DEFINE OfFrames == UNION {Ancestry(frame_stack[i].env) : i \in DOMAIN frame_stack}
             OfTags   == UNION {Ancestry(e) : e \in DOMAIN environment_bindings}
  <2>1. \A d : d \in OfFrames
              <=> \E i \in DOMAIN frame_stack : d \in Ancestry(frame_stack[i].env)
    BY Zenon
  <2>2. \A d : d \in OfTags <=> \E e \in DOMAIN environment_bindings : d \in Ancestry(e)
    BY Zenon
  <2>3. Reached = OfFrames \cup OfTags
    BY DEF Reached
  <2> HIDE DEF OfFrames, OfTags
  <2> QED  BY <2>1, <2>2, <2>3
<1>3. ASSUME NEW d \in Reached
      PROVE  d \in DOMAIN envs /\ envs[d].parent \in Reached \cup {NoEnv}
  <2>1. PICK e \in DOMAIN envs : d \in Ancestry(e) /\ Ancestry(e) \subseteq Reached
    <3>1. CASE \E i \in DOMAIN frame_stack : d \in Ancestry(frame_stack[i].env)
      BY <1>2, <3>1
    <3>2. CASE \E e \in DOMAIN environment_bindings : d \in Ancestry(e)
      BY <1>2, <3>2
    <3> QED  BY <1>2, <1>3, <3>1, <3>2
  <2> QED  BY <1>1, <2>1
<1> QED  BY <1>1, <1>2, <1>3

----------------------------------------------------------------------------
(* The invariant                                                           *)

FramesInv ==
  /\ IsSeq(frame_stack) /\ 1 <= Len(frame_stack)
  /\ IsSeq(last_return_value) /\ Len(last_return_value) = Len(frame_stack)
  /\ frame_cap \in Nat /\ Len(frame_stack) <= frame_cap
  /\ \A i \in 1 .. Len(frame_stack) :
       /\ frame_stack[i].env \in DOMAIN envs
       /\ frame_stack[i].source \in {"base", "funcall", "bytes"}
       /\ frame_stack[i].prev \in Nat /\ frame_stack[i].prev <= frame_cap
  /\ frame_stack[1].source = "base"
  /\ \A i \in 1 .. Len(frame_stack) :
       envs[frame_stack[i].env].parent
         = IF i = 1 THEN NoEnv ELSE frame_stack[i - 1].env

TagsInv ==
  /\ DOMAIN environment_bindings \subseteq DOMAIN envs
  /\ \A e \in DOMAIN environment_bindings :
       \A tag \in DOMAIN environment_bindings[e] : environment_bindings[e][tag] \in Nat

FormsInv ==
  /\ IsSeq(form_stack)
  /\ form_cap \in Nat /\ Len(form_stack) <= form_cap

(* The operands of the bytes that change the sizes of the stacks.          *)
TypedBytes(bytes) ==
  /\ IsSeq(bytes)
  /\ \A i \in 1 .. Len(bytes) :
       /\ bytes[i].op = "Funcall" => bytes[i].arg_count \in Nat
       /\ bytes[i].op = "BindTag" => bytes[i].index \in Nat

TypedAct(act) ==
  \/ /\ act = [kind |-> "bytes", bytes |-> act.bytes, index |-> act.index]
     /\ act.index \in Nat /\ TypedBytes(act.bytes)
  \/ /\ act = [kind |-> "call", fn |-> act.fn, fn_index |-> act.fn_index,
               arg_count |-> act.arg_count, arg_i |-> act.arg_i, cur_cons |-> act.cur_cons]
     /\ act.fn_index \in Nat /\ act.arg_count \in Nat

(* Activations are typed, and the first is a call by the REPL.             *)
ActsInv ==
  /\ IsSeq(acts)
  /\ \A i \in 1 .. Len(acts) : TypedAct(acts[i])
  /\ Len(acts) # 0 => acts[1].kind = "call"

SessionInv ==
  /\ repl \in {"prompt", "reading", "printing", "quit", "aborted", "undefined"}
  /\ reads \in 0 .. MaxReads

IInv == EnvsInv /\ FramesInv /\ TagsInv /\ FormsInv /\ ActsInv /\ SessionInv

(* What the machine relies on of the compiler and of the reader: operands  *)
(* are counts and indices, and reading takes nothing from the stacks.      *)
CompilerIsTyped == \A form : TypedBytes(Analyze(form).bytes)

ReaderGrows ==
  \A form \in Programs : \A size, cap \in Nat :
    /\ Reading(form, size, cap).cap \in Nat /\ cap <= Reading(form, size, cap).cap
    /\ Reading(form, size, cap).frames \in Nat

LEMMA InvariantIsEnough ==
  ASSUME IInv
  PROVE  TypeOK /\ FramesChainEnvironments
<1>1. DOMAIN frame_stack = 1 .. Len(frame_stack)
  BY SeqIs DEF IInv, FramesInv
<1>2. FramesChainEnvironments
  BY <1>1 DEF FramesChainEnvironments, IInv, FramesInv
<1>3. frame_stack # <<>>
  <2>1. 1 <= Len(frame_stack)
    BY DEF IInv, FramesInv
  <2> QED  BY <2>1
<1>4. TypeOK
  BY <1>1, <1>3 DEF TypeOK, IInv, FramesInv, TagsInv, FormsInv, SessionInv, EnvsInv
<1> QED  BY <1>2, <1>4
----------------------------------------------------------------------------
(* What the actions do to the stacks                                       *)

(* A new environment hangs from one that is kept, and has an address that  *)
(* nothing kept has.                                                       *)
LEMMA PushKeepsFrames ==
  ASSUME EnvsInv, FramesInv, TagsInv,
         NEW source \in {"funcall", "bytes"},
         PushEnvironment(source), UNCHANGED environment_bindings
  PROVE  EnvsInv' /\ FramesInv' /\ TagsInv'
<1> DEFINE new == CHOOSE e \in (0 .. MaxEnvs - 1) \ Reached : TRUE
           len == Len(frame_stack)
<1>1. /\ len \in Nat /\ 1 <= len /\ DOMAIN frame_stack = 1 .. len
      /\ Last(frame_stack) = frame_stack[len]
  BY SeqIs DEF FramesInv, Last
<1>2. /\ Reached \subseteq DOMAIN envs /\ DOMAIN envs \subseteq Nat
      /\ \A i \in 1 .. len : frame_stack[i].env \in Reached
      /\ DOMAIN environment_bindings \subseteq Reached
      /\ \A e \in Reached : envs[e].parent \in Reached \cup {NoEnv}
  BY <1>1, ReachedIs DEF FramesInv, TagsInv, EnvsInv
<1>3. new \in (0 .. MaxEnvs - 1) \ Reached
  BY DEF PushEnvironment
<1>4. new \in Nat /\ new \notin Reached
  BY <1>3, BoundsAssumption
<1>5. envs' = Inserted([e \in Reached |-> envs[e]], new, [parent |-> CurrentEnv, vals |-> << >>])
  BY DEF PushEnvironment
<1>6. frame_stack' = Append(frame_stack, [env |-> new, source |-> source, prev |-> frame_cap])
  BY DEF PushEnvironment
<1>7. frame_cap' = Capacity(frame_cap, len + 1) /\ last_return_value' = Append(last_return_value, Nil)
  BY DEF PushEnvironment
<1> HIDE DEF new, len
<1>8. /\ DOMAIN envs' = Reached \cup {new}
      /\ envs'[new] = [parent |-> CurrentEnv, vals |-> << >>]
      /\ \A e \in Reached : envs'[e] = envs[e]
  BY <1>4, <1>5 DEF Inserted
<1>9. CurrentEnv = frame_stack[len].env /\ CurrentEnv \in Reached
  BY <1>1, <1>2 DEF CurrentEnv
<1>10. EnvsInv'
  <2>1. DOMAIN envs' \subseteq Nat
    BY <1>2, <1>4, <1>8
  <2>2. ASSUME NEW e \in DOMAIN envs'
        PROVE  /\ envs'[e] = [parent |-> envs'[e].parent, vals |-> envs'[e].vals]
               /\ envs'[e].parent \in Reached \cup {NoEnv}
    <3>1. CASE e = new
      BY <1>8, <1>9, <3>1
    <3>2. CASE e \in Reached
      BY <1>2, <1>8, <3>2 DEF EnvsInv
    <3> QED  BY <1>8, <3>1, <3>2
  <2>3. ASSUME NEW some \in SUBSET DOMAIN envs', some # {}
        PROVE  \E e \in some : envs'[e].parent \notin some
    <3>1. CASE some \cap Reached = {}
      <4>1. new \in some
        BY <1>8, <2>3, <3>1
      <4> QED  BY <1>8, <1>9, <3>1, <4>1
    <3>2. CASE some \cap Reached # {}
      <4>1. some \cap Reached \in SUBSET DOMAIN envs
        BY <1>2
      <4>2. PICK e \in some \cap Reached : envs[e].parent \notin some \cap Reached
        BY <3>2, <4>1 DEF EnvsInv
      <4>3. envs'[e].parent = envs[e].parent /\ envs[e].parent \in Reached \cup {NoEnv}
        BY <1>2, <1>8
      <4>4. NoEnv \notin some
        BY <2>1 DEF NoEnv
      <4> QED  BY <4>2, <4>3, <4>4
    <3> QED  BY <3>1, <3>2
  <2> QED  BY <1>8, <2>1, <2>2, <2>3 DEF EnvsInv
<1>11. /\ IsSeq(frame_stack') /\ Len(frame_stack') = len + 1
       /\ \A i \in 1 .. len : frame_stack'[i] = frame_stack[i]
       /\ frame_stack'[len + 1] = [env |-> new, source |-> source, prev |-> frame_cap]
  BY <1>6, AppendIs DEF FramesInv, len
<1>12. IsSeq(last_return_value') /\ Len(last_return_value') = len + 1
  BY <1>7, AppendIs DEF FramesInv, len
<1>13. frame_cap' \in Nat /\ frame_cap <= frame_cap' /\ len + 1 <= frame_cap'
  BY <1>1, <1>7, CapacityIs DEF FramesInv
<1>14. ASSUME NEW i \in 1 .. len + 1
       PROVE  /\ frame_stack'[i].env \in DOMAIN envs'
              /\ frame_stack'[i].source \in {"base", "funcall", "bytes"}
              /\ frame_stack'[i].prev \in Nat /\ frame_stack'[i].prev <= frame_cap'
              /\ envs'[frame_stack'[i].env].parent
                   = IF i = 1 THEN NoEnv ELSE frame_stack'[i - 1].env
  <2>1. CASE i = len + 1
    <3>1. frame_stack'[i - 1] = frame_stack[len] /\ i # 1
      BY <1>1, <1>11, <2>1
    <3> QED  BY <1>8, <1>9, <1>11, <1>13, <2>1, <3>1 DEF FramesInv
  <2>2. CASE i \in 1 .. len
    <3>1. /\ frame_stack'[i] = frame_stack[i]
          /\ i # 1 => frame_stack'[i - 1] = frame_stack[i - 1]
      BY <1>1, <1>11, <2>2
    <3>2. frame_stack[i].env \in Reached /\ envs'[frame_stack[i].env] = envs[frame_stack[i].env]
      BY <1>2, <1>8, <2>2
    <3>3. /\ frame_stack[i].source \in {"base", "funcall", "bytes"}
          /\ frame_stack[i].prev \in Nat /\ frame_stack[i].prev <= frame_cap
          /\ envs[frame_stack[i].env].parent
               = IF i = 1 THEN NoEnv ELSE frame_stack[i - 1].env
      BY <2>2 DEF FramesInv, len
    <3>4. frame_stack[i].prev <= frame_cap'
      BY <1>13, <3>3 DEF FramesInv
    <3> QED  BY <1>8, <3>1, <3>2, <3>3, <3>4
  <2> QED  BY <1>1, <2>1, <2>2
<1>15. frame_stack'[1].source = "base"
  BY <1>1, <1>11 DEF FramesInv
<1>16. FramesInv'
  BY <1>1, <1>11, <1>12, <1>13, <1>14, <1>15 DEF FramesInv
<1>17. TagsInv'
  BY <1>2, <1>8 DEF TagsInv
<1> QED  BY <1>10, <1>16, <1>17
(* Frames are popped from the end, and buffers do not shrink.              *)
LEMMA PopKeepsFrames ==
  ASSUME FramesInv, NEW n \in 1 .. Len(frame_stack),
         frame_stack' = SubSeq(frame_stack, 1, n),
         IsSeq(last_return_value'), Len(last_return_value') = n,
         frame_cap' \in Nat, frame_cap <= frame_cap', UNCHANGED envs
  PROVE  FramesInv'
<1>1. /\ Len(frame_stack) \in Nat /\ 1 <= n /\ n <= Len(frame_stack)
      /\ frame_cap \in Nat /\ Len(frame_stack) <= frame_cap
  BY SeqIs DEF FramesInv
<1>2. /\ IsSeq(frame_stack') /\ Len(frame_stack') = n
      /\ \A i \in 1 .. n : frame_stack'[i] = frame_stack[i]
  BY <1>1, SubSeqIs DEF FramesInv
<1>3. n <= frame_cap'
  BY <1>1
<1>4. ASSUME NEW i \in 1 .. n
      PROVE  /\ frame_stack'[i].env \in DOMAIN envs'
             /\ frame_stack'[i].source \in {"base", "funcall", "bytes"}
             /\ frame_stack'[i].prev \in Nat /\ frame_stack'[i].prev <= frame_cap'
             /\ envs'[frame_stack'[i].env].parent
                  = IF i = 1 THEN NoEnv ELSE frame_stack'[i - 1].env
  <2>1. i \in 1 .. Len(frame_stack) /\ frame_stack'[i] = frame_stack[i]
    BY <1>1, <1>2
  <2>2. i # 1 => frame_stack'[i - 1] = frame_stack[i - 1]
    BY <1>1, <1>2
  <2>3. frame_stack[i].prev \in Nat /\ frame_stack[i].prev <= frame_cap
    BY <2>1 DEF FramesInv
  <2>4. frame_stack[i].prev <= frame_cap'
    BY <1>1, <2>3
  <2>5. envs[frame_stack[i].env].parent
          = IF i = 1 THEN NoEnv ELSE frame_stack[i - 1].env
    BY <2>1 DEF FramesInv
  <2>6. frame_stack[i].env \in DOMAIN envs
        /\ frame_stack[i].source \in {"base", "funcall", "bytes"}
    BY <2>1 DEF FramesInv
  <2> QED  BY <2>1, <2>2, <2>3, <2>4, <2>5, <2>6
<1>5. frame_stack'[1].source = "base"
  BY <1>1, <1>2 DEF FramesInv
<1> QED  BY <1>1, <1>2, <1>3, <1>4, <1>5 DEF FramesInv

(* The last returns below n, with another form for the last of them.       *)
LEMMA ReturnsAre ==
  ASSUME FramesInv, NEW n \in 1 .. Len(frame_stack), NEW form
  PROVE  /\ IsSeq([SubSeq(last_return_value, 1, n) EXCEPT ![n] = form])
         /\ Len([SubSeq(last_return_value, 1, n) EXCEPT ![n] = form]) = n
<1>1. IsSeq(SubSeq(last_return_value, 1, n)) /\ Len(SubSeq(last_return_value, 1, n)) = n
  BY SeqIs, SubSeqIs DEF FramesInv
<1> QED  BY <1>1, ExceptIs

LEMMA PopToKeepsFrames ==
  ASSUME FramesInv, NEW n \in 1 .. Len(frame_stack), PopTo(n)
  PROVE  FramesInv' /\ envs' = envs
<1>1. /\ frame_stack' = SubSeq(frame_stack, 1, n) /\ frame_cap' = frame_cap /\ envs' = envs
      /\ last_return_value' =
           [SubSeq(last_return_value, 1, n) EXCEPT ![n] = Last(last_return_value)]
  BY DEF PopTo
<1>2. IsSeq(last_return_value') /\ Len(last_return_value') = n
  BY <1>1, ReturnsAre
<1>3. frame_cap' \in Nat /\ frame_cap <= frame_cap'
  BY <1>1 DEF FramesInv
<1> QED  BY <1>1, <1>2, <1>3, PopKeepsFrames

LEMMA SameFrames ==
  ASSUME FramesInv, EnvsInv, TagsInv, UNCHANGED scopes
  PROVE  FramesInv' /\ EnvsInv' /\ (UNCHANGED environment_bindings => TagsInv')
BY DEF FramesInv, EnvsInv, TagsInv, scopes

----------------------------------------------------------------------------
LEMMA PushesKeepsForms ==
  ASSUME FormsInv, NEW forms, IsSeq(forms), Pushes(forms)
  PROVE  FormsInv'
<1>1. Len(form_stack) \in Nat /\ Len(forms) \in Nat
  BY SeqIs DEF FormsInv
<1>2. IsSeq(form_stack') /\ Len(form_stack') = Len(form_stack) + Len(forms)
  BY ConcatIs DEF FormsInv, Pushes
<1>3. form_cap' = Capacity(form_cap, Len(form_stack) + Len(forms))
  BY DEF Pushes
<1>4. form_cap' \in Nat /\ Len(form_stack) + Len(forms) <= form_cap'
  BY <1>1, <1>3, CapacityIs DEF FormsInv
<1> QED  BY <1>2, <1>4 DEF FormsInv

(* What the items of the stack are replaced by is not more than they were. *)
LEMMA DropsKeepsForms ==
  ASSUME FormsInv, NEW n \in Nat, NEW forms, IsSeq(forms),
         (n <= Len(form_stack) /\ Len(forms) <= n) \/ Len(forms) = 0,
         form_stack' = DropLast(form_stack, n) \o forms,
         form_cap' \in Nat, form_cap <= form_cap'
  PROVE  FormsInv'
<1>1. Len(form_stack) \in Nat /\ Len(forms) \in Nat /\ form_cap \in Nat
      /\ Len(form_stack) <= form_cap
  BY SeqIs DEF FormsInv
<1> DEFINE kept == DropLast(form_stack, n)
<1>2. IsSeq(kept) /\ Len(kept) = IF 1 <= Len(form_stack) - n THEN Len(form_stack) - n ELSE 0
  BY <1>1, SubSeqIs DEF DropLast, FormsInv
<1> HIDE DEF kept
<1>3. form_stack' = kept \o forms
  BY DEF kept
<1>4. IsSeq(form_stack') /\ Len(form_stack') = Len(kept) + Len(forms)
  BY <1>2, <1>3, ConcatIs
<1>5. Len(form_stack') <= form_cap'
  BY <1>1, <1>2, <1>4
<1> QED  BY <1>4, <1>5 DEF FormsInv
LEMMA ReplacesKeepsForms ==
  ASSUME FormsInv, NEW n \in Nat, NEW forms, IsSeq(forms),
         (n <= Len(form_stack) /\ Len(forms) <= n) \/ Len(forms) = 0,
         Replaces(n, forms)
  PROVE  FormsInv'
<1>1. form_stack' = DropLast(form_stack, n) \o forms
  BY DEF Replaces
<1>2. form_cap' \in Nat /\ form_cap <= form_cap'
  BY DEF Replaces, FormsInv
<1> HIDE DEF Replaces
<1> QED  BY <1>1, <1>2, DropsKeepsForms

LEMMA PopsKeepsForms ==
  ASSUME FormsInv, NEW n \in Nat, Replaces(n, <<>>)
  PROVE  FormsInv'
<1>1. IsSeq(<<>>) /\ Len(<<>>) = 0
  BY DEF IsSeq
<1> QED  BY <1>1, ReplacesKeepsForms, Zenon

LEMMA ReplacesOneKeepsForms ==
  ASSUME FormsInv, NEW n \in Nat, 1 <= n, n <= Len(form_stack), NEW form, Replaces(n, <<form>>)
  PROVE  FormsInv'
<1>1. IsSeq(<<form>>) /\ Len(<<form>>) <= n
  BY SingleIs
<1> QED  BY <1>1, ReplacesKeepsForms, Zenon

----------------------------------------------------------------------------
LEMMA TopIs ==
  ASSUME ActsInv, acts # <<>>
  PROVE  /\ Len(acts) \in Nat /\ 1 <= Len(acts) /\ Top = acts[Len(acts)]
         /\ TypedAct(Top) /\ acts[1].kind = "call"
         /\ IsSeq(Below) /\ Len(Below) = Len(acts) - 1
         /\ \A i \in 1 .. Len(acts) - 1 : Below[i] = acts[i]
<1>1. Len(acts) \in Nat /\ Len(acts) # 0
  <2>1. PICK S : acts \in Seq(S)
    BY DEF ActsInv, IsSeq
  <2> QED  BY <2>1, EmptySeq, LenProperties
<1>2. Top = acts[Len(acts)] /\ Below = SubSeq(acts, 1, Len(acts) - 1)
  BY DEF Top, Below, Last, Front
<1>3. /\ IsSeq(Below) /\ Len(Below) = Len(acts) - 1
      /\ \A i \in 1 .. Len(acts) - 1 : Below[i] = acts[i]
  <2> DEFINE n == Len(acts) - 1
  <2>1. IsSeq(acts) /\ n \in Int /\ n <= Len(acts) /\ Below = SubSeq(acts, 1, n)
    BY <1>1, <1>2 DEF ActsInv
  <2>2. n = IF 1 <= n THEN n ELSE 0
    BY <1>1
  <2> HIDE DEF n
  <2>3. IsSeq(Below) /\ Len(Below) = n /\ \A i \in 1 .. n : Below[i] = acts[i]
    BY <2>1, <2>2, SubSeqIs
  <2> QED  BY <2>3 DEF n
<1> QED  BY <1>1, <1>2, <1>3 DEF ActsInv

(* The activation at place n goes on, and those above it have returned.    *)
LEMMA GoingOnKeepsActs ==
  ASSUME ActsInv, NEW n \in Nat, 1 <= n, n <= Len(acts),
         NEW below, IsSeq(below), Len(below) = n - 1,
         \A i \in 1 .. n - 1 : below[i] = acts[i],
         NEW act, TypedAct(act), act.kind = acts[n].kind,
         acts' = below \o <<act>>
  PROVE  ActsInv'
<1>1. IsSeq(<<act>>) /\ Len(<<act>>) = 1 /\ <<act>>[1] = act
  BY SingleIs
<1>2. /\ IsSeq(acts') /\ Len(acts') = n
      /\ \A i \in 1 .. n : acts'[i] = IF i <= n - 1 THEN below[i] ELSE <<act>>[i - (n - 1)]
  BY <1>1, ConcatIs
<1>3. Len(acts) \in Nat /\ acts[1].kind = "call"
  BY SeqIs DEF ActsInv
<1>4. acts'[n] = act /\ \A i \in 1 .. n - 1 : acts'[i] = acts[i]
  BY <1>1, <1>2
<1>5. \A i \in 1 .. n : TypedAct(acts'[i])
  <2>1. \A i \in 1 .. n - 1 : TypedAct(acts[i])
    BY <1>3 DEF ActsInv
  <2> QED  BY <1>4, <2>1
<1>6. acts'[1].kind = "call"
  <2>1. CASE n = 1
    BY <1>3, <1>4, <2>1
  <2>2. CASE n # 1
    BY <1>3, <1>4, <2>2
  <2> QED  BY <2>1, <2>2
<1> QED  BY <1>2, <1>5, <1>6 DEF ActsInv

LEMMA BeginningKeepsActs ==
  ASSUME ActsInv, NEW act, TypedAct(act), act.kind = "call" \/ acts # <<>>,
         acts' = Append(acts, act)
  PROVE  ActsInv'
<1>1. /\ IsSeq(acts') /\ Len(acts') = Len(acts) + 1 /\ Len(acts) \in Nat
      /\ \A i \in 1 .. Len(acts) : acts'[i] = acts[i]
      /\ acts'[Len(acts) + 1] = act
  BY AppendIs, SeqIs DEF ActsInv
<1>2. \A i \in 1 .. Len(acts) + 1 : TypedAct(acts'[i])
  BY <1>1 DEF ActsInv
<1>3. acts'[1].kind = "call"
  <2>1. CASE acts = <<>>
    BY <1>1, <2>1
  <2>2. CASE acts # <<>>
    BY <1>1, <2>2, TopIs
  <2> QED  BY <2>1, <2>2
<1> QED  BY <1>1, <1>2, <1>3 DEF ActsInv

(* Bytecode goes on with another index, a call with another counter or      *)
(* pointer.                                                                *)
LEMMA ActsGoOn ==
  ASSUME NEW act, TypedAct(act), NEW index \in Nat, NEW x
  PROVE  /\ TypedAct([act EXCEPT !.index = index])
         /\ [act EXCEPT !.index = index].kind = act.kind
         /\ TypedAct([act EXCEPT !.arg_i = x]) /\ [act EXCEPT !.arg_i = x].kind = act.kind
         /\ TypedAct([act EXCEPT !.cur_cons = x]) /\ [act EXCEPT !.cur_cons = x].kind = act.kind
<1>1. CASE /\ act = [kind |-> "bytes", bytes |-> act.bytes, index |-> act.index]
           /\ act.index \in Nat /\ TypedBytes(act.bytes)
  <2>1. [act EXCEPT !.index = index] = [kind |-> "bytes", bytes |-> act.bytes, index |-> index]
    BY <1>1
  <2>2. [act EXCEPT !.arg_i = x] = act /\ [act EXCEPT !.cur_cons = x] = act
    BY <1>1
  <2> QED  BY <1>1, <2>1, <2>2 DEF TypedAct
<1>2. CASE /\ act = [kind |-> "call", fn |-> act.fn, fn_index |-> act.fn_index,
                     arg_count |-> act.arg_count, arg_i |-> act.arg_i, cur_cons |-> act.cur_cons]
           /\ act.fn_index \in Nat /\ act.arg_count \in Nat
  <2>1. [act EXCEPT !.index = index] = act
    BY <1>2
  <2>2. [act EXCEPT !.arg_i = x]
          = [kind |-> "call", fn |-> act.fn, fn_index |-> act.fn_index,
             arg_count |-> act.arg_count, arg_i |-> x, cur_cons |-> act.cur_cons]
    BY <1>2
  <2>3. [act EXCEPT !.cur_cons = x]
          = [kind |-> "call", fn |-> act.fn, fn_index |-> act.fn_index,
             arg_count |-> act.arg_count, arg_i |-> act.arg_i, cur_cons |-> x]
    BY <1>2
  <2> QED  BY <1>2, <2>1, <2>2, <2>3 DEF TypedAct
<1> QED  BY <1>1, <1>2 DEF TypedAct

(* In particular the bytes of a caller go on behind the call; to a call,   *)
(* which has no index, this does nothing.                                  *)
LEMMA NextIndexGoesOn ==
  ASSUME NEW act, TypedAct(act)
  PROVE  /\ TypedAct([act EXCEPT !.index = @ + 1])
         /\ [act EXCEPT !.index = @ + 1].kind = act.kind
<1>1. CASE act.index \in Nat
  <2> DEFINE next == act.index + 1
  <2>1. next \in Nat /\ [act EXCEPT !.index = @ + 1] = [act EXCEPT !.index = next]
    BY <1>1
  <2> HIDE DEF next
  <2> QED  BY <2>1, ActsGoOn
<1>2. CASE act.index \notin Nat
  <2>1. /\ act = [kind |-> "call", fn |-> act.fn, fn_index |-> act.fn_index,
                  arg_count |-> act.arg_count, arg_i |-> act.arg_i, cur_cons |-> act.cur_cons]
        /\ act.fn_index \in Nat /\ act.arg_count \in Nat
    BY <1>2 DEF TypedAct
  <2>2. [act EXCEPT !.index = @ + 1] = act
    BY <2>1
  <2> QED  BY <2>2
<1> QED  BY <1>1, <1>2

LEMMA FrontAgrees ==
  ASSUME NEW s, NEW t, IsSeq(t), 1 <= Len(t), \A i \in 1 .. Len(t) : t[i] = s[i]
  PROVE  /\ IsSeq(Front(t)) /\ Len(Front(t)) = Len(t) - 1
         /\ \A i \in 1 .. Len(t) - 1 : Front(t)[i] = s[i]
<1>1. \A i \in 1 .. Len(t) - 1 : i \in 1 .. Len(t)
  BY SeqIs
<1> QED  BY <1>1, FrontIs

LEMMA IndexIsNat ==
  ASSUME NEW act, TypedAct(act), act.kind = "bytes"
  PROVE  act.index \in Nat /\ TypedBytes(act.bytes)
BY DEF TypedAct

LEMMA CallIs ==
  ASSUME NEW act, TypedAct(act), act.kind = "call"
  PROVE  act.fn_index \in Nat /\ act.arg_count \in Nat
BY DEF TypedAct

(* The running bytecode, and the operands of its next byte.                *)
LEMMA ByteIs ==
  ASSUME ActsInv, NEW op, At(op)
  PROVE  /\ acts # <<>> /\ Top.kind = "bytes" /\ Top.index \in Nat
         /\ Byte.op = "Funcall" => Byte.arg_count \in Nat
         /\ Byte.op = "BindTag" => Byte.index \in Nat
<1>1. acts # <<>> /\ Top.kind = "bytes" /\ Top.index < Len(Top.bytes)
  BY DEF At, InBytes, Running
<1>2. Top.index \in Nat /\ TypedBytes(Top.bytes)
  BY <1>1, TopIs, IndexIsNat
<1>3. Len(Top.bytes) \in Nat /\ Top.index + 1 \in 1 .. Len(Top.bytes)
  <2>1. Len(Top.bytes) \in Nat
    BY <1>2, SeqIs DEF TypedBytes
  <2> QED  BY <1>1, <1>2, <2>1
<1> QED  BY <1>1, <1>2, <1>3 DEF TypedBytes, Byte

LEMMA JumpKeepsActs ==
  ASSUME ActsInv, acts # <<>>, NEW index \in Nat, JumpTo(index)
  PROVE  ActsInv'
<1> DEFINE act == [Top EXCEPT !.index = index]
<1>1. TypedAct(act) /\ act.kind = acts[Len(acts)].kind
  BY TopIs, ActsGoOn
<1>2. acts' = Below \o <<act>>
  BY DEF JumpTo
<1> HIDE DEF act
<1>3. /\ Len(acts) \in Nat /\ 1 <= Len(acts) /\ IsSeq(Below) /\ Len(Below) = Len(acts) - 1
      /\ \A i \in 1 .. Len(acts) - 1 : Below[i] = acts[i]
      /\ Len(acts) <= Len(acts)
  BY TopIs
<1> QED  BY <1>1, <1>2, <1>3, GoingOnKeepsActs, Zenon

LEMMA AdvanceKeepsActs ==
  ASSUME ActsInv, NEW op, At(op), Advance
  PROVE  ActsInv'
BY ByteIs, JumpKeepsActs DEF Advance
----------------------------------------------------------------------------
(* The handling of calls and of GO                                         *)

LEMMA BeginCallKeeps ==
  ASSUME IInv, UNCHANGED environment_bindings,
         NEW fn, NEW pushed, IsSeq(pushed), NEW arg_count \in Nat,
         1 + arg_count <= Len(form_stack) + Len(pushed),
         BeginCall(fn, pushed, arg_count)
  PROVE  EnvsInv' /\ FramesInv' /\ TagsInv' /\ FormsInv' /\ ActsInv'
<1> DEFINE fn_index == Len(form_stack) + Len(pushed) - (1 + arg_count)
<1>1. PushEnvironment("funcall")
  BY DEF BeginCall
<1>2. EnvsInv' /\ FramesInv' /\ TagsInv'
  BY <1>1, PushKeepsFrames DEF IInv
<1>3. IsSeq(pushed \o <<Nil>>)
  BY SingleIs, ConcatIs
<1>4. FormsInv'
  BY <1>3, PushesKeepsForms DEF BeginCall, IInv
<1>5. fn_index \in Nat
  BY SeqIs DEF IInv, FormsInv
<1>6. acts' = Append(acts, CallAct(fn, fn_index, arg_count))
  BY DEF BeginCall
<1> HIDE DEF fn_index
<1>7. TypedAct(CallAct(fn, fn_index, arg_count)) /\ CallAct(fn, fn_index, arg_count).kind = "call"
  BY <1>5 DEF TypedAct, CallAct
<1>8. ActsInv'
  BY <1>6, <1>7, BeginningKeepsActs DEF IInv
<1> QED  BY <1>2, <1>4, <1>8

LEMMA FinishCallKeeps ==
  ASSUME FramesInv, FormsInv, ActsInv, acts # <<>>, Top.kind = "call", EvaledHolds(Top),
         Len(frame_stack) > 1, NEW form, FinishCall(form), UNCHANGED envs,
         form_cap' \in Nat, form_cap <= form_cap', frame_cap' \in Nat, frame_cap <= frame_cap'
  PROVE  FramesInv' /\ FormsInv' /\ ActsInv'
<1> DEFINE n    == Len(frame_stack) - 1
           back == IF Below = <<>> THEN <<>> ELSE <<form>>
           len  == Len(acts)
<1>1. n \in 1 .. Len(frame_stack)
  BY SeqIs DEF FramesInv
<1>2. /\ frame_stack' = SubSeq(frame_stack, 1, n)
      /\ last_return_value' = [SubSeq(last_return_value, 1, n) EXCEPT ![n] = form]
  BY DEF FinishCall
<1>3. FramesInv'
  <2> HIDE DEF n
  <2>1. IsSeq(last_return_value') /\ Len(last_return_value') = n
    BY <1>1, <1>2, ReturnsAre
  <2> QED  BY <1>1, <1>2, <2>1, PopKeepsFrames
<1>4. Top.fn_index \in Nat /\ Top.arg_count \in Nat
  BY TopIs, CallIs
<1>5. Top.arg_count + 2 \in Nat /\ Top.arg_count + 2 <= Len(form_stack)
  <2>1. Top.fn_index + Top.arg_count + 1 < Len(form_stack) /\ Len(form_stack) \in Nat
    BY SeqIs DEF EvaledHolds, EvaledOffset, FormsInv
  <2> QED  BY <1>4, <2>1
<1>6. IsSeq(back) /\ Len(back) <= 1
  <2>1. IsSeq(<<>>)
    BY DEF IsSeq
  <2> QED  BY <2>1, SingleIs
<1>7. FormsInv'
  <2>1. form_stack' = DropLast(form_stack, Top.arg_count + 2) \o back
    BY DEF FinishCall
  <2>2. Len(back) \in Nat
    BY <1>6, SeqIs
  <2> HIDE DEF back
  <2>3. Len(back) <= Top.arg_count + 2
    BY <1>4, <1>6, <2>2
  <2> QED  BY <1>5, <1>6, <2>1, <2>3, DropsKeepsForms
<1>8. CASE Below = <<>>
  <2>1. acts' = <<>>
    BY <1>8 DEF FinishCall
  <2>2. ActsInv'
    BY <2>1 DEF ActsInv, IsSeq
  <2> QED  BY <1>3, <1>7, <2>2
<1>9. CASE Below # <<>>
  <2> DEFINE act == [Last(Below) EXCEPT !.index = @ + 1]
  <2>1. /\ len \in Nat /\ IsSeq(Below) /\ Len(Below) = len - 1
        /\ \A i \in 1 .. len - 1 : Below[i] = acts[i]
    BY TopIs
  <2>2. 1 <= len - 1
    <3>1. PICK S : Below \in Seq(S)
      BY <2>1 DEF IsSeq
    <3>2. Len(Below) \in Nat /\ Len(Below) # 0
      BY <1>9, <3>1, EmptySeq, LenProperties
    <3> QED  BY <2>1, <3>2
  <2>3. Last(Below) = acts[len - 1] /\ TypedAct(Last(Below))
    BY <2>1, <2>2 DEF Last, ActsInv
  <2>4. TypedAct(act) /\ act.kind = acts[len - 1].kind
    BY <2>3, NextIndexGoesOn
  <2>5. /\ IsSeq(Front(Below)) /\ Len(Front(Below)) = len - 2
        /\ \A i \in 1 .. len - 2 : Front(Below)[i] = acts[i]
    BY <2>1, <2>2, FrontAgrees
  <2>6. acts' = Front(Below) \o <<act>>
    BY <1>9 DEF FinishCall
  <2> HIDE DEF act, len
  <2>7. len - 1 \in Nat /\ len - 1 <= Len(acts) /\ len - 1 - 1 = len - 2
    BY <2>1, <2>2 DEF len
  <2>8. ActsInv'
    <3> DEFINE place == len - 1
    <3>1. place \in Nat /\ 1 <= place /\ place <= Len(acts)
      BY <2>2, <2>7
    <3>2. Len(Front(Below)) = place - 1 /\ \A i \in 1 .. place - 1 : Front(Below)[i] = acts[i]
      BY <2>5, <2>7
    <3>3. act.kind = acts[place].kind
      BY <2>4
    <3> HIDE DEF place
    <3> QED  BY <2>4, <2>5, <2>6, <3>1, <3>2, <3>3, GoingOnKeepsActs, Zenon
  <2> QED  BY <1>3, <1>7, <2>8
<1> QED  BY <1>8, <1>9

(* A frame that does not belong to bytecode there is: the first one.       *)
LEMMA LandingIs ==
  ASSUME FramesInv, NEW tag
  PROVE  Landing(tag) \in 1 .. Len(frame_stack)
<1> DEFINE S == {i \in DOMAIN frame_stack : Binds(i, tag) \/ frame_stack[i].source # "bytes"}
<1>1. Len(frame_stack) \in Nat /\ DOMAIN frame_stack = 1 .. Len(frame_stack)
  BY SeqIs DEF FramesInv
<1>2. S \subseteq 1 .. Len(frame_stack)
  BY <1>1
<1>3. 1 \in S
  BY <1>1 DEF FramesInv
<1>4. Landing(tag) = Max(S)
  BY DEF Landing
<1> HIDE DEF S
<1> QED  BY <1>1, <1>2, <1>3, <1>4, MaxIs
LEMMA BindValueKeepsFrames ==
  ASSUME EnvsInv, FramesInv, TagsInv, NEW env, NEW bound,
         envs' = [envs EXCEPT ![env].vals = bound],
         UNCHANGED <<last_return_value, frame_stack, frame_cap, environment_bindings>>
  PROVE  EnvsInv' /\ FramesInv' /\ TagsInv'
<1>1. DOMAIN envs' = DOMAIN envs
  OBVIOUS
<1>2. ASSUME NEW e \in DOMAIN envs
      PROVE  /\ envs'[e] = [parent |-> envs'[e].parent, vals |-> envs'[e].vals]
             /\ envs'[e].parent = envs[e].parent
  <2>1. envs[e] = [parent |-> envs[e].parent, vals |-> envs[e].vals]
    BY DEF EnvsInv
  <2>2. CASE e = env
    <3>1. envs'[e] = [envs[e] EXCEPT !.vals = bound]
      BY <2>2
    <3>2. [envs[e] EXCEPT !.vals = bound] = [parent |-> envs[e].parent, vals |-> bound]
      BY <2>1
    <3> QED  BY <3>1, <3>2
  <2>3. CASE e # env
    <3>1. envs'[e] = envs[e]
      BY <2>3
    <3> QED  BY <2>1, <3>1
  <2> QED  BY <2>2, <2>3
<1>3. EnvsInv'
  <2>1. \A e \in DOMAIN envs : envs[e].parent \in DOMAIN envs \cup {NoEnv}
    BY DEF EnvsInv
  <2>2. ASSUME NEW some \in SUBSET DOMAIN envs, some # {}
        PROVE  \E e \in some : envs'[e].parent \notin some
    <3>1. PICK e \in some : envs[e].parent \notin some
      BY <2>2 DEF EnvsInv
    <3> QED  BY <1>2, <3>1
  <2>3. DOMAIN envs' \subseteq Nat
    BY <1>1 DEF EnvsInv
  <2>4. \A e \in DOMAIN envs' :
          /\ envs'[e] = [parent |-> envs'[e].parent, vals |-> envs'[e].vals]
          /\ envs'[e].parent \in DOMAIN envs' \cup {NoEnv}
    BY <1>1, <1>2, <2>1
  <2>5. \A some \in SUBSET DOMAIN envs' :
          some # {} => \E e \in some : envs'[e].parent \notin some
    BY <1>1, <2>2
  <2> QED  BY <2>3, <2>4, <2>5 DEF EnvsInv
<1>4. \A i \in 1 .. Len(frame_stack) :
        envs'[frame_stack[i].env].parent = envs[frame_stack[i].env].parent
  BY <1>2 DEF FramesInv
<1>5. FramesInv'
  BY <1>1, <1>4 DEF FramesInv
<1>6. TagsInv'
  BY <1>1 DEF TagsInv
<1> QED  BY <1>3, <1>5, <1>6

LEMMA BindTagKeepsTags ==
  ASSUME TagsInv, NEW env \in DOMAIN envs, NEW tag, NEW index \in Nat, UNCHANGED envs,
         environment_bindings' =
           Inserted(environment_bindings, env,
                    Inserted(IF env \in DOMAIN environment_bindings
                             THEN environment_bindings[env] ELSE << >>, tag, index))
  PROVE  TagsInv'
<1> DEFINE old == IF env \in DOMAIN environment_bindings
                  THEN environment_bindings[env] ELSE << >>
           new == Inserted(old, tag, index)
<1>1. \A t \in DOMAIN old : old[t] \in Nat
  <2>1. DOMAIN << >> = {}
    OBVIOUS
  <2> QED  BY <2>1 DEF TagsInv
<1> HIDE DEF old
<1>2. \A t \in DOMAIN new : new[t] \in Nat
  BY <1>1 DEF Inserted
<1>3. environment_bindings' = Inserted(environment_bindings, env, new)
  BY DEF old
<1> HIDE DEF new
<1>4. /\ DOMAIN environment_bindings' = DOMAIN environment_bindings \cup {env}
      /\ environment_bindings'[env] = new
      /\ \A e \in DOMAIN environment_bindings :
           e # env => environment_bindings'[e] = environment_bindings[e]
  BY <1>3 DEF Inserted
<1> QED  BY <1>2, <1>4 DEF TagsInv

(* The scopes and what is bound in them when the stack alone changes.      *)
LEMMA OnlyForms ==
  ASSUME IInv, UNCHANGED <<scopes, environment_bindings, session>>, FormsInv', ActsInv'
  PROVE  IInv'
BY SameFrames DEF IInv, SessionInv, session

(* Nothing but the REPL's state, and the input, changes.                   *)
LEMMA OnlyRepl ==
  ASSUME IInv, UNCHANGED <<stacks, scopes, environment_bindings, acts>>, SessionInv'
  PROVE  IInv'
<1>1. FormsInv'
  BY DEF IInv, FormsInv, stacks
<1>2. ActsInv'
  BY DEF IInv, ActsInv
<1> QED  BY <1>1, <1>2, SameFrames DEF IInv
----------------------------------------------------------------------------
(* The steps                                                               *)

LEMMA RunByteKeepsInvariant ==
  ASSUME IInv, RunByte
  PROVE  IInv'
<1> USE DEF IInv
<1>1. /\ Len(frame_stack) \in Nat /\ Len(form_stack) \in Nat /\ form_cap \in Nat
      /\ IsSeq(<<>>) /\ Len(<<>>) = 0
      /\ \A x : IsSeq(<<x>>) /\ Len(<<x>>) = 1
  BY SeqIs, SingleIs DEF FramesInv, FormsInv, IsSeq
<1>2. CurrentEnv \in DOMAIN envs
  BY <1>1 DEF CurrentEnv, Last, FramesInv
<1>3. CASE OpPush
  <2>1. Pushes(<<Byte.target>>) /\ FormsInv'
    BY <1>1, <1>3, PushesKeepsForms DEF OpPush
  <2>2. ActsInv'
    BY <1>3, AdvanceKeepsActs DEF OpPush
  <2> QED  BY <1>3, <2>1, <2>2, OnlyForms DEF OpPush
<1>4. CASE OpPop
  <2>1. FormsInv'
    BY <1>4, PopsKeepsForms DEF OpPop
  <2>2. ActsInv'
    BY <1>4, AdvanceKeepsActs DEF OpPop
  <2> QED  BY <1>4, <2>1, <2>2, OnlyForms DEF OpPop
<1>5. CASE OpRetForm
  <2>1. FormsInv'
    BY <1>5, PopsKeepsForms DEF OpRetForm
  <2>2. ActsInv'
    BY <1>5, AdvanceKeepsActs DEF OpRetForm
  <2>3. last_return_value' =
          [last_return_value EXCEPT ![Len(last_return_value)] = Last(form_stack)]
    BY <1>5 DEF OpRetForm, SetLastReturn
  <2>4. IsSeq(last_return_value') /\ Len(last_return_value') = Len(last_return_value)
    <3>1. IsSeq(last_return_value)
      BY DEF FramesInv
    <3> QED  BY <2>3, <3>1, ExceptIs
  <2>5. FramesInv' /\ EnvsInv' /\ TagsInv' /\ SessionInv'
    BY <1>5, <2>4 DEF OpRetForm, FramesInv, EnvsInv, TagsInv, SessionInv, session
  <2> QED  BY <2>1, <2>2, <2>5
<1>6. CASE OpBindTag
  <2>1. FormsInv'
    BY <1>6, PopsKeepsForms DEF OpBindTag
  <2>2. ActsInv'
    BY <1>6, AdvanceKeepsActs DEF OpBindTag
  <2>3. Byte.index \in Nat
    BY <1>6, ByteIs DEF OpBindTag, At
  <2>4. TagsInv'
    BY <1>2, <1>6, <2>3, BindTagKeepsTags DEF OpBindTag, scopes
  <2>5. FramesInv' /\ EnvsInv' /\ SessionInv'
    BY <1>6, SameFrames DEF OpBindTag, SessionInv, session
  <2> QED  BY <2>1, <2>2, <2>4, <2>5
<1>7. CASE OpBindValue
  <2>1. FormsInv'
    <3>1. Replaces(2, <<Last(form_stack)>>)
      BY <1>7 DEF OpBindValue
    <3>2. 2 <= Len(form_stack)
      BY <1>1, <1>7 DEF OpBindValue
    <3> QED  BY <3>1, <3>2, ReplacesOneKeepsForms
  <2>2. ActsInv'
    BY <1>7, AdvanceKeepsActs DEF OpBindValue
  <2>3. EnvsInv' /\ FramesInv' /\ TagsInv'
    <3>1. \E env, bound : envs' = [envs EXCEPT ![env].vals = bound]
      BY <1>7, Zenon DEF OpBindValue
    <3> QED  BY <1>7, <3>1, BindValueKeepsFrames DEF OpBindValue
  <2>4. SessionInv'
    BY <1>7 DEF OpBindValue, SessionInv, session
  <2> QED  BY <2>1, <2>2, <2>3, <2>4
<1>8. CASE OpPushLexicalEnv
  <2>1. EnvsInv' /\ FramesInv' /\ TagsInv'
    BY <1>8, PushKeepsFrames DEF OpPushLexicalEnv
  <2>2. ActsInv'
    BY <1>8, AdvanceKeepsActs DEF OpPushLexicalEnv
  <2>3. FormsInv' /\ SessionInv'
    BY <1>8 DEF OpPushLexicalEnv, FormsInv, stacks, SessionInv, session
  <2> QED  BY <2>1, <2>2, <2>3
<1>9. CASE OpPopLexicalEnv
  <2>1. Len(frame_stack) - 1 \in 1 .. Len(frame_stack)
    BY <1>1, <1>9 DEF OpPopLexicalEnv
  <2>2. FramesInv' /\ envs' = envs
    BY <1>9, <2>1, PopToKeepsFrames DEF OpPopLexicalEnv
  <2>3. ActsInv'
    BY <1>9, AdvanceKeepsActs DEF OpPopLexicalEnv
  <2>4. EnvsInv' /\ TagsInv' /\ FormsInv' /\ SessionInv'
    BY <1>9, <2>2 DEF OpPopLexicalEnv, EnvsInv, TagsInv, FormsInv, stacks, SessionInv, session
  <2> QED  BY <2>2, <2>3, <2>4
<1>10. CASE OpFuncall
  <2>1. Byte.arg_count \in Nat
    BY <1>10, ByteIs DEF OpFuncall, At
  <2>2. 1 + Byte.arg_count <= Len(form_stack) + Len(<<>>)
    BY <1>1, <1>10, <2>1 DEF OpFuncall, FunctionOffset
  <2>3. EnvsInv' /\ FramesInv' /\ TagsInv' /\ FormsInv' /\ ActsInv'
    BY <1>1, <1>10, <2>1, <2>2, BeginCallKeeps DEF OpFuncall
  <2>4. SessionInv'
    BY <1>10 DEF OpFuncall, SessionInv, session
  <2> QED  BY <2>3, <2>4
<1>11. CASE OpLookupSymbol
  <2>1. FormsInv'
    <3>1. 1 <= Len(form_stack)
      BY <1>11, NonemptyIs DEF OpLookupSymbol, FormsInv
    <3>2. \E form : Replaces(1, <<form>>)
      BY <1>11 DEF OpLookupSymbol
    <3> QED  BY <3>1, <3>2, ReplacesOneKeepsForms
  <2>2. ActsInv'
    BY <1>11, AdvanceKeepsActs DEF OpLookupSymbol
  <2> QED  BY <1>11, <2>1, <2>2, OnlyForms DEF OpLookupSymbol
<1>12. CASE OpLookupFunction
  <2>1. FormsInv'
    <3>1. 1 <= Len(form_stack)
      BY <1>12, NonemptyIs DEF OpLookupFunction, FormsInv
    <3>2. \E form : Replaces(1, <<form>>)
      BY <1>12 DEF OpLookupFunction
    <3> QED  BY <3>1, <3>2, ReplacesOneKeepsForms
  <2>2. ActsInv'
    BY <1>12, AdvanceKeepsActs DEF OpLookupFunction
  <2> QED  BY <1>12, <2>1, <2>2, OnlyForms DEF OpLookupFunction
<1>13. CASE OpGoLands
  <2> DEFINE i == Landing(Byte.target)
  <2>1. i \in 1 .. Len(frame_stack) /\ DOMAIN frame_stack = 1 .. Len(frame_stack)
    BY LandingIs, SeqIs DEF FramesInv
  <2>2. PopTo(i) /\ Binds(i, Byte.target)
        /\ JumpTo(environment_bindings[frame_stack[i].env][Byte.target])
    BY <1>13 DEF OpGoLands
  <2> HIDE DEF i
  <2>3. FramesInv' /\ envs' = envs
    BY <2>1, <2>2, PopToKeepsFrames
  <2>4. environment_bindings[frame_stack[i].env][Byte.target] \in Nat
    BY <2>1, <2>2 DEF Binds, TagsInv
  <2>5. ActsInv'
    BY <1>13, <2>2, <2>4, ByteIs, JumpKeepsActs DEF OpGoLands
  <2>6. FormsInv'
    <3>1. form_cap' \in Nat /\ form_cap <= form_cap' /\ form_stack' = form_stack
      BY <1>1, <1>13, CapacityIs DEF OpGoLands
    <3> QED  BY <1>1, <3>1 DEF FormsInv
  <2>7. EnvsInv' /\ TagsInv' /\ SessionInv'
    BY <1>13, <2>3 DEF OpGoLands, EnvsInv, TagsInv, SessionInv, session
  <2> QED  BY <2>3, <2>5, <2>6, <2>7
<1>14. CASE OpGoLeaves
  <2> DEFINE place == Len(acts) - 2
             act   == [acts[place] EXCEPT !.index = @ + 1]
  <2>1. Landing(Byte.target) \in 1 .. Len(frame_stack) /\ PopTo(Landing(Byte.target))
    BY <1>14, LandingIs DEF OpGoLeaves
  <2>2. FramesInv' /\ envs' = envs
    BY <2>1, PopToKeepsFrames
  <2>3. FormsInv'
    BY <1>1, <1>14, PushesKeepsForms DEF OpGoLeaves
  <2>4. place \in Nat /\ 1 <= place /\ place <= Len(acts)
    <3>1. Len(acts) \in Nat /\ Len(acts) > 2
      BY <1>14, SeqIs DEF OpGoLeaves, ActsInv
    <3> QED  BY <3>1
  <2>5. TypedAct(acts[place])
    BY <2>4 DEF ActsInv
  <2>6. acts' = SubSeq(acts, 1, place - 1) \o <<act>>
    <3>1. place - 1 = Len(acts) - 3
      BY <2>4, SeqIs DEF ActsInv
    <3>2. acts' = SubSeq(acts, 1, Len(acts) - 3) \o <<act>>
      BY <1>14 DEF OpGoLeaves
    <3> HIDE DEF act, place
    <3> QED  BY <3>1, <3>2
  <2>7. TypedAct(act) /\ act.kind = acts[place].kind
    BY <2>5, NextIndexGoesOn
  <2> HIDE DEF act, place
  <2>8. /\ IsSeq(SubSeq(acts, 1, place - 1)) /\ Len(SubSeq(acts, 1, place - 1)) = place - 1
        /\ \A k \in 1 .. place - 1 : SubSeq(acts, 1, place - 1)[k] = acts[k]
    <3> DEFINE n == place - 1
    <3>1. n \in Int /\ n <= Len(acts) /\ n = IF 1 <= n THEN n ELSE 0
      BY <2>4
    <3>2. IsSeq(acts)
      BY DEF ActsInv
    <3> HIDE DEF n
    <3>3. /\ IsSeq(SubSeq(acts, 1, n)) /\ Len(SubSeq(acts, 1, n)) = n
          /\ \A k \in 1 .. n : SubSeq(acts, 1, n)[k] = acts[k]
      BY <3>1, <3>2, SubSeqIs
    <3> QED  BY <3>3 DEF n
  <2>9. ActsInv'
    <3> HIDE DEF IInv
    <3>1. ActsInv
      BY DEF IInv
    <3> QED  BY <2>4, <2>6, <2>7, <2>8, <3>1, GoingOnKeepsActs, Zenon
  <2>10. EnvsInv' /\ TagsInv' /\ SessionInv'
    BY <1>14, <2>2 DEF OpGoLeaves, EnvsInv, TagsInv, SessionInv, session
  <2> QED  BY <2>2, <2>3, <2>9, <2>10
<1>15. CASE OpGoLeavesRepl
  <2> DEFINE n == Landing(Byte.target) - 1
  <2>1. n \in 1 .. Len(frame_stack)
    <3>1. Landing(Byte.target) \in 1 .. Len(frame_stack) /\ Landing(Byte.target) > 1
      BY <1>15, LandingIs DEF OpGoLeavesRepl
    <3> QED  BY <1>1, <3>1
  <2>2. /\ frame_stack' = SubSeq(frame_stack, 1, n)
        /\ last_return_value' = [SubSeq(last_return_value, 1, n) EXCEPT ![n] = Byte.target]
        /\ UNCHANGED envs /\ frame_cap' = frame_cap
    BY <1>15 DEF OpGoLeavesRepl
  <2> HIDE DEF n
  <2>3. IsSeq(last_return_value') /\ Len(last_return_value') = n
    BY <2>1, <2>2, ReturnsAre
  <2>4. FramesInv'
    <3>1. frame_cap' \in Nat /\ frame_cap <= frame_cap'
      BY <2>2 DEF FramesInv
    <3> QED  BY <2>1, <2>2, <2>3, <3>1, PopKeepsFrames
  <2>5. FormsInv'
    BY <1>15, PopsKeepsForms DEF OpGoLeavesRepl
  <2>6. ActsInv'
    BY <1>1, <1>15 DEF OpGoLeavesRepl, ActsInv
  <2>7. EnvsInv' /\ TagsInv' /\ SessionInv'
    BY <1>15 DEF OpGoLeavesRepl, EnvsInv, TagsInv, SessionInv
  <2> QED  BY <2>4, <2>5, <2>6, <2>7
<1> QED  BY <1>3, <1>4, <1>5, <1>6, <1>7, <1>8, <1>9, <1>10, <1>11, <1>12, <1>13,
            <1>14, <1>15 DEF RunByte
LEMMA CallStepKeepsInvariant ==
  ASSUME IInv, CompilerIsTyped, ReaderGrows,
         EvaluateArg \/ AddArg \/ CallFormat \/ CallRead
  PROVE  IInv'
<1> USE DEF IInv
<1>1. /\ Len(frame_stack) \in Nat /\ Len(form_stack) \in Nat
      /\ form_cap \in Nat /\ frame_cap \in Nat
  BY SeqIs DEF FramesInv, FormsInv
<1>2. CASE EvaluateArg
  <2> DEFINE analysis == Analyze(form_stack[ArgOffset + 1])
  <2>1. acts # <<>> /\ acts' = Append(acts, BytesAct(analysis.bytes))
    BY <1>2 DEF EvaluateArg, InCall, Running
  <2>2. TypedBytes(analysis.bytes)
    BY DEF CompilerIsTyped
  <2> HIDE DEF analysis
  <2>3. TypedAct(BytesAct(analysis.bytes))
    BY <2>2 DEF TypedAct, BytesAct
  <2>4. ActsInv'
    BY <2>1, <2>3, BeginningKeepsActs
  <2>5. FormsInv'
    BY <1>2 DEF EvaluateArg, FormsInv, stacks
  <2> QED  BY <1>2, <2>4, <2>5, OnlyForms DEF EvaluateArg
<1>3. CASE AddArg
  <2> DEFINE call   == Last(Below)
             evaled == EvaledOffset(call) + 1
             cons   == Append(Elements(form_stack[evaled]), Last(last_return_value))
             buffer == IF call.arg_i = 0 THEN form_cap ELSE Heap
             arg_i  == call.arg_i + 1
             counted == [call EXCEPT !.arg_i = arg_i]
             act    == [counted EXCEPT !.cur_cons = buffer]
             place  == Len(acts) - 1
  <2>1. acts # <<>> /\ Top.kind = "bytes"
    BY <1>3 DEF AddArg, ArgReady, Running
  <2>2. form_stack' = [form_stack EXCEPT ![evaled] = List(cons)] /\ form_cap' = form_cap
    BY <1>3 DEF AddArg
  <2>3. FormsInv'
    <3> HIDE DEF evaled, cons
    <3> QED  BY <2>2, ExceptIs DEF FormsInv
  <2>4. place \in Nat /\ 1 <= place /\ place <= Len(acts)
    BY <2>1, TopIs
  <2>5. /\ IsSeq(Below) /\ Len(Below) = place
        /\ \A k \in 1 .. place : Below[k] = acts[k]
    BY <2>1, TopIs
  <2>6. call = acts[place] /\ TypedAct(call)
    BY <2>4, <2>5 DEF Last, ActsInv
  <2>7. TypedAct(act) /\ act.kind = acts[place].kind
    <3>1. 0 \in Nat
      OBVIOUS
    <3> HIDE DEF call, arg_i, buffer, place
    <3>2. TypedAct(counted) /\ counted.kind = call.kind
      BY <2>6, <3>1, ActsGoOn
    <3> HIDE DEF counted
    <3>3. TypedAct(act) /\ act.kind = counted.kind
      BY <3>1, <3>2, ActsGoOn
    <3> QED  BY <2>6, <3>2, <3>3
  <2>8. /\ IsSeq(Front(Below)) /\ Len(Front(Below)) = place - 1
        /\ \A k \in 1 .. place - 1 : Front(Below)[k] = acts[k]
    <3> HIDE DEF place
    <3> QED  BY <2>4, <2>5, FrontAgrees
  <2>9. acts' = Front(Below) \o <<act>>
    BY <1>3 DEF AddArg
  <2> HIDE DEF act, place
  <2>10. ActsInv'
    <3> HIDE DEF IInv
    <3>1. ActsInv
      BY DEF IInv
    <3> QED  BY <2>4, <2>7, <2>8, <2>9, <3>1, GoingOnKeepsActs, Zenon
  <2> QED  BY <1>3, <2>3, <2>10, OnlyForms DEF AddArg
<1>4. CASE CallFormat
  <2>1. /\ acts # <<>> /\ Top.kind = "call" /\ EvaledHolds(Top) /\ Len(frame_stack) > 1
        /\ FinishCall(Nil) /\ UNCHANGED <<envs, form_cap, frame_cap>>
    BY <1>4 DEF CallFormat, CallIsReady, InCall, Running
  <2>2. /\ form_cap' \in Nat /\ form_cap <= form_cap'
        /\ frame_cap' \in Nat /\ frame_cap <= frame_cap'
    BY <1>1, <2>1
  <2>3. FramesInv' /\ FormsInv' /\ ActsInv'
    BY <2>1, <2>2, FinishCallKeeps
  <2>4. EnvsInv' /\ TagsInv' /\ SessionInv'
    BY <1>4 DEF CallFormat, EnvsInv, TagsInv, SessionInv
  <2> QED  BY <2>3, <2>4
<1>5. CASE CallRead
  <2>1. /\ acts # <<>> /\ Top.kind = "call" /\ EvaledHolds(Top) /\ Len(frame_stack) > 1
        /\ UNCHANGED <<envs, environment_bindings, repl>>
        /\ reads < MaxReads /\ reads' = reads + 1
    BY <1>5 DEF CallRead, CallIsReady, InCall, Running
  <2>2. PICK form \in Programs :
          LET reading == Reading(form, Len(form_stack), form_cap)
          IN  /\ FinishCall(form)
              /\ form_cap' = reading.cap
              /\ frame_cap' = Capacity(frame_cap, Len(frame_stack) + reading.frames)
    BY <1>5 DEF CallRead
  <2> DEFINE reading == Reading(form, Len(form_stack), form_cap)
  <2>3. reading.cap \in Nat /\ form_cap <= reading.cap /\ reading.frames \in Nat
    BY <1>1 DEF ReaderGrows
  <2>4. form_cap' = reading.cap /\ frame_cap' = Capacity(frame_cap, Len(frame_stack) + reading.frames)
    BY <2>2
  <2> HIDE DEF reading
  <2>5. frame_cap' \in Nat /\ frame_cap <= frame_cap'
    <3> DEFINE frames == Len(frame_stack) + reading.frames
    <3>1. frames \in Nat /\ frame_cap \in Nat /\ frame_cap' = Capacity(frame_cap, frames)
      BY <1>1, <2>3, <2>4
    <3> HIDE DEF frames
    <3> QED  BY <3>1, CapacityIs
  <2>6. FinishCall(form)
    BY <2>2
  <2>7. FramesInv' /\ FormsInv' /\ ActsInv'
    BY <2>1, <2>3, <2>4, <2>5, <2>6, FinishCallKeeps
  <2>8. EnvsInv' /\ TagsInv' /\ SessionInv'
    BY <2>1, BoundsAssumption DEF EnvsInv, TagsInv, SessionInv
  <2> QED  BY <2>7, <2>8
<1> QED  BY <1>2, <1>3, <1>4, <1>5

LEMMA ReplKeepsInvariant ==
  ASSUME IInv, ReplReads \/ ReplPrints \/ ReplQuits
  PROVE  IInv'
<1> USE DEF IInv
<1>1. Len(frame_stack) \in Nat /\ Len(form_stack) \in Nat
  BY SeqIs DEF FramesInv, FormsInv
<1>2. CASE ReplReads
  <2> DEFINE pushed == <<Function("READ")>>
  <2>1. BeginCall("READ", pushed, 0) /\ UNCHANGED environment_bindings
    BY <1>2 DEF ReplReads
  <2>2. IsSeq(pushed) /\ Len(pushed) = 1
    BY SingleIs
  <2> HIDE DEF pushed
  <2>3. 1 + 0 <= Len(form_stack) + Len(pushed) /\ 0 \in Nat
    BY <1>1, <2>2
  <2>4. EnvsInv' /\ FramesInv' /\ TagsInv' /\ FormsInv' /\ ActsInv'
    BY <2>1, <2>2, <2>3, BeginCallKeeps
  <2>5. SessionInv'
    BY <1>2 DEF ReplReads, SessionInv
  <2> QED  BY <2>4, <2>5
<1>3. CASE ReplPrints
  <2> DEFINE pushed == <<Function("FORMAT"), T, Str("~A~%"), ReadForm>>
  <2>1. BeginCall("FORMAT", pushed, 3) /\ UNCHANGED environment_bindings
    BY <1>3 DEF ReplPrints
  <2>2. IsSeq(pushed) /\ Len(pushed) = 4
    <3>1. pushed \in Seq({Function("FORMAT"), T, Str("~A~%"), ReadForm})
      OBVIOUS
    <3> QED  BY <3>1 DEF IsSeq
  <2> HIDE DEF pushed
  <2>3. 1 + 3 <= Len(form_stack) + Len(pushed) /\ 3 \in Nat
    BY <1>1, <2>2
  <2>4. EnvsInv' /\ FramesInv' /\ TagsInv' /\ FormsInv' /\ ActsInv'
    BY <2>1, <2>2, <2>3, BeginCallKeeps
  <2>5. SessionInv'
    BY <1>3 DEF ReplPrints, SessionInv
  <2> QED  BY <2>4, <2>5
<1>4. CASE ReplQuits
  <2> DEFINE n == Len(frame_stack) - 1
  <2>1. n \in 1 .. Len(frame_stack)
    BY <1>1, <1>4 DEF ReplQuits
  <2>2. /\ frame_stack' = SubSeq(frame_stack, 1, n)
        /\ last_return_value' = [SubSeq(last_return_value, 1, n) EXCEPT ![n] = Nil]
        /\ UNCHANGED envs /\ frame_cap' = frame_cap
    BY <1>4 DEF ReplQuits
  <2> HIDE DEF n
  <2>3. IsSeq(last_return_value') /\ Len(last_return_value') = n
    BY <2>1, <2>2, ReturnsAre
  <2>4. FramesInv'
    <3>1. frame_cap' \in Nat /\ frame_cap <= frame_cap'
      BY <2>2 DEF FramesInv
    <3> QED  BY <2>1, <2>2, <2>3, <3>1, PopKeepsFrames
  <2>5. FormsInv'
    BY <1>4, PopsKeepsForms DEF ReplQuits
  <2>6. EnvsInv' /\ TagsInv' /\ ActsInv' /\ SessionInv'
    BY <1>4 DEF ReplQuits, EnvsInv, TagsInv, ActsInv, SessionInv
  <2> QED  BY <2>4, <2>5, <2>6
<1> QED  BY <1>2, <1>3, <1>4

LEMMA EndKeepsInvariant ==
  ASSUME IInv, Abort \/ Astray
  PROVE  IInv'
<1>1. UNCHANGED <<stacks, scopes, environment_bindings, acts>>
  BY DEF Abort, Astray, Ends, stacks, scopes
<1>2. SessionInv'
  BY DEF Abort, Astray, Ends, IInv, SessionInv
<1> QED  BY <1>1, <1>2, OnlyRepl
LEMMA InitEstablishesInvariant ==
  ASSUME Init
  PROVE  IInv
<1> DEFINE base == [env |-> 0, source |-> "base", prev |-> NoBuffer]
           call == [env |-> 1, source |-> "funcall", prev |-> Capacity(0, 1)]
           one  == Capacity(0, 1)
<1>1. /\ Capacity(0, 2) \in Nat /\ 2 <= Capacity(0, 2)
      /\ one \in Nat /\ Capacity(one, 2) \in Nat
      /\ one <= Capacity(one, 2) /\ 2 <= Capacity(one, 2)
  <2>1. one \in Nat /\ Capacity(0, 2) \in Nat /\ 2 <= Capacity(0, 2)
    BY CapacityIs
  <2> HIDE DEF one
  <2> QED  BY <2>1, CapacityIs
<1>2. EnvsInv
  <2>1. /\ DOMAIN envs = {0, 1}
        /\ envs[0] = [parent |-> NoEnv, vals |-> Globals]
        /\ envs[1] = [parent |-> 0, vals |-> << >>]
    BY DEF Init
  <2>2. ASSUME NEW some \in SUBSET {0, 1}, some # {}
        PROVE  \E e \in some : envs[e].parent \notin some
    <3>1. CASE 0 \in some
      BY <2>1, <3>1 DEF NoEnv
    <3>2. CASE 0 \notin some
      <4>1. 1 \in some
        BY <2>2, <3>2
      <4> QED  BY <2>1, <3>2, <4>1
    <3> QED  BY <3>1, <3>2
  <2> QED  BY <2>1, <2>2 DEF EnvsInv
<1>3. /\ IsSeq(frame_stack) /\ Len(frame_stack) = 2
      /\ frame_stack[1] = base /\ frame_stack[2] = call
  <2>1. frame_stack = <<base, call>>
    BY DEF Init
  <2>2. <<base, call>> \in Seq({base, call})
    OBVIOUS
  <2> HIDE DEF base, call
  <2> QED  BY <2>1, <2>2 DEF IsSeq
<1>4. IsSeq(last_return_value) /\ Len(last_return_value) = 2
  <2>1. <<Nil, Nil>> \in Seq({Nil})
    OBVIOUS
  <2> QED  BY <2>1 DEF Init, IsSeq
<1>5. FramesInv
  <2>1. frame_cap = Capacity(one, 2)
    BY DEF Init
  <2>2. /\ DOMAIN envs = {0, 1}
        /\ envs[0].parent = NoEnv /\ envs[1].parent = 0
    BY DEF Init
  <2>3. 1 .. Len(frame_stack) = {1, 2}
    BY <1>3
  <2> QED  BY <1>1, <1>3, <1>4, <2>1, <2>2, <2>3 DEF FramesInv, NoBuffer
<1>6. TagsInv
  BY DEF Init, TagsInv
<1>7. FormsInv
  <2>1. <<Function("REPL"), Nil>> \in Seq({Function("REPL"), Nil})
    OBVIOUS
  <2> QED  BY <1>1, <2>1 DEF Init, FormsInv, IsSeq
<1>8. ActsInv
  BY DEF Init, ActsInv, IsSeq
<1>9. SessionInv
  BY BoundsAssumption DEF Init, SessionInv
<1> QED  BY <1>2, <1>5, <1>6, <1>7, <1>8, <1>9 DEF IInv

LEMMA NextKeepsInvariant ==
  ASSUME CompilerIsTyped, ReaderGrows, IInv, [Next]_vars
  PROVE  IInv'
<1>1. CASE RunByte
  BY <1>1, RunByteKeepsInvariant
<1>2. CASE EvaluateArg \/ AddArg \/ CallFormat \/ CallRead
  BY <1>2, CallStepKeepsInvariant
<1>3. CASE ReplReads \/ ReplPrints \/ ReplQuits
  BY <1>3, ReplKeepsInvariant
<1>4. CASE Abort \/ Astray
  BY <1>4, EndKeepsInvariant
<1>5. CASE UNCHANGED vars
  <2>1. UNCHANGED <<stacks, scopes, environment_bindings, acts>>
    BY <1>5 DEF vars, stacks, scopes
  <2>2. SessionInv'
    BY <1>5 DEF vars, SessionInv, IInv
  <2> QED  BY <2>1, <2>2, OnlyRepl
<1> QED  BY <1>1, <1>2, <1>3, <1>4, <1>5 DEF Next

----------------------------------------------------------------------------
LEMMA Invariance ==
  ASSUME CompilerIsTyped, ReaderGrows
  PROVE  Spec => []IInv
<1>1. Init => IInv
  BY InitEstablishesInvariant
<1>2. IInv /\ [Next]_vars => IInv'
  BY NextKeepsInvariant
<1> QED  BY <1>1, <1>2, PTL DEF Spec

(* Whatever is typed, and whatever bytecode comes of it, the stacks stay    *)
(* within their buffers, one last return belongs to each frame, and frames *)
(* and tags name environments that are still there.                        *)
THEOREM TypeCorrect ==
  ASSUME CompilerIsTyped, ReaderGrows
  PROVE  Spec => []TypeOK
<1>1. IInv => TypeOK
  BY InvariantIsEnough
<1> QED  BY <1>1, Invariance, PTL

(* Scopes entered, scopes left, calls, returns and GO in any order: the     *)
(* environment of each frame is the child of that of the frame below.      *)
THEOREM ChainCorrect ==
  ASSUME CompilerIsTyped, ReaderGrows
  PROVE  Spec => []FramesChainEnvironments
<1>1. IInv => FramesChainEnvironments
  BY InvariantIsEnough
<1> QED  BY <1>1, Invariance, PTL
=============================================================================
