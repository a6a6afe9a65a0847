-------------------------- MODULE CollectionProofs ---------------------------
(***************************************************************************)
(* What a collection finds, whenever the reader allocates: the runtime is  *)
(* there by the time one may run, and everything that the functions under  *)
(* way will still use is reached from the roots the marker starts at.      *)
(***************************************************************************)
EXTENDS ReadFormProofs

----------------------------------------------------------------------------
(* The heap and the runtime                                                *)

HeapClosed == \A id \in DOMAIN objects : Marks(id) \subseteq DOMAIN objects
LastsOK    == \A k \in 1 .. Len(last_return_value) : FormOK(last_return_value[k], objects)

Started == acts[1].pc = Steps + 1

(* When what is listed: the packages one instruction before the            *)
(* interpreter, and until then the start holds the function it is to bind. *)
RuntimeOK ==
  /\ rt = [packages |-> rt.packages, interpreter |-> rt.interpreter]
  /\ rt.packages = IF Steps - 2 < acts[1].pc THEN ToSet(PackageNames) ELSE {}
  /\ IF Steps <= acts[1].pc THEN rt.interpreter \in DOMAIN objects ELSE rt.interpreter = Null

StartHolds ==
  acts[1].held = {} \/ Does(acts[1].pc, "bind function") \/ Does(acts[1].pc + 1, "bind function")

(* What the start has allocated, with what the interning under way will.   *)
ToCome ==
  CASE Len(acts) = 1                        -> 0
    [] Len(acts) # 1 /\ acts[2].pc = "find" -> AllocatedBy(acts[1].pc - 1)
    [] OTHER                                -> SizeOf(Text(acts[2].name))

StartSpends ==
  acts[1].pc < Steps =>
    /\ next_gc = FirstCollection /\ bytes \in Nat
    /\ bytes + ToCome <= StartBytes[acts[1].pc - 1]

----------------------------------------------------------------------------
(* What the functions under way hold                                       *)

InternedId(id, packs) ==
  \E p \in DOMAIN packs : \E name \in DOMAIN packs[p].interned :
    name # NullLexeme /\ id = packs[p].interned[name]

(* A symbol that gensym has made and nothing is bound to.                  *)
NewSymbol(held, all, packs) ==
  /\ "SYSTEM" \in DOMAIN packs /\ NullLexeme \in DOMAIN packs["SYSTEM"].interned
  /\ LET s == packs["SYSTEM"].interned[NullLexeme]
     IN  held = {s} /\ \A e \in Environments(all) : s \notin DOMAIN all[e].values

(* An object is bound in a frame of the activations up to i.               *)
BoundInFrame(id, i, envs, all) ==
  \E k \in 1 .. Len(envs) :
    /\ 2 * k <= i + 1
    /\ envs[k] \in Environments(all)
    /\ \E s \in DOMAIN all[envs[k]].values : all[envs[k]].values[s] = Object(id)

(* Whatever has the cons x and with a cons the next one, up to y, has y.   *)
Leads(x, y, all) ==
  \A R \in SUBSET DOMAIN all :
    /\ x \in R
    /\ \A c \in R, d \in DOMAIN all :
         all[c].kind = "cons" /\ all[c].cdr = Object(d) /\ d <= y => d \in R
    => y \in R

CallHolds(act, forms) ==
  act.held = IF act.pc = "begin" THEN {} ELSE Ids({forms[act.fn_index + 1]})

InternHolds(act, below) == below.fn = "'" => act.name = Chars("QUOTE")

ReadHolds(act, i, envs, all, packs) ==
  CASE act.pc = "gensym" -> act.held = {}
    [] act.pc = "stream" -> NewSymbol(act.held, all, packs)
    [] OTHER             -> act.held = {act.stream} /\ BoundInFrame(act.stream, i, envs, all)

OpenParenHolds(act, below, i, forms, envs, all, packs) ==
  CASE act.pc \in {"scan", "gensym"} -> act.held = {} /\ act.last = NoBuffer
    [] act.pc = "stream"             -> NewSymbol(act.held, all, packs) /\ act.last = NoBuffer
    [] OTHER ->
         /\ act.held = {act.stream} \cup (IF act.last = NoBuffer THEN {} ELSE {act.cons})
         /\ BoundInFrame(act.stream, i, envs, all)
         /\ act.last # NoBuffer =>
              /\ act.cons \in DOMAIN all /\ all[act.cons].kind = "cons" /\ all[act.cons].cdr = Nil
              /\ \E h \in DOMAIN all :
                   forms[EvaledOffset(below) + 2] = Object(h) /\ Leads(h, act.cons, all)

DoubleQuoteHolds(act, below, forms) ==
  act.held \subseteq IF act.pc = "chars" THEN Ids({forms[EvaledOffset(below) + 2]}) ELSE {}

SingleQuoteHolds(act, below, forms, all, packs) ==
  CASE act.pc \in {"intern", "read"} ->
         /\ act.held = Ids({act.stream})
         /\ \E h \in DOMAIN all :
              /\ forms[EvaledOffset(below) + 1] = Object(h)
              /\ all[h].kind = "cons" /\ all[h].car = act.stream
    [] act.pc = "quote" -> \A id \in act.held : InternedId(id, packs)
    [] OTHER            -> act.held \subseteq Ids({forms[EvaledOffset(below) + 2]})

ReplHolds(act, i, envs, all, packs) ==
  CASE act.pc = "gensym" -> act.held = {}
    [] act.pc = "string" -> NewSymbol(act.held, all, packs)
    [] OTHER             -> act.held = {act.string} /\ BoundInFrame(act.string, i, envs, all)

(* What activation i holds, and where that is to be found.                 *)
HoldsAt(i, act, below, forms, envs, all, packs) ==
  /\ act.fn = "call" => CallHolds(act, forms)
  /\ act.fn = "intern_symbol" => InternHolds(act, below)
  /\ act.fn = "READ" => ReadHolds(act, i, envs, all, packs)
  /\ act.fn = "(" => OpenParenHolds(act, below, i, forms, envs, all, packs)
  /\ act.fn = "\"" => DoubleQuoteHolds(act, below, forms)
  /\ act.fn = "'" => SingleQuoteHolds(act, below, forms, all, packs)
  /\ act.fn = "REPL" => ReplHolds(act, i, envs, all, packs)

(* Calls and readers alternate, and each call under way has its frame.     *)
FramesOf(n, act) ==
  CASE act.fn = "initialize_runtime" \/ act.fn \in Readers -> n + 1
    [] act.fn = "call" /\ act.pc # "begin"                 -> n + 2
    [] OTHER                                               -> n

(* What was returned last is among the last returns, except while it is    *)
(* returned; a call that runs will overwrite the last return of its own.   *)
Returning(act) ==
  (act.fn = "call" /\ act.pc = "return") \/ (act.fn = "READ" /\ act.pc = "interned")

ValueKept(val, act, lasts, packs) ==
  \/ Returning(act)
  \/ val[1] # "object" \/ InternedId(val[2], packs)
  \/ \E k \in 1 .. Len(lasts) - (IF act.fn = "call" /\ act.pc = "arguments" THEN 1 ELSE 0) :
       val = lasts[k]

(* QUOTE is interned where "'" is about to use it.                         *)
QuoteKept(val, act, packs) ==
  act.fn = "'" /\ act.pc = "read" => InternedId(val[2], packs)

RunOK ==
  /\ 2 * Len(frame_stack) = FramesOf(Len(acts), Top)
  /\ ValueKept(value, Top, last_return_value, packages)
  /\ QuoteKept(value, Top, packages)
  /\ \A i \in 2 .. Len(acts) :
       HoldsAt(i, acts[i], acts[i - 1], form_stack, frame_stack, objects, packages)

(* What the start was to intern up to now is there, but for the symbol     *)
(* that intern_symbol is about to; the last one is then the value.         *)
InternedBy(i, packs) ==
  Chars(InitializeRuntime[i].name) \in DOMAIN packs[InitializeRuntime[i].of].interned

InternedSoFar ==
  \A i \in 1 .. acts[1].pc - 1 : Does(i, "intern") =>
    (Len(acts) # 1 /\ i = acts[1].pc - 1) \/ InternedBy(i, packages)

LastIsValue(packs, val) ==
  LET it == InitializeRuntime[Steps - 3]
  IN  InternedBy(Steps - 3, packs) /\ val = Object(packs[it.of].interned[Chars(it.name)])

ReadyOK == InternedSoFar /\ (Steps - 2 <= acts[1].pc => LastIsValue(packages, value))

----------------------------------------------------------------------------
(* References lead to objects                                              *)

(* What Inv leaves open of it: strings and environments.                   *)
FilledOK(o, all) ==
  /\ o.kind = "string" => o.lexeme = Null \/ o.lexeme \in DOMAIN all
  /\ o.kind = "environment" =>
       /\ \A s \in DOMAIN o.values : s \in DOMAIN all /\ FormOK(o.values[s], all)
       /\ \A s \in DOMAIN o.functions : s \in DOMAIN all /\ o.functions[s] \in DOMAIN all

Filled == \A id \in DOMAIN objects : FilledOK(objects[id], objects)

(* What is bound in an environment stays bound.                            *)
KeepsBindings(all, new) ==
  \A e \in Environments(all) : \A s \in DOMAIN all[e].values :
    s \in DOMAIN new[e].values /\ new[e].values[s] = all[e].values[s]

LEMMA HeapIsClosed ==
  ASSUME Inv, Filled
  PROVE  HeapClosed
<1> SUFFICES ASSUME NEW id \in DOMAIN objects  PROVE Marks(id) \subseteq DOMAIN objects
  BY DEF HeapClosed
<1> DEFINE o == objects[id]
<1>1. ObjectOK(o, id, objects, packages) /\ FilledOK(o, objects)
  BY DEF Inv, ObjectsOK, HeapOK, Filled
<1>2. Marks(id) =
        CASE o.kind = "cons" -> Ids({o.car, o.cdr})
          [] o.kind \in {"symbol", "string"} -> {o.lexeme} \ {Null}
          [] o.kind = "environment" ->
               ({o.parent} \ {Null})
               \cup DOMAIN o.values \cup Ids({o.values[s] : s \in DOMAIN o.values})
               \cup DOMAIN o.functions \cup {o.functions[s] : s \in DOMAIN o.functions}
          [] OTHER -> {}
  BY DEF Marks
<1> HIDE DEF o
<1>3. CASE o.kind = "cons"
  <2>1. FormOK(o.car, objects) /\ FormOK(o.cdr, objects)
    <3>1. ConsOK(o, id, objects)
      BY <1>1, <1>3 DEF ObjectOK
    <3>2. FormOK(Nil, objects) /\ \A k \in DOMAIN objects : FormOK(Object(k), objects)
      BY DEF FormOK, Object, Nil
    <3> QED  BY <3>1, <3>2 DEF ConsOK
  <2>2. Marks(id) = Ids({o.car, o.cdr})
    BY <1>2, <1>3
  <2> QED  BY <2>1, <2>2 DEF Ids, FormOK
<1>4. CASE o.kind = "symbol"
  <2>1. SymbolOK(o, objects, packages)
    BY <1>1, <1>4 DEF ObjectOK
  <2> QED  BY <1>2, <1>4, <2>1 DEF SymbolOK, Is
<1>5. CASE o.kind = "string"
  BY <1>1, <1>2, <1>5 DEF FilledOK
<1>6. CASE o.kind = "environment"
  <2>1. EnvironmentOK(o, id, objects, packages)
    BY <1>1, <1>6 DEF ObjectOK
  <2>2. {o.parent} \ {Null} \subseteq DOMAIN objects
    BY <2>1 DEF EnvironmentOK, Is
  <2>3. Ids({o.values[s] : s \in DOMAIN o.values}) \subseteq DOMAIN objects
    <3> SUFFICES ASSUME NEW s \in DOMAIN o.values, o.values[s][1] = "object"
                 PROVE  o.values[s][2] \in DOMAIN objects
      BY DEF Ids
    <3> QED  BY <1>1, <1>6 DEF FilledOK, FormOK
  <2>4. /\ DOMAIN o.values \subseteq DOMAIN objects /\ DOMAIN o.functions \subseteq DOMAIN objects
        /\ {o.functions[s] : s \in DOMAIN o.functions} \subseteq DOMAIN objects
    BY <1>1, <1>6 DEF FilledOK
  <2>5. Marks(id) = ({o.parent} \ {Null})
               \cup DOMAIN o.values \cup Ids({o.values[s] : s \in DOMAIN o.values})
               \cup DOMAIN o.functions \cup {o.functions[s] : s \in DOMAIN o.functions}
    BY <1>2, <1>6
  <2> QED  BY <2>2, <2>3, <2>4, <2>5
<1>7. CASE o.kind \notin {"cons", "symbol", "string", "environment"}
  BY <1>2, <1>7
<1> QED  BY <1>3, <1>4, <1>5, <1>6, <1>7

LEMMA FilledStays ==
  ASSUME NEW o, NEW all, NEW new, FilledOK(o, all), DOMAIN all \subseteq DOMAIN new
  PROVE  FilledOK(o, new)
BY DEF FilledOK, FormOK

(* A step that leaves strings and environments as they are, but for some   *)
(* that it fills.                                                          *)
LEMMA FillsOn ==
  ASSUME Filled, NEW o, Allocated(o), FilledOK(o, objects'),
         \A id \in DOMAIN objects :
           \/ objects'[id] = objects[id]
           \/ objects'[id].kind \notin {"string", "environment"}
           \/ FilledOK(objects'[id], objects')
  PROVE  Filled'
<1> SUFFICES ASSUME NEW id \in DOMAIN objects'  PROVE FilledOK(objects'[id], objects')
  BY DEF Filled
<1>1. CASE id = Fresh
  BY <1>1 DEF Allocated
<1>2. CASE id \in DOMAIN objects
  <2>1. CASE objects'[id] = objects[id]
    <3>1. FilledOK(objects[id], objects) /\ DOMAIN objects \subseteq DOMAIN objects'
      BY <1>2 DEF Filled, Allocated
    <3> QED  BY <2>1, <3>1, FilledStays
  <2>2. CASE objects'[id].kind \notin {"string", "environment"}
    BY <2>2 DEF FilledOK
  <2> QED  BY <1>2, <2>1, <2>2
<1> QED  BY <1>1, <1>2 DEF Allocated

LEMMA NothingFills ==
  ASSUME objects' = objects
  PROVE  (Filled => Filled') /\ KeepsBindings(objects, objects')
BY DEF Filled, KeepsBindings, Environments

(* An allocation that alters no environment.                               *)
LEMMA BindingsStay ==
  ASSUME \A id \in DOMAIN objects :
           objects[id].kind = "environment" => objects'[id].values = objects[id].values
  PROVE  KeepsBindings(objects, objects')
BY DEF KeepsBindings, Environments

(* An environment in which a symbol is bound.                              *)
LEMMA BoundFills ==
  ASSUME NEW env, NEW sym, NEW form, NEW all, NEW packs, NEW new, HeapOK(all, packs),
         \A id \in DOMAIN all : FilledOK(all[id], all), DOMAIN all \subseteq DOMAIN new,
         sym \in DOMAIN all, FormOK(form, new)
  PROVE  /\ DOMAIN BoundTo(env, sym, form, all) = DOMAIN all
         /\ \A id \in DOMAIN all : FilledOK(BoundTo(env, sym, form, all)[id], new)
<1>1. PICK at : BoundTo(env, sym, form, all) = [all EXCEPT ![at].values = Inserted(@, sym, form)]
  BY DEF BoundTo
<1> DEFINE v == Inserted(all[at].values, sym, form)
           p == [all[at] EXCEPT !.values = v]
<1>2. /\ DOMAIN v = DOMAIN all[at].values \cup {sym} /\ v[sym] = form
      /\ \A s \in DOMAIN all[at].values : s # sym => v[s] = all[at].values[s]
  BY DEF Inserted
<1>3. BoundTo(env, sym, form, all) = [id \in DOMAIN all |-> IF id = at THEN p ELSE all[id]]
  BY <1>1
<1> HIDE DEF v
<1>4. ASSUME at \in DOMAIN all  PROVE FilledOK(p, new)
  <2> DEFINE q == all[at]
  <2>1. ObjectOK(q, at, all, packs) /\ FilledOK(q, all) /\ FilledOK(q, new)
    BY <1>4, FilledStays DEF HeapOK
  <2>2. DOMAIN v = DOMAIN q.values \cup {sym} /\ \A s \in DOMAIN q.values : s # sym => v[s] = q.values[s]
    BY <1>2
  <2>3. p = [q EXCEPT !.values = v]
    OBVIOUS
  <2> HIDE DEF q, p
  <2>4. CASE q.kind = "environment"
    <3>1. p = [kind |-> "environment", parent |-> q.parent, package |-> q.package,
               values |-> v, functions |-> q.functions]
      BY <2>1, <2>3, <2>4, ValuesOnlyInEnvironments
    <3>2. p.kind = "environment" /\ p.values = v /\ p.functions = q.functions
      BY <3>1
    <3>3. ASSUME NEW s \in DOMAIN v  PROVE s \in DOMAIN new /\ FormOK(v[s], new)
      BY <1>2, <2>1, <2>2, <2>4 DEF FilledOK
    <3> QED  BY <2>1, <2>4, <3>2, <3>3 DEF FilledOK
  <2>5. CASE q.kind # "environment"
    <3>1. p = q
      BY <2>1, <2>3, <2>5, ValuesOnlyInEnvironments
    <3> QED  BY <2>1, <3>1
  <2> QED  BY <2>4, <2>5
<1>5. \A id \in DOMAIN all : FilledOK(all[id], new)
  BY FilledStays
<1> HIDE DEF p
<1> QED  BY <1>3, <1>4, <1>5

(* A symbol that is bound nowhere is bound where bind_value starts.        *)
LEMMA UnboundIsBoundHere ==
  ASSUME NEW all, NEW packs, HeapOK(all, packs), NEW env \in Environments(all), NEW sym, NEW form,
         \A e \in Environments(all) : sym \notin DOMAIN all[e].values
  PROVE  BoundTo(env, sym, form, all) = [all EXCEPT ![env].values = Inserted(@, sym, form)]
<1> DEFINE S == Environments(all)
           K == Size(all)
           R(f) == [e \in S |-> IF sym \in DOMAIN all[e].values THEN e
                                ELSE IF all[e].parent = Null THEN Null ELSE f[all[e].parent]]
           binder == CHOOSE f : f = R(f)
<1>1. K \in Nat /\ DOMAIN all = 0 .. K - 1
  BY SizeIs
<1>2. ASSUME NEW x \in S
      PROVE  x \in Nat /\ (all[x].parent = Null \/ (all[x].parent \in S /\ all[x].parent < x))
  <2>1. x \in DOMAIN all /\ all[x].kind = "environment"
    BY DEF Environments
  <2>2. EnvironmentOK(all[x], x, all, packs)
    BY <2>1 DEF HeapOK, ObjectOK
  <2> QED  BY <1>1, <2>1, <2>2 DEF EnvironmentOK, Is, Environments
<1>3. \A e \in S : sym \notin DOMAIN all[e].values
  OBVIOUS
<1> HIDE DEF K, S
<1>4. \E f : f = R(f)
  <2> DEFINE f == [e \in S |-> Null]
  <2>1. \A e \in S : f[e] = R(f)[e]
    BY <1>2, <1>3
  <2> HIDE DEF f
  <2>2. f = [e \in S |-> f[e]] /\ R(f) = [e \in S |-> R(f)[e]]
    BY DEF f
  <2> HIDE DEF R
  <2> QED  BY <2>1, <2>2
<1>5. binder = R(binder)
  <2> HIDE DEF R
  <2> QED  BY <1>4
<1>6. BoundTo(env, sym, form, all) =
        LET at == IF binder[env] = Null THEN env ELSE binder[env]
        IN  [all EXCEPT ![at].values = Inserted(@, sym, form)]
  BY DEF BoundTo, S
<1> HIDE DEF binder
<1>7. \A e \in S : binder[e] = IF all[e].parent = Null THEN Null ELSE binder[all[e].parent]
  BY <1>3, <1>5
<1> DEFINE Others == {e \in S : binder[e] # Null}
<1>8. ASSUME Others # {}  PROVE FALSE
  <2>1. Others \subseteq Nat
    BY <1>2
  <2>2. PICK e \in Others : \A y \in Others : e <= y
    <3> HIDE DEF Others
    <3> QED  BY <1>8, <2>1, LeastIs
  <2>3. all[e].parent # Null /\ binder[all[e].parent] # Null
    BY <1>7, <2>2
  <2>4. all[e].parent \in Others /\ all[e].parent < e
    BY <1>2, <2>2, <2>3
  <2>5. e <= all[e].parent /\ e \in Nat /\ all[e].parent \in Nat
    BY <2>1, <2>2, <2>4
  <2> QED  BY <2>4, <2>5
<1>9. binder[env] = Null
  BY <1>8 DEF S
<1> QED  BY <1>6, <1>9

LEMMA NewBinding ==
  ASSUME NEW all, NEW packs, HeapOK(all, packs), NEW env \in Environments(all), NEW sym, NEW form,
         \A e \in Environments(all) : sym \notin DOMAIN all[e].values
  PROVE  LET new == BoundTo(env, sym, form, all)
         IN  /\ DOMAIN new = DOMAIN all /\ \A id \in DOMAIN all \ {env} : new[id] = all[id]
             /\ new[env].kind = "environment"
             /\ sym \in DOMAIN new[env].values /\ new[env].values[sym] = form
             /\ \A s \in DOMAIN all[env].values :
                  s \in DOMAIN new[env].values /\ new[env].values[s] = all[env].values[s]
<1> DEFINE new == BoundTo(env, sym, form, all)
           q == all[env]
           v == Inserted(q.values, sym, form)
<1>1. DOMAIN v = DOMAIN q.values \cup {sym} /\ v[sym] = form
      /\ \A s \in DOMAIN q.values : s # sym => v[s] = q.values[s]
  BY DEF Inserted
<1>2. env \in DOMAIN all /\ q.kind = "environment" /\ ObjectOK(q, env, all, packs)
      /\ sym \notin DOMAIN q.values
  BY DEF Environments, HeapOK
<1> HIDE DEF v
<1>3. new = [all EXCEPT ![env].values = v]
  BY UnboundIsBoundHere DEF v
<1>4. DOMAIN new = DOMAIN all /\ new[env] = [q EXCEPT !.values = v]
      /\ \A id \in DOMAIN all \ {env} : new[id] = all[id]
  BY <1>2, <1>3
<1> HIDE DEF new, q
<1>5. [q EXCEPT !.values = v] = [kind |-> "environment", parent |-> q.parent, package |-> q.package,
                                 values |-> v, functions |-> q.functions]
  BY <1>2, ValuesOnlyInEnvironments
<1>6. new[env].kind = "environment" /\ new[env].values = v
  BY <1>4, <1>5
<1> QED  BY <1>1, <1>2, <1>4, <1>6 DEF new, q

(* A plain allocation, a cons that is linked, a text.                      *)
LEMMA PlainFills ==
  ASSUME NEW o, Allocated(o), \A id \in DOMAIN objects : objects'[id] = objects[id]
  PROVE  /\ Filled /\ FilledOK(o, objects') => Filled'
         /\ KeepsBindings(objects, objects')
<1>1. KeepsBindings(objects, objects')
  BY BindingsStay
<1> QED  BY <1>1, FillsOn

LEMMA BareFills ==
  ASSUME NEW o, NEW all, o.kind \notin {"string", "environment"} \/ o = String
                 \/ \E parent, p : o = Environment(parent, p)
  PROVE  FilledOK(o, all)
<1>1. CASE o.kind \notin {"string", "environment"}
  BY <1>1 DEF FilledOK
<1>2. CASE o = String
  BY <1>2 DEF String, FilledOK
<1>3. CASE \E parent, p : o = Environment(parent, p)
  <2>1. PICK parent, p : o = Environment(parent, p)
    BY <1>3
  <2>2. o.kind = "environment" /\ o.values = << >> /\ o.functions = << >>
    BY <2>1 DEF Environment
  <2>3. DOMAIN << >> = {}
    BY EmptySeq
  <2> QED  BY <2>2, <2>3 DEF FilledOK
<1> QED  BY <1>1, <1>2, <1>3

LEMMA AlteredFills ==
  ASSUME NEW o, Allocated(o), o.kind \notin {"string", "environment"},
         Grows(objects, objects'), NEW c, c \in DOMAIN objects => objects[c].kind # "environment",
         \A id \in DOMAIN objects : id # c => objects'[id] = objects[id],
         c \in DOMAIN objects /\ objects[c].kind = "string" => objects'[c].lexeme \in DOMAIN objects'
  PROVE  (Filled => Filled') /\ KeepsBindings(objects, objects')
<1>1. FilledOK(o, objects')
  BY BareFills
<1>2. ASSUME NEW id \in DOMAIN objects
      PROVE  \/ objects'[id] = objects[id]
             \/ objects'[id].kind \notin {"string", "environment"}
             \/ FilledOK(objects'[id], objects')
  <2>1. CASE id = c
    <3>1. objects'[c].kind = objects[c].kind /\ objects[c].kind # "environment"
      BY <2>1 DEF Grows, Lasts
    <3> QED  BY <2>1, <3>1 DEF FilledOK
  <2> QED  BY <2>1
<1>3. KeepsBindings(objects, objects')
  <2>1. \A id \in DOMAIN objects :
          objects[id].kind = "environment" => objects'[id].values = objects[id].values
    <3> SUFFICES ASSUME NEW id \in DOMAIN objects, objects[id].kind = "environment"
                 PROVE  objects'[id] = objects[id]
      OBVIOUS
    <3> QED  OBVIOUS
  <2> QED  BY <2>1, BindingsStay
<1> QED  BY <1>1, <1>2, <1>3, FillsOn

----------------------------------------------------------------------------
(* What a step leaves as it is                                             *)

(* What a step makes of the activations.                                   *)
Moves ==
  \/ acts' = acts \/ acts' = Below
  \/ \E act : acts' = Append(Below, act)
  \/ \E act, callee : acts' = Below \o <<act, callee>>

LEMMA StepMoves ==
  ASSUME Next, Top.fn # "initialize_runtime"
  PROVE  Moves /\ rt' = rt
<1>1. CASE Running /\ (Boots \/ Interns) /\ UNCHANGED <<files, session>>
  <2>1. ~Boots
    <3>1. \A do : ~At(do)
      BY DEF At
    <3> QED  BY <3>1 DEF Boots, BootReadtable, BootPackage, BootIntern, BootBindConstants,
              BootFunction, BootBindFunction, BootListPackages, BootInterpreter
  <2>2. ASSUME InternFinds  PROVE Moves /\ rt' = rt
    BY <2>2 DEF Moves, InternFinds, Returns, image
  <2>3. ASSUME InternAllocatesSymbol  PROVE Moves /\ rt' = rt
    BY <2>3 DEF Moves, InternAllocatesSymbol, Becomes, image
  <2>4. ASSUME InternAllocatesName  PROVE Moves /\ rt' = rt
    BY <2>4 DEF Moves, InternAllocatesName, Returns
  <2> QED  BY <1>1, <2>1, <2>2, <2>3, <2>4 DEF Interns
<1>2. CASE CallBegins \/ CallTakesArg \/ CallReturns
  <2>1. ASSUME CallBegins  PROVE Moves /\ rt' = rt
    BY <2>1 DEF Moves, CallBegins, Becomes, image, session
  <2>2. ASSUME CallTakesArg  PROVE Moves /\ rt' = rt
    BY <2>2 DEF Moves, CallTakesArg, Becomes, image, session
  <2>3. ASSUME CallReturns  PROVE Moves /\ rt' = rt
    BY <2>3 DEF Moves, CallReturns, Returns, image, session
  <2> QED  BY <1>2, <2>1, <2>2, <2>3
<1>3. CASE Reads
  <2>1. ASSUME ReadStarts  PROVE Moves /\ rt' = rt
    BY <2>1 DEF Moves, ReadStarts, Invokes, Calls, image, session
  <2>2. ASSUME ReadGensyms  PROVE Moves /\ rt' = rt
    BY <2>2 DEF Moves, ReadGensyms, Becomes, session
  <2>3. ASSUME ReadAllocatesStream  PROVE Moves /\ rt' = rt
    BY <2>3 DEF Moves, ReadAllocatesStream, Becomes, image, session
  <2>4. ASSUME ReadSkipsWhitespace  PROVE Moves /\ rt' = rt
    BY <2>4 DEF Moves, ReadSkipsWhitespace, image, session
  <2>5. ASSUME ReadCallsMacro  PROVE Moves /\ rt' = rt
    BY <2>5 DEF Moves, ReadCallsMacro, CallsFunction, image, session, Calls
  <2>6. ASSUME ReadStartsToken  PROVE Moves /\ rt' = rt
    BY <2>6 DEF Moves, ReadStartsToken, Gathers, Becomes, image, session
  <2>7. ASSUME ReadStep8  PROVE Moves /\ rt' = rt
    BY <2>7 DEF Moves, ReadStep8, Gathers, Becomes, image, session
  <2>8. ASSUME ReadStep9  PROVE Moves /\ rt' = rt
    BY <2>8 DEF Moves, ReadStep9, Goes, Gathers, image, session, Becomes
  <2>9. ASSUME ReadEndsToken  PROVE Moves /\ rt' = rt
    BY <2>9 DEF Moves, ReadEndsToken, Goes, image, session, Becomes
  <2>10. ASSUME ReadNumber  PROVE Moves /\ rt' = rt
    BY <2>10 DEF Moves, ReadNumber, Returns, image, session
  <2>11. ASSUME ReadSymbol  PROVE Moves /\ rt' = rt
    BY <2>11 DEF Moves, ReadSymbol, Calls, image, session
  <2>12. ASSUME ReadReturns  PROVE Moves /\ rt' = rt
    BY <2>12 DEF Moves, ReadReturns, Returns, image, session
  <2>13. ASSUME ReadFails  PROVE Moves /\ rt' = rt
    BY <2>13 DEF Moves, ReadFails, Ends, image
  <2>14. ASSUME ReadCallsNothing  PROVE Moves /\ rt' = rt
    BY <2>14 DEF Moves, ReadCallsNothing, Ends, image
  <2> QED  BY <1>3, <2>1, <2>2, <2>3, <2>4, <2>5, <2>6, <2>7, <2>8, <2>9, <2>10, <2>11, <2>12,
     <2>13, <2>14 DEF Reads
<1>4. CASE ReadsList
  <2>1. ASSUME OpenParenStarts  PROVE Moves /\ rt' = rt
    BY <2>1 DEF Moves, OpenParenStarts, Invokes, Calls, image, session
  <2>2. ASSUME OpenParenScans  PROVE Moves /\ rt' = rt
    BY <2>2 DEF Moves, OpenParenScans, Becomes, image, session
  <2>3. ASSUME OpenParenCopies  PROVE Moves /\ rt' = rt
    BY <2>3 DEF Moves, OpenParenCopies, Becomes, image, session
  <2>4. ASSUME OpenParenGensyms  PROVE Moves /\ rt' = rt
    BY <2>4 DEF Moves, OpenParenGensyms, Becomes, session
  <2>5. ASSUME OpenParenAllocatesStream  PROVE Moves /\ rt' = rt
    BY <2>5 DEF Moves, OpenParenAllocatesStream, Becomes, image, session
  <2>6. ASSUME OpenParenReads  PROVE Moves /\ rt' = rt
    BY <2>6 DEF Moves, OpenParenReads, CallsFunction, image, session, Calls
  <2>7. ASSUME OpenParenBeginsList  PROVE Moves /\ rt' = rt
    BY <2>7 DEF Moves, OpenParenBeginsList, Links, image, session, Becomes
  <2>8. ASSUME OpenParenExtendsList  PROVE Moves /\ rt' = rt
    BY <2>8 DEF Moves, OpenParenExtendsList, Links, image, session, Becomes
  <2>9. ASSUME OpenParenLoses  PROVE Moves /\ rt' = rt
    BY <2>9 DEF Moves, OpenParenLoses, Ends, image
  <2>10. ASSUME OpenParenReturns  PROVE Moves /\ rt' = rt
    BY <2>10 DEF Moves, OpenParenReturns, Returns, image, session
  <2>11. ASSUME OpenParenLoops  PROVE Moves /\ rt' = rt
    BY <2>11 DEF Moves, OpenParenLoops, Ends, image
  <2>12. ASSUME CloseParenAborts  PROVE Moves /\ rt' = rt
    BY <2>12 DEF Moves, CloseParenAborts, Ends, image
  <2> QED  BY <1>4, <2>1, <2>2, <2>3, <2>4, <2>5, <2>6, <2>7, <2>8, <2>9, <2>10, <2>11,
     <2>12 DEF ReadsList
<1>5. CASE ReadsQuoted
  <2>1. ASSUME DoubleQuoteStarts  PROVE Moves /\ rt' = rt
    BY <2>1 DEF Moves, DoubleQuoteStarts, Invokes, Calls, image, session
  <2>2. ASSUME DoubleQuoteScans  PROVE Moves /\ rt' = rt
    BY <2>2 DEF Moves, DoubleQuoteScans, Becomes, Goes, image, session
  <2>3. ASSUME DoubleQuoteLoops  PROVE Moves /\ rt' = rt
    BY <2>3 DEF Moves, DoubleQuoteLoops, Ends, image
  <2>4. ASSUME DoubleQuoteAllocatesString  PROVE Moves /\ rt' = rt
    BY <2>4 DEF Moves, DoubleQuoteAllocatesString, Becomes, image, session
  <2>5. ASSUME DoubleQuoteReturns  PROVE Moves /\ rt' = rt
    BY <2>5 DEF Moves, DoubleQuoteReturns, Returns, image, session
  <2>6. ASSUME SingleQuoteStarts  PROVE Moves /\ rt' = rt
    BY <2>6 DEF Moves, SingleQuoteStarts, Invokes, Calls, image, session
  <2>7. ASSUME SingleQuoteInterns  PROVE Moves /\ rt' = rt
    BY <2>7 DEF Moves, SingleQuoteInterns, Calls, image, session
  <2>8. ASSUME SingleQuoteReads  PROVE Moves /\ rt' = rt
    BY <2>8 DEF Moves, SingleQuoteReads, CallsFunction, image, session, Calls
  <2>9. ASSUME SingleQuoteBegins  PROVE Moves /\ rt' = rt
    BY <2>9 DEF Moves, SingleQuoteBegins, Becomes, image, session
  <2>10. ASSUME SingleQuoteReturns  PROVE Moves /\ rt' = rt
    BY <2>10 DEF Moves, SingleQuoteReturns, Returns, image, session
  <2> QED  BY <1>5, <2>1, <2>2, <2>3, <2>4, <2>5, <2>6, <2>7, <2>8, <2>9, <2>10 DEF ReadsQuoted
<1>6. CASE Repl
  <2>1. ASSUME ReplStarts  PROVE Moves /\ rt' = rt
    BY <2>1 DEF Moves, ReplStarts, Invokes, Calls, image, session
  <2>2. ASSUME ReplGensyms  PROVE Moves /\ rt' = rt
    BY <2>2 DEF Moves, ReplGensyms, Becomes, session
  <2>3. ASSUME ReplAllocatesString  PROVE Moves /\ rt' = rt
    BY <2>3 DEF Moves, ReplAllocatesString, Becomes, image, session
  <2>4. ASSUME ReplAllocatesChars  PROVE Moves /\ rt' = rt
    BY <2>4 DEF Moves, ReplAllocatesChars, Goes, image, session, Becomes
  <2>5. ASSUME UserTypes  PROVE Moves /\ rt' = rt
    BY <2>5 DEF Moves, UserTypes, image, session
  <2>6. ASSUME ReplReads  PROVE Moves /\ rt' = rt
    BY <2>6 DEF Moves, ReplReads, CallsFunction, image, session, Calls
  <2>7. ASSUME ReplFormats  PROVE Moves /\ rt' = rt
    BY <2>7 DEF Moves, ReplFormats, image
  <2>8. ASSUME ReplQuits  PROVE Moves /\ rt' = rt
    BY <2>8 DEF Moves, ReplQuits, Ends, image
  <2>9. ~BootCallsRepl
    BY DEF BootCallsRepl, At
  <2> QED  BY <1>6, <2>1, <2>2, <2>3, <2>4, <2>5, <2>6, <2>7, <2>8, <2>9 DEF Repl
<1> QED  BY <1>1, <1>2, <1>3, <1>4, <1>5, <1>6 DEF Next

LEMMA StartIsKept ==
  ASSUME Inv, Moves, 2 <= Len(acts)
  PROVE  acts'[1] = acts[1]
<1> DEFINE n == Len(acts)
<1>1. IsSeq(acts) /\ n \in Nat
  BY SeqIs DEF Inv, ActsOK
<1>2. IsSeq(Below) /\ Len(Below) = n - 1 /\ \A i \in 1 .. n - 1 : Below[i] = acts[i]
  BY <1>1, FrontIs DEF Below
<1> HIDE DEF n
<1>3. 1 \in 1 .. n - 1 /\ 1 <= Len(Below) /\ 1 \in 1 .. Len(Below) /\ Below[1] = acts[1]
  BY <1>1, <1>2 DEF n
<1>4. ASSUME NEW act, acts' = Append(Below, act)  PROVE acts'[1] = acts[1]
  BY <1>2, <1>3, <1>4, AppendIs
<1>5. ASSUME NEW act, NEW callee, acts' = Below \o <<act, callee>>  PROVE acts'[1] = acts[1]
  <2>1. IsSeq(<<act, callee>>) /\ Len(<<act, callee>>) = 2
    BY PairIs
  <2>2. \A i \in 1 .. Len(Below) + 2 :
          (Below \o <<act, callee>>)[i] = IF i <= Len(Below) THEN Below[i] ELSE <<act, callee>>[i - Len(Below)]
    BY <1>2, <2>1, ConcatIs
  <2>3. 1 \in 1 .. Len(Below) + 2
    BY <1>1, <1>2, <1>3
  <2> QED  BY <1>3, <1>5, <2>2, <2>3
<1> QED  BY <1>3, <1>4, <1>5 DEF Moves

(* A step of a function leaves the others undisturbed, and some leave all  *)
(* that is kept here.                                                      *)
LEMMA NextDisturbsNone ==
  ASSUME InitializesInOrder, Inv, Next, Top.fn # "initialize_runtime"
  PROVE  Undisturbed \/ UNCHANGED <<heap, image, stack, frames, acts, value>>
<1>1. CASE Running /\ (Boots \/ Interns) /\ UNCHANGED <<files, session>>
  <2>1. ~Boots
    <3>1. \A do : ~At(do)
      BY DEF At
    <3> QED  BY <3>1 DEF Boots, BootReadtable, BootPackage, BootIntern, BootBindConstants,
              BootFunction, BootBindFunction, BootListPackages, BootInterpreter
  <2>2. ended' = ended
    BY <1>1 DEF session
  <2> QED  BY <1>1, <2>1, <2>2, InternFindsKeeps, InternAllocatesSymbolKeeps, InternAllocatesNameKeeps
           DEF Interns
<1>2. CASE CallBegins \/ CallTakesArg \/ CallReturns
  BY <1>2, CallBeginsKeeps, CallTakesArgKeeps, CallReturnsKeeps
<1>3. ASSUME \/ ReadSkipsWhitespace \/ ReadFails \/ ReadCallsNothing \/ UserTypes
             \/ OpenParenLoses \/ OpenParenLoops \/ CloseParenAborts \/ DoubleQuoteLoops \/ ReplQuits
      PROVE  UNCHANGED <<heap, image, stack, frames, acts, value>>
  BY <1>3 DEF ReadSkipsWhitespace, ReadFails, ReadCallsNothing, UserTypes, OpenParenLoses,
     OpenParenLoops, CloseParenAborts, DoubleQuoteLoops, ReplQuits, Ends
<1>4. CASE Reads
  BY <1>3, <1>4, StartsKeep, ReadGensymsKeeps, ReadAllocatesStreamKeeps,
     ReadCallsMacroKeeps, ReadTokenKeeps, ReadReturnsKeeps, ReadSymbolKeeps DEF Reads
<1>5. CASE ReadsList
  BY <1>3, <1>5, StartsKeep, OpenParenFillsKeeps, OpenParenBindsKeeps, OpenParenReadsKeeps,
     OpenParenBeginsListKeeps, OpenParenExtendsListKeeps, OpenParenReturnsKeeps DEF ReadsList
<1>6. CASE ReadsQuoted
  BY <1>3, <1>6, StartsKeep, DoubleQuoteScansKeeps, DoubleQuoteAllocatesStringKeeps,
     DoubleQuoteReturnsKeeps, SingleQuoteInternsKeeps, SingleQuoteReadsKeeps,
     SingleQuoteBeginsKeeps, SingleQuoteReturnsKeeps DEF ReadsQuoted
<1>7. CASE Repl
  <2>1. ~BootCallsRepl
    BY DEF BootCallsRepl, At
  <2> QED
    BY <1>3, <1>7, <2>1, StartsKeep, ReplBindsKeeps, ReplAllocatesCharsKeeps, ReplReadsKeeps,
       ReplFormatsKeeps DEF Repl
<1> QED  BY <1>1, <1>2, <1>4, <1>5, <1>6, <1>7 DEF Next

----------------------------------------------------------------------------
(* The start, which is over before a collection may run                    *)

LEMMA StartBytesIs ==
  ASSUME InitializesInOrder, StartFits
  PROVE  /\ StartBytes[0] = 0 /\ StartBytes \in [0 .. Steps -> Nat]
         /\ \A i \in 1 .. Steps :
              AllocatedBy(i) \in Nat /\ StartBytes[i] = StartBytes[i - 1] + AllocatedBy(i)
<1> DEFINE S == 0 .. Steps
           m == [x \in S |-> x]
           nx == [x \in S |-> x - 1]
           step == [x \in S |-> [v \in Nat |-> IF x = 0 THEN v ELSE v + AllocatedBy(x)]]
           start == [x \in S |-> 0]
           R(f) == [i \in S |-> IF i = 0 THEN 0 ELSE f[i - 1] + AllocatedBy(i)]
           made == CHOOSE f : f = R(f)
<1>1. /\ Steps \in Nat /\ DOMAIN InitializeRuntime = 1 .. Steps
      /\ \A i \in 1 .. Steps : AllocatedBy(i) \in Nat
  BY OrderIs DEF StartFits
<1>2. StartBytes = made
  BY DEF StartBytes, Steps
<1> HIDE DEF Steps
<1>3. \E f \in [S -> Nat] : \A x \in S : f[x] = IF nx[x] \in S THEN step[x][f[nx[x]]] ELSE start[x]
  <2>1. m \in [S -> 0 .. Steps] /\ start \in [S -> Nat] /\ \A x \in S : nx[x] \in S => m[nx[x]] < m[x]
    BY <1>1
  <2>2. \A x \in S, v \in Nat : step[x][v] \in Nat
    BY <1>1
  <2> HIDE DEF S, m, nx, step, start
  <2>3. ComesToAnEnd(S, Nat, Steps, m, nx, step, start)
    BY <1>1, <2>1, <2>2 DEF ComesToAnEnd
  <2> QED  BY <2>3, RecursionIs
<1>4. PICK f \in [S -> Nat] : f = R(f)
  <2>1. PICK f \in [S -> Nat] : \A x \in S : f[x] = IF nx[x] \in S THEN step[x][f[nx[x]]] ELSE start[x]
    BY <1>3
  <2>2. ASSUME NEW x \in S  PROVE f[x] = IF x = 0 THEN 0 ELSE f[x - 1] + AllocatedBy(x)
    <3>1. CASE x = 0
      <4>1. nx[x] \notin S /\ start[x] = 0
        BY <1>1, <3>1
      <4> HIDE DEF nx, start, step
      <4> QED  BY <2>1, <3>1, <4>1
    <3>2. CASE x # 0
      <4>1. nx[x] = x - 1 /\ x - 1 \in S /\ f[x - 1] \in Nat
        BY <1>1, <3>2
      <4>2. step[x][f[x - 1]] = f[x - 1] + AllocatedBy(x)
        BY <3>2, <4>1
      <4> HIDE DEF nx, start, step
      <4> QED  BY <2>1, <3>2, <4>1, <4>2
    <3> QED  BY <3>1, <3>2
  <2>3. f = [x \in S |-> f[x]]
    OBVIOUS
  <2> HIDE DEF S
  <2> QED  BY <2>2, <2>3
<1>5. made = R(made)
  BY <1>4
<1> DEFINE Bad == {x \in S : made[x] \notin Nat}
<1>6. \A x \in S : made[x] = IF x = 0 THEN 0 ELSE made[x - 1] + AllocatedBy(x)
  <2> HIDE DEF made
  <2> QED  BY <1>5
<1> HIDE DEF made
<1>7. ASSUME Bad # {}  PROVE FALSE
  <2>1. PICK x \in Bad : \A y \in Bad : x <= y
    <3>1. Bad \subseteq Nat
      BY <1>1
    <3> HIDE DEF Bad
    <3> QED  BY <1>7, <3>1, LeastIs
  <2>2. x \in S /\ x # 0 /\ x - 1 \in S /\ x \in 1 .. Steps
    BY <1>1, <1>6, <2>1
  <2>3. x - 1 \notin Bad
    BY <1>1, <2>1, <2>2
  <2>4. made[x - 1] \in Nat
    BY <2>2, <2>3
  <2>5. AllocatedBy(x) \in Nat
    BY <1>1, <2>2
  <2>6. made[x] = made[x - 1] + AllocatedBy(x)
    BY <1>6, <2>2
  <2>7. made[x] \in Nat
    BY <2>4, <2>5, <2>6
  <2>8. made[x] \notin Nat
    BY <2>1
  <2> QED  BY <2>7, <2>8
<1>8. \A x \in S : made[x] \in Nat
  BY <1>7
<1>9. made = [x \in S |-> made[x]]
  <2>1. made = R(made)
    BY <1>5
  <2> QED  BY <2>1
<1>10. made \in [S -> Nat]
  BY <1>8, <1>9
<1>11. \A i \in 1 .. Steps : i \in S /\ i # 0
  BY <1>1
<1>12. 0 \in S
  BY <1>1
<1> QED  BY <1>1, <1>2, <1>6, <1>10, <1>11, <1>12

(* All that the start allocates stays below the first limit.               *)
LEMMA StartStaysBelow ==
  ASSUME InitializesInOrder, StartFits, NEW i \in 0 .. Steps
  PROVE  StartBytes[i] \in Nat /\ StartBytes[i] < FirstCollection
<1> DEFINE n == Steps
           f == StartBytes
           Bad == {k \in 0 .. n : ~(f[n - k] <= f[n])}
<1>1. /\ n \in Nat /\ f \in [0 .. n -> Nat] /\ f[n] < FirstCollection
      /\ \A k \in 1 .. n : AllocatedBy(k) \in Nat /\ f[k] = f[k - 1] + AllocatedBy(k)
  BY StartBytesIs, OrderIs DEF StartFits, Steps
<1>2. i \in 0 .. n
  OBVIOUS
<1> HIDE DEF n, f
<1>3. ASSUME Bad # {}  PROVE FALSE
  <2>1. PICK k \in Bad : \A y \in Bad : k <= y
    <3>1. Bad \subseteq Nat
      OBVIOUS
    <3> HIDE DEF Bad
    <3> QED  BY <1>3, <3>1, LeastIs
  <2>2. k \in 0 .. n /\ ~(f[n - k] <= f[n])
    BY <2>1
  <2>3. k # 0
    BY <1>1, <2>2
  <2>4. k - 1 \in 0 .. n /\ n - k + 1 \in 1 .. n /\ (n - k + 1) - 1 = n - k /\ n - (k - 1) = n - k + 1
        /\ n - k \in 0 .. n
    BY <1>1, <2>2, <2>3
  <2>5. k - 1 \notin Bad
    BY <2>1, <2>4
  <2>6. f[n - k + 1] <= f[n]
    BY <2>4, <2>5
  <2>7. f[n - k + 1] = f[n - k] + AllocatedBy(n - k + 1) /\ AllocatedBy(n - k + 1) \in Nat
    BY <1>1, <2>4
  <2>8. f[n - k] \in Nat /\ f[n] \in Nat
    BY <1>1, <2>4
  <2> QED  BY <2>2, <2>6, <2>7, <2>8
<1>4. n - i \in 0 .. n /\ n - (n - i) = i
  BY <1>1, <1>2
<1>5. f[i] <= f[n] /\ f[i] \in Nat /\ f[n] \in Nat
  <2>1. n - i \notin Bad
    BY <1>3
  <2>2. f[n - (n - i)] <= f[n]
    BY <1>4, <2>1
  <2>3. n - (n - i) = i
    BY <1>4
  <2>4. f[i] <= f[n]
    BY <2>2, <2>3
  <2> QED  BY <1>1, <1>2, <2>4
<1> QED  BY <1>1, <1>5, CollectionAssumption DEF f

StartInv == RuntimeOK /\ StartHolds /\ StartSpends

Lists(do)  == do = "list packages"
Plain(do)  == do \notin {"intern", "bind function"}
Early(do)  == do \notin {"list packages", "interpreter", "repl"}
BindsAt(i) == Does(i, "bind function")

(* An instruction that spends what it allocates, at most.                  *)
LEMMA SpendsOn ==
  ASSUME InitializesInOrder, StartFits, NEW pc \in 1 .. Steps,
         next_gc = FirstCollection, bytes \in Nat, NEW rest \in Nat, bytes + rest <= StartBytes[pc],
         NEW k \in Nat, NEW left \in Nat, k + left <= rest, bytes' = bytes + k,
         next_gc' = (IF bytes' >= next_gc THEN 2 * next_gc ELSE next_gc) \/ next_gc' = next_gc
  PROVE  next_gc' = FirstCollection /\ bytes' \in Nat /\ bytes' + left <= StartBytes[pc]
         /\ ~(bytes' >= next_gc)
<1> DEFINE f == StartBytes
<1>1. pc \in 0 .. Steps
  <2>1. Steps \in Nat
    BY OrderIs
  <2> HIDE DEF Steps
  <2> QED  BY <2>1
<1>2. f[pc] \in Nat /\ f[pc] < FirstCollection
  BY <1>1, StartStaysBelow
<1> HIDE DEF f
<1>3. bytes + rest <= f[pc]
  BY DEF f
<1>4. bytes' \in Nat /\ bytes' + left <= f[pc]
  BY <1>2, <1>3
<1>5. bytes' < FirstCollection
  BY <1>2, <1>4, CollectionAssumption
<1>6. ~(bytes' >= next_gc)
  BY <1>4, <1>5, CollectionAssumption
<1> QED  BY <1>4, <1>6 DEF f

(* What holds at the instruction that comes next.                          *)
LEMMA InstructionIs ==
  ASSUME InitializesInOrder, StartFits, Inv, StartInv, NEW do, At(do)
  PROVE  /\ Len(acts) = 1 /\ acts[1] = Top /\ Top.pc \in 1 .. Steps /\ Does(Top.pc, do)
         /\ Top.pc + 1 \in Nat /\ Steps \in Nat /\ Top.pc \in Nat /\ Top.pc + 1 - 1 = Top.pc
         /\ Top.pc < Steps =>
              /\ next_gc = FirstCollection /\ bytes \in Nat /\ AllocatedBy(Top.pc) \in Nat
              /\ bytes + AllocatedBy(Top.pc) <= StartBytes[Top.pc]
         /\ do # "repl" => Top.pc < Steps
         /\ Lists(do) => Top.pc = Steps - 2
         /\ do = "interpreter" => Top.pc = Steps - 1
         /\ Early(do) => Top.pc < Steps - 2
         /\ Plain(do) => Top.held = {}
<1> DEFINE pc == Top.pc
           n == Steps
<1>1. /\ Top.fn = "initialize_runtime" /\ Does(pc, do) /\ pc \in 1 .. n /\ pc \in Nat /\ n \in Nat
  BY BootDoes
<1>2. Len(acts) = 1 /\ acts[1] = Top
  BY <1>1, BootIs DEF Top, Last
<1>3. AllocatedBy(pc) \in Nat /\ StartBytes[pc] = StartBytes[pc - 1] + AllocatedBy(pc)
      /\ StartBytes[pc - 1] \in Nat
  <2>1. pc - 1 \in 0 .. n
    <3> HIDE DEF pc, n
    <3> QED  BY <1>1
  <2> QED  BY <1>1, <2>1, StartBytesIs
<1>4. pc < n => next_gc = FirstCollection /\ bytes \in Nat /\ bytes + 0 <= StartBytes[pc - 1]
  BY <1>2 DEF StartInv, StartSpends, ToCome
<1>5. /\ Lists(do) => pc = n - 2
      /\ do = "interpreter" => pc = n - 1
      /\ do # "repl" => pc # n
  <2>1. /\ Does(pc, "list packages") <=> pc = n - 2
        /\ Does(pc, "interpreter") <=> pc = n - 1
        /\ Does(pc, "repl") <=> pc = n
    BY <1>1 DEF InitializesInOrder, Steps
  <2> HIDE DEF pc, n
  <2>2. Does(pc, do)
    BY <1>1
  <2> QED  BY <2>1, <2>2, DoesOne DEF Lists
<1>6. Early(do) => pc < n - 2
  BY <1>1, PackageIsEarly DEF Early
<1>7. Plain(do) => Top.held = {}
  <2>1. ASSUME Plain(do), Does(pc, "bind function")  PROVE FALSE
    BY <1>1, <2>1, DoesOne DEF Plain
  <2>2. ASSUME Plain(do), Does(pc + 1, "bind function")  PROVE FALSE
    <3> DEFINE next == pc + 1
    <3>1. Does(next, "bind function")
      BY <2>2
    <3>2. next - 1 = pc
      <4> HIDE DEF pc
      <4> QED  BY <1>1
    <3> HIDE DEF next
    <3>3. Does(next - 1, "intern")
      BY <3>1, BindsInOrder
    <3> QED  BY <1>1, <2>2, <3>2, <3>3, DoesOne DEF Plain
  <2> QED  BY <1>2, <2>1, <2>2 DEF StartInv, StartHolds
<1> DEFINE f == StartBytes
           a == AllocatedBy(pc)
<1>8. f[pc] = f[pc - 1] + a /\ f[pc - 1] \in Nat /\ a \in Nat
      /\ (pc < n => next_gc = FirstCollection /\ bytes \in Nat /\ bytes + 0 <= f[pc - 1])
  BY <1>3, <1>4
<1> HIDE DEF pc, n, f, a
<1>9. pc < n => next_gc = FirstCollection /\ bytes \in Nat /\ a \in Nat /\ bytes + a <= f[pc]
  BY <1>8
<1>10. pc + 1 \in Nat /\ pc + 1 - 1 = pc /\ (do # "repl" => pc < n)
  BY <1>1, <1>5
<1> QED  BY <1>1, <1>2, <1>5, <1>6, <1>7, <1>9, <1>10 DEF pc, n, f, a

(* The start goes on with an instruction that leaves the runtime as it is. *)
LEMMA BootSpends ==
  ASSUME InitializesInOrder, StartFits, Inv, StartInv, NEW do, At(do), Early(do),
         NEW held, acts' = Append(Below, [fn |-> "initialize_runtime", pc |-> Top.pc + 1, held |-> held]),
         rt' = rt, NEW k \in Nat, k <= AllocatedBy(Top.pc), bytes' = bytes + k,
         next_gc' = (IF bytes' >= next_gc THEN 2 * next_gc ELSE next_gc) \/ next_gc' = next_gc,
         held = {} \/ BindsAt(Top.pc + 2)
  PROVE  StartInv' /\ ~CollectionRuns
<1> DEFINE pc == Top.pc
           n == Steps
           act == [fn |-> "initialize_runtime", pc |-> pc + 1, held |-> held]
           a == AllocatedBy(pc)
<1>1. /\ Len(acts) = 1 /\ acts[1] = Top /\ pc \in 1 .. n /\ Does(pc, do) /\ pc + 1 \in Nat /\ n \in Nat
      /\ pc \in Nat /\ pc + 1 - 1 = pc /\ pc < n - 2
      /\ next_gc = FirstCollection /\ bytes \in Nat /\ a \in Nat
      /\ bytes + a <= StartBytes[pc]
  <2>1. pc < n
    BY InstructionIs DEF Early
  <2> QED  BY <2>1, InstructionIs
<1>2. Len(acts') = 1 /\ acts'[1] = act
  <2>1. IsSeq(Below) /\ Len(Below) = 0
    BY <1>1, BootIs, BootDoes
  <2> HIDE DEF act
  <2> QED  BY <2>1, AppendedFirst DEF act
<1>3. next_gc' = FirstCollection /\ bytes' \in Nat /\ bytes' + 0 <= StartBytes[pc]
      /\ ~(bytes' >= next_gc)
  <2>1. k + 0 <= a
    BY <1>1
  <2> HIDE DEF n, a, pc
  <2> QED  BY <1>1, <2>1, SpendsOn DEF n
<1>4. act.pc = pc + 1 /\ act.held = held
  OBVIOUS
<1>5. StartSpends'
  <2>1. ToCome' = 0
    BY <1>2 DEF ToCome
  <2> HIDE DEF act
  <2> QED  BY <1>1, <1>2, <1>3, <1>4, <2>1 DEF StartSpends
<1>6. StartHolds'
  <2>1. pc + 2 = pc + 1 + 1
    <3> HIDE DEF pc
    <3> QED  BY <1>1
  <2> HIDE DEF act
  <2> QED  BY <1>2, <1>4, <2>1 DEF StartHolds, BindsAt
<1>7. RuntimeOK'
  <2>1. rt = [packages |-> rt.packages, interpreter |-> rt.interpreter]
        /\ rt.packages = (IF n - 2 < pc THEN ToSet(PackageNames) ELSE {})
        /\ (IF n <= pc THEN rt.interpreter \in DOMAIN objects ELSE rt.interpreter = Null)
    BY <1>1 DEF StartInv, RuntimeOK
  <2> HIDE DEF pc, n, act
  <2>2. ~(n - 2 < pc) /\ ~(n <= pc) /\ ~(n - 2 < pc + 1) /\ ~(n <= pc + 1)
    BY <1>1
  <2> QED  BY <1>2, <1>4, <2>1, <2>2 DEF RuntimeOK, n
<1> QED  BY <1>3, <1>5, <1>6, <1>7 DEF StartInv, CollectionRuns

LEMMA SizesAre ==
  /\ SizeOf(Readtable) = 32 /\ SizeOf(InterpreterBlock) = 104
  /\ \A p, q : SizeOf(Environment(p, q)) = 64
  /\ \A p, id : SizeOf(Symbol(p, id)) = 32
  /\ \A name : SizeOf(Inherent(name)) = 16
BY DEF SizeOf, Readtable, InterpreterBlock, Environment, Symbol, Inherent

LEMMA BootsSpend ==
  ASSUME InitializesInOrder, StartFits, Inv, StartInv, NEW do, At(do), do \in {"readtable", "package"},
         BootReadtable \/ BootPackage
  PROVE  StartInv' /\ ~CollectionRuns
<1>1. PICK o : Allocates(o, objects) /\ SizeOf(o) \in Nat /\ SizeOf(o) = AllocatedBy(Top.pc)
  <2>1. ASSUME BootReadtable
        PROVE  Allocates(Readtable, objects) /\ AllocatedBy(Top.pc) = SizeOf(Readtable)
    BY <2>1 DEF BootReadtable, At, AllocatedBy
  <2>2. ASSUME BootPackage
        PROVE  /\ Allocates(Environment(Null, Instruction.of), objects)
               /\ AllocatedBy(Top.pc) = SizeOf(Environment(Null, Instruction.of))
    BY <2>2 DEF BootPackage, At, AllocatedBy, Instruction
  <2>3. SizeOf(Readtable) \in Nat /\ SizeOf(Environment(Null, Instruction.of)) \in Nat
    BY SizesAre
  <2> QED  BY <2>1, <2>2, <2>3
<1>2. acts' = Append(Below, ThenNext) /\ rt' = rt
  BY DEF BootReadtable, BootPackage, Becomes, image
<1>3. ThenNext = [fn |-> "initialize_runtime", pc |-> Top.pc + 1, held |-> Top.held]
  BY BootDoes, BootBecomes
<1>4. Early(do) /\ Plain(do)
  BY DEF Early, Plain
<1>5. Top.held = {} /\ Top.pc \in Nat /\ AllocatedBy(Top.pc) \in Nat
  BY <1>1, <1>4, InstructionIs
<1> DEFINE k == SizeOf(o)
<1>6. /\ k \in Nat /\ k = AllocatedBy(Top.pc) /\ bytes' = bytes + k
      /\ next_gc' = (IF bytes' >= next_gc THEN 2 * next_gc ELSE next_gc)
  BY <1>1 DEF Allocates
<1> HIDE DEF k
<1>7. k <= AllocatedBy(Top.pc)
  BY <1>6
<1> QED  BY <1>2, <1>3, <1>4, <1>5, <1>6, <1>7, BootSpends

LEMMA BootFunctionSpends ==
  ASSUME InitializesInOrder, StartFits, Inv, StartInv, BootFunction
  PROVE  StartInv' /\ ~CollectionRuns
<1> DEFINE do == "function"
<1>1. /\ At(do) /\ Allocates(Inherent(Instruction.name), objects) /\ rt' = rt
      /\ acts' = Append(Below, [ThenNext EXCEPT !.held = {Fresh}])
  BY DEF BootFunction, Becomes, image
<1>2. AllocatedBy(Top.pc) = 16 /\ SizeOf(Inherent(Instruction.name)) = 16
  BY <1>1, SizesAre DEF At, AllocatedBy, Instruction
<1>3. acts' = Append(Below, [fn |-> "initialize_runtime", pc |-> Top.pc + 1, held |-> {Fresh}])
  BY <1>1, BootDoes, BootBecomes
<1>4. Early(do)
  BY DEF Early
<1>5. BindsAt(Top.pc + 2)
  <2>1. Does(Top.pc, "function") /\ Top.pc \in 1 .. Steps
    BY <1>1, BootDoes
  <2> QED  BY <2>1 DEF BindsAt, InitializesInOrder, Steps
<1> DEFINE held == {Fresh}
           k == SizeOf(Inherent(Instruction.name))
<1>6. /\ k \in Nat /\ k = AllocatedBy(Top.pc) /\ bytes' = bytes + k
      /\ next_gc' = (IF bytes' >= next_gc THEN 2 * next_gc ELSE next_gc)
  BY <1>1, <1>2 DEF Allocates
<1> HIDE DEF k, held, do
<1>7. k <= AllocatedBy(Top.pc)
  BY <1>6
<1> QED  BY <1>1, <1>3, <1>4, <1>5, <1>6, <1>7, BootSpends DEF held

LEMMA BootBindsSpends ==
  ASSUME InitializesInOrder, StartFits, Inv, StartInv, NEW do, At(do), Early(do),
         BootBindConstants \/ BootBindFunction, BootBindConstants => Plain(do)
  PROVE  StartInv' /\ ~CollectionRuns
<1>1. bytes' = bytes /\ next_gc' = next_gc /\ rt' = rt
  BY DEF BootBindConstants, BootBindFunction, image
<1>2. acts' = Append(Below, [fn |-> "initialize_runtime", pc |-> Top.pc + 1, held |-> {}])
  <2>1. /\ ThenNext = [fn |-> "initialize_runtime", pc |-> Top.pc + 1, held |-> Top.held]
        /\ \A held : [ThenNext EXCEPT !.held = held] =
                       [fn |-> "initialize_runtime", pc |-> Top.pc + 1, held |-> held]
    BY BootDoes, BootBecomes
  <2>2. BootBindConstants => acts' = Append(Below, ThenNext) /\ Top.held = {}
    BY InstructionIs DEF BootBindConstants, Becomes
  <2>3. BootBindFunction => acts' = Append(Below, [ThenNext EXCEPT !.held = {}])
    BY DEF BootBindFunction, Becomes
  <2> QED  BY <2>1, <2>2, <2>3
<1> DEFINE held == {}
<1>3. bytes \in Nat /\ AllocatedBy(Top.pc) \in Nat
  <2>1. Top.pc < Steps
    BY InstructionIs DEF Early
  <2> QED  BY <2>1, InstructionIs
<1> DEFINE k == 0
<1>4. k \in Nat /\ k <= AllocatedBy(Top.pc) /\ bytes' = bytes + k
  BY <1>1, <1>3
<1> HIDE DEF k
<1> QED  BY <1>1, <1>2, <1>4, BootSpends

(* A symbol is interned: what it may take is to come.                      *)
LEMMA BootInternSpends ==
  ASSUME InitializesInOrder, StartFits, Inv, StartInv, BootIntern
  PROVE  StartInv' /\ ~CollectionRuns
<1> DEFINE pc == Top.pc
           n == Steps
           act == [fn |-> "initialize_runtime", pc |-> pc + 1, held |-> Top.held]
           callee == InternAct(Instruction.of, Chars(Instruction.name))
           do == "intern"
<1>1. /\ At(do) /\ acts' = Below \o <<ThenNext, callee>>
      /\ UNCHANGED <<objects, bytes, next_gc, rt>>
  BY DEF BootIntern, Calls, heap, image
<1>2. Early(do)
  BY DEF Early
<1>3. ThenNext = act
  BY <1>1, BootDoes, BootBecomes
<1>4. /\ Len(acts) = 1 /\ acts[1] = Top /\ pc \in 1 .. n /\ Does(pc, do) /\ pc + 1 \in Nat /\ n \in Nat
      /\ pc \in Nat /\ pc + 1 - 1 = pc /\ pc < n - 2
      /\ next_gc = FirstCollection /\ bytes \in Nat
      /\ bytes + AllocatedBy(pc) <= StartBytes[pc]
  <2>1. pc < n
    BY <1>1, <1>2, InstructionIs DEF Early
  <2> QED  BY <1>1, <1>2, <2>1, InstructionIs
<1> HIDE DEF callee
<1>5. Len(acts') = 2 /\ acts'[1] = act /\ acts'[2] = callee
  <2>1. IsSeq(Below) /\ Len(Below) = 0
    BY <1>1, BootIs, BootDoes
  <2>2. /\ IsSeq(<<act, callee>>) /\ Len(<<act, callee>>) = 2
        /\ <<act, callee>>[1] = act /\ <<act, callee>>[2] = callee
    <3> HIDE DEF act
    <3> QED  BY PairIs
  <2>3. /\ Len(Below \o <<act, callee>>) = 0 + 2
        /\ \A i \in 1 .. 0 + 2 :
             (Below \o <<act, callee>>)[i] = IF i <= 0 THEN Below[i] ELSE <<act, callee>>[i - 0]
    <3> HIDE DEF act
    <3> QED  BY <2>1, <2>2, ConcatIs
  <2> HIDE DEF act
  <2>4. (Below \o <<act, callee>>)[1] = <<act, callee>>[1] /\ (Below \o <<act, callee>>)[2] = <<act, callee>>[2]
    BY <2>3
  <2> QED  BY <1>1, <1>3, <2>2, <2>3, <2>4
<1>6. act.pc = pc + 1 /\ act.held = Top.held /\ callee.pc = "find"
  BY DEF callee, InternAct
<1>7. StartSpends'
  <2>1. ToCome' = AllocatedBy(pc)
    <3> HIDE DEF act, pc
    <3>1. acts'[1].pc - 1 = pc
      BY <1>4, <1>5, <1>6
    <3> QED  BY <1>5, <1>6, <3>1 DEF ToCome
  <2> HIDE DEF act, pc
  <2> QED  BY <1>1, <1>4, <1>5, <1>6, <2>1 DEF StartSpends
<1>8. StartHolds'
  <2>1. Top.held = {} \/ Does(pc + 1, "bind function")
    <3>1. ~Does(pc, "bind function")
      BY <1>4, DoesOne
    <3> QED  BY <1>4, <3>1 DEF StartInv, StartHolds
  <2> HIDE DEF act
  <2> QED  BY <1>5, <1>6, <2>1 DEF StartHolds
<1>9. RuntimeOK'
  <2>1. rt = [packages |-> rt.packages, interpreter |-> rt.interpreter]
        /\ rt.packages = (IF n - 2 < pc THEN ToSet(PackageNames) ELSE {})
        /\ (IF n <= pc THEN rt.interpreter \in DOMAIN objects ELSE rt.interpreter = Null)
    BY <1>4 DEF StartInv, RuntimeOK
  <2> HIDE DEF pc, n, act
  <2>2. ~(n - 2 < pc) /\ ~(n <= pc) /\ ~(n - 2 < pc + 1) /\ ~(n <= pc + 1)
    <3> HIDE DEF do
    <3> QED  BY <1>4
  <2> QED  BY <1>1, <1>5, <1>6, <2>1, <2>2 DEF RuntimeOK, n
<1> QED  BY <1>1, <1>7, <1>8, <1>9 DEF StartInv, CollectionRuns, AllocationStarts

(* The last instructions, after which the packages and the interpreter are *)
(* there.                                                                  *)
LEMMA BootListsSpends ==
  ASSUME InitializesInOrder, StartFits, Inv, StartInv, BootListPackages
  PROVE  StartInv' /\ ~CollectionRuns
<1> DEFINE pc == Top.pc
           n == Steps
           act == [fn |-> "initialize_runtime", pc |-> pc + 1, held |-> {}]
           do == "list packages"
<1>1. /\ At(do) /\ acts' = Append(Below, ThenNext) /\ bytes' = bytes /\ next_gc' = next_gc
      /\ rt' = [rt EXCEPT !.packages = ToSet(PackageNames)]
      /\ DOMAIN objects' = DOMAIN objects
  BY DEF BootListPackages, Becomes
<1>2. Lists(do) /\ Plain(do) /\ do # "repl"
  BY DEF Lists, Plain
<1>3. /\ Len(acts) = 1 /\ acts[1] = Top /\ pc \in 1 .. n /\ pc \in Nat /\ n \in Nat
      /\ pc + 1 - 1 = pc /\ pc = n - 2 /\ Top.held = {}
      /\ next_gc = FirstCollection /\ bytes \in Nat /\ AllocatedBy(pc) \in Nat
      /\ bytes + AllocatedBy(pc) <= StartBytes[pc]
  <2>1. pc < n
    BY <1>1, <1>2, InstructionIs
  <2> QED  BY <1>1, <1>2, <2>1, InstructionIs
<1>4. Len(acts') = 1 /\ acts'[1] = act
  <2>1. IsSeq(Below) /\ Len(Below) = 0
    BY <1>1, BootIs, BootDoes
  <2>2. ThenNext = act
    BY <1>1, <1>3, BootBecomes, BootDoes
  <2> HIDE DEF act
  <2> QED  BY <1>1, <2>1, <2>2, AppendedFirst
<1>5. act.pc = pc + 1 /\ act.held = {}
  OBVIOUS
<1> HIDE DEF act, do
<1>6. StartSpends'
  <2>1. ToCome' = 0
    BY <1>4 DEF ToCome
  <2> DEFINE f == StartBytes
             a == AllocatedBy(pc)
  <2>2. f[pc] \in Nat
    <3>1. pc \in 0 .. n
      <4> HIDE DEF pc, n
      <4> QED  BY <1>3
    <3> QED  BY <3>1, StartStaysBelow
  <2>3. bytes \in Nat /\ a \in Nat /\ bytes + a <= f[pc]
    BY <1>3
  <2> HIDE DEF f, a, pc, n
  <2>4. bytes + 0 <= f[pc]
    BY <2>2, <2>3
  <2> QED  BY <1>1, <1>3, <1>4, <1>5, <2>1, <2>4 DEF StartSpends, f
<1>7. StartHolds'
  BY <1>4, <1>5 DEF StartHolds
<1>8. RuntimeOK'
  <2>1. rt = [packages |-> rt.packages, interpreter |-> rt.interpreter]
        /\ (IF n <= pc THEN rt.interpreter \in DOMAIN objects ELSE rt.interpreter = Null)
    BY <1>3 DEF StartInv, RuntimeOK
  <2>2. rt' = [packages |-> ToSet(PackageNames), interpreter |-> rt.interpreter]
    BY <1>1, <2>1
  <2> HIDE DEF pc, n
  <2>3. ~(n <= pc) /\ n - 2 < pc + 1 /\ ~(n <= pc + 1)
    BY <1>3
  <2> QED  BY <1>4, <1>5, <2>1, <2>2, <2>3 DEF RuntimeOK, n
<1> QED  BY <1>1, <1>6, <1>7, <1>8 DEF StartInv, CollectionRuns, AllocationStarts

LEMMA BootInterpreterSpends ==
  ASSUME InitializesInOrder, StartFits, Inv, StartInv, BootInterpreter
  PROVE  StartInv' /\ ~CollectionRuns
<1> DEFINE pc == Top.pc
           n == Steps
           act == [fn |-> "initialize_runtime", pc |-> pc + 1, held |-> {}]
           do == "interpreter"
<1>1. /\ At(do) /\ acts' = Append(Below, ThenNext) /\ Allocates(InterpreterBlock, objects)
      /\ rt' = [rt EXCEPT !.interpreter = Fresh] /\ packages' = packages
  BY DEF BootInterpreter, Becomes
<1>2. Plain(do) /\ do # "repl"
  BY DEF Plain
<1>3. /\ Len(acts) = 1 /\ acts[1] = Top /\ pc \in 1 .. n /\ pc \in Nat /\ n \in Nat
      /\ pc = n - 1 /\ Top.held = {}
      /\ next_gc = FirstCollection /\ bytes \in Nat /\ AllocatedBy(pc) \in Nat
      /\ bytes + AllocatedBy(pc) <= StartBytes[pc]
  <2>1. pc < n
    BY <1>1, <1>2, InstructionIs
  <2> QED  BY <1>1, <1>2, <2>1, InstructionIs
<1>4. Len(acts') = 1 /\ acts'[1] = act
  <2>1. IsSeq(Below) /\ Len(Below) = 0
    BY <1>1, BootIs, BootDoes
  <2>2. ThenNext = act
    BY <1>1, <1>3, BootBecomes, BootDoes
  <2> HIDE DEF act
  <2> QED  BY <1>1, <2>1, <2>2, AppendedFirst
<1>5. act.pc = pc + 1 /\ act.held = {}
  OBVIOUS
<1> HIDE DEF act
<1>6. AllocatedBy(pc) = 104 /\ SizeOf(InterpreterBlock) = 104
  BY <1>1, SizesAre DEF At, AllocatedBy, Instruction
<1>7. ~(bytes' >= next_gc)
  <2> DEFINE rest == AllocatedBy(pc)
             k == SizeOf(InterpreterBlock)
             left == 0
  <2>1. /\ bytes' = bytes + k /\ next_gc' = (IF bytes' >= next_gc THEN 2 * next_gc ELSE next_gc)
        /\ k \in Nat /\ rest \in Nat /\ left \in Nat /\ k + left <= rest
    BY <1>1, <1>6 DEF Allocates
  <2> HIDE DEF rest, k, left
  <2> QED  BY <1>3, <2>1, SpendsOn DEF rest
<1>8. StartHolds'
  BY <1>4, <1>5 DEF StartHolds
<1>9. Fresh \in DOMAIN objects'
  BY <1>1, AllocationAdds DEF Inv, ObjectsOK
<1>10. RuntimeOK' /\ StartSpends'
  <2>1. rt = [packages |-> rt.packages, interpreter |-> rt.interpreter]
        /\ rt.packages = (IF n - 2 < pc THEN ToSet(PackageNames) ELSE {})
    BY <1>3 DEF StartInv, RuntimeOK
  <2>2. rt' = [packages |-> rt.packages, interpreter |-> Fresh]
    BY <1>1, <2>1
  <2> HIDE DEF pc, n
  <2>3. n <= pc + 1 /\ n - 2 < pc + 1 /\ n - 2 < pc /\ ~(pc + 1 < n)
    BY <1>3
  <2> QED  BY <1>4, <1>5, <1>9, <2>1, <2>2, <2>3 DEF RuntimeOK, n, StartSpends
<1> QED  BY <1>7, <1>8, <1>10 DEF StartInv, CollectionRuns

LEMMA BootCallsSpends ==
  ASSUME InitializesInOrder, StartFits, Inv, StartInv, BootCallsRepl
  PROVE  StartInv' /\ ~CollectionRuns /\ acts'[1].pc = Steps + 1
<1> DEFINE pc == Top.pc
           n == Steps
           act == [fn |-> "initialize_runtime", pc |-> pc + 1, held |-> {}]
           callee == CallAct(Len(<<>>))
           do == "repl"
<1>1. /\ At(do) /\ acts' = Below \o <<ThenNext, callee>>
      /\ UNCHANGED <<objects, bytes, next_gc, rt>>
  BY DEF BootCallsRepl, CallsFunction, Calls, heap, image
<1>2. Plain(do)
  BY DEF Plain
<1>3. /\ Len(acts) = 1 /\ acts[1] = Top /\ pc \in 1 .. n /\ pc \in Nat /\ n \in Nat /\ Top.held = {}
      /\ Does(pc, do)
  BY <1>1, <1>2, InstructionIs
<1>4. pc = n
  BY <1>3 DEF InitializesInOrder, Steps
<1>5. Len(acts') = 2 /\ acts'[1] = act /\ acts'[2] = callee
  <2>1. IsSeq(Below) /\ Len(Below) = 0
    BY <1>1, BootIs, BootDoes
  <2>2. ThenNext = act
    BY <1>1, <1>3, BootBecomes, BootDoes
  <2> HIDE DEF act, callee
  <2>3. /\ IsSeq(<<act, callee>>) /\ Len(<<act, callee>>) = 2
        /\ <<act, callee>>[1] = act /\ <<act, callee>>[2] = callee
    BY PairIs
  <2>4. /\ Len(Below \o <<act, callee>>) = 0 + 2
        /\ \A i \in 1 .. 0 + 2 :
             (Below \o <<act, callee>>)[i] = IF i <= 0 THEN Below[i] ELSE <<act, callee>>[i - 0]
    BY <2>1, <2>3, ConcatIs
  <2>5. (Below \o <<act, callee>>)[1] = <<act, callee>>[1] /\ (Below \o <<act, callee>>)[2] = <<act, callee>>[2]
    BY <2>4
  <2> QED  BY <1>1, <2>2, <2>3, <2>4, <2>5
<1>6. act.pc = pc + 1 /\ act.held = {}
  OBVIOUS
<1> HIDE DEF act
<1>7. rt = [packages |-> rt.packages, interpreter |-> rt.interpreter]
      /\ rt.packages = (IF n - 2 < pc THEN ToSet(PackageNames) ELSE {})
      /\ (IF n <= pc THEN rt.interpreter \in DOMAIN objects ELSE rt.interpreter = Null)
  BY <1>3 DEF StartInv, RuntimeOK
<1>8. /\ n - 2 < pc /\ n <= pc /\ n - 2 < pc + 1 /\ n <= pc + 1 /\ ~(pc + 1 < n)
  <2> HIDE DEF pc, n
  <2> QED  BY <1>3, <1>4
<1> HIDE DEF pc, n
<1>9. RuntimeOK' /\ StartSpends' /\ StartHolds'
  BY <1>1, <1>5, <1>6, <1>7, <1>8 DEF RuntimeOK, n, StartSpends, StartHolds
<1> QED  BY <1>1, <1>4, <1>5, <1>6, <1>9 DEF StartInv, CollectionRuns, AllocationStarts, n

LEMMA ActsAre ==
  ASSUME Inv
  PROVE  /\ IsSeq(acts) /\ Len(acts) \in Nat /\ 1 <= Len(acts) /\ acts[1].fn = "initialize_runtime"
         /\ Top = acts[Len(acts)] /\ IsSeq(Below) /\ Len(Below) = Len(acts) - 1
         /\ \A i \in 1 .. Len(acts) - 1 : Below[i] = acts[i]
         /\ \A i \in 1 .. Len(acts) : ActOK(acts[i], objects, packages)
         /\ \A i \in 1 .. Len(acts) - 1 : Waits(acts[i], acts[i + 1])
<1>1. /\ IsSeq(acts) /\ 1 <= Len(acts) /\ acts[1].fn = "initialize_runtime"
      /\ \A i \in 1 .. Len(acts) : ActOK(acts[i], objects, packages)
      /\ \A i \in 1 .. Len(acts) - 1 : Waits(acts[i], acts[i + 1])
  BY DEF Inv, ActsOK
<1>2. Len(acts) \in Nat
  BY <1>1, SeqIs
<1>3. IsSeq(Below) /\ Len(Below) = Len(acts) - 1 /\ \A i \in 1 .. Len(acts) - 1 : Below[i] = acts[i]
  BY <1>1, FrontIs DEF Below
<1> QED  BY <1>1, <1>2, <1>3 DEF Top, Last

LEMMA EarlyIs ==
  ASSUME InitializesInOrder, NEW i \in 1 .. Steps, NEW do, Does(i, do), Early(do)
  PROVE  i < Steps - 2
BY PackageIsEarly DEF Early

(* intern_symbol runs for the start: what it may take.                     *)
LEMMA StartInterns ==
  ASSUME InitializesInOrder, StartFits, Inv, StartInv, Top.fn = "intern_symbol", Len(acts) = 2
  PROVE  LET i == acts[1].pc - 1
         IN  /\ i \in 1 .. Steps /\ Does(i, "intern") /\ acts[2] = Top /\ acts[1].pc < Steps - 2
             /\ acts[1].pc = i + 1 /\ Top.name = Chars(InitializeRuntime[i].name)
             /\ AllocatedBy(i) = 32 + SizeOf(Text(Top.name)) /\ SizeOf(Text(Top.name)) \in Nat
             /\ next_gc = FirstCollection /\ bytes \in Nat
             /\ Top.pc = "find" => bytes + AllocatedBy(i) <= StartBytes[i]
             /\ Top.pc # "find" => bytes + SizeOf(Text(Top.name)) <= StartBytes[i]
<1> DEFINE pc == acts[1].pc
           i == pc - 1
           n == Steps
           name == Chars(InitializeRuntime[i].name)
<1>1. Top = acts[2]
  BY DEF Top, Last
<1>2. Does(i, "intern") /\ Top.name = name
  BY <1>1 DEF Inv, StartOK, InternsFor
<1>3. i \in 1 .. n /\ n \in Nat /\ i < n - 2
  <2>1. i \in 1 .. n /\ n \in Nat
    BY <1>2, OrderIs
  <2>2. Early("intern")
    BY DEF Early
  <2> HIDE DEF i
  <2> QED  BY <1>2, <2>1, <2>2, EarlyIs
<1>4. pc \in 1 .. n + 1
  <2>1. ActOK(acts[1], objects, packages) /\ acts[1].fn = "initialize_runtime"
    BY ActsAre
  <2>2. BootOK(acts[1])
    BY <2>1 DEF ActOK
  <2> QED  BY <2>2 DEF BootOK
<1> HIDE DEF n
<1>5. pc = i + 1
  <2> HIDE DEF pc
  <2> QED  BY <1>3, <1>4
<1>6. i # n - 3
  <2>1. Does(n - 3, "bind function")
    BY DEF InitializesInOrder, n, Steps
  <2> QED  BY <1>2, <2>1, DoesOne
<1>7. pc < n - 2 /\ pc < n
  <2> HIDE DEF pc, i
  <2> QED  BY <1>3, <1>5, <1>6
<1>8. AllocatedBy(i) = 32 + SizeOf(Text(name)) /\ SizeOf(Text(name)) \in Nat
  <2>1. InitializeRuntime[i].do = "intern" /\ i \in DOMAIN InitializeRuntime
    BY <1>2 DEF Does
  <2>2. AllocatedBy(i) = SizeOf(Symbol(InitializeRuntime[i].of, 0)) + SizeOf(Text(name))
    BY <2>1 DEF AllocatedBy
  <2> QED  BY <1>2, <2>1, <2>2, SizesAre DEF StartFits
<1>9. next_gc = FirstCollection /\ bytes \in Nat /\ bytes + ToCome <= StartBytes[i]
  BY <1>7 DEF StartInv, StartSpends, n
<1>10. /\ Top.pc = "find" => ToCome = AllocatedBy(i)
       /\ Top.pc # "find" => ToCome = SizeOf(Text(name))
  BY <1>1, <1>2 DEF ToCome
<1> HIDE DEF name, i, pc
<1> QED  BY <1>1, <1>2, <1>3, <1>5, <1>7, <1>8, <1>9, <1>10 DEF name, n, i, pc

LEMMA StartInternsSpends ==
  ASSUME InitializesInOrder, StartFits, Inv, StartInv, Interns, Len(acts) = 2
  PROVE  StartInv' /\ ~CollectionRuns
<1> DEFINE pc == acts[1].pc
           i == pc - 1
           n == Steps
           text == SizeOf(Text(Top.name))
           a == AllocatedBy(i)
<1>1. Top.fn = "intern_symbol"
  BY DEF Interns, InternFinds, InternAllocatesSymbol, InternAllocatesName, In
<1>2. /\ i \in 1 .. n /\ acts[2] = Top /\ pc < n - 2 /\ pc = i + 1
      /\ a = 32 + text /\ text \in Nat /\ next_gc = FirstCollection /\ bytes \in Nat
      /\ Top.pc = "find" => bytes + a <= StartBytes[i]
      /\ Top.pc # "find" => bytes + text <= StartBytes[i]
  BY <1>1, StartInterns
<1>3. IsSeq(acts) /\ IsSeq(Below) /\ Len(Below) = 1 /\ Below[1] = acts[1]
  BY ActsAre
<1>4. n \in Nat /\ i \in Nat /\ ~(n - 2 < pc) /\ ~(n <= pc) /\ pc < n
  <2>1. n \in Nat
    BY OrderIs
  <2> HIDE DEF n, i, pc
  <2> QED  BY <1>2, <2>1
<1> HIDE DEF n, text, a
<1>5. ASSUME acts'[1] = acts[1], rt' = rt,
             next_gc' = FirstCollection, bytes' \in Nat, bytes' + ToCome' <= StartBytes[i]
      PROVE  StartInv'
  <2>1. rt.interpreter = Null
    BY <1>4 DEF StartInv, RuntimeOK, n
  <2>2. RuntimeOK'
    BY <1>4, <1>5, <2>1 DEF StartInv, RuntimeOK, n
  <2>3. StartHolds'
    BY <1>5 DEF StartInv, StartHolds
  <2> HIDE DEF i
  <2>4. StartSpends'
    BY <1>5 DEF StartSpends, i
  <2> QED  BY <2>2, <2>3, <2>4 DEF StartInv
<1>6. ASSUME InternFinds  PROVE StartInv' /\ ~CollectionRuns
  <2>1. Top.pc = "find" /\ acts' = Below /\ UNCHANGED <<objects, bytes, next_gc, rt>>
    BY <1>6 DEF InternFinds, In, Returns, heap, image
  <2>2. ToCome' = 0
    BY <1>3, <2>1 DEF ToCome
  <2> DEFINE f == StartBytes
  <2>3. f[i] \in Nat
    <3>1. i \in 0 .. Steps
      <4> HIDE DEF i
      <4> QED  BY <1>2, <1>4 DEF n
    <3> QED  BY <3>1, StartStaysBelow
  <2>4. bytes + a <= f[i]
    BY <1>2, <2>1
  <2> HIDE DEF f, i
  <2>5. bytes + 0 <= f[i]
    BY <1>2, <2>3, <2>4
  <2> QED  BY <1>2, <1>3, <1>5, <2>1, <2>2, <2>5 DEF f, CollectionRuns, AllocationStarts
<1>7. ASSUME InternAllocatesSymbol  PROVE StartInv' /\ ~CollectionRuns
  <2> DEFINE act == [Top EXCEPT !.pc = "name", !.held = {Fresh}]
             o == Symbol(Top.package, 0)
  <2>1. /\ Top.pc = "find" /\ acts' = Append(Below, act) /\ Allocates(o, objects) /\ rt' = rt
    BY <1>7 DEF InternAllocatesSymbol, In, Becomes, image
  <2>2. act.pc = "name" /\ act.name = Top.name
    <3>1. InternOK(Top, objects, packages)
      <4>1. PICK b : Laid(b, acts, form_stack, Len(frame_stack), objects)
        BY DEF Inv
      <4> QED  BY <1>1, <4>1, InternIs
    <3> QED  BY <3>1 DEF InternOK
  <2> HIDE DEF act
  <2>3. Len(acts') = 2 /\ acts'[1] = acts[1] /\ acts'[2] = act
    <3> DEFINE m == Len(Below)
    <3>1. /\ Len(acts') = m + 1 /\ acts'[m + 1] = act
          /\ \A j \in 1 .. m : acts'[j] = Below[j]
      <4>1. acts' = Append(Below, act) /\ IsSeq(Below)
        BY <1>3, <2>1
      <4> QED  BY <4>1, AppendIs
    <3>2. m = 1
      BY <1>3
    <3> HIDE DEF m
    <3> QED  BY <1>3, <3>1, <3>2
  <2>4. ToCome' = text
    BY <2>2, <2>3 DEF ToCome, text
  <2> DEFINE k == 32
  <2>5. /\ bytes' = bytes + k /\ next_gc' = (IF bytes' >= next_gc THEN 2 * next_gc ELSE next_gc)
    BY <2>1, SizesAre DEF Allocates
  <2>6. k \in Nat /\ a \in Nat /\ k + text <= a
    BY <1>2
  <2> HIDE DEF k
  <2>7. bytes + a <= StartBytes[i]
    BY <1>2, <2>1
  <2> HIDE DEF i
  <2>8. /\ next_gc' = FirstCollection /\ bytes' \in Nat /\ bytes' + text <= StartBytes[i]
        /\ ~(bytes' >= next_gc)
    BY <1>2, <2>5, <2>6, <2>7, SpendsOn DEF n
  <2> QED  BY <1>5, <2>1, <2>3, <2>4, <2>8 DEF CollectionRuns
<1>8. ASSUME InternAllocatesName  PROVE StartInv' /\ ~CollectionRuns
  <2>1. /\ Top.pc = "name" /\ acts' = Below /\ rt' = rt /\ bytes' = bytes + text
        /\ next_gc' = (IF bytes' >= next_gc THEN 2 * next_gc ELSE next_gc)
    BY <1>8 DEF InternAllocatesName, In, Returns, Allocates, text
  <2>2. ToCome' = 0
    BY <1>3, <2>1 DEF ToCome
  <2> DEFINE left == 0
  <2>3. left \in Nat /\ text + left <= text
    BY <1>2
  <2> HIDE DEF left
  <2>4. bytes + text <= StartBytes[i]
    BY <1>2, <2>1
  <2> HIDE DEF i
  <2>5. /\ next_gc' = FirstCollection /\ bytes' \in Nat /\ bytes' + left <= StartBytes[i]
        /\ ~(bytes' >= next_gc)
    BY <1>2, <2>1, <2>3, <2>4, SpendsOn DEF n
  <2> QED  BY <1>3, <1>5, <2>1, <2>2, <2>5 DEF left, CollectionRuns
<1> QED  BY <1>6, <1>7, <1>8 DEF Interns

LEMMA InternsRun ==
  ASSUME Next, Top.fn = "intern_symbol"
  PROVE  Interns /\ UNCHANGED <<files, session>>
<1>1. \A fn, pc : Doing(fn, pc) => fn = "intern_symbol"
  BY DEF Doing, In
<1>2. \A name, act : ~Invokes(name, act)
  BY DEF Invokes, Doing, In
<1>3. \A do : ~At(do)
  BY DEF At
<1>4. ~Boots
  BY <1>3 DEF Boots, BootReadtable, BootPackage, BootIntern, BootBindConstants, BootFunction,
     BootBindFunction, BootListPackages, BootInterpreter
<1>5. ~(CallBegins \/ CallTakesArg \/ CallReturns)
  BY <1>1 DEF CallBegins, CallTakesArg, CallReturns
<1>6. ~Reads
  BY <1>1, <1>2 DEF Reads, ReadStarts, ReadGensyms, ReadAllocatesStream, ReadSkipsWhitespace,
     ReadCallsMacro, ReadStartsToken, ReadStep8, ReadStep9, ReadEndsToken, ReadNumber, ReadSymbol,
     ReadReturns, ReadFails, ReadCallsNothing
<1>7. ~ReadsList
  BY <1>1, <1>2 DEF ReadsList, OpenParenStarts, OpenParenScans, OpenParenCopies, OpenParenGensyms,
     OpenParenAllocatesStream, OpenParenReads, OpenParenBeginsList, OpenParenExtendsList,
     OpenParenLoses, OpenParenReturns, OpenParenLoops, CloseParenAborts
<1>8. ~ReadsQuoted
  BY <1>1, <1>2 DEF ReadsQuoted, DoubleQuoteStarts, DoubleQuoteScans, DoubleQuoteLoops,
     DoubleQuoteAllocatesString, DoubleQuoteReturns, SingleQuoteStarts, SingleQuoteInterns,
     SingleQuoteReads, SingleQuoteBegins, SingleQuoteReturns
<1>9. ~Repl
  BY <1>1, <1>2, <1>3 DEF Repl, BootCallsRepl, ReplStarts, ReplGensyms, ReplAllocatesString,
     ReplAllocatesChars, UserTypes, ReplReads, ReplFormats, ReplQuits
<1> QED  BY <1>4, <1>5, <1>6, <1>7, <1>8, <1>9 DEF Next

(* Whatever the functions do that are called then, the runtime stays.      *)
RuntimeThere == rt.interpreter # Null /\ rt.packages = ToSet(PackageNames)

LEMMA LaterStartIs ==
  ASSUME InitializesInOrder, Inv, RuntimeOK, acts[1].pc = Steps + 1
  PROVE  RuntimeThere
<1> DEFINE pc == acts[1].pc
           n == Steps
<1>1. rt.packages = (IF n - 2 < pc THEN ToSet(PackageNames) ELSE {})
      /\ (IF n <= pc THEN rt.interpreter \in DOMAIN objects ELSE rt.interpreter = Null)
  BY DEF RuntimeOK
<1>2. n \in Nat /\ pc = n + 1
  BY OrderIs
<1> HIDE DEF n, pc
<1>3. n - 2 < pc /\ n <= pc
  BY <1>2
<1>4. Null \notin DOMAIN objects
  <2>1. HeapOK(objects, packages)
    BY DEF Inv, ObjectsOK
  <2>2. Size(objects) \in Nat /\ DOMAIN objects = 0 .. Size(objects) - 1
    BY <2>1, SizeIs
  <2> QED  BY <2>2 DEF Null
<1> QED  BY <1>1, <1>3, <1>4 DEF RuntimeThere

LEMMA OthersKeepStart ==
  ASSUME InitializesInOrder, StartFits, Inv, StartInv, Next, Top.fn # "initialize_runtime"
  PROVE  StartInv' /\ (CollectionRuns => RuntimeThere)
<1>1. Moves /\ rt' = rt
  BY StepMoves
<1>2. /\ 2 <= Len(acts)
      /\ (Top.fn = "intern_symbol" /\ Len(acts) = 2) \/ acts[1].pc = Steps + 1
  BY StartWaits
<1>3. CASE acts[1].pc = Steps + 1
  <2>1. acts'[1] = acts[1]
    BY <1>1, <1>2, StartIsKept
  <2>2. DOMAIN objects \subseteq DOMAIN objects'
    BY NextDisturbsNone DEF Undisturbed, KeepsLower, HeapGrows, Steady, Grows, heap
  <2>3. RuntimeOK'
    BY <1>1, <2>1, <2>2 DEF StartInv, RuntimeOK
  <2>4. StartHolds'
    BY <2>1 DEF StartInv, StartHolds
  <2>5. ~(acts[1].pc < Steps)
    <3> DEFINE n == Steps
               pc == acts[1].pc
    <3>1. n \in Nat /\ pc = n + 1
      BY <1>3, OrderIs
    <3> HIDE DEF n, pc
    <3>2. ~(pc < n)
      BY <3>1
    <3> QED  BY <3>2 DEF n, pc
  <2>6. StartSpends'
    BY <2>1, <2>5 DEF StartSpends
  <2> QED  BY <1>3, <2>3, <2>4, <2>6, LaterStartIs DEF StartInv
<1>4. CASE Top.fn = "intern_symbol" /\ Len(acts) = 2
  <2>1. Interns
    BY <1>4, InternsRun
  <2> QED  BY <1>4, <2>1, StartInternsSpends
<1> QED  BY <1>2, <1>3, <1>4

LEMMA StartRuns ==
  ASSUME Next, Top.fn = "initialize_runtime"
  PROVE  Boots \/ BootCallsRepl
<1>1. \A fn, pc : Doing(fn, pc) => fn = "initialize_runtime"
  BY DEF Doing, In
<1>2. \A name, act : ~Invokes(name, act)
  BY DEF Invokes, Doing, In
<1>3. ~Interns
  BY DEF Interns, InternFinds, InternAllocatesSymbol, InternAllocatesName, In
<1>4. ~(CallBegins \/ CallTakesArg \/ CallReturns)
  BY <1>1 DEF CallBegins, CallTakesArg, CallReturns
<1>5. ~Reads
  BY <1>1, <1>2 DEF Reads, ReadStarts, ReadGensyms, ReadAllocatesStream, ReadSkipsWhitespace,
     ReadCallsMacro, ReadStartsToken, ReadStep8, ReadStep9, ReadEndsToken, ReadNumber, ReadSymbol,
     ReadReturns, ReadFails, ReadCallsNothing
<1>6. ~ReadsList
  BY <1>1, <1>2 DEF ReadsList, OpenParenStarts, OpenParenScans, OpenParenCopies, OpenParenGensyms,
     OpenParenAllocatesStream, OpenParenReads, OpenParenBeginsList, OpenParenExtendsList,
     OpenParenLoses, OpenParenReturns, OpenParenLoops, CloseParenAborts
<1>7. ~ReadsQuoted
  BY <1>1, <1>2 DEF ReadsQuoted, DoubleQuoteStarts, DoubleQuoteScans, DoubleQuoteLoops,
     DoubleQuoteAllocatesString, DoubleQuoteReturns, SingleQuoteStarts, SingleQuoteInterns,
     SingleQuoteReads, SingleQuoteBegins, SingleQuoteReturns
<1>8. Repl => BootCallsRepl
  BY <1>1, <1>2 DEF Repl, ReplStarts, ReplGensyms, ReplAllocatesString,
     ReplAllocatesChars, UserTypes, ReplReads, ReplFormats, ReplQuits
<1> QED  BY <1>3, <1>4, <1>5, <1>6, <1>7, <1>8 DEF Next

LEMMA StartKept ==
  ASSUME InitializesInOrder, StartFits, Inv, StartInv, [Next]_vars
  PROVE  StartInv' /\ (CollectionRuns => RuntimeThere)
<1>1. CASE UNCHANGED vars
  <2>1. UNCHANGED <<heap, image, acts>>
    BY <1>1 DEF vars
  <2>2. UNCHANGED <<objects, bytes, next_gc, rt, acts>>
    BY <2>1 DEF heap, image
  <2>3. StartInv'
    BY <2>2 DEF StartInv, RuntimeOK, StartHolds, StartSpends, ToCome
  <2> QED  BY <2>2, <2>3 DEF CollectionRuns, AllocationStarts
<1>2. CASE Next /\ Top.fn # "initialize_runtime"
  BY <1>2, OthersKeepStart
<1>3. ASSUME Next, Top.fn = "initialize_runtime"
      PROVE  StartInv' /\ ~CollectionRuns
  <2>1. CASE BootReadtable
    <3> DEFINE do == "readtable"
    <3>1. At(do) /\ do \in {"readtable", "package"}
      BY <2>1 DEF BootReadtable
    <3> HIDE DEF do
    <3> QED  BY <2>1, <3>1, BootsSpend
  <2>2. CASE BootPackage
    <3> DEFINE do == "package"
    <3>1. At(do) /\ do \in {"readtable", "package"}
      BY <2>2 DEF BootPackage
    <3> HIDE DEF do
    <3> QED  BY <2>2, <3>1, BootsSpend
  <2>3. CASE BootBindConstants
    <3> DEFINE do == "bind constants"
    <3>1. At(do) /\ Early(do) /\ Plain(do)
      BY <2>3, Zenon DEF BootBindConstants, Early, Plain
    <3> HIDE DEF do
    <3> QED  BY <2>3, <3>1, BootBindsSpends
  <2>4. CASE BootBindFunction
    <3> DEFINE do == "bind function"
    <3>1. At(do) /\ Early(do)
      BY <2>4, Zenon DEF BootBindFunction, Early
    <3>2. ~BootBindConstants
      <4>1. "bind constants" # "bind function"
        OBVIOUS
      <4> QED  BY <2>4, <4>1, Zenon DEF BootBindFunction, BootBindConstants, At
    <3> HIDE DEF do
    <3> QED  BY <2>4, <3>1, <3>2, BootBindsSpends
  <2> QED  BY <1>3, <2>1, <2>2, <2>3, <2>4, StartRuns, BootFunctionSpends, BootInternSpends,
     BootListsSpends, BootInterpreterSpends, BootCallsSpends DEF Boots
<1> QED  BY <1>1, <1>2, <1>3

LEMMA InitIsStart ==
  ASSUME InitializesInOrder, StartFits, Init
  PROVE  StartInv
<1> DEFINE n == Steps
<1>1. /\ acts = <<BootAct>> /\ rt = [packages |-> {}, interpreter |-> Null]
      /\ next_gc = FirstCollection /\ bytes = 0
  BY DEF Init, RuntimeInit
<1>2. Len(acts) = 1 /\ acts[1].pc = 1 /\ acts[1].held = {}
  BY <1>1 DEF BootAct
<1>3. n \in Nat /\ 3 < n
  BY OrderIs
<1>4. ~(n - 2 < 1) /\ ~(n <= 1)
  <2> HIDE DEF n
  <2> QED  BY <1>3
<1>5. RuntimeOK
  <2> HIDE DEF n
  <2>1. rt.packages = {} /\ rt.interpreter = Null
    BY <1>1
  <2>2. ~(n - 2 < acts[1].pc) /\ ~(n <= acts[1].pc)
    BY <1>2, <1>4
  <2> QED  BY <1>1, <2>1, <2>2 DEF RuntimeOK, n
<1>6. StartHolds
  BY <1>2 DEF StartHolds
<1>7. ToCome = 0
  BY <1>2 DEF ToCome
<1>8. StartBytes[0] = 0
  BY StartBytesIs
<1>9. StartSpends
  BY <1>1, <1>2, <1>7, <1>8 DEF StartSpends
<1> QED  BY <1>5, <1>6, <1>9 DEF StartInv

(* No collection runs before the runtime lists its three packages and has  *)
(* its interpreter, whatever the texts and however long the names, as long *)
(* as what initialize_runtime allocates stays below the first limit        *)
(* (memory_manager.c:10, runtime.c:352).                                   *)
THEOREM CollectionsFindTheirRoots ==
  ASSUME InitializesInOrder, StartFits
  PROVE  Spec => CollectionsFindRoots
<1>1. Init => StartInv
  BY InitIsStart
<1>2. Inv /\ StartInv /\ [Next]_vars => StartInv' /\ (CollectionRuns => RuntimeThere)
  BY StartKept
<1>3. Inv /\ StartInv /\ [Next]_vars =>
        [CollectionRuns => rt.interpreter # Null /\ rt.packages = ToSet(PackageNames)]_vars
  BY <1>2 DEF RuntimeThere
<1>4. Spec => []Inv
  BY ReaderKept
<1> QED  BY <1>1, <1>2, <1>3, <1>4, PTL DEF Spec, CollectionsFindRoots

----------------------------------------------------------------------------
(* What is held stays where it is found                                    *)

LEMMA InternedStays ==
  ASSUME NEW id, NEW packs, NEW packs2, InternedId(id, packs), FilesMore(packs, packs2)
  PROVE  InternedId(id, packs2)
BY DEF InternedId, FilesMore

LEMMA BoundInFrameStays ==
  ASSUME NEW id, NEW i, NEW envs, NEW envs2, NEW all, NEW new, BoundInFrame(id, i, envs, all),
         Grows(all, new), KeepsBindings(all, new),
         \A k \in 1 .. Len(envs) : 2 * k <= i + 1 => k \in 1 .. Len(envs2) /\ envs2[k] = envs[k]
  PROVE  BoundInFrame(id, i, envs2, new)
<1>1. PICK k \in 1 .. Len(envs) :
        /\ 2 * k <= i + 1 /\ envs[k] \in Environments(all)
        /\ \E s \in DOMAIN all[envs[k]].values : all[envs[k]].values[s] = Object(id)
  BY DEF BoundInFrame
<1>2. k \in 1 .. Len(envs2) /\ envs2[k] = envs[k]
  BY <1>1
<1>3. envs[k] \in Environments(new)
  BY <1>1 DEF Environments, Grows, Lasts
<1>4. PICK s \in DOMAIN all[envs[k]].values : all[envs[k]].values[s] = Object(id)
  BY <1>1
<1>5. s \in DOMAIN new[envs[k]].values /\ new[envs[k]].values[s] = Object(id)
  BY <1>1, <1>4 DEF KeepsBindings
<1> QED  BY <1>1, <1>2, <1>3, <1>5 DEF BoundInFrame

(* The conses up to y lead on as they did.                                 *)
LEMMA LeadsStays ==
  ASSUME NEW all, NEW packs, HeapOK(all, packs), NEW new, DOMAIN all \subseteq DOMAIN new,
         NEW x \in DOMAIN all, NEW y \in DOMAIN all, Leads(x, y, all),
         \A id \in DOMAIN all : all[id].kind = "cons" /\ id < y => new[id] = all[id]
  PROVE  Leads(x, y, new)
<1> SUFFICES ASSUME NEW R \in SUBSET DOMAIN new, x \in R,
                    \A c \in R, d \in DOMAIN new :
                      new[c].kind = "cons" /\ new[c].cdr = Object(d) /\ d <= y => d \in R
             PROVE  y \in R
  BY DEF Leads
<1> DEFINE Q == R \cap DOMAIN all
<1>1. ASSUME NEW c \in Q, NEW d \in DOMAIN all, all[c].kind = "cons", all[c].cdr = Object(d), d <= y
      PROVE  d \in Q
  <2>1. ObjectOK(all[c], c, all, packs)
    BY DEF HeapOK
  <2>2. ConsOK(all[c], c, all)
    BY <1>1, <2>1 DEF ObjectOK
  <2>3. Object(d) # Nil
    BY DEF Object, Nil
  <2>4. PICK k \in DOMAIN all : all[c].cdr = Object(k) /\ c < k
    BY <1>1, <2>2, <2>3 DEF ConsOK
  <2>5. k = d
    BY <1>1, <2>4 DEF Object
  <2>6. c \in Nat /\ d \in Nat /\ y \in Nat
    BY SizeIs
  <2>7. c < y
    BY <1>1, <2>4, <2>5, <2>6
  <2>8. new[c] = all[c]
    BY <1>1, <2>7
  <2> QED  BY <1>1, <2>8
<1>2. x \in Q
  OBVIOUS
<1>3. Q \in SUBSET DOMAIN all
  OBVIOUS
<1> HIDE DEF Q
<1>4. y \in Q
  BY <1>1, <1>2, <1>3 DEF Leads
<1> QED  BY <1>4 DEF Q

(* A list that is extended leads to its new cons.                          *)
LEMMA LeadsOn ==
  ASSUME NEW all, NEW packs, HeapOK(all, packs), NEW new, NEW n, n \in Nat, DOMAIN all = 0 .. n - 1,
         DOMAIN new = DOMAIN all \cup {n}, NEW x \in DOMAIN all, NEW y \in DOMAIN all, Leads(x, y, all),
         \A id \in DOMAIN all : id # y => new[id] = all[id],
         new[y].kind = "cons", new[y].cdr = Object(n)
  PROVE  Leads(x, n, new)
<1> SUFFICES ASSUME NEW R \in SUBSET DOMAIN new, x \in R,
                    \A c \in R, d \in DOMAIN new :
                      new[c].kind = "cons" /\ new[c].cdr = Object(d) /\ d <= n => d \in R
             PROVE  n \in R
  BY DEF Leads
<1> DEFINE Q == R \cap DOMAIN all
<1>1. ASSUME NEW c \in Q, NEW d \in DOMAIN all, all[c].kind = "cons", all[c].cdr = Object(d), d <= y
      PROVE  d \in Q
  <2>1. ConsOK(all[c], c, all)
    BY <1>1 DEF HeapOK, ObjectOK
  <2>2. Object(d) # Nil
    BY DEF Object, Nil
  <2>3. PICK k \in DOMAIN all : all[c].cdr = Object(k) /\ c < k
    BY <1>1, <2>1, <2>2 DEF ConsOK
  <2>4. k = d
    BY <1>1, <2>3 DEF Object
  <2>5. c # y /\ d <= n
    BY <1>1, <2>3, <2>4
  <2> QED  BY <1>1, <2>5
<1>2. x \in Q /\ Q \in SUBSET DOMAIN all
  OBVIOUS
<1> HIDE DEF Q
<1>3. y \in Q
  BY <1>1, <1>2 DEF Leads
<1> QED  BY <1>3 DEF Q

(* HoldsAt by the function.                                                *)
LEMMA HoldsIs ==
  ASSUME NEW i, NEW act, NEW below, NEW forms, NEW envs, NEW all, NEW packs
  PROVE  /\ act.fn = "initialize_runtime" => HoldsAt(i, act, below, forms, envs, all, packs)
         /\ act.fn = "call" =>
              (HoldsAt(i, act, below, forms, envs, all, packs) <=> CallHolds(act, forms))
         /\ act.fn = "intern_symbol" =>
              (HoldsAt(i, act, below, forms, envs, all, packs) <=> InternHolds(act, below))
         /\ act.fn = "READ" =>
              (HoldsAt(i, act, below, forms, envs, all, packs) <=> ReadHolds(act, i, envs, all, packs))
         /\ act.fn = "(" =>
              (HoldsAt(i, act, below, forms, envs, all, packs)
                 <=> OpenParenHolds(act, below, i, forms, envs, all, packs))
         /\ ReadsString(act) =>
              (HoldsAt(i, act, below, forms, envs, all, packs) <=> DoubleQuoteHolds(act, below, forms))
         /\ act.fn = "'" =>
              (HoldsAt(i, act, below, forms, envs, all, packs)
                 <=> SingleQuoteHolds(act, below, forms, all, packs))
         /\ act.fn = "REPL" =>
              (HoldsAt(i, act, below, forms, envs, all, packs) <=> ReplHolds(act, i, envs, all, packs))
BY DEF HoldsAt, ReadsString

(* An activation, the one below and the levels they come to.               *)
LEMMA LayerIs ==
  ASSUME Inv, NEW b, Laid(b, acts, form_stack, Len(frame_stack), objects), NEW i \in 2 .. Len(acts)
  PROVE  /\ i \in Nat /\ i - 1 \in Nat /\ Len(acts) \in Nat /\ i - 1 \in 1 .. Len(acts)
         /\ ActOK(acts[i], objects, packages) /\ ActOK(acts[i - 1], objects, packages)
         /\ Waits(acts[i - 1], acts[i])
         /\ i < Len(acts) => Waits(acts[i], acts[i + 1])
         /\ b[i - 2] \in Levels /\ b[i - 1] \in Levels /\ b[i] \in Levels /\ b[Len(acts) - 1] \in Levels
         /\ ActLaid(acts[i - 1], b[i - 2], b[i - 1], form_stack, objects)
         /\ ActLaid(acts[i], b[i - 1], b[i], form_stack, objects)
         /\ b[i - 1].forms <= b[i].forms /\ b[i - 1].conses <= b[i].conses
         /\ b[i].forms <= Len(form_stack) /\ b[i].conses <= Size(objects)
         /\ i < Len(acts) =>
              b[i].forms <= b[Len(acts) - 1].forms /\ b[i].conses <= b[Len(acts) - 1].conses
<1> DEFINE n == Len(acts)
<1>1. n \in Nat /\ IsSeq(acts)
  BY SeqIs DEF Inv, ActsOK
<1>2. /\ \A j \in 1 .. n : ActOK(acts[j], objects, packages)
      /\ \A j \in 1 .. n - 1 : Waits(acts[j], acts[j + 1])
  BY DEF Inv, ActsOK
<1>3. /\ b \in [0 .. n -> Levels] /\ b[n].forms = Len(form_stack) /\ b[n].conses <= Size(objects)
      /\ \A j \in 1 .. n : ActLaid(acts[j], b[j - 1], b[j], form_stack, objects)
      /\ \A j, k \in 0 .. n : j <= k => b[j].forms <= b[k].forms /\ b[j].conses <= b[k].conses
  BY DEF Laid
<1>size. Size(objects) \in Nat
  BY SizeIs DEF Inv, ObjectsOK
<1> HIDE DEF n
<1>4. /\ i \in Nat /\ i - 1 \in 1 .. n /\ i \in 1 .. n /\ (i - 1) + 1 = i /\ (i - 1) - 1 = i - 2
      /\ i - 2 \in 0 .. n /\ i - 1 \in 0 .. n /\ i \in 0 .. n /\ n - 1 \in 0 .. n /\ n \in 0 .. n
      /\ i - 1 <= i /\ i <= n /\ i - 1 \in 1 .. n - 1 /\ (i < n => i <= n - 1 /\ i \in 1 .. n - 1)
      /\ i - 1 \in Nat
  BY <1>1 DEF n
<1>5. ActOK(acts[i], objects, packages) /\ ActOK(acts[i - 1], objects, packages)
  BY <1>2, <1>4
<1>6. Waits(acts[i - 1], acts[i]) /\ (i < n => Waits(acts[i], acts[i + 1]))
  BY <1>2, <1>4
<1>7. b[i - 2] \in Levels /\ b[i - 1] \in Levels /\ b[i] \in Levels /\ b[n - 1] \in Levels /\ b[n] \in Levels
  BY <1>3, <1>4
<1>8. /\ ActLaid(acts[i], b[i - 1], b[i], form_stack, objects)
      /\ ActLaid(acts[i - 1], b[i - 2], b[i - 1], form_stack, objects)
  <2>1. ActLaid(acts[i - 1], b[(i - 1) - 1], b[i - 1], form_stack, objects)
    BY <1>3, <1>4
  <2> QED  BY <1>3, <1>4, <2>1
<1>9. b[i - 1].forms <= b[i].forms /\ b[i - 1].conses <= b[i].conses
  BY <1>3, <1>4
<1>10. b[i].forms <= b[n].forms /\ b[i].conses <= b[n].conses
  BY <1>3, <1>4
<1>11. b[i].conses <= Size(objects)
  BY <1>3, <1>7, <1>10, <1>size DEF Levels
<1>12. i < n => b[i].forms <= b[n - 1].forms /\ b[i].conses <= b[n - 1].conses
  BY <1>3, <1>4
<1> QED  BY <1>1, <1>3, <1>4, <1>5, <1>6, <1>7, <1>8, <1>9, <1>10, <1>11, <1>12 DEF n

(* Below a reader waits the call with its evaluated arguments.             *)
LEMMA CallBelowIs ==
  ASSUME Inv, NEW b, Laid(b, acts, form_stack, Len(frame_stack), objects), NEW i \in 2 .. Len(acts),
         acts[i].fn \in Readers
  PROVE  LET below == acts[i - 1]
         IN  /\ below.fn = "call" /\ below.pc = "return" /\ CallOK(below)
             /\ b[i - 1].forms \in Nat /\ 1 <= b[i - 1].forms
             /\ EvaledOffset(below) + 1 = b[i - 1].forms
             /\ EvaledOffset(below) + 2 = b[i - 1].forms + 1
             /\ Evaluated(form_stack[b[i - 1].forms], below.arg_i, b[i - 2].conses,
                          b[i - 1].conses, objects)
<1> DEFINE below == acts[i - 1]
           lo == b[i - 2]
           hi == b[i - 1]
<1>1. /\ ActOK(below, objects, packages) /\ Waits(below, acts[i])
      /\ ActLaid(below, lo, hi, form_stack, objects) /\ lo \in Levels /\ hi \in Levels
  BY LayerIs
<1> HIDE DEF below, lo, hi
<1>2. below.fn = "call" /\ below.pc = "return"
  BY <1>1 DEF Waits
<1>3. CallOK(below) /\ CallLaid(below, lo, hi, form_stack, objects)
  BY <1>1, <1>2 DEF ActOK, ActLaid
<1>4. below.fn_index = lo.forms /\ hi.forms = lo.forms + below.arg_count + 2
      /\ Evaluated(form_stack[hi.forms], below.arg_i, lo.conses, hi.conses, objects)
  BY <1>2, <1>3 DEF CallLaid
<1>5. lo.forms \in Nat /\ hi.forms \in Nat /\ below.arg_count \in Nat
  BY <1>1, <1>3 DEF Levels, CallOK
<1>6. EvaledOffset(below) = lo.forms + below.arg_count + 1
  BY <1>4 DEF EvaledOffset
<1>7. 1 <= hi.forms /\ EvaledOffset(below) + 1 = hi.forms /\ EvaledOffset(below) + 2 = hi.forms + 1
  <2> DEFINE k == below.arg_count
             f == lo.forms
             e == EvaledOffset(below)
             g == hi.forms
  <2>1. e = f + k + 1 /\ g = f + k + 2 /\ f \in Nat /\ k \in Nat
    BY <1>4, <1>5, <1>6
  <2> HIDE DEF k, f, e, g
  <2>2. 1 <= g /\ e + 1 = g /\ e + 2 = g + 1
    BY <2>1
  <2> QED  BY <2>2 DEF e, g
<1> QED  BY <1>2, <1>3, <1>4, <1>5, <1>7 DEF below, lo, hi

(* The frames up to a level stay.                                          *)
FramesAgree(level) ==
  \A k \in 1 .. Len(frame_stack) :
    2 * k <= level => k \in 1 .. Len(frame_stack') /\ frame_stack'[k] = frame_stack[k]

(* Whoever waits goes on holding what it holds.                            *)
LEMMA LowerHold ==
  ASSUME Inv, RunOK, Undisturbed, KeepsBindings(objects, objects'), FramesAgree(Len(acts)),
         NEW i \in 2 .. Len(acts) - 1
  PROVE  HoldsAt(i, acts[i], acts[i - 1], form_stack', frame_stack', objects', packages')
<1> DEFINE n == Len(acts)
           act == acts[i]
           below == acts[i - 1]
<1>1. PICK b : Laid(b, acts, form_stack, Len(frame_stack), objects) /\ KeepsLower(b)
  BY DEF Undisturbed
<1> DEFINE lo == b[i - 1]
           hi == b[i]
           top == b[n - 1]
<1>2. n \in Nat /\ i \in 2 .. n /\ i < n /\ i + 1 <= n
  <2>1. n \in Nat
    BY ActsAre
  <2> HIDE DEF n
  <2> QED  BY <2>1 DEF n
<1>3. /\ ActOK(act, objects, packages) /\ Waits(act, acts[i + 1]) /\ Waits(below, act)
      /\ lo \in Levels /\ hi \in Levels /\ top \in Levels
      /\ ActLaid(act, lo, hi, form_stack, objects)
      /\ lo.forms <= hi.forms /\ lo.conses <= hi.conses /\ hi.forms <= top.forms /\ hi.conses <= top.conses
      /\ hi.forms <= Len(form_stack)
  BY <1>1, <1>2, LayerIs
<1>late. Waits(act, acts[i + 1]) /\ acts[i + 1].fn \in {"intern_symbol", "call"} \cup Readers
  <2>1. ActOK(acts[i + 1], objects, packages)
    BY <1>2, ActsAre
  <2> QED  BY <1>3, <2>1 DEF Waits, ActOK
<1>4. HoldsAt(i, act, below, form_stack, frame_stack, objects, packages)
  BY <1>2 DEF RunOK
<1>5. act.fn \in Readers =>
        /\ CallOK(below) /\ lo.forms \in Nat /\ 1 <= lo.forms
        /\ EvaledOffset(below) + 1 = lo.forms /\ EvaledOffset(below) + 2 = lo.forms + 1
        /\ Evaluated(form_stack[lo.forms], below.arg_i, b[i - 2].conses, lo.conses, objects)
  BY <1>1, <1>2, CallBelowIs
<1>6. /\ HeapGrows /\ Settled(objects, objects', top.conses) /\ Agree(form_stack, form_stack', top.forms)
      /\ HeapOK(objects, packages)
  BY <1>1 DEF KeepsLower, Inv, ObjectsOK
<1>7. Grows(objects, objects') /\ FilesMore(packages, packages') /\ DOMAIN objects \subseteq DOMAIN objects'
  BY <1>6 DEF HeapGrows, Steady, Grows
<1>8. ASSUME NEW id, BoundInFrame(id, i, frame_stack, objects)
      PROVE  BoundInFrame(id, i, frame_stack', objects')
  <2>1. \A k \in 1 .. Len(frame_stack) :
          2 * k <= i + 1 => k \in 1 .. Len(frame_stack') /\ frame_stack'[k] = frame_stack[k]
    <3> SUFFICES ASSUME NEW k \in 1 .. Len(frame_stack), 2 * k <= i + 1
                 PROVE  2 * k <= Len(acts)
      BY DEF FramesAgree
    <3> QED  BY <1>2
  <2> QED  BY <1>7, <1>8, <2>1, BoundInFrameStays
<1> HIDE DEF n, act, below, lo, hi, top
<1>9. act.fn \in {"initialize_runtime", "intern_symbol", "call"} \cup Readers
  BY <1>3 DEF ActOK
<1>10. CASE act.fn = "initialize_runtime"
  BY <1>10, HoldsIs DEF act, below
<1>11. CASE act.fn = "intern_symbol"
  BY <1>late, <1>11 DEF Waits, Readers
<1>12. CASE act.fn = "call"
  <2>1. CallLaid(act, lo, hi, form_stack, objects) /\ CallOK(act) /\ CallHolds(act, form_stack)
    BY <1>3, <1>4, <1>12, HoldsIs DEF ActLaid, ActOK
  <2>2. act.pc # "begin"
    BY <1>late, <1>12 DEF Waits, Readers
  <2>3. act.fn_index = lo.forms /\ hi.forms = lo.forms + act.arg_count + 2 /\ act.arg_count \in Nat
        /\ lo.forms \in Nat
    <3>1. act.fn_index = lo.forms /\ hi.forms = lo.forms + act.arg_count + 2
      BY <2>1, <2>2 DEF CallLaid
    <3>2. lo.forms \in Nat
      BY <1>3 DEF Levels
    <3>3. act.arg_count \in 0 .. 2
      BY <2>1 DEF CallOK
    <3> QED  BY <3>1, <3>2, <3>3
  <2>4. act.fn_index + 1 \in 1 .. top.forms
    <3> DEFINE f == lo.forms
               h == hi.forms
               t == top.forms
               k == act.arg_count
    <3>1. f \in Nat /\ k \in Nat /\ h = f + k + 2 /\ h <= t /\ t \in Nat /\ act.fn_index = f
      BY <1>3, <2>3 DEF Levels
    <3> HIDE DEF f, h, t, k
    <3>2. f + 1 \in 1 .. t
      BY <3>1
    <3> QED  BY <3>1, <3>2 DEF t
  <2>5. form_stack'[act.fn_index + 1] = form_stack[act.fn_index + 1]
    BY <1>6, <2>4 DEF Agree
  <2>6. CallHolds(act, form_stack')
    BY <2>1, <2>5 DEF CallHolds
  <2> QED  BY <1>12, <2>6, HoldsIs DEF act, below
<1>13. CASE act.fn = "READ"
  <2>1. ReadHolds(act, i, frame_stack, objects, packages)
    BY <1>4, <1>13, HoldsIs
  <2>2. act.pc \notin {"gensym", "stream"}
    BY <1>late, <1>13 DEF Waits, Readers
  <2>3. ReadHolds(act, i, frame_stack', objects', packages')
    BY <1>8, <2>1, <2>2 DEF ReadHolds
  <2> QED  BY <1>13, <2>3, HoldsIs DEF act, below
<1>14. CASE act.fn = "REPL"
  <2>1. ReplHolds(act, i, frame_stack, objects, packages)
    BY <1>4, <1>14, HoldsIs
  <2>2. act.pc \notin {"gensym", "string"}
    BY <1>late, <1>14 DEF Waits, Readers
  <2>3. ReplHolds(act, i, frame_stack', objects', packages')
    BY <1>8, <2>1, <2>2 DEF ReplHolds
  <2> QED  BY <1>14, <2>3, HoldsIs DEF act, below
<1>15. CASE act.fn = "("
  <2>1. OpenParenHolds(act, below, i, form_stack, frame_stack, objects, packages)
    BY <1>4, <1>15, HoldsIs
  <2>2. act.pc \notin {"scan", "gensym", "stream"}
    BY <1>late, <1>15 DEF Waits, Readers
  <2>3. /\ act.held = {act.stream} \cup (IF act.last = NoBuffer THEN {} ELSE {act.cons})
        /\ BoundInFrame(act.stream, i, frame_stack, objects)
        /\ act.last # NoBuffer =>
             /\ act.cons \in DOMAIN objects /\ objects[act.cons].kind = "cons" /\ objects[act.cons].cdr = Nil
             /\ \E h \in DOMAIN objects :
                  form_stack[EvaledOffset(below) + 2] = Object(h) /\ Leads(h, act.cons, objects)
    BY <2>1, <2>2 DEF OpenParenHolds
  <2>4. ASSUME act.last # NoBuffer
        PROVE  /\ act.cons \in DOMAIN objects' /\ objects'[act.cons].kind = "cons"
               /\ objects'[act.cons].cdr = Nil
               /\ \E h \in DOMAIN objects' :
                    form_stack'[EvaledOffset(below) + 2] = Object(h) /\ Leads(h, act.cons, objects')
    <3>1. OpenParenLaid(act, lo, hi)
      BY <1>3, <1>15 DEF ActLaid
    <3>2. hi.forms = lo.forms + 1 /\ act.cons \in Nat /\ act.cons < hi.conses
      BY <2>4, <3>1 DEF OpenParenLaid
    <3>3. EvaledOffset(below) + 2 = hi.forms /\ hi.forms \in 1 .. top.forms
      BY <1>3, <1>5, <1>15, <3>2 DEF Readers, Levels
    <3>4. form_stack'[EvaledOffset(below) + 2] = form_stack[EvaledOffset(below) + 2]
      BY <1>6, <3>3 DEF Agree
    <3>5. act.cons < top.conses
      BY <1>3, <3>2 DEF Levels
    <3>6. objects'[act.cons] = objects[act.cons]
      BY <1>6, <2>3, <2>4, <3>5 DEF Settled
    <3>7. \A id \in DOMAIN objects :
            objects[id].kind = "cons" /\ id < act.cons => objects'[id] = objects[id]
      <4> SUFFICES ASSUME NEW id \in DOMAIN objects, objects[id].kind = "cons", id < act.cons
                   PROVE  id < top.conses
        BY <1>6 DEF Settled
      <4>1. id \in Nat
        BY <1>6, SizeIs
      <4> QED  BY <1>3, <3>2, <3>5, <4>1 DEF Levels
    <3>8. PICK h \in DOMAIN objects :
            form_stack[EvaledOffset(below) + 2] = Object(h) /\ Leads(h, act.cons, objects)
      BY <2>3, <2>4
    <3>9. Leads(h, act.cons, objects')
      BY <1>6, <1>7, <2>3, <2>4, <3>7, <3>8, LeadsStays
    <3> QED  BY <1>7, <2>3, <2>4, <3>4, <3>6, <3>8, <3>9
  <2>5. BoundInFrame(act.stream, i, frame_stack', objects')
    BY <1>8, <2>3
  <2>6. OpenParenHolds(act, below, i, form_stack', frame_stack', objects', packages')
    BY <2>2, <2>3, <2>4, <2>5 DEF OpenParenHolds
  <2> QED  BY <1>15, <2>6, HoldsIs DEF act, below
<1>16. CASE act.fn = "'"
  <2>1. SingleQuoteHolds(act, below, form_stack, objects, packages)
    BY <1>4, <1>16, HoldsIs
  <2>2. act.pc \in {"read", "quote"}
    BY <1>late, <1>16 DEF Waits, Readers
  <2>3. CASE act.pc = "read"
    <3>1. PICK h \in DOMAIN objects :
            /\ form_stack[EvaledOffset(below) + 1] = Object(h)
            /\ objects[h].kind = "cons" /\ objects[h].car = act.stream
      BY <2>1, <2>3 DEF SingleQuoteHolds
    <3>2. EvaledOffset(below) + 1 = lo.forms /\ lo.forms \in 1 .. top.forms
      BY <1>3, <1>5, <1>16 DEF Readers, Levels
    <3>3. form_stack'[EvaledOffset(below) + 1] = Object(h)
      BY <1>6, <3>1, <3>2 DEF Agree
    <3>4. h < lo.conses
      <4>1. Evaluated(form_stack[lo.forms], below.arg_i, b[i - 2].conses, lo.conses, objects)
            /\ below.arg_i \in {0, 1, 2}
        BY <1>5, <1>16 DEF Readers, CallOK
      <4>2. form_stack[lo.forms] = Object(h) /\ Object(h) # Nil
        BY <3>1, <3>2 DEF Object, Nil
      <4>3. \A k : Object(k) = Object(h) => k = h
        BY DEF Object
      <4> QED  BY <4>1, <4>2, <4>3 DEF Evaluated
    <3>5. h < top.conses /\ h \in Nat
      <4>1. h \in Nat
        BY <1>6, SizeIs
      <4> QED  BY <1>3, <3>4, <4>1 DEF Levels
    <3>6. objects'[h] = objects[h] /\ h \in DOMAIN objects'
      BY <1>6, <1>7, <3>1, <3>5 DEF Settled
    <3>7. SingleQuoteHolds(act, below, form_stack', objects', packages')
      BY <2>1, <2>3, <3>1, <3>3, <3>6 DEF SingleQuoteHolds
    <3> QED  BY <1>16, <3>7, HoldsIs DEF act, below
  <2>4. CASE act.pc = "quote"
    <3>1. SingleQuoteHolds(act, below, form_stack', objects', packages')
      BY <1>7, <2>1, <2>4, InternedStays DEF SingleQuoteHolds
    <3> QED  BY <1>16, <3>1, HoldsIs DEF act, below
  <2> QED  BY <2>2, <2>3, <2>4
<1>17. CASE ReadsString(act)
  <2>1. act.fn \in Readers /\ act.fn # "READ" /\ act.fn # "(" /\ act.fn # "'" /\ act.fn # "REPL"
    BY <1>17 DEF ReadsString, Readers
  <2>2. act.fn # "call" /\ act.fn # "initialize_runtime"
    BY <2>1 DEF Readers
  <2> QED  BY <1>late, <2>1, <2>2 DEF Waits, Readers
<1>18. act.fn \in Readers =>
         act.fn = "READ" \/ act.fn = "(" \/ act.fn = "'" \/ act.fn = "REPL" \/ ReadsString(act)
  BY DEF Readers, ReadsString
<1> QED  BY <1>9, <1>10, <1>11, <1>12, <1>13, <1>14, <1>15, <1>16, <1>17, <1>18

----------------------------------------------------------------------------
(* How it stays that way when the running function goes on, calls, returns *)

LEMMA FramesStand ==
  ASSUME frame_stack' = frame_stack, NEW level
  PROVE  FramesAgree(level)
BY DEF FramesAgree

LEMMA LastsStay ==
  ASSUME LastsOK, last_return_value' = last_return_value, DOMAIN objects \subseteq DOMAIN objects'
  PROVE  LastsOK'
BY DEF LastsOK, FormOK

LEMMA UndisturbedGrows ==
  ASSUME Undisturbed
  PROVE  /\ HeapGrows /\ Grows(objects, objects') /\ DOMAIN objects \subseteq DOMAIN objects'
         /\ FilesMore(packages, packages')
BY DEF Undisturbed, KeepsLower, HeapGrows, Steady, Grows

LEMMA ReplacedHolds ==
  ASSUME Inv, RunOK, Undisturbed, KeepsBindings(objects, objects'), FramesAgree(Len(acts)),
         NEW act, acts' = Append(Below, act), 2 <= Len(acts),
         2 * Len(frame_stack') = FramesOf(Len(acts), act),
         ValueKept(value', act, last_return_value', packages'), QuoteKept(value', act, packages'),
         HoldsAt(Len(acts), act, acts[Len(acts) - 1], form_stack', frame_stack', objects', packages')
  PROVE  RunOK'
<1> DEFINE n == Len(acts)
           m == Len(Below)
<1>1. n \in Nat /\ IsSeq(Below) /\ m = n - 1 /\ \A i \in 1 .. n - 1 : Below[i] = acts[i]
  BY ActsAre
<1>2. /\ IsSeq(acts') /\ Len(acts') = m + 1 /\ acts'[m + 1] = act
      /\ \A i \in 1 .. m : acts'[i] = Below[i]
  BY <1>1, AppendIs
<1> HIDE DEF n, m
<1>3. /\ m + 1 = n /\ 1 <= n /\ \A i \in 1 .. n - 1 : i \in 1 .. m
      /\ \A i \in 2 .. n : i = n \/ i \in 2 .. n - 1
      /\ \A i \in 2 .. n - 1 : i \in 1 .. n - 1 /\ i - 1 \in 1 .. n - 1
      /\ n - 1 \in 1 .. n - 1
  BY <1>1 DEF n
<1>4. Len(acts') = n /\ acts'[n] = act /\ \A i \in 1 .. n - 1 : acts'[i] = acts[i]
  BY <1>1, <1>2, <1>3
<1>5. Top' = act
  BY <1>2, <1>3, <1>4 DEF Top, Last
<1>6. ASSUME NEW i \in 2 .. n
      PROVE  HoldsAt(i, acts'[i], acts'[i - 1], form_stack', frame_stack', objects', packages')
  <2>1. CASE i = n
    BY <1>3, <1>4, <2>1 DEF n
  <2>2. CASE i \in 2 .. n - 1
    <3>1. HoldsAt(i, acts[i], acts[i - 1], form_stack', frame_stack', objects', packages')
      BY <2>2, LowerHold DEF n
    <3>2. acts'[i] = acts[i] /\ acts'[i - 1] = acts[i - 1]
      BY <1>3, <1>4, <2>2
    <3> QED  BY <3>1, <3>2
  <2> QED  BY <1>3, <2>1, <2>2
<1> QED  BY <1>4, <1>5, <1>6 DEF RunOK, n

LEMMA CalledHolds ==
  ASSUME Inv, RunOK, Undisturbed, KeepsBindings(objects, objects'), FramesAgree(Len(acts)),
         NEW act, NEW callee, acts' = Below \o <<act, callee>>, 2 <= Len(acts),
         2 * Len(frame_stack') = FramesOf(Len(acts) + 1, callee),
         ValueKept(value', callee, last_return_value', packages'), QuoteKept(value', callee, packages'),
         HoldsAt(Len(acts), act, acts[Len(acts) - 1], form_stack', frame_stack', objects', packages'),
         HoldsAt(Len(acts) + 1, callee, act, form_stack', frame_stack', objects', packages')
  PROVE  RunOK'
<1> DEFINE n == Len(acts)
           m == Len(Below)
           two == <<act, callee>>
<1>1. n \in Nat /\ IsSeq(Below) /\ m = n - 1 /\ \A i \in 1 .. n - 1 : Below[i] = acts[i]
  BY ActsAre
<1>2. IsSeq(two) /\ Len(two) = 2 /\ two[1] = act /\ two[2] = callee
  BY PairIs
<1> HIDE DEF two
<1>3. /\ IsSeq(acts') /\ Len(acts') = m + 2
      /\ \A i \in 1 .. m + 2 : acts'[i] = IF i <= m THEN Below[i] ELSE two[i - m]
  <2>1. acts' = Below \o two
    BY DEF two
  <2>2. /\ IsSeq(Below \o two) /\ Len(Below \o two) = m + Len(two)
        /\ \A i \in 1 .. m + Len(two) :
             (Below \o two)[i] = IF i <= m THEN Below[i] ELSE two[i - m]
    BY <1>1, <1>2, ConcatIs
  <2> HIDE DEF m
  <2> QED  BY <1>2, <2>1, <2>2
<1> HIDE DEF m
<1>all. n \in Nat /\ m = n - 1 /\ 2 <= n
  BY <1>1
<1> HIDE DEF n
<1>4. /\ m + 2 = n + 1 /\ 1 <= n + 1 /\ n + 1 \in 1 .. m + 2 /\ n \in 1 .. m + 2
      /\ ~(n + 1 <= m) /\ ~(n <= m) /\ n - m = 1 /\ (n + 1) - m = 2
      /\ \A i \in 1 .. n - 1 : i \in 1 .. m + 2 /\ i <= m
      /\ \A i \in 2 .. n + 1 : i = n + 1 \/ i = n \/ i \in 2 .. n - 1
      /\ \A i \in 2 .. n - 1 : i \in 1 .. n - 1 /\ i - 1 \in 1 .. n - 1
      /\ n - 1 \in 1 .. n - 1 /\ (n + 1) - 1 = n
  BY <1>all
<1>5. /\ Len(acts') = n + 1 /\ acts'[n] = act /\ acts'[n + 1] = callee
      /\ \A i \in 1 .. n - 1 : acts'[i] = acts[i]
  BY <1>1, <1>2, <1>3, <1>4
<1>6. Top' = callee
  BY <1>3, <1>4, <1>5 DEF Top, Last
<1>7. ASSUME NEW i \in 2 .. n + 1
      PROVE  HoldsAt(i, acts'[i], acts'[i - 1], form_stack', frame_stack', objects', packages')
  <2>1. CASE i = n + 1
    BY <1>4, <1>5, <2>1 DEF n
  <2>2. CASE i = n
    BY <1>4, <1>5, <2>2 DEF n
  <2>3. CASE i \in 2 .. n - 1
    <3>1. HoldsAt(i, acts[i], acts[i - 1], form_stack', frame_stack', objects', packages')
      BY <2>3, LowerHold DEF n
    <3>2. acts'[i] = acts[i] /\ acts'[i - 1] = acts[i - 1]
      BY <1>4, <1>5, <2>3
    <3> QED  BY <3>1, <3>2
  <2> QED  BY <1>4, <2>1, <2>2, <2>3
<1> QED  BY <1>5, <1>6, <1>7 DEF RunOK, n

LEMMA ReturnedHolds ==
  ASSUME Inv, RunOK, Undisturbed, KeepsBindings(objects, objects'), FramesAgree(Len(acts)),
         acts' = Below, 2 <= Len(acts), NEW act, act = acts[Len(acts) - 1],
         2 * Len(frame_stack') = FramesOf(Len(acts) - 1, act),
         ValueKept(value', act, last_return_value', packages'), QuoteKept(value', act, packages')
  PROVE  RunOK'
<1> DEFINE n == Len(acts)
<1>1. n \in Nat /\ IsSeq(Below) /\ Len(Below) = n - 1 /\ \A i \in 1 .. n - 1 : Below[i] = acts[i]
  BY ActsAre
<1> HIDE DEF n
<1>2. /\ 1 <= n - 1 /\ n - 1 \in 1 .. n - 1
      /\ \A i \in 2 .. n - 1 : i \in 1 .. n - 1 /\ i - 1 \in 1 .. n - 1
  BY <1>1 DEF n
<1>3. IsSeq(acts') /\ Len(acts') = n - 1 /\ \A i \in 1 .. n - 1 : acts'[i] = acts[i]
  BY <1>1
<1>4. Top' = act
  BY <1>2, <1>3 DEF Top, Last, n
<1>5. ASSUME NEW i \in 2 .. n - 1
      PROVE  HoldsAt(i, acts'[i], acts'[i - 1], form_stack', frame_stack', objects', packages')
  <2>1. HoldsAt(i, acts[i], acts[i - 1], form_stack', frame_stack', objects', packages')
    BY LowerHold DEF n
  <2>2. acts'[i] = acts[i] /\ acts'[i - 1] = acts[i - 1]
    BY <1>2, <1>3
  <2> QED  BY <2>1, <2>2
<1> QED  BY <1>3, <1>4, <1>5 DEF RunOK, n

LEMMA ValueStays ==
  ASSUME Inv, NEW act, NEW before, NEW packs2, FilesMore(packages, packs2), ~Returning(before),
         ValueKept(value, before, last_return_value, packages),
         act.fn = "call" /\ act.pc = "arguments" => before.fn = "call" /\ before.pc = "arguments"
  PROVE  ValueKept(value, act, last_return_value, packs2)
<1> DEFINE m == Len(last_return_value)
           a == IF before.fn = "call" /\ before.pc = "arguments" THEN 1 ELSE 0
           c == IF act.fn = "call" /\ act.pc = "arguments" THEN 1 ELSE 0
<1>1. \/ value[1] # "object" \/ InternedId(value[2], packages)
      \/ \E k \in 1 .. m - a : value = last_return_value[k]
  BY DEF ValueKept
<1>2. m \in Nat
  BY SeqIs DEF Inv, FramesOK
<1>3. a \in {0, 1} /\ c \in {0, 1} /\ (c = 1 => a = 1)
  OBVIOUS
<1>4. \A k \in 1 .. m - a : k \in 1 .. m - c
  <2> HIDE DEF m, a, c
  <2> QED  BY <1>2, <1>3
<1> HIDE DEF a
<1>5. \/ value[1] # "object" \/ InternedId(value[2], packs2)
      \/ \E k \in 1 .. m - c : value = last_return_value[k]
  BY <1>1, <1>4, InternedStays
<1> QED  BY <1>5 DEF ValueKept

LEMMA ReaderHasFrames ==
  ASSUME NEW act, act.fn \in Readers, NEW n
  PROVE  FramesOf(n, act) = n + 1
<1>1. ~(act.fn = "call" /\ act.pc # "begin")
  BY DEF Readers
<1> QED  BY <1>1 DEF FramesOf

(* A function of the reader goes on, ...                                   *)
LEMMA ReaderGoesOnHolding ==
  ASSUME InitializesInOrder, Inv, RunOK, LastsOK, Undisturbed, KeepsBindings(objects, objects'),
         Top.fn \in Readers, ~Returning(Top), NEW act, acts' = Append(Below, act), act.fn = Top.fn,
         act.fn # "'" \/ act.pc # "read", UNCHANGED <<frames, value>>,
         HoldsAt(Len(acts), act, acts[Len(acts) - 1], form_stack', frame_stack', objects', packages')
  PROVE  RunOK' /\ LastsOK'
<1>1. 2 <= Len(acts)
  BY StartWaits DEF Readers
<1>2. UNCHANGED <<last_return_value, frame_stack, value>>
  BY DEF frames
<1>3. FramesAgree(Len(acts))
  BY <1>2, FramesStand
<1>4. 2 * Len(frame_stack') = FramesOf(Len(acts), act)
  <2>1. 2 * Len(frame_stack) = FramesOf(Len(acts), Top)
    BY DEF RunOK
  <2>2. FramesOf(Len(acts), act) = FramesOf(Len(acts), Top)
    BY DEF FramesOf
  <2> QED  BY <1>2, <2>1, <2>2
<1>5. ValueKept(value', act, last_return_value', packages')
  <2>1. act.fn # "call"
    BY DEF Readers
  <2>2. ValueKept(value, Top, last_return_value, packages)
    BY DEF RunOK
  <2> QED  BY <1>2, <2>1, <2>2, UndisturbedGrows, ValueStays
<1>6. QuoteKept(value', act, packages')
  BY DEF QuoteKept
<1> QED  BY <1>1, <1>2, <1>3, <1>4, <1>5, <1>6, ReplacedHolds, LastsStay, UndisturbedGrows

(* ... calls a function ...                                                *)
LEMMA ReaderCallsHolding ==
  ASSUME InitializesInOrder, Inv, RunOK, LastsOK, Undisturbed, UNCHANGED <<heap, image, frames, value>>,
         Top.fn \in Readers, ~Returning(Top), NEW act, NEW callee, acts' = Below \o <<act, callee>>,
         (callee.fn = "call" /\ callee.pc = "begin") \/ callee.fn = "intern_symbol",
         HoldsAt(Len(acts), act, acts[Len(acts) - 1], form_stack', frame_stack, objects, packages),
         HoldsAt(Len(acts) + 1, callee, act, form_stack', frame_stack, objects, packages)
  PROVE  RunOK' /\ LastsOK'
<1>1. 2 <= Len(acts)
  BY StartWaits DEF Readers
<1>2. UNCHANGED <<objects, packages, last_return_value, frame_stack, value>>
  BY DEF heap, image, frames
<1>3. FramesAgree(Len(acts)) /\ KeepsBindings(objects, objects')
  BY <1>2, FramesStand, NothingFills
<1>4. 2 * Len(frame_stack') = FramesOf(Len(acts) + 1, callee)
  <2>1. 2 * Len(frame_stack) = FramesOf(Len(acts), Top)
    BY DEF RunOK
  <2>2. FramesOf(Len(acts), Top) = Len(acts) + 1
    BY ReaderHasFrames
  <2>3. FramesOf(Len(acts) + 1, callee) = Len(acts) + 1
    BY DEF FramesOf, Readers
  <2> QED  BY <1>2, <2>1, <2>2, <2>3
<1>5. ValueKept(value', callee, last_return_value', packages')
  <2>1. ~(callee.fn = "call" /\ callee.pc = "arguments")
    OBVIOUS
  <2>2. ValueKept(value, Top, last_return_value, packages)
    BY DEF RunOK
  <2> QED  BY <1>2, <2>1, <2>2, UndisturbedGrows, ValueStays
<1>6. QuoteKept(value', callee, packages')
  BY DEF QuoteKept
<1> QED  BY <1>1, <1>2, <1>3, <1>4, <1>5, <1>6, CalledHolds, LastsStay, UndisturbedGrows

(* ... and returns to the call that waits for it.                          *)
LEMMA ReaderReturnsHolding ==
  ASSUME InitializesInOrder, Inv, RunOK, LastsOK, Undisturbed, KeepsBindings(objects, objects'),
         Top.fn \in Readers, acts' = Below, UNCHANGED frames
  PROVE  RunOK' /\ LastsOK'
<1> DEFINE n == Len(acts)
           act == acts[n - 1]
<1>1. 2 <= n /\ n \in Nat
  BY StartWaits, ActsAre DEF Readers
<1>2. UNCHANGED <<last_return_value, frame_stack>>
  BY DEF frames
<1>3. FramesAgree(Len(acts))
  BY <1>2, FramesStand
<1>4. act.fn = "call" /\ act.pc = "return"
  <2>1. \A i \in 1 .. n - 1 : Waits(acts[i], acts[i + 1])
    BY ActsAre
  <2>2. Top = acts[n]
    BY ActsAre
  <2> HIDE DEF n
  <2>3. n - 1 \in 1 .. n - 1 /\ (n - 1) + 1 = n
    BY <1>1
  <2>4. Waits(acts[n - 1], Top)
    BY <2>1, <2>2, <2>3
  <2> QED  BY <2>4 DEF Waits
<1>5. 2 * Len(frame_stack') = FramesOf(n - 1, act)
  <2>1. 2 * Len(frame_stack) = FramesOf(n, Top)
    BY DEF RunOK
  <2> HIDE DEF n
  <2>2. FramesOf(n, Top) = n + 1
    BY ReaderHasFrames
  <2>3. FramesOf(n - 1, act) = n - 1 + 2
    BY <1>4 DEF FramesOf, Readers
  <2>4. n - 1 + 2 = n + 1
    BY <1>1
  <2> QED  BY <1>2, <2>1, <2>2, <2>3, <2>4
<1>6. ValueKept(value', act, last_return_value', packages') /\ QuoteKept(value', act, packages')
  BY <1>4 DEF ValueKept, Returning, QuoteKept
<1> HIDE DEF n
<1> QED  BY <1>1, <1>2, <1>3, <1>5, <1>6, ReturnedHolds, LastsStay, UndisturbedGrows DEF n

----------------------------------------------------------------------------
(* What a step allocates is filled, and what was bound stays bound         *)

(* What is allocated without anything else being altered.                  *)
LEMMA PlainAllocation ==
  ASSUME Inv, NEW o, Allocates(o, objects),
         o.kind \notin {"string", "environment"} \/ o = String \/ \E parent, p : o = Environment(parent, p)
  PROVE  /\ Allocated(o) /\ \A id \in DOMAIN objects : objects'[id] = objects[id]
         /\ (Filled => Filled') /\ KeepsBindings(objects, objects')
<1>1. HeapOK(objects, packages)
  BY DEF Inv, ObjectsOK
<1>2. Allocated(o) /\ \A id \in DOMAIN objects : objects'[id] = objects[id]
  <2>1. /\ Fresh \in Nat /\ Fresh \notin DOMAIN objects
        /\ DOMAIN objects' = DOMAIN objects \cup {Fresh} /\ objects'[Fresh] = o
        /\ \A id \in DOMAIN objects : objects'[id] = objects[id]
        /\ Size(objects') = Fresh + 1
    BY <1>1, AllocationAdds
  <2>2. Fresh = Size(objects)
    BY DEF Fresh, Size
  <2> QED  BY <2>1, <2>2 DEF Allocated
<1>3. FilledOK(o, objects')
  BY BareFills
<1> QED  BY <1>2, <1>3, PlainFills

(* gensym leaves a symbol that nothing is bound to.                        *)
LEMMA GensymsNew ==
  ASSUME Inv, Filled, "SYSTEM" \in DOMAIN packages, Gensyms("SYSTEM")
  PROVE  Filled' /\ KeepsBindings(objects, objects') /\ NewSymbol({Fresh}, objects', packages')
<1>1. ObjectsOK(objects, packages)
  BY DEF Inv
<1>2. /\ HeapGrows /\ \E k : Allocated(Symbol("SYSTEM", k))
      /\ \A id \in DOMAIN objects : objects'[id] = objects[id]
      /\ NullLexeme \in DOMAIN packages'["SYSTEM"].interned
      /\ packages'["SYSTEM"].interned[NullLexeme] = Fresh
  BY <1>1, GensymsGrow
<1>3. PICK o : Allocated(o) /\ o.kind = "symbol"
  BY <1>2 DEF Symbol
<1>4. Filled' /\ KeepsBindings(objects, objects')
  BY <1>2, <1>3, PlainFills, BareFills
<1>5. "SYSTEM" \in DOMAIN packages'
  BY <1>2 DEF HeapGrows, FilesMore
<1>6. ASSUME NEW e \in Environments(objects')  PROVE Fresh \notin DOMAIN objects'[e].values
  <2>1. e \in DOMAIN objects /\ objects[e].kind = "environment" /\ objects'[e] = objects[e]
    BY <1>2, <1>3 DEF Environments, Allocated
  <2>2. \A s \in DOMAIN objects[e].values : s \in DOMAIN objects
    BY <2>1 DEF Filled, FilledOK
  <2> QED  BY <1>3, <2>1, <2>2 DEF Allocated
<1> QED  BY <1>2, <1>4, <1>5, <1>6 DEF NewSymbol

(* A stream or a string is bound to such a symbol.                         *)
LEMMA BoundAllocationHolds ==
  ASSUME Inv, Filled, NEW o, o = Stream(o.file) \/ o = String, NEW sym, NEW env, Is(env, "environment", objects),
         NewSymbol({sym}, objects, packages), packages' = packages,
         Allocates(o, BoundTo(env, sym, Object(Fresh), objects))
  PROVE  /\ Filled' /\ KeepsBindings(objects, objects') /\ env \in Environments(objects')
         /\ \E s \in DOMAIN objects'[env].values : objects'[env].values[s] = Object(Fresh)
<1> DEFINE new == BoundTo(env, sym, Object(Fresh), objects)
<1>1. HeapOK(objects, packages) /\ PackagesOK(objects, packages)
  BY DEF Inv, ObjectsOK
<1>2. /\ Allocated(o) /\ \A id \in DOMAIN objects : objects'[id] = new[id]
  BY BoundAllocation
<1>3. env \in Environments(objects)
  BY DEF Is, Environments
<1>4. /\ DOMAIN new = DOMAIN objects /\ \A id \in DOMAIN objects \ {env} : new[id] = objects[id]
      /\ new[env].kind = "environment"
      /\ sym \in DOMAIN new[env].values /\ new[env].values[sym] = Object(Fresh)
      /\ \A s \in DOMAIN objects[env].values :
           s \in DOMAIN new[env].values /\ new[env].values[s] = objects[env].values[s]
  <2>1. \A e \in Environments(objects) : sym \notin DOMAIN objects[e].values
    BY DEF NewSymbol
  <2> QED  BY <1>1, <1>3, <2>1, NewBinding
<1>5. \A id \in DOMAIN objects : FilledOK(new[id], objects')
  <2>1. sym \in DOMAIN objects
    <3>1. sym = packages["SYSTEM"].interned[NullLexeme]
      BY DEF NewSymbol
    <3> QED  BY <1>1, <3>1 DEF NewSymbol, PackagesOK, PackageOK, InternedOK, Is
  <2>2. FormOK(Object(Fresh), objects')
    BY <1>2 DEF FormOK, Object, Allocated
  <2>3. DOMAIN objects \subseteq DOMAIN objects'
    BY <1>2 DEF Allocated
  <2>4. \A id \in DOMAIN objects : FilledOK(objects[id], objects)
    BY DEF Filled
  <2> QED  BY <1>1, <2>1, <2>2, <2>3, <2>4, BoundFills
<1> HIDE DEF new
<1>6. FilledOK(o, objects')
  <2>1. o.kind \notin {"string", "environment"} \/ o = String
    BY DEF Stream
  <2> QED  BY <2>1, BareFills
<1>7. Filled'
  BY <1>2, <1>5, <1>6, FillsOn
<1>8. KeepsBindings(objects, objects')
  <2> SUFFICES ASSUME NEW e \in Environments(objects), NEW s \in DOMAIN objects[e].values
               PROVE  s \in DOMAIN objects'[e].values /\ objects'[e].values[s] = objects[e].values[s]
    BY DEF KeepsBindings
  <2>1. e \in DOMAIN objects /\ objects'[e] = new[e]
    BY <1>2 DEF Environments
  <2> QED  BY <1>4, <2>1
<1>9. env \in Environments(objects') /\ objects'[env] = new[env]
  <2>1. env \in DOMAIN objects /\ env \in DOMAIN objects'
    BY <1>2 DEF Is, Allocated
  <2> QED  BY <1>2, <1>4, <2>1 DEF Environments
<1> QED  BY <1>4, <1>7, <1>8, <1>9

(* It is found in the frame of the call that runs.                         *)
LEMMA ReaderBinds ==
  ASSUME Inv, RunOK, Filled, Top.fn \in Readers, NEW o, o = Stream(o.file) \/ o = String, NEW sym,
         NewSymbol({sym}, objects, packages), UNCHANGED <<packages, frame_stack>>,
         Allocates(o, BoundTo(CurrentEnv, sym, Object(Fresh), objects))
  PROVE  /\ Filled' /\ KeepsBindings(objects, objects')
         /\ BoundInFrame(Fresh, Len(acts), frame_stack', objects')
<1> DEFINE env == CurrentEnv
           k == Len(frame_stack)
<1>1. Is(env, "environment", objects) /\ 1 <= k /\ k \in Nat
  BY CurrentEnvIs
<1>2. env = frame_stack[k]
  BY DEF CurrentEnv, Last
<1>3. 2 * k = Len(acts) + 1
  BY ReaderHasFrames DEF RunOK
<1> HIDE DEF env
<1>4. /\ Filled' /\ KeepsBindings(objects, objects') /\ env \in Environments(objects')
      /\ \E s \in DOMAIN objects'[env].values : objects'[env].values[s] = Object(Fresh)
  BY <1>1, BoundAllocationHolds DEF env
<1>5. k \in 1 .. Len(frame_stack') /\ frame_stack'[k] = env /\ 2 * k <= Len(acts) + 1
  <2> HIDE DEF k
  <2>1. k \in 1 .. k /\ 2 * k <= 2 * k
    BY <1>1
  <2> QED  BY <1>2, <1>3, <2>1 DEF k
<1> QED  BY <1>4, <1>5 DEF BoundInFrame

----------------------------------------------------------------------------
(* READ and what it holds                                                  *)

Holding == RunOK /\ LastsOK /\ Filled

LEMMA TopHolds ==
  ASSUME InitializesInOrder, Inv, RunOK, Top.fn # "initialize_runtime"
  PROVE  /\ ActOK(Top, objects, packages) /\ 2 <= Len(acts) /\ Len(acts) \in Nat
         /\ HoldsAt(Len(acts), Top, acts[Len(acts) - 1], form_stack, frame_stack, objects, packages)
<1> DEFINE n == Len(acts)
<1>1. 2 <= n /\ n \in Nat /\ Top = acts[n] /\ \A i \in 1 .. n : ActOK(acts[i], objects, packages)
  BY StartWaits, ActsAre
<1>2. \A i \in 2 .. n : HoldsAt(i, acts[i], acts[i - 1], form_stack, frame_stack, objects, packages)
  BY DEF RunOK
<1> HIDE DEF n
<1>3. n \in 2 .. n /\ n \in 1 .. n
  BY <1>1
<1> QED  BY <1>1, <1>2, <1>3 DEF n

LEMMA ReadTopIs ==
  ASSUME InitializesInOrder, Inv, RunOK, Top.fn = "READ"
  PROVE  /\ Top.fn \in Readers /\ Top.fn # "'" /\ ReadOK(Top, objects)
         /\ Top = [fn |-> Top.fn, pc |-> Top.pc, file |-> Top.file, stream |-> Top.stream,
                   token |-> Top.token, escaped |-> Top.escaped, held |-> Top.held]
         /\ ReadHolds(Top, Len(acts), frame_stack, objects, packages)
<1>1. ActOK(Top, objects, packages)
      /\ HoldsAt(Len(acts), Top, acts[Len(acts) - 1], form_stack, frame_stack, objects, packages)
  BY TopHolds
<1>2. ReadOK(Top, objects)
  BY <1>1 DEF ActOK
<1> QED  BY <1>1, <1>2, HoldsIs DEF ReadOK, Readers

LEMMA ReadGensymsHolding ==
  ASSUME InitializesInOrder, Inv, Holding, ReadGensyms
  PROVE  Holding'
<1>1. Top.fn = "READ" /\ Top.pc = "gensym"
  BY DEF ReadGensyms, Doing, In
<1>2. Top.fn \in Readers /\ ~Returning(Top)
  BY <1>1 DEF Readers, Returning
<1>3. Filled' /\ KeepsBindings(objects, objects') /\ NewSymbol({Fresh}, objects', packages')
  BY <1>2, StartIsDone, GensymsNew DEF ReadGensyms, Holding
<1> DEFINE act == [Top EXCEPT !.pc = "stream", !.held = {Fresh}]
<1>4. act.fn = "READ" /\ act.pc = "stream" /\ act.held = {Fresh}
  BY <1>1, ReadTopIs DEF Holding
<1>5. acts' = Append(Below, act) /\ UNCHANGED <<frames, value>>
  BY DEF ReadGensyms, Becomes
<1> HIDE DEF act
<1>6. ReadHolds(act, Len(acts), frame_stack', objects', packages')
  BY <1>3, <1>4 DEF ReadHolds
<1>7. HoldsAt(Len(acts), act, acts[Len(acts) - 1], form_stack', frame_stack', objects', packages')
  BY <1>4, <1>6, HoldsIs
<1>8. Undisturbed
  BY ReadGensymsKeeps
<1>9. RunOK' /\ LastsOK'
  BY <1>1, <1>2, <1>3, <1>4, <1>5, <1>7, <1>8, ReaderGoesOnHolding DEF Holding
<1> QED  BY <1>3, <1>9 DEF Holding

LEMMA ReadAllocatesStreamHolding ==
  ASSUME InitializesInOrder, Inv, Holding, ReadAllocatesStream
  PROVE  Holding'
<1>1. Top.fn = "READ" /\ Top.pc = "stream"
  BY DEF ReadAllocatesStream, Doing, In
<1>2. Top.fn \in Readers /\ ~Returning(Top)
  BY <1>1 DEF Readers, Returning
<1>3. NewSymbol(Top.held, objects, packages)
  BY <1>1, ReadTopIs DEF Holding, ReadHolds
<1>4. PICK sym : Top.held = {sym}
  BY <1>3 DEF NewSymbol
<1>5. /\ Allocates(Stream(Top.file), BoundTo(CurrentEnv, sym, Object(Fresh), objects))
      /\ UNCHANGED <<packages, frames, value>>
  BY <1>4 DEF ReadAllocatesStream, image, Becomes
<1>6. /\ Filled' /\ KeepsBindings(objects, objects')
      /\ BoundInFrame(Fresh, Len(acts), frame_stack', objects')
  <2> DEFINE o == Stream(Top.file)
  <2>1. o = Stream(o.file) /\ Allocates(o, BoundTo(CurrentEnv, sym, Object(Fresh), objects))
    BY <1>5 DEF Stream
  <2> HIDE DEF o
  <2> QED  BY <1>2, <1>3, <1>4, <1>5, <2>1, ReaderBinds DEF Holding, frames
<1> DEFINE act == [Top EXCEPT !.pc = "step_1", !.stream = Fresh, !.held = {Fresh}]
<1>7. act.fn = "READ" /\ act.pc = "step_1" /\ act.held = {Fresh} /\ act.stream = Fresh
  BY <1>1, ReadTopIs DEF Holding
<1>8. acts' = Append(Below, act)
  BY DEF ReadAllocatesStream, Becomes
<1> HIDE DEF act
<1>9. HoldsAt(Len(acts), act, acts[Len(acts) - 1], form_stack', frame_stack', objects', packages')
  <2>1. ReadHolds(act, Len(acts), frame_stack', objects', packages')
    BY <1>6, <1>7 DEF ReadHolds
  <2> QED  BY <1>7, <2>1, HoldsIs
<1>10. Undisturbed
  BY ReadAllocatesStreamKeeps
<1>11. RunOK' /\ LastsOK'
  BY <1>1, <1>2, <1>5, <1>6, <1>7, <1>8, <1>9, <1>10, ReaderGoesOnHolding DEF Holding
<1> QED  BY <1>6, <1>11 DEF Holding

(* What a character of a token makes of READ.                              *)
Tokened(token, pc) == [Top EXCEPT !.token = token, !.pc = pc]
Escaped(pc)        == [Top EXCEPT !.escaped = TRUE, !.pc = pc]
Moved(pc)          == [Top EXCEPT !.pc = pc]

LEMMA ReadTokenBecomes ==
  ASSUME InitializesInOrder, Inv, RunOK, ReadStartsToken \/ ReadStep8 \/ ReadEndsToken \/ ReadStep9
  PROVE  \E act : /\ acts' = Append(Below, act) /\ act.pc \notin {"gensym", "stream"}
                  /\ act.fn = Top.fn /\ act.held = Top.held /\ act.stream = Top.stream
<1> DEFINE To(act) ==
             /\ acts' = Append(Below, act) /\ act.pc \notin {"gensym", "stream"}
             /\ act.fn = Top.fn /\ act.held = Top.held /\ act.stream = Top.stream
<1>1. Top.fn = "READ"
  BY DEF ReadStartsToken, ReadStep8, ReadEndsToken, ReadStep9, Doing, In
<1>2. Top = [fn |-> Top.fn, pc |-> Top.pc, file |-> Top.file, stream |-> Top.stream,
             token |-> Top.token, escaped |-> Top.escaped, held |-> Top.held]
  BY <1>1, ReadTopIs
<1>3. ASSUME NEW token, NEW pc, pc \notin {"gensym", "stream"}, acts' = Append(Below, Tokened(token, pc))
      PROVE  To(Tokened(token, pc))
  BY <1>2, <1>3 DEF Tokened
<1>4. ASSUME NEW pc, pc \notin {"gensym", "stream"}, acts' = Append(Below, Escaped(pc))
      PROVE  To(Escaped(pc))
  BY <1>2, <1>4 DEF Escaped
<1>5. ASSUME NEW pc, pc \notin {"gensym", "stream"}, acts' = Append(Below, Moved(pc))
      PROVE  To(Moved(pc))
  BY <1>2, <1>5 DEF Moved
<1> HIDE DEF To
<1>6. ASSUME NEW c, NEW pc, Gathers(c, pc), pc \notin {"gensym", "stream"}  PROVE \E act : To(act)
  <2>1. acts' = Append(Below, Tokened(Top.token \o c, pc))
    BY <1>6 DEF Gathers, Becomes, Tokened
  <2> QED  BY <1>3, <1>6, <2>1
<1>7. ASSUME Becomes([Top EXCEPT !.escaped = TRUE, !.pc = "step_9"])  PROVE \E act : To(act)
  <2>1. acts' = Append(Below, Escaped("step_9"))
    BY <1>7 DEF Becomes, Escaped
  <2> QED  BY <1>4, <2>1
<1>8. ASSUME NEW pc, Goes(pc), pc \notin {"gensym", "stream"}  PROVE \E act : To(act)
  <2>1. acts' = Append(Below, Moved(pc))
    BY <1>8 DEF Goes, Becomes, Moved
  <2> QED  BY <1>5, <1>8, <2>1
<1>9. \E act : To(act)
  BY <1>6, <1>7, <1>8 DEF ReadStartsToken, ReadStep8, ReadEndsToken, ReadStep9
<1> QED  BY <1>9 DEF To

LEMMA ReadTokenHolding ==
  ASSUME InitializesInOrder, Inv, Holding, ReadStartsToken \/ ReadStep8 \/ ReadEndsToken \/ ReadStep9
  PROVE  Holding'
<1>1. Top.fn = "READ" /\ Top.pc \in {"step_1", "step_8", "step_9"}
  BY DEF ReadStartsToken, ReadStep8, ReadEndsToken, ReadStep9, Doing, In
<1>2. Top.fn \in Readers /\ ~Returning(Top)
  BY <1>1 DEF Readers, Returning
<1>3. UNCHANGED <<heap, image, stack, frames, value>>
  BY DEF ReadStartsToken, ReadStep8, ReadEndsToken, ReadStep9, Gathers, Goes, Becomes
<1>4. UNCHANGED <<objects, packages, frame_stack>>
  BY <1>3 DEF heap, image, frames
<1>5. PICK act : /\ acts' = Append(Below, act) /\ act.pc \notin {"gensym", "stream"}
                 /\ act.fn = Top.fn /\ act.held = Top.held /\ act.stream = Top.stream
  BY ReadTokenBecomes DEF Holding
<1>6. ReadHolds(Top, Len(acts), frame_stack, objects, packages)
  BY <1>1, ReadTopIs DEF Holding
<1>7. ReadHolds(act, Len(acts), frame_stack', objects', packages')
  BY <1>1, <1>4, <1>5, <1>6 DEF ReadHolds
<1>8. HoldsAt(Len(acts), act, acts[Len(acts) - 1], form_stack', frame_stack', objects', packages')
  BY <1>1, <1>5, <1>7, HoldsIs
<1>9. Undisturbed
  BY ReadTokenKeeps
<1>10. Filled' /\ KeepsBindings(objects, objects')
  BY <1>4, NothingFills DEF Holding
<1>11. RunOK' /\ LastsOK'
  BY <1>1, <1>2, <1>3, <1>5, <1>8, <1>9, <1>10, ReaderGoesOnHolding DEF Holding
<1> QED  BY <1>10, <1>11 DEF Holding

LEMMA ReadReturnsHolding ==
  ASSUME InitializesInOrder, Inv, Holding, ReadNumber \/ ReadReturns
  PROVE  Holding'
<1>1. Top.fn \in Readers
  BY DEF ReadNumber, ReadReturns, Doing, In, Readers
<1>2. acts' = Below /\ UNCHANGED <<heap, frames>>
  BY DEF ReadNumber, ReadReturns, Returns
<1>3. Filled' /\ KeepsBindings(objects, objects')
  BY <1>2, NothingFills DEF Holding, heap
<1>4. Undisturbed
  BY ReadReturnsKeeps
<1>5. RunOK' /\ LastsOK'
  BY <1>1, <1>2, <1>3, <1>4, ReaderReturnsHolding DEF Holding
<1> QED  BY <1>3, <1>5 DEF Holding

(* READ calls a macro, or intern_symbol.                                   *)
LEMMA ReadCallsHolding ==
  ASSUME InitializesInOrder, Inv, Holding, ReadCallsMacro \/ ReadSymbol
  PROVE  Holding'
<1>1. Top.fn = "READ" /\ Top.pc \in {"step_1", "step_10"}
  BY DEF ReadCallsMacro, ReadSymbol, Doing, In
<1>2. Top.fn \in Readers /\ ~Returning(Top)
  BY <1>1 DEF Readers, Returning
<1>3. UNCHANGED <<heap, image, frames, value>>
  BY DEF ReadCallsMacro, ReadSymbol, CallsFunction, Calls
<1> DEFINE act == Moved(IF ReadSymbol THEN "interned" ELSE "macro")
<1>4. act.fn = "READ" /\ act.pc \in {"macro", "interned"} /\ act.held = Top.held /\ act.stream = Top.stream
  BY <1>1, ReadTopIs DEF Holding, Moved
<1>5. \E callee : acts' = Below \o <<act, callee>>
        /\ \/ callee.fn = "call" /\ callee.pc = "begin" /\ callee.held = {}
           \/ callee.fn = "intern_symbol"
  <2>1. CASE ReadSymbol
    <3> DEFINE callee == InternAct(objects[CurrentEnv].package, Top.token)
    <3>1. callee.fn = "intern_symbol"
      BY DEF InternAct
    <3>2. acts' = Below \o <<act, callee>>
      BY <2>1 DEF ReadSymbol, Calls, Moved
    <3> HIDE DEF callee, act
    <3> QED  BY <3>1, <3>2
  <2>2. CASE ReadCallsMacro /\ ~ReadSymbol
    <3> DEFINE args == <<Object(Top.stream), Char(NextChar)>>
               callee == CallAct(Len(args))
    <3>1. callee.fn = "call" /\ callee.pc = "begin" /\ callee.held = {}
      BY DEF CallAct
    <3>2. acts' = Below \o <<act, callee>>
      BY <2>2 DEF ReadCallsMacro, CallsFunction, Calls, Moved
    <3> HIDE DEF callee, act
    <3> QED  BY <3>1, <3>2
  <2> QED  BY <2>1, <2>2
<1> HIDE DEF act
<1>6. PICK callee : acts' = Below \o <<act, callee>>
        /\ \/ callee.fn = "call" /\ callee.pc = "begin" /\ callee.held = {}
           \/ callee.fn = "intern_symbol"
  BY <1>5
<1>7. HoldsAt(Len(acts), act, acts[Len(acts) - 1], form_stack', frame_stack, objects, packages)
  <2>1. ReadHolds(Top, Len(acts), frame_stack, objects, packages)
    BY <1>1, ReadTopIs DEF Holding
  <2>2. ReadHolds(act, Len(acts), frame_stack, objects, packages)
    BY <1>1, <1>4, <2>1 DEF ReadHolds
  <2> QED  BY <1>4, <2>2, HoldsIs
<1>8. HoldsAt(Len(acts) + 1, callee, act, form_stack', frame_stack, objects, packages)
  <2>1. callee.fn = "intern_symbol" => InternHolds(callee, act)
    BY <1>4 DEF InternHolds
  <2>2. callee.fn = "call" => CallHolds(callee, form_stack')
    BY <1>6 DEF CallHolds
  <2> QED  BY <1>6, <2>1, <2>2, HoldsIs
<1>9. Undisturbed
  BY ReadCallsMacroKeeps, ReadSymbolKeeps
<1>10. Filled'
  BY <1>3, NothingFills DEF Holding, heap
<1>11. RunOK' /\ LastsOK'
  BY <1>2, <1>3, <1>6, <1>7, <1>8, <1>9, ReaderCallsHolding DEF Holding
<1> QED  BY <1>10, <1>11 DEF Holding

----------------------------------------------------------------------------
(* READ-OPEN-PAREN                                                         *)

(* A cons that is linked to another fills neither strings nor environments.*)
LEMMA LinkedFills ==
  ASSUME Inv, NEW car, FormOK(car, objects), packages' = packages, NEW c,
         Allocates(ConsCell(car, Nil), [objects EXCEPT ![c].cdr = Object(Fresh)])
  PROVE  (Filled => Filled') /\ KeepsBindings(objects, objects')
<1> DEFINE o == ConsCell(car, Nil)
<1>1. /\ Allocated(o)
      /\ Is(c, "cons", objects) => objects'[c] = ConsCell(objects[c].car, Object(Fresh))
      /\ \A id \in DOMAIN objects : id # c \/ objects[id].kind # "cons" => objects'[id] = objects[id]
  BY ConsLinked
<1>2. FilledOK(o, objects')
  <2>1. o.kind = "cons"
    BY DEF ConsCell
  <2> HIDE DEF o
  <2> QED  BY <2>1, BareFills
<1>3. ASSUME NEW id \in DOMAIN objects
      PROVE  objects'[id] = objects[id] \/ (objects[id].kind = "cons" /\ objects'[id].kind = "cons")
  <2>1. CASE Is(c, "cons", objects) /\ id = c
    BY <1>1, <2>1 DEF Is, ConsCell
  <2>2. CASE ~(Is(c, "cons", objects) /\ id = c)
    BY <1>1, <2>2 DEF Is
  <2> QED  BY <2>1, <2>2
<1> HIDE DEF o
<1>4. Filled => Filled'
  <2>1. \A id \in DOMAIN objects :
          \/ objects'[id] = objects[id]
          \/ objects'[id].kind \notin {"string", "environment"}
          \/ FilledOK(objects'[id], objects')
    BY <1>3
  <2> QED  BY <1>1, <1>2, <2>1, FillsOn
<1>5. KeepsBindings(objects, objects')
  <2>1. \A id \in DOMAIN objects :
          objects[id].kind = "environment" => objects'[id].values = objects[id].values
    BY <1>3
  <2> QED  BY <2>1, BindingsStay
<1> QED  BY <1>4, <1>5

LEMMA OpenParenTopIs ==
  ASSUME InitializesInOrder, Inv, RunOK, Top.fn = "("
  PROVE  /\ Top.fn \in Readers /\ Top.fn # "'" /\ ~Returning(Top) /\ 2 <= Len(acts) /\ Len(acts) \in Nat
         /\ Top = [fn |-> Top.fn, pc |-> Top.pc, file |-> Top.file, depth |-> Top.depth,
                   chars |-> Top.chars, temp |-> Top.temp, stream |-> Top.stream,
                   last |-> Top.last, cons |-> Top.cons, held |-> Top.held]
         /\ OpenParenHolds(Top, acts[Len(acts) - 1], Len(acts), form_stack, frame_stack, objects, packages)
<1>1. /\ ActOK(Top, objects, packages) /\ 2 <= Len(acts) /\ Len(acts) \in Nat
      /\ HoldsAt(Len(acts), Top, acts[Len(acts) - 1], form_stack, frame_stack, objects, packages)
  BY TopHolds
<1>2. OpenParenOK(Top, objects)
  BY <1>1 DEF ActOK
<1> QED  BY <1>1, <1>2, HoldsIs DEF OpenParenOK, Readers, Returning

(* The list reader goes on as act.                                         *)
LEMMA OpenParenGoesOnHolding ==
  ASSUME InitializesInOrder, Inv, Holding, Undisturbed, KeepsBindings(objects, objects'), Filled',
         Top.fn = "(", NEW act, acts' = Append(Below, act), act.fn = "(", UNCHANGED <<frames, value>>,
         OpenParenHolds(act, acts[Len(acts) - 1], Len(acts), form_stack', frame_stack', objects', packages')
  PROVE  Holding'
<1>1. Top.fn \in Readers /\ ~Returning(Top)
  BY OpenParenTopIs DEF Holding
<1>2. HoldsAt(Len(acts), act, acts[Len(acts) - 1], form_stack', frame_stack', objects', packages')
  BY HoldsIs
<1>3. RunOK' /\ LastsOK'
  BY <1>1, <1>2, ReaderGoesOnHolding DEF Holding
<1> QED  BY <1>3 DEF Holding

LEMMA OpenParenFillsHolding ==
  ASSUME InitializesInOrder, Inv, Holding, OpenParenScans \/ OpenParenCopies
  PROVE  Holding'
<1>1. Top.fn = "(" /\ Top.pc = "scan"
  BY DEF OpenParenScans, OpenParenCopies, Doing, In
<1>2. Top.held = {} /\ Top.last = NoBuffer
  BY <1>1, OpenParenTopIs DEF Holding, OpenParenHolds
<1>3. UNCHANGED <<heap, image, stack, frames, value>>
  BY DEF OpenParenScans, OpenParenCopies, Becomes
<1> DEFINE To(act) == /\ acts' = Append(Below, act) /\ act.fn = "(" /\ act.pc \in {"scan", "gensym"}
                      /\ act.held = {} /\ act.last = NoBuffer
<1>4. \E act : To(act)
  <2>1. CASE OpenParenScans
    <3> DEFINE act == [Top EXCEPT !.depth = DepthAfter(NextChar), !.chars = Append(@, NextChar)]
    <3>1. acts' = Append(Below, act)
      BY <2>1 DEF OpenParenScans, Becomes
    <3>2. act.fn = "(" /\ act.pc = "scan" /\ act.held = {} /\ act.last = NoBuffer
      BY <1>1, <1>2, OpenParenTopIs DEF Holding
    <3> HIDE DEF act
    <3> QED  BY <3>1, <3>2
  <2>2. CASE OpenParenCopies
    <3> DEFINE act == [Top EXCEPT !.pc = "gensym", !.temp = Cardinality(DOMAIN files)]
    <3>1. acts' = Append(Below, act)
      BY <2>2 DEF OpenParenCopies, Becomes
    <3>2. act.fn = "(" /\ act.pc = "gensym" /\ act.held = {} /\ act.last = NoBuffer
      BY <1>1, <1>2, OpenParenTopIs DEF Holding
    <3> HIDE DEF act
    <3> QED  BY <3>1, <3>2
  <2> QED  BY <2>1, <2>2
<1>5. PICK act : To(act)
  BY <1>4
<1>6. OpenParenHolds(act, acts[Len(acts) - 1], Len(acts), form_stack', frame_stack', objects', packages')
  BY <1>5 DEF OpenParenHolds
<1>7. Filled' /\ KeepsBindings(objects, objects')
  BY <1>3, NothingFills DEF Holding, heap
<1>8. Undisturbed
  BY OpenParenFillsKeeps
<1> QED  BY <1>1, <1>3, <1>5, <1>6, <1>7, <1>8, OpenParenGoesOnHolding

LEMMA OpenParenBindsHolding ==
  ASSUME InitializesInOrder, Inv, Holding, OpenParenGensyms \/ OpenParenAllocatesStream
  PROVE  Holding'
<1>1. Top.fn = "(" /\ Top.fn \in Readers
  BY DEF OpenParenGensyms, OpenParenAllocatesStream, Doing, In, Readers
<1>2. Undisturbed
  BY OpenParenBindsKeeps
<1>3. CASE OpenParenGensyms
  <2>1. Top.pc = "gensym"
    BY <1>3 DEF OpenParenGensyms, Doing, In
  <2>2. Top.last = NoBuffer
    BY <1>1, <2>1, OpenParenTopIs DEF Holding, OpenParenHolds
  <2>3. Filled' /\ KeepsBindings(objects, objects') /\ NewSymbol({Fresh}, objects', packages')
    BY <1>1, <1>3, StartIsDone, GensymsNew DEF OpenParenGensyms, Holding
  <2> DEFINE act == [Top EXCEPT !.pc = "stream", !.held = {Fresh}]
  <2>4. act.fn = "(" /\ act.pc = "stream" /\ act.held = {Fresh} /\ act.last = NoBuffer
    BY <1>1, <2>2, OpenParenTopIs DEF Holding
  <2>5. acts' = Append(Below, act) /\ UNCHANGED <<frames, value>>
    BY <1>3 DEF OpenParenGensyms, Becomes
  <2> HIDE DEF act
  <2>6. OpenParenHolds(act, acts[Len(acts) - 1], Len(acts), form_stack', frame_stack', objects', packages')
    BY <2>3, <2>4 DEF OpenParenHolds
  <2> QED  BY <1>1, <1>2, <2>3, <2>4, <2>5, <2>6, OpenParenGoesOnHolding
<1>4. CASE OpenParenAllocatesStream
  <2>1. Top.pc = "stream"
    BY <1>4 DEF OpenParenAllocatesStream, Doing, In
  <2>2. NewSymbol(Top.held, objects, packages) /\ Top.last = NoBuffer
    BY <1>1, <2>1, OpenParenTopIs DEF Holding, OpenParenHolds
  <2>3. PICK sym : Top.held = {sym}
    BY <2>2 DEF NewSymbol
  <2>4. /\ Allocates(Stream(Top.temp), BoundTo(CurrentEnv, sym, Object(Fresh), objects))
        /\ UNCHANGED <<packages, frames, value>>
    BY <1>4, <2>3 DEF OpenParenAllocatesStream, image, Becomes
  <2>5. /\ Filled' /\ KeepsBindings(objects, objects')
        /\ BoundInFrame(Fresh, Len(acts), frame_stack', objects')
    <3> DEFINE o == Stream(Top.temp)
    <3>1. o = Stream(o.file) /\ Allocates(o, BoundTo(CurrentEnv, sym, Object(Fresh), objects))
      BY <2>4 DEF Stream
    <3> HIDE DEF o
    <3> QED  BY <1>1, <2>2, <2>3, <2>4, <3>1, ReaderBinds DEF Holding, frames
  <2> DEFINE act == [Top EXCEPT !.pc = "element", !.stream = Fresh, !.held = {Fresh}]
  <2>6. act.fn = "(" /\ act.pc = "element" /\ act.held = {Fresh} /\ act.stream = Fresh
        /\ act.last = NoBuffer
    BY <1>1, <2>2, OpenParenTopIs DEF Holding
  <2>7. acts' = Append(Below, act)
    BY <1>4 DEF OpenParenAllocatesStream, Becomes
  <2> HIDE DEF act
  <2>8. OpenParenHolds(act, acts[Len(acts) - 1], Len(acts), form_stack', frame_stack', objects', packages')
    BY <2>5, <2>6 DEF OpenParenHolds
  <2> QED  BY <1>1, <1>2, <2>4, <2>5, <2>6, <2>7, <2>8, OpenParenGoesOnHolding
<1> QED  BY <1>3, <1>4

(* Where the list of the arguments is, and what is pushed upon it.         *)
LEMMA ListIsAt ==
  ASSUME InitializesInOrder, Inv, NEW b, Laid(b, acts, form_stack, Len(frame_stack), objects),
         Top.fn \in Readers
  PROVE  LET n     == Len(acts)
             below == acts[n - 1]
             lo    == b[n - 1]
         IN  /\ n \in Nat /\ 2 <= n /\ below.fn = "call" /\ below.pc = "return" /\ CallOK(below)
             /\ lo \in Levels /\ lo.forms \in Nat /\ 1 <= lo.forms /\ lo.forms <= Len(form_stack)
             /\ EvaledOffset(below) + 1 = lo.forms /\ EvaledOffset(below) + 2 = lo.forms + 1
             /\ ActLaid(Top, lo, b[n], form_stack, objects) /\ b[n].forms = Len(form_stack)
             /\ Len(form_stack) \in Nat /\ b[n] \in Levels
             /\ ActOK(Top, objects, packages)
             /\ Evaluated(form_stack[lo.forms], below.arg_i, b[n - 2].conses, lo.conses, objects)
<1> DEFINE n == Len(acts)
<1>1. n \in Nat /\ 2 <= n /\ Top = acts[n]
  BY StartWaits, ActsAre DEF Readers
<1>2. n \in 2 .. n
  <2> HIDE DEF n
  <2> QED  BY <1>1
<1>3. acts[n].fn \in Readers
  BY <1>1
<1>4. /\ acts[n - 1].fn = "call" /\ acts[n - 1].pc = "return" /\ CallOK(acts[n - 1])
      /\ b[n - 1].forms \in Nat /\ 1 <= b[n - 1].forms
      /\ EvaledOffset(acts[n - 1]) + 1 = b[n - 1].forms
      /\ EvaledOffset(acts[n - 1]) + 2 = b[n - 1].forms + 1
      /\ Evaluated(form_stack[b[n - 1].forms], acts[n - 1].arg_i, b[n - 2].conses,
                   b[n - 1].conses, objects)
  BY <1>2, <1>3, CallBelowIs
<1>5. /\ ActOK(Top, objects, packages) /\ b[n - 1] \in Levels /\ b[n] \in Levels
      /\ b[n - 1].forms <= b[n].forms /\ b[n].forms = Len(form_stack)
      /\ ActLaid(Top, b[n - 1], b[n], form_stack, objects)
  BY TopIs
<1> HIDE DEF n
<1>6. Len(form_stack) \in Nat /\ b[n - 1].forms <= Len(form_stack)
  BY <1>5 DEF Levels
<1> QED  BY <1>1, <1>4, <1>5, <1>6 DEF n

(* The forms up to the top of the stack are as they were, what is pushed   *)
(* comes behind them.                                                      *)
LEMMA FormsAgree ==
  ASSUME Inv, Pushes(<<Object(Fresh)>>), \E o : Allocated(o), HeapGrows
  PROVE  /\ Len(form_stack) \in Nat /\ Agree(form_stack, form_stack', Len(form_stack))
         /\ form_stack'[Len(form_stack) + 1] = Object(Fresh) /\ form_cap' # NoBuffer
<1> DEFINE some == <<Object(Fresh)>>
           n == Len(form_stack)
<1>1. IsSeq(some) /\ Len(some) = 1 /\ some[1] = Object(Fresh)
  BY SingleIs
<1>2. \A i \in 1 .. Len(some) : FormOK(some[i], objects')
  BY <1>1 DEF Allocated, FormOK, Object
<1>3. Pushes(some) /\ FormsOK(form_stack, form_cap, objects) /\ Grows(objects, objects')
  BY DEF Inv, HeapGrows, Steady
<1> HIDE DEF some
<1>4. /\ FormsOK(form_stack', form_cap', objects') /\ Len(form_stack') = n + Len(some)
      /\ Agree(form_stack, form_stack', n)
      /\ \A i \in 1 .. Len(some) : form_stack'[n + i] = some[i]
  BY <1>1, <1>2, <1>3, FormsPushed
<1>5. n \in Nat
  BY <1>3, SeqIs DEF FormsOK
<1> HIDE DEF n
<1>6. Len(form_stack') = n + 1 /\ form_stack'[n + 1] = Object(Fresh)
  BY <1>1, <1>4
<1>7. form_cap' # NoBuffer
  BY <1>4, <1>5, <1>6 DEF FormsOK, NoBuffer
<1> QED  BY <1>4, <1>5, <1>6, <1>7 DEF n

LEMMA OpenParenReturnsHolding ==
  ASSUME InitializesInOrder, Inv, Holding, OpenParenReturns
  PROVE  Holding'
<1>1. Top.fn = "(" /\ Top.fn \in Readers
  BY DEF OpenParenReturns, Doing, In, Readers
<1>2. acts' = Below /\ UNCHANGED <<heap, frames>>
  BY DEF OpenParenReturns, Returns
<1>3. Filled' /\ KeepsBindings(objects, objects')
  BY <1>2, NothingFills DEF Holding, heap
<1>4. Undisturbed
  BY OpenParenReturnsKeeps
<1>5. RunOK' /\ LastsOK'
  BY <1>1, <1>2, <1>3, <1>4, ReaderReturnsHolding DEF Holding
<1> QED  BY <1>3, <1>5 DEF Holding

LEMMA OpenParenReadsHolding ==
  ASSUME InitializesInOrder, Inv, Holding, OpenParenReads
  PROVE  Holding'
<1>1. Top.fn = "(" /\ Top.pc = "element"
  BY DEF OpenParenReads, Doing, In
<1>2. UNCHANGED <<heap, image, frames, value>>
  BY DEF OpenParenReads, CallsFunction, Calls
<1> DEFINE act == Moved("link")
           args == <<Object(Top.stream)>>
           callee == CallAct(Len(args))
           below == acts[Len(acts) - 1]
<1>3. /\ act.fn = "(" /\ act.pc = "link" /\ act.held = Top.held /\ act.stream = Top.stream
      /\ act.last = Top.last /\ act.cons = Top.cons
  BY <1>1, OpenParenTopIs DEF Holding, Moved
<1>4. callee.fn = "call" /\ callee.pc = "begin" /\ callee.held = {}
  BY DEF CallAct
<1>5. acts' = Below \o <<act, callee>>
  BY DEF OpenParenReads, CallsFunction, Calls, Moved
<1> HIDE DEF act, callee
<1>6. Undisturbed
  BY OpenParenReadsKeeps
<1>7. Top.last # NoBuffer => form_stack'[EvaledOffset(below) + 2] = form_stack[EvaledOffset(below) + 2]
  <2> SUFFICES ASSUME Top.last # NoBuffer
               PROVE  form_stack'[EvaledOffset(below) + 2] = form_stack[EvaledOffset(below) + 2]
    OBVIOUS
  <2>1. PICK b : Laid(b, acts, form_stack, Len(frame_stack), objects)
    BY DEF Inv
  <2> DEFINE lo == b[Len(acts) - 1]
             n == Len(form_stack)
  <2>2. /\ EvaledOffset(below) + 2 = lo.forms + 1 /\ lo.forms \in Nat /\ n \in Nat
        /\ ActLaid(Top, lo, b[Len(acts)], form_stack, objects) /\ b[Len(acts)].forms = n
    BY <1>1, <2>1, ListIsAt DEF Readers
  <2>3. n = lo.forms + 1
    <3>1. OpenParenLaid(Top, lo, b[Len(acts)])
      BY <1>1, <2>2 DEF ActLaid
    <3> QED  BY <2>2, <3>1 DEF OpenParenLaid
  <2> DEFINE some == <<Object(FunctionNamed("COMMON-LISP", "READ"))>> \o args
  <2>4. form_stack' = form_stack \o some /\ IsSeq(form_stack)
    BY DEF OpenParenReads, CallsFunction, Pushes, Inv, FormsOK
  <2>5. IsSeq(some)
    BY SingleIs, ConcatIs
  <2> HIDE DEF some
  <2>6. \A i \in 1 .. n : form_stack'[i] = form_stack[i]
    <3>1. /\ \A i \in 1 .. n + Len(some) :
               (form_stack \o some)[i] = IF i <= n THEN form_stack[i] ELSE some[i - n]
      BY <2>4, <2>5, ConcatIs
    <3>2. Len(some) \in Nat
      BY <2>5, SeqIs
    <3>3. \A i \in 1 .. n : i \in 1 .. n + Len(some) /\ i <= n
      <4> HIDE DEF n
      <4> QED  BY <2>2, <3>2
    <3> HIDE DEF n
    <3> QED  BY <2>4, <3>1, <3>3
  <2> HIDE DEF n, lo
  <2>7. n \in 1 .. n /\ EvaledOffset(below) + 2 = n
    BY <2>2, <2>3
  <2> QED  BY <2>6, <2>7
<1>8. UNCHANGED <<objects, packages, frame_stack>>
  BY <1>2 DEF heap, image, frames
<1>9. HoldsAt(Len(acts), act, below, form_stack', frame_stack, objects, packages)
  <2>1. OpenParenHolds(Top, below, Len(acts), form_stack, frame_stack, objects, packages)
    BY <1>1, OpenParenTopIs DEF Holding
  <2> HIDE DEF below
  <2>2. OpenParenHolds(act, below, Len(acts), form_stack', frame_stack, objects, packages)
    BY <1>1, <1>3, <1>7, <2>1 DEF OpenParenHolds
  <2> QED  BY <1>3, <2>2, HoldsIs
<1>10. HoldsAt(Len(acts) + 1, callee, act, form_stack', frame_stack, objects, packages)
  BY <1>4, HoldsIs DEF CallHolds
<1>11. Filled'
  BY <1>8, NothingFills DEF Holding
<1>12. Top.fn \in Readers /\ ~Returning(Top)
  BY <1>1 DEF Readers, Returning
<1>13. RunOK' /\ LastsOK'
  BY <1>2, <1>4, <1>5, <1>6, <1>9, <1>10, <1>12, ReaderCallsHolding DEF Holding
<1> QED  BY <1>11, <1>13 DEF Holding

LEMMA OpenParenBeginsListHolding ==
  ASSUME InitializesInOrder, Inv, Holding, OpenParenBeginsList
  PROVE  Holding'
<1>1. Top.fn = "(" /\ Top.pc = "link" /\ Top.last = NoBuffer
  BY DEF OpenParenBeginsList, Doing, In
<1>2. /\ Allocates(ConsCell(value, Nil), objects) /\ Pushes(<<Object(Fresh)>>) /\ packages' = packages
      /\ UNCHANGED <<frames, value>> /\ UNCHANGED <<frame_stack>>
  BY DEF OpenParenBeginsList, image, frames, Links, Becomes
<1> DEFINE o == ConsCell(value, Nil)
           below == acts[Len(acts) - 1]
<1>3. o.kind = "cons" /\ o.cdr = Nil
  BY DEF ConsCell
<1> HIDE DEF o
<1>4. Allocated(o) /\ Filled' /\ KeepsBindings(objects, objects')
  BY <1>2, <1>3, PlainAllocation DEF o, Holding
<1>5. Undisturbed
  BY OpenParenBeginsListKeeps
<1>6. HeapGrows /\ Grows(objects, objects')
  BY <1>5, UndisturbedGrows
<1>7. /\ form_stack'[Len(form_stack) + 1] = Object(Fresh) /\ form_cap' # NoBuffer
  BY <1>2, <1>4, <1>6, FormsAgree
<1>8. EvaledOffset(below) + 2 = Len(form_stack) + 1
  <2>1. PICK b : Laid(b, acts, form_stack, Len(frame_stack), objects)
    BY DEF Inv
  <2> DEFINE lo == b[Len(acts) - 1]
  <2>2. /\ EvaledOffset(below) + 2 = lo.forms + 1
        /\ ActLaid(Top, lo, b[Len(acts)], form_stack, objects) /\ b[Len(acts)].forms = Len(form_stack)
    BY <1>1, <2>1, ListIsAt DEF Readers
  <2>3. OpenParenLaid(Top, lo, b[Len(acts)])
    BY <1>1, <2>2 DEF ActLaid
  <2> QED  BY <1>1, <2>2, <2>3 DEF OpenParenLaid
<1>9. BoundInFrame(Top.stream, Len(acts), frame_stack', objects')
  <2>1. BoundInFrame(Top.stream, Len(acts), frame_stack, objects)
    BY <1>1, OpenParenTopIs DEF Holding, OpenParenHolds
  <2> QED  BY <1>2, <1>4, <1>6, <2>1, BoundInFrameStays
<1> DEFINE act == [Top EXCEPT !.pc = "element", !.last = form_cap', !.cons = Fresh,
                             !.held = {Top.stream, Fresh}]
<1>10. /\ act.fn = "(" /\ act.pc = "element" /\ act.held = {Top.stream, Fresh}
       /\ act.stream = Top.stream /\ act.last = form_cap' /\ act.cons = Fresh
  BY <1>1, OpenParenTopIs DEF Holding
<1>11. acts' = Append(Below, act)
  BY DEF OpenParenBeginsList, Links, Becomes
<1> HIDE DEF act, below
<1>12. Leads(Fresh, Fresh, objects')
  BY DEF Leads
<1>13. Fresh \in DOMAIN objects' /\ objects'[Fresh] = o
  BY <1>4 DEF Allocated
<1>14. OpenParenHolds(act, below, Len(acts), form_stack', frame_stack', objects', packages')
  <2>1. \E h \in DOMAIN objects' :
          form_stack'[EvaledOffset(below) + 2] = Object(h) /\ Leads(h, act.cons, objects')
    BY <1>7, <1>8, <1>10, <1>12, <1>13
  <2> QED  BY <1>3, <1>7, <1>9, <1>10, <1>13, <2>1 DEF OpenParenHolds
<1> QED  BY <1>1, <1>2, <1>4, <1>5, <1>10, <1>11, <1>14, OpenParenGoesOnHolding DEF below

LEMMA OpenParenExtendsListHolding ==
  ASSUME InitializesInOrder, Inv, Holding, OpenParenExtendsList
  PROVE  Holding'
<1>1. Top.fn = "(" /\ Top.pc = "link" /\ Top.last # NoBuffer
  BY DEF OpenParenExtendsList, Doing, In
<1> DEFINE o == ConsCell(value, Nil)
           below == acts[Len(acts) - 1]
           c == Top.cons
<1>2. /\ Allocates(o, [objects EXCEPT ![c].cdr = Object(Fresh)]) /\ packages' = packages
      /\ UNCHANGED <<frames, value>> /\ UNCHANGED <<frame_stack, form_stack>>
  BY DEF OpenParenExtendsList, image, frames, stack, Links, Becomes
<1>3. o.kind = "cons" /\ o.cdr = Nil
  BY DEF ConsCell
<1>4. FormOK(value, objects)
  BY DEF Inv, ValueOK
<1>5. Undisturbed
  BY OpenParenExtendsListKeeps
<1>6. HeapGrows /\ Grows(objects, objects')
  BY <1>5, UndisturbedGrows
<1>7. Filled' /\ KeepsBindings(objects, objects')
  BY <1>2, <1>4, LinkedFills DEF Holding
<1>8. /\ BoundInFrame(Top.stream, Len(acts), frame_stack, objects)
      /\ c \in DOMAIN objects /\ objects[c].kind = "cons"
      /\ \E h \in DOMAIN objects :
           form_stack[EvaledOffset(below) + 2] = Object(h) /\ Leads(h, c, objects)
  BY <1>1, OpenParenTopIs DEF Holding, OpenParenHolds
<1>9. /\ Allocated(o) /\ objects'[c] = ConsCell(objects[c].car, Object(Fresh))
      /\ \A id \in DOMAIN objects : id # c => objects'[id] = objects[id]
  BY <1>2, <1>4, <1>8, ConsLinked DEF Is
<1>10. BoundInFrame(Top.stream, Len(acts), frame_stack', objects')
  BY <1>2, <1>6, <1>7, <1>8, BoundInFrameStays
<1> DEFINE act == [Top EXCEPT !.pc = "element", !.last = InCons, !.cons = Fresh,
                             !.held = {Top.stream, Fresh}]
<1>11. /\ act.fn = "(" /\ act.pc = "element" /\ act.held = {Top.stream, Fresh}
       /\ act.stream = Top.stream /\ act.last = InCons /\ act.cons = Fresh
  BY <1>1, OpenParenTopIs DEF Holding
<1>12. acts' = Append(Below, act)
  BY DEF OpenParenExtendsList, Links, Becomes
<1>13. InCons # NoBuffer
  BY DEF InCons, NoBuffer
<1> HIDE DEF act, below, o, c
<1>14. PICK h \in DOMAIN objects :
         form_stack[EvaledOffset(below) + 2] = Object(h) /\ Leads(h, c, objects)
  BY <1>8
<1>15. /\ Fresh \in Nat /\ DOMAIN objects = 0 .. Fresh - 1
       /\ DOMAIN objects' = DOMAIN objects \cup {Fresh} /\ objects'[Fresh] = o
       /\ HeapOK(objects, packages)
  <2>1. HeapOK(objects, packages)
    BY DEF Inv, ObjectsOK
  <2>2. DOMAIN objects = 0 .. Size(objects) - 1
    BY <2>1, SizeIs
  <2> QED  BY <1>9, <2>1, <2>2 DEF Allocated
<1>16. objects'[c].kind = "cons" /\ objects'[c].cdr = Object(Fresh)
  BY <1>9 DEF ConsCell
<1>17. Leads(h, Fresh, objects')
  BY <1>8, <1>9, <1>14, <1>15, <1>16, LeadsOn
<1>18. OpenParenHolds(act, below, Len(acts), form_stack', frame_stack', objects', packages')
  <2>1. \E k \in DOMAIN objects' :
          form_stack'[EvaledOffset(below) + 2] = Object(k) /\ Leads(k, act.cons, objects')
    BY <1>2, <1>11, <1>14, <1>15, <1>17
  <2> QED  BY <1>3, <1>10, <1>11, <1>13, <1>15, <2>1 DEF OpenParenHolds
<1> QED  BY <1>1, <1>2, <1>5, <1>7, <1>11, <1>12, <1>18, OpenParenGoesOnHolding DEF below

----------------------------------------------------------------------------
(* READ-DOUBLE-QUOTE                                                       *)

LEMMA DoubleQuoteTopIs ==
  ASSUME InitializesInOrder, Inv, RunOK, ReadsString(Top)
  PROVE  /\ Top.fn \in Readers /\ Top.fn # "'" /\ ~Returning(Top) /\ DoubleQuoteOK(Top)
         /\ DoubleQuoteHolds(Top, acts[Len(acts) - 1], form_stack)
<1>1. /\ Top.fn \in Readers /\ Top.fn # "'" /\ Top.fn \notin {"initialize_runtime", "intern_symbol"}
  BY DoubleQuoteIs
<1>2. /\ ActOK(Top, objects, packages)
      /\ HoldsAt(Len(acts), Top, acts[Len(acts) - 1], form_stack, frame_stack, objects, packages)
  BY <1>1, TopHolds
<1>3. Top.fn # "READ" /\ Top.fn # "call"
  BY DEF ReadsString
<1> QED  BY <1>1, <1>2, <1>3, DoubleQuoteIs, HoldsIs DEF Returning

LEMMA DoubleQuoteGoesOnHolding ==
  ASSUME InitializesInOrder, Inv, Holding, Undisturbed, KeepsBindings(objects, objects'), Filled',
         ReadsString(Top), NEW act, acts' = Append(Below, act), ReadsString(act), act.fn = Top.fn,
         UNCHANGED <<frames, value>>, DoubleQuoteHolds(act, acts[Len(acts) - 1], form_stack')
  PROVE  Holding'
<1>1. Top.fn \in Readers /\ Top.fn # "'" /\ ~Returning(Top)
  BY DoubleQuoteTopIs DEF Holding
<1>2. HoldsAt(Len(acts), act, acts[Len(acts) - 1], form_stack', frame_stack', objects', packages')
  BY HoldsIs
<1>3. RunOK' /\ LastsOK'
  BY <1>1, <1>2, ReaderGoesOnHolding DEF Holding
<1> QED  BY <1>3 DEF Holding

LEMMA DoubleQuoteScansHolding ==
  ASSUME InitializesInOrder, Inv, Holding, DoubleQuoteScans
  PROVE  Holding'
<1>1. ReadsString(Top) /\ Top.pc = "scan"
  BY DoubleQuoteStepIs
<1>2. Top.held = {} /\ DoubleQuoteOK(Top)
  <2>1. DoubleQuoteOK(Top) /\ DoubleQuoteHolds(Top, acts[Len(acts) - 1], form_stack)
    BY <1>1, DoubleQuoteTopIs DEF Holding
  <2> QED  BY <1>1, <2>1 DEF DoubleQuoteHolds
<1>3. UNCHANGED <<heap, image, stack, frames, value>>
  BY DoubleQuoteScansTo DEF DoubleQuoteScans
<1>4. PICK act : /\ acts' = Append(Below, act) /\ act.pc \in {"scan", "string"} /\ act.held = Top.held
                 /\ act = [fn |-> Top.fn, pc |-> act.pc, file |-> Top.file, chars |-> act.chars,
                           escaped |-> act.escaped, held |-> act.held]
  BY <1>2, DoubleQuoteBecomes
<1>5. ReadsString(act) /\ act.fn = Top.fn
  BY <1>1, <1>4, DoubleQuoteActIs
<1>6. DoubleQuoteHolds(act, acts[Len(acts) - 1], form_stack')
  BY <1>2, <1>4 DEF DoubleQuoteHolds
<1>7. Undisturbed
  BY DoubleQuoteScansKeeps
<1>8. Filled' /\ KeepsBindings(objects, objects')
  BY <1>3, NothingFills DEF Holding, heap
<1> QED  BY <1>1, <1>3, <1>4, <1>5, <1>6, <1>7, <1>8, DoubleQuoteGoesOnHolding

LEMMA DoubleQuoteAllocatesStringHolding ==
  ASSUME InitializesInOrder, Inv, Holding, DoubleQuoteAllocatesString
  PROVE  Holding'
<1>1. ReadsString(Top) /\ Top.pc = "string"
  BY DoubleQuoteStepIs
<1> DEFINE held == {Fresh}
           act == [Top EXCEPT !.pc = "chars", !.held = held]
           below == acts[Len(acts) - 1]
<1>2. /\ Allocates(String, objects) /\ Pushes(<<Object(Fresh)>>) /\ packages' = packages
      /\ UNCHANGED <<frames, value>> /\ acts' = Append(Below, act)
  BY DEF DoubleQuoteAllocatesString, image, Becomes
<1>3. (\E o : Allocated(o)) /\ Filled' /\ KeepsBindings(objects, objects')
  BY <1>2, PlainAllocation DEF Holding
<1>4. Undisturbed
  BY DoubleQuoteAllocatesStringKeeps
<1>5. HeapGrows
  BY <1>4, UndisturbedGrows
<1>6. /\ form_stack'[Len(form_stack) + 1] = Object(Fresh)
  BY <1>2, <1>3, <1>5, FormsAgree
<1>7. /\ Top.fn \in Readers /\ DoubleQuoteOK(Top)
  BY <1>1, DoubleQuoteTopIs DEF Holding
<1>8. EvaledOffset(below) + 2 = Len(form_stack) + 1
  <2>1. PICK b : Laid(b, acts, form_stack, Len(frame_stack), objects)
    BY DEF Inv
  <2> DEFINE lo == b[Len(acts) - 1]
             hi == b[Len(acts)]
  <2>2. /\ EvaledOffset(below) + 2 = lo.forms + 1
        /\ ActLaid(Top, lo, hi, form_stack, objects) /\ hi.forms = Len(form_stack)
    BY <1>7, <2>1, ListIsAt
  <2> HIDE DEF lo, hi
  <2>3. DoubleQuoteLaid(Top, lo, hi, form_stack, objects)
    BY <1>1, <2>2, DoubleQuoteIs
  <2> QED  BY <1>1, <2>2, <2>3 DEF DoubleQuoteLaid
<1>9. Top = [fn |-> Top.fn, pc |-> Top.pc, file |-> Top.file, chars |-> Top.chars,
             escaped |-> Top.escaped, held |-> Top.held]
  BY <1>7 DEF DoubleQuoteOK
<1>10. act = [Top EXCEPT !.pc = "chars", !.held = held]
  OBVIOUS
<1>11. held \subseteq {Fresh}
  OBVIOUS
<1> HIDE DEF act, below, held
<1>12. act = [fn |-> Top.fn, pc |-> "chars", file |-> Top.file, chars |-> Top.chars,
              escaped |-> Top.escaped, held |-> held]
  BY <1>9, <1>10
<1>13. /\ act.pc = "chars" /\ act.held = held
       /\ act = [fn |-> Top.fn, pc |-> act.pc, file |-> Top.file, chars |-> act.chars,
                 escaped |-> act.escaped, held |-> act.held]
  BY <1>12
<1>14. ReadsString(act) /\ act.fn = Top.fn
  BY <1>1, <1>13, DoubleQuoteActIs
<1>15. DoubleQuoteHolds(act, below, form_stack')
  BY <1>6, <1>8, <1>11, <1>13 DEF DoubleQuoteHolds, Ids, Object
<1> QED  BY <1>1, <1>2, <1>3, <1>4, <1>14, <1>15, DoubleQuoteGoesOnHolding DEF below

LEMMA DoubleQuoteReturnsHolding ==
  ASSUME InitializesInOrder, Inv, Holding, DoubleQuoteReturns
  PROVE  Holding'
<1>1. ReadsString(Top) /\ Top.pc = "chars"
  BY DoubleQuoteStepIs
<1> DEFINE o  == Text(UpToNul(Top.chars))
           str == Last(form_stack)
<1>2. /\ Allocates(o, [objects EXCEPT ![str[2]].lexeme = Fresh])
      /\ acts' = Below /\ UNCHANGED frames /\ packages' = packages
  BY DEF DoubleQuoteReturns, Returns, image
<1>3. Top.fn \in Readers
  BY <1>1, DoubleQuoteTopIs DEF Holding
<1>4. PICK b : Laid(b, acts, form_stack, Len(frame_stack), objects)
  BY DEF Inv
<1> DEFINE lo == b[Len(acts) - 1]
           hi == b[Len(acts)]
<1>5. ActLaid(Top, lo, hi, form_stack, objects) /\ hi.forms = Len(form_stack)
  BY <1>3, <1>4, ListIsAt
<1> HIDE DEF lo, hi
<1>6. DoubleQuoteLaid(Top, lo, hi, form_stack, objects)
  BY <1>1, <1>5, DoubleQuoteIs
<1>7. PICK s \in DOMAIN objects :
        hi.forms = lo.forms + 1 /\ form_stack[hi.forms] = Object(s) /\ objects[s].kind = "string"
  BY <1>1, <1>6 DEF DoubleQuoteLaid
<1>8. str[2] = s
  BY <1>5, <1>7 DEF Last, Object
<1>9. o.kind = "chars" /\ o = [kind |-> "chars", chars |-> o.chars]
  BY DEF Text
<1> HIDE DEF o, str
<1>10. /\ Allocated(o) /\ \A id \in DOMAIN objects : id # s => objects'[id] = objects[id]
       /\ objects'[s].kind = "string" /\ objects'[s].lexeme = Fresh
  BY <1>2, <1>7, <1>8, <1>9, TextAllocated DEF Is
<1>11. Undisturbed
  BY DoubleQuoteReturnsKeeps
<1>12. Filled' /\ KeepsBindings(objects, objects')
  <2>1. Fresh \in DOMAIN objects' /\ Grows(objects, objects')
    BY <1>10, <1>11, UndisturbedGrows DEF Allocated
  <2> QED  BY <1>7, <1>9, <1>10, <2>1, AlteredFills DEF Holding
<1>13. RunOK' /\ LastsOK'
  BY <1>2, <1>3, <1>11, <1>12, ReaderReturnsHolding DEF Holding
<1> QED  BY <1>12, <1>13 DEF Holding

----------------------------------------------------------------------------
(* READ-SINGLE-QUOTE                                                       *)

LEMMA SingleQuoteTopIs ==
  ASSUME InitializesInOrder, Inv, RunOK, Top.fn = "'"
  PROVE  /\ Top.fn \in Readers /\ ~Returning(Top)
         /\ Top = [fn |-> Top.fn, pc |-> Top.pc, stream |-> Top.stream, held |-> Top.held]
         /\ SingleQuoteHolds(Top, acts[Len(acts) - 1], form_stack, objects, packages)
<1>1. /\ ActOK(Top, objects, packages)
      /\ HoldsAt(Len(acts), Top, acts[Len(acts) - 1], form_stack, frame_stack, objects, packages)
  BY TopHolds
<1>2. SingleQuoteOK(Top, objects)
  BY <1>1, SingleQuoteIs
<1> QED  BY <1>1, <1>2, HoldsIs DEF SingleQuoteOK, Readers, Returning

LEMMA SingleQuoteInternsHolding ==
  ASSUME InitializesInOrder, Inv, Holding, SingleQuoteInterns
  PROVE  Holding'
<1>1. Top.fn = "'" /\ Top.pc = "intern"
  BY DEF SingleQuoteInterns, Doing, In
<1>2. UNCHANGED <<heap, image, stack, frames, value>>
  BY DEF SingleQuoteInterns, Calls
<1> DEFINE act == Moved("read")
           callee == InternAct("COMMON-LISP", Chars("QUOTE"))
           below == acts[Len(acts) - 1]
<1>3. act.fn = "'" /\ act.pc = "read" /\ act.held = Top.held /\ act.stream = Top.stream
  BY <1>1, SingleQuoteTopIs DEF Holding, Moved
<1>4. callee.fn = "intern_symbol" /\ callee.name = Chars("QUOTE")
  BY DEF InternAct
<1>5. acts' = Below \o <<act, callee>>
  BY DEF SingleQuoteInterns, Calls, Moved
<1> HIDE DEF act, callee, below
<1>6. HoldsAt(Len(acts), act, below, form_stack', frame_stack, objects, packages)
  <2>1. SingleQuoteHolds(Top, below, form_stack, objects, packages)
    BY <1>1, SingleQuoteTopIs DEF Holding, below
  <2>2. SingleQuoteHolds(act, below, form_stack', objects, packages)
    BY <1>1, <1>2, <1>3, <2>1 DEF SingleQuoteHolds, stack
  <2> QED  BY <1>3, <2>2, HoldsIs
<1>7. HoldsAt(Len(acts) + 1, callee, act, form_stack', frame_stack, objects, packages)
  BY <1>4, HoldsIs DEF InternHolds
<1>8. Undisturbed
  BY SingleQuoteInternsKeeps
<1>9. Filled'
  BY <1>2, NothingFills DEF Holding, heap
<1>10. Top.fn \in Readers /\ ~Returning(Top)
  BY <1>1 DEF Readers, Returning
<1>11. RunOK' /\ LastsOK'
  BY <1>2, <1>4, <1>5, <1>6, <1>7, <1>8, <1>10, ReaderCallsHolding DEF Holding, below
<1> QED  BY <1>9, <1>11 DEF Holding

LEMMA SingleQuoteReadsHolding ==
  ASSUME InitializesInOrder, Inv, Holding, SingleQuoteReads
  PROVE  Holding'
<1>1. Top.fn = "'" /\ Top.pc = "read"
  BY DEF SingleQuoteReads, Doing, In
<1>2. UNCHANGED <<heap, image, frames, value>>
  BY DEF SingleQuoteReads, CallsFunction, Calls
<1> DEFINE held == Ids({value})
           act == [Top EXCEPT !.pc = "quote", !.held = held]
           args == <<Top.stream>>
           callee == CallAct(Len(args))
<1>3. act.fn = "'" /\ act.pc = "quote" /\ act.held = held
  BY <1>1, SingleQuoteTopIs DEF Holding
<1>4. callee.fn = "call" /\ callee.pc = "begin" /\ callee.held = {}
  BY DEF CallAct
<1>5. acts' = Below \o <<act, callee>>
  BY DEF SingleQuoteReads, CallsFunction, Calls
<1>6. \A id \in held : InternedId(id, packages)
  BY <1>1 DEF Holding, RunOK, QuoteKept, Ids
<1> HIDE DEF act, callee, held
<1>7. HoldsAt(Len(acts), act, acts[Len(acts) - 1], form_stack', frame_stack, objects, packages)
  BY <1>3, <1>6, HoldsIs DEF SingleQuoteHolds
<1>8. HoldsAt(Len(acts) + 1, callee, act, form_stack', frame_stack, objects, packages)
  BY <1>4, HoldsIs DEF CallHolds
<1>9. Undisturbed
  BY SingleQuoteReadsKeeps
<1>10. Filled'
  BY <1>2, NothingFills DEF Holding, heap
<1>11. Top.fn \in Readers /\ ~Returning(Top)
  BY <1>1 DEF Readers, Returning
<1>12. RunOK' /\ LastsOK'
  BY <1>2, <1>4, <1>5, <1>7, <1>8, <1>9, <1>11, ReaderCallsHolding DEF Holding
<1> QED  BY <1>10, <1>12 DEF Holding

LEMMA SingleQuoteBeginsHolding ==
  ASSUME InitializesInOrder, Inv, Holding, SingleQuoteBegins
  PROVE  Holding'
<1>1. Top.fn = "'" /\ Top.pc = "quote"
  BY DEF SingleQuoteBegins, Doing, In
<1> DEFINE car == Object(CHOOSE s \in Top.held : TRUE)
           o == ConsCell(car, Nil)
           held == {Fresh}
           act == [Top EXCEPT !.pc = "form", !.held = held]
           below == acts[Len(acts) - 1]
<1>2. /\ Allocates(o, objects) /\ Pushes(<<Object(Fresh)>>) /\ packages' = packages
      /\ UNCHANGED <<frames, value>> /\ acts' = Append(Below, act)
  BY DEF SingleQuoteBegins, Becomes, image
<1>3. o.kind = "cons"
  BY DEF ConsCell
<1>4. act.fn = "'" /\ act.pc = "form" /\ act.held = held
  BY <1>1, SingleQuoteTopIs DEF Holding
<1>5. held \subseteq {Fresh}
  OBVIOUS
<1> HIDE DEF car, o, held, act, below
<1>6. (\E n : Allocated(n)) /\ Filled' /\ KeepsBindings(objects, objects')
  BY <1>2, <1>3, PlainAllocation DEF Holding
<1>7. Undisturbed
  BY SingleQuoteBeginsKeeps
<1>8. HeapGrows
  BY <1>7, UndisturbedGrows
<1>9. /\ form_stack'[Len(form_stack) + 1] = Object(Fresh)
  BY <1>2, <1>6, <1>8, FormsAgree
<1>10. EvaledOffset(below) + 2 = Len(form_stack) + 1
  <2>1. PICK b : Laid(b, acts, form_stack, Len(frame_stack), objects)
    BY DEF Inv
  <2> DEFINE lo == b[Len(acts) - 1]
             hi == b[Len(acts)]
  <2>2. /\ EvaledOffset(below) + 2 = lo.forms + 1 /\ ActOK(Top, objects, packages)
        /\ ActLaid(Top, lo, hi, form_stack, objects) /\ hi.forms = Len(form_stack)
    BY <1>1, <2>1, ListIsAt DEF Readers, below
  <2> HIDE DEF lo, hi
  <2>3. SingleQuoteLaid(Top, lo, hi, form_stack, objects)
    BY <1>1, <2>2, SingleQuoteIsLaid
  <2> QED  BY <1>1, <2>2, <2>3 DEF SingleQuoteLaid
<1>11. SingleQuoteHolds(act, below, form_stack', objects', packages')
  BY <1>4, <1>5, <1>9, <1>10 DEF SingleQuoteHolds, Ids, Object
<1>12. HoldsAt(Len(acts), act, below, form_stack', frame_stack', objects', packages')
  BY <1>4, <1>11, HoldsIs
<1>13. Top.fn \in Readers /\ ~Returning(Top)
  BY <1>1 DEF Readers, Returning
<1>14. RunOK' /\ LastsOK'
  BY <1>1, <1>2, <1>4, <1>6, <1>7, <1>12, <1>13, ReaderGoesOnHolding DEF Holding, below
<1> QED  BY <1>6, <1>14 DEF Holding

LEMMA SingleQuoteReturnsHolding ==
  ASSUME InitializesInOrder, Inv, Holding, SingleQuoteReturns
  PROVE  Holding'
<1>1. Top.fn = "'" /\ Top.fn \in Readers
  BY DEF SingleQuoteReturns, Doing, In, Readers
<1>2. /\ Allocates(ConsCell(value, Nil), [objects EXCEPT ![Last(form_stack)[2]].cdr = Object(Fresh)])
      /\ acts' = Below /\ UNCHANGED frames /\ packages' = packages
  BY DEF SingleQuoteReturns, Returns, image
<1>3. FormOK(value, objects)
  BY DEF Inv, ValueOK
<1>4. Filled' /\ KeepsBindings(objects, objects')
  BY <1>2, <1>3, LinkedFills DEF Holding
<1>5. Undisturbed
  BY SingleQuoteReturnsKeeps
<1>6. RunOK' /\ LastsOK'
  BY <1>1, <1>2, <1>4, <1>5, ReaderReturnsHolding DEF Holding
<1> QED  BY <1>4, <1>6 DEF Holding

----------------------------------------------------------------------------
(* The loop of the REPL                                                    *)

LEMMA ReplGoesOnHolding ==
  ASSUME InitializesInOrder, Inv, Holding, Undisturbed, KeepsBindings(objects, objects'), Filled',
         Top.fn = "REPL", NEW act, acts' = Append(Below, act), act.fn = "REPL",
         UNCHANGED <<frames, value>>, ReplHolds(act, Len(acts), frame_stack', objects', packages')
  PROVE  Holding'
<1>1. Top.fn \in Readers /\ ~Returning(Top)
  BY DEF Readers, Returning
<1>2. HoldsAt(Len(acts), act, acts[Len(acts) - 1], form_stack', frame_stack', objects', packages')
  BY HoldsIs
<1>3. RunOK' /\ LastsOK'
  BY <1>1, <1>2, ReaderGoesOnHolding DEF Holding
<1> QED  BY <1>3 DEF Holding

LEMMA ReplHeldIs ==
  ASSUME InitializesInOrder, Inv, RunOK, Top.fn = "REPL"
  PROVE  /\ Top.fn \in Readers /\ ~Returning(Top)
         /\ Top = [fn |-> Top.fn, pc |-> Top.pc, string |-> Top.string, held |-> Top.held]
         /\ Top.pc = "chars" => Is(Top.string, "string", objects)
         /\ ReplHolds(Top, Len(acts), frame_stack, objects, packages)
<1>1. HoldsAt(Len(acts), Top, acts[Len(acts) - 1], form_stack, frame_stack, objects, packages)
  BY TopHolds
<1> QED  BY <1>1, HoldsIs, ReplTopIs DEF Returning

LEMMA ReplBindsHolding ==
  ASSUME InitializesInOrder, Inv, Holding, ReplGensyms \/ ReplAllocatesString
  PROVE  Holding'
<1>1. Top.fn = "REPL" /\ Top.fn \in Readers
  BY DEF ReplGensyms, ReplAllocatesString, Doing, In, Readers
<1>2. Undisturbed
  BY ReplBindsKeeps
<1>3. CASE ReplGensyms
  <2>1. Filled' /\ KeepsBindings(objects, objects') /\ NewSymbol({Fresh}, objects', packages')
    BY <1>1, <1>3, StartIsDone, GensymsNew DEF ReplGensyms, Holding
  <2> DEFINE act == [Top EXCEPT !.pc = "string", !.held = {Fresh}]
  <2>2. act.fn = "REPL" /\ act.pc = "string" /\ act.held = {Fresh}
    BY <1>1, ReplHeldIs DEF Holding
  <2>3. acts' = Append(Below, act) /\ UNCHANGED <<frames, value>>
    BY <1>3 DEF ReplGensyms, Becomes
  <2> HIDE DEF act
  <2>4. ReplHolds(act, Len(acts), frame_stack', objects', packages')
    BY <2>1, <2>2 DEF ReplHolds
  <2> QED  BY <1>1, <1>2, <2>1, <2>2, <2>3, <2>4, ReplGoesOnHolding
<1>4. CASE ReplAllocatesString
  <2>1. Top.pc = "string"
    BY <1>4 DEF ReplAllocatesString, Doing, In
  <2>2. NewSymbol(Top.held, objects, packages)
    BY <1>1, <2>1, ReplHeldIs DEF Holding, ReplHolds
  <2>3. PICK sym : Top.held = {sym}
    BY <2>2 DEF NewSymbol
  <2>4. /\ Allocates(String, BoundTo(CurrentEnv, sym, Object(Fresh), objects))
        /\ UNCHANGED <<packages, frames, value>>
    BY <1>4, <2>3 DEF ReplAllocatesString, image, Becomes
  <2>5. /\ Filled' /\ KeepsBindings(objects, objects')
        /\ BoundInFrame(Fresh, Len(acts), frame_stack', objects')
    BY <1>1, <2>2, <2>3, <2>4, ReaderBinds DEF Holding, frames
  <2> DEFINE act == [Top EXCEPT !.pc = "chars", !.string = Fresh, !.held = {Fresh}]
  <2>6. act.fn = "REPL" /\ act.pc = "chars" /\ act.held = {Fresh} /\ act.string = Fresh
    BY <1>1, ReplHeldIs DEF Holding
  <2>7. acts' = Append(Below, act)
    BY <1>4 DEF ReplAllocatesString, Becomes
  <2> HIDE DEF act
  <2>8. ReplHolds(act, Len(acts), frame_stack', objects', packages')
    BY <2>5, <2>6 DEF ReplHolds
  <2> QED  BY <1>1, <1>2, <2>4, <2>5, <2>6, <2>7, <2>8, ReplGoesOnHolding
<1> QED  BY <1>3, <1>4

LEMMA ReplAllocatesCharsHolding ==
  ASSUME InitializesInOrder, Inv, Holding, ReplAllocatesChars
  PROVE  Holding'
<1>1. Top.fn = "REPL" /\ Top.pc = "chars"
  BY DEF ReplAllocatesChars, Doing, In
<1> DEFINE o  == Text(Chars("~A~%"))
           s  == Top.string
<1>2. /\ UNCHANGED <<frames, value>> /\ UNCHANGED <<packages, frame_stack>>
      /\ acts' = Append(Below, Moved("prompt"))
  BY DEF ReplAllocatesChars, Goes, Becomes, image, frames, Moved
<1>alloc. packages' = packages /\ Allocates(o, [objects EXCEPT ![s].lexeme = Fresh])
  BY DEF ReplAllocatesChars, image
<1>3. o.kind = "chars" /\ o = [kind |-> "chars", chars |-> o.chars]
  BY DEF Text
<1>4. Is(s, "string", objects) /\ ReplHolds(Top, Len(acts), frame_stack, objects, packages)
  BY <1>1, ReplHeldIs DEF Holding
<1> HIDE DEF o, s
<1>5. /\ Allocated(o) /\ \A id \in DOMAIN objects : id # s => objects'[id] = objects[id]
      /\ objects'[s].kind = "string" /\ objects'[s].lexeme = Fresh
  <2>1. PICK id : id = s
    OBVIOUS
  <2>2. packages' = packages /\ Allocates(o, [objects EXCEPT ![id].lexeme = Fresh])
    BY <1>alloc, <2>1
  <2>3. Is(id, "string", objects)
    BY <1>4, <2>1
  <2>4. PICK text : text = o
    OBVIOUS
  <2>5. text.kind = "chars"
    BY <1>3, <2>4
  <2>6. text = [kind |-> "chars", chars |-> text.chars]
    BY <1>3, <2>4
  <2>7. packages' = packages
    BY <2>2
  <2>8. Allocates(text, [objects EXCEPT ![id].lexeme = Fresh])
    BY <2>2, <2>4
  <2>9. /\ HeapGrows /\ Allocated(text) /\ \A below : Settled(objects, objects', below)
        /\ \A other \in DOMAIN objects : other # id => objects'[other] = objects[other]
        /\ objects'[id].kind = "string" /\ objects'[id].lexeme = Fresh
    BY <2>3, <2>5, <2>6, <2>7, <2>8, TextAllocated
  <2> QED  BY <2>1, <2>4, <2>9
<1>6. Undisturbed
  BY ReplAllocatesCharsKeeps
<1>7. Fresh \in DOMAIN objects' /\ Grows(objects, objects')
  BY <1>5, <1>6, UndisturbedGrows DEF Allocated
<1>8. Filled' /\ KeepsBindings(objects, objects')
  BY <1>3, <1>4, <1>5, <1>7, AlteredFills DEF Holding, Is
<1>9. Top.held = {Top.string} /\ BoundInFrame(Top.string, Len(acts), frame_stack, objects)
  BY <1>1, <1>4 DEF ReplHolds, s
<1>10. BoundInFrame(Top.string, Len(acts), frame_stack', objects')
  BY <1>2, <1>7, <1>8, <1>9, BoundInFrameStays
<1> DEFINE act == Moved("prompt")
<1>11. act.fn = "REPL" /\ act.pc = "prompt" /\ act.held = Top.held /\ act.string = Top.string
  BY <1>1, ReplHeldIs DEF Holding, Moved
<1> HIDE DEF act
<1>12. ReplHolds(act, Len(acts), frame_stack', objects', packages')
  BY <1>9, <1>10, <1>11 DEF ReplHolds
<1> QED  BY <1>1, <1>2, <1>6, <1>8, <1>11, <1>12, ReplGoesOnHolding DEF act

LEMMA ReplReadsHolding ==
  ASSUME InitializesInOrder, Inv, Holding, ReplReads
  PROVE  Holding'
<1>1. Top.fn = "REPL" /\ Top.pc = "prompt"
  BY DEF ReplReads, Doing, In
<1>2. UNCHANGED <<heap, image, frames, value>>
  BY DEF ReplReads, CallsFunction, Calls
<1> DEFINE act == Moved("read")
           args == <<>>
           callee == CallAct(Len(args))
<1>3. act.fn = "REPL" /\ act.pc = "read" /\ act.held = Top.held /\ act.string = Top.string
  BY <1>1, ReplHeldIs DEF Holding, Moved
<1>4. callee.fn = "call" /\ callee.pc = "begin" /\ callee.held = {}
  BY DEF CallAct
<1>5. acts' = Below \o <<act, callee>>
  BY DEF ReplReads, CallsFunction, Calls, Moved
<1> HIDE DEF act, callee
<1>6. ReplHolds(Top, Len(acts), frame_stack, objects, packages)
  BY <1>1, ReplHeldIs DEF Holding
<1>7. ReplHolds(act, Len(acts), frame_stack, objects, packages)
  BY <1>1, <1>3, <1>6 DEF ReplHolds
<1>8. HoldsAt(Len(acts), act, acts[Len(acts) - 1], form_stack', frame_stack, objects, packages)
  BY <1>3, <1>7, HoldsIs
<1>9. HoldsAt(Len(acts) + 1, callee, act, form_stack', frame_stack, objects, packages)
  BY <1>4, HoldsIs DEF CallHolds
<1>10. Undisturbed
  BY ReplReadsKeeps
<1>11. Filled'
  BY <1>2, NothingFills DEF Holding, heap
<1>12. Top.fn \in Readers /\ ~Returning(Top)
  BY <1>1 DEF Readers, Returning
<1>13. RunOK' /\ LastsOK'
  BY <1>2, <1>4, <1>5, <1>8, <1>9, <1>10, <1>12, ReaderCallsHolding DEF Holding
<1> QED  BY <1>11, <1>13 DEF Holding

(* FORMAT's result becomes the last return.                                *)
LEMMA LastReturnSet ==
  ASSUME Inv, LastsOK, NEW form, FormOK(form, objects), SetLastReturn(form),
         DOMAIN objects \subseteq DOMAIN objects'
  PROVE  /\ LastsOK' /\ IsSeq(last_return_value') /\ Len(last_return_value') = Len(last_return_value)
         /\ \A k \in 1 .. Len(last_return_value) - 1 : last_return_value'[k] = last_return_value[k]
         /\ 1 <= Len(last_return_value) => last_return_value'[Len(last_return_value)] = form
<1> DEFINE n == Len(last_return_value)
<1>1. IsSeq(last_return_value) /\ n \in Nat
  BY SeqIs DEF Inv, FramesOK
<1>2. /\ IsSeq(last_return_value') /\ Len(last_return_value') = n
      /\ \A k \in 1 .. n : last_return_value'[k] = IF k = n THEN form ELSE last_return_value[k]
  <2>1. last_return_value' = [last_return_value EXCEPT ![n] = form]
    BY DEF SetLastReturn
  <2>2. DOMAIN last_return_value = 1 .. n
    BY <1>1, SeqIs
  <2> HIDE DEF n
  <2>3. IsSeq(last_return_value') /\ Len(last_return_value') = Len(last_return_value)
    BY <1>1, <2>1, ExceptIs
  <2>4. \A k \in 1 .. n : last_return_value'[k] = IF k = n THEN form ELSE last_return_value[k]
    BY <2>1, <2>2
  <2> QED  BY <2>3, <2>4 DEF n
<1>3. LastsOK'
  BY <1>2 DEF LastsOK, FormOK
<1> HIDE DEF n
<1>4. (\A k \in 1 .. n - 1 : k \in 1 .. n /\ k # n) /\ (1 <= n => n \in 1 .. n)
  BY <1>1
<1> QED  BY <1>2, <1>3, <1>4 DEF n

LEMMA ReplFormatsHolding ==
  ASSUME InitializesInOrder, Inv, Holding, ReplFormats
  PROVE  Holding'
<1>1. Top.fn = "REPL" /\ Top.pc = "read"
  BY DEF ReplFormats, Doing, In
<1> DEFINE act == Moved("prompt")
<1>2. act.fn = "REPL" /\ act.pc = "prompt" /\ act.held = Top.held /\ act.string = Top.string
  BY <1>1, ReplHeldIs DEF Holding, Moved
<1>3. /\ acts' = Append(Below, act) /\ value' = Nil /\ SetLastReturn(Nil)
      /\ UNCHANGED <<heap, image, stack, frame_stack>>
  BY DEF ReplFormats, Moved
<1>4. UNCHANGED <<objects, packages>>
  BY <1>3 DEF heap, image
<1> HIDE DEF act
<1>5. Filled' /\ KeepsBindings(objects, objects')
  BY <1>4, NothingFills DEF Holding
<1>6. Undisturbed
  BY ReplFormatsKeeps
<1>7. Nil[1] # "object" /\ FormOK(Nil, objects)
  BY DEF Nil, FormOK
<1>8. LastsOK'
  BY <1>3, <1>4, <1>7, LastReturnSet DEF Holding
<1>9. HoldsAt(Len(acts), act, acts[Len(acts) - 1], form_stack', frame_stack', objects', packages')
  <2>1. ReplHolds(Top, Len(acts), frame_stack, objects, packages)
    BY <1>1, ReplHeldIs DEF Holding
  <2>2. ReplHolds(act, Len(acts), frame_stack', objects', packages')
    BY <1>1, <1>2, <1>3, <1>4, <2>1 DEF ReplHolds
  <2> QED  BY <1>2, <2>2, HoldsIs
<1>10. 2 * Len(frame_stack') = FramesOf(Len(acts), act)
  <2>1. 2 * Len(frame_stack) = FramesOf(Len(acts), Top)
    BY DEF Holding, RunOK
  <2>2. FramesOf(Len(acts), act) = FramesOf(Len(acts), Top)
    BY <1>1, <1>2 DEF FramesOf
  <2> QED  BY <1>3, <2>1, <2>2
<1>11. ValueKept(value', act, last_return_value', packages') /\ QuoteKept(value', act, packages')
  BY <1>2, <1>3, <1>7 DEF ValueKept, QuoteKept
<1>12. 2 <= Len(acts) /\ FramesAgree(Len(acts))
  BY <1>1, <1>3, StartWaits, FramesStand
<1>13. RunOK'
  BY <1>3, <1>5, <1>6, <1>9, <1>10, <1>11, <1>12, ReplacedHolds DEF Holding
<1> QED  BY <1>5, <1>8, <1>13 DEF Holding

(* The user types, or the program comes to its end.                        *)
LEMMA UnchangedHolding ==
  ASSUME Holding, UNCHANGED <<heap, image, stack, frames, acts, value>>
  PROVE  Holding'
<1>1. UNCHANGED <<objects, packages, form_stack, frame_stack, last_return_value, acts, value>>
  BY DEF heap, image, stack, frames
<1>2. Filled'
  BY <1>1, NothingFills DEF Holding
<1>3. LastsOK' /\ RunOK'
  BY <1>1 DEF Holding, LastsOK, RunOK, Top
<1> QED  BY <1>2, <1>3 DEF Holding

LEMMA EndsHolding ==
  ASSUME Holding,
         \/ ReadSkipsWhitespace \/ ReadFails \/ ReadCallsNothing \/ OpenParenLoses \/ OpenParenLoops
         \/ CloseParenAborts \/ DoubleQuoteLoops \/ UserTypes \/ ReplQuits
  PROVE  Holding'
<1>1. UNCHANGED <<heap, image, stack, frames, acts, value>>
  <2>1. \A how : Ends(how) => UNCHANGED <<heap, image, stack, frames, acts, value>>
    BY DEF Ends
  <2>2. CASE ReadSkipsWhitespace \/ UserTypes
    BY <2>2 DEF ReadSkipsWhitespace, UserTypes
  <2>3. CASE ReadFails \/ ReadCallsNothing
    BY <2>1, <2>3 DEF ReadFails, ReadCallsNothing
  <2>4. CASE OpenParenLoses \/ OpenParenLoops \/ CloseParenAborts
    BY <2>1, <2>4 DEF OpenParenLoses, OpenParenLoops, CloseParenAborts
  <2>5. CASE DoubleQuoteLoops \/ ReplQuits
    BY <2>1, <2>5 DEF DoubleQuoteLoops, ReplQuits
  <2> QED  BY <2>2, <2>3, <2>4, <2>5
<1> QED  BY <1>1, UnchangedHolding

----------------------------------------------------------------------------
(* interpret_function_call                                                 *)

LEMMA CallTopIs ==
  ASSUME InitializesInOrder, Inv, RunOK, Top.fn = "call"
  PROVE  /\ CallOK(Top) /\ 2 <= Len(acts) /\ Len(acts) \in Nat /\ CallHolds(Top, form_stack)
         /\ Top.pc = "begin" => 2 * Len(frame_stack) = Len(acts)
         /\ Top.pc # "begin" => 2 * Len(frame_stack) = Len(acts) + 2
         /\ Len(frame_stack) \in Nat /\ Len(last_return_value) = Len(frame_stack)
         /\ IsSeq(frame_stack) /\ IsSeq(last_return_value) /\ IsSeq(form_stack) /\ Len(form_stack) \in Nat
<1>1. /\ ActOK(Top, objects, packages) /\ 2 <= Len(acts) /\ Len(acts) \in Nat
      /\ HoldsAt(Len(acts), Top, acts[Len(acts) - 1], form_stack, frame_stack, objects, packages)
  BY TopHolds
<1>2. CallOK(Top) /\ CallHolds(Top, form_stack)
  BY <1>1, HoldsIs DEF ActOK
<1>3. 2 * Len(frame_stack) = FramesOf(Len(acts), Top)
  BY DEF RunOK
<1>4. FramesOf(Len(acts), Top) = IF Top.pc # "begin" THEN Len(acts) + 2 ELSE Len(acts)
  BY DEF FramesOf, Readers
<1>5. /\ IsSeq(frame_stack) /\ IsSeq(last_return_value) /\ Len(last_return_value) = Len(frame_stack)
      /\ IsSeq(form_stack)
  BY DEF Inv, FramesOK, FormsOK
<1> QED  BY <1>1, <1>2, <1>3, <1>4, <1>5, SeqIs

(* Where the function and the list of the call that runs are.              *)
LEMMA CallIsAt ==
  ASSUME Inv, Top.fn = "call", NEW b, Laid(b, acts, form_stack, Len(frame_stack), objects)
  PROVE  LET lo == b[Len(acts) - 1]
         IN  /\ Top.fn_index + 1 \in 1 .. Len(form_stack) /\ Top.fn_index + 1 \in Nat
             /\ Suits(form_stack[Top.fn_index + 1], Top.arg_count, objects)
             /\ Top.pc # "begin" =>
                  /\ EvaledOffset(Top) + 1 = Len(form_stack) /\ Top.fn_index + 1 < Len(form_stack)
                  /\ Evaluated(form_stack[Len(form_stack)], Top.arg_i, lo.conses,
                               b[Len(acts)].conses, objects)
<1> DEFINE lo == b[Len(acts) - 1]
           hi == b[Len(acts)]
           m  == Len(form_stack)
<1>1. /\ ActOK(Top, objects, packages) /\ ActLaid(Top, lo, hi, form_stack, objects)
      /\ lo \in Levels /\ hi \in Levels /\ hi.forms = m
  BY TopIs
<1> HIDE DEF lo, hi, m
<1>2. CallLaid(Top, lo, hi, form_stack, objects) /\ CallOK(Top)
  BY <1>1 DEF ActLaid, ActOK
<1>3. /\ Top.fn_index = lo.forms /\ Suits(form_stack[lo.forms + 1], Top.arg_count, objects)
      /\ Top.pc = "begin" => m = lo.forms + Top.arg_count + 1
      /\ Top.pc # "begin" =>
           /\ m = lo.forms + Top.arg_count + 2
           /\ Evaluated(form_stack[m], Top.arg_i, lo.conses, hi.conses, objects)
      /\ Top.arg_count \in 0 .. 2
  BY <1>1, <1>2 DEF CallLaid, CallOK
<1>4. lo.forms \in Nat /\ m \in Nat
  BY <1>1 DEF Levels
<1>5. EvaledOffset(Top) = lo.forms + Top.arg_count + 1
  BY <1>3 DEF EvaledOffset
<1> DEFINE f == Top.fn_index
           k == Top.arg_count
           e == EvaledOffset(Top)
<1>6. f \in Nat /\ k \in 0 .. 2 /\ e = f + k + 1 /\ m \in Nat
      /\ (m = f + k + 1 \/ m = f + k + 2) /\ (Top.pc # "begin" => m = f + k + 2)
  BY <1>3, <1>4, <1>5
<1> HIDE DEF f, k, e
<1>7. f + 1 \in 1 .. m /\ f + 1 \in Nat /\ (Top.pc # "begin" => e + 1 = m /\ f + 1 < m)
  BY <1>6
<1> QED  BY <1>3, <1>7 DEF f, e, lo, hi, m

LEMMA CallBeginsHolding ==
  ASSUME InitializesInOrder, Inv, Holding, CallBegins
  PROVE  Holding'
<1>1. Top.fn = "call" /\ Top.pc = "begin" /\ Top.fn \in {"call"} \cup Readers
  BY DEF CallBegins, Doing, In
<1> DEFINE n == Len(acts)
           m == Len(form_stack)
           d == Len(frame_stack)
           held == Ids({form_stack[Top.fn_index + 1]})
           act == [Top EXCEPT !.pc = "arguments", !.held = held]
           o == Environment(CurrentEnv, objects[CurrentEnv].package)
<1>2. /\ Allocates(o, objects) /\ Pushes(<<Nil>>) /\ acts' = Append(Below, act)
      /\ frame_stack' = Append(frame_stack, Fresh) /\ last_return_value' = Append(last_return_value, Nil)
      /\ packages' = packages /\ value' = value
  BY DEF CallBegins, Becomes, image
<1>3. /\ CallOK(Top) /\ 2 <= n /\ n \in Nat /\ 2 * d = n /\ d \in Nat
      /\ Len(last_return_value) = d /\ IsSeq(frame_stack) /\ IsSeq(last_return_value)
  BY <1>1, CallTopIs DEF Holding
<1>4. Filled' /\ KeepsBindings(objects, objects')
  BY <1>2, PlainAllocation DEF Holding
<1>5. Undisturbed
  BY CallBeginsKeeps
<1>6. HeapGrows /\ Grows(objects, objects') /\ FilesMore(packages, packages')
  BY <1>5, UndisturbedGrows
<1>7. /\ act.fn = "call" /\ act.pc = "arguments" /\ act.held = held /\ act.fn_index = Top.fn_index
  BY <1>1, <1>3 DEF CallOK
<1> HIDE DEF act
<1>8. form_stack'[Top.fn_index + 1] = form_stack[Top.fn_index + 1]
  <2> DEFINE some == <<Nil>>
  <2>1. IsSeq(some) /\ Len(some) = 1 /\ some[1] = Nil /\ Pushes(some)
    BY <1>2, SingleIs
  <2> HIDE DEF some
  <2>2. FormsOK(form_stack, form_cap, objects) /\ \A i \in 1 .. Len(some) : FormOK(some[i], objects')
    <3>1. FormOK(Nil, objects')
      BY DEF FormOK, Nil
    <3>2. FormsOK(form_stack, form_cap, objects)
      BY DEF Inv
    <3>3. \A i \in 1 .. Len(some) : some[i] = Nil
      BY <2>1
    <3> QED  BY <3>1, <3>2, <3>3
  <2>3. Agree(form_stack, form_stack', m)
    BY <1>6, <2>1, <2>2, FormsPushed
  <2>4. Top.fn_index + 1 \in 1 .. m
    BY <1>1, CallIsAt DEF Inv
  <2> QED  BY <2>3, <2>4 DEF Agree
<1>9. /\ Len(frame_stack') = d + 1 /\ \A k \in 1 .. d : frame_stack'[k] = frame_stack[k]
      /\ Len(last_return_value') = d + 1 /\ last_return_value'[d + 1] = Nil
      /\ \A k \in 1 .. d : last_return_value'[k] = last_return_value[k]
  BY <1>2, <1>3, AppendIs
<1>10. HoldsAt(n, act, acts[n - 1], form_stack', frame_stack', objects', packages')
  <2>1. CallHolds(act, form_stack')
    BY <1>7, <1>8 DEF CallHolds
  <2> QED  BY <1>7, <2>1, HoldsIs
<1>11. 2 * Len(frame_stack') = FramesOf(n, act)
  <2>1. FramesOf(n, act) = n + 2
    BY <1>7 DEF FramesOf, Readers
  <2> HIDE DEF n, d
  <2> QED  BY <1>3, <1>9, <2>1
<1>12. /\ (d + 1) - 1 = d /\ \A k \in 1 .. d + 1 : k \in 1 .. d \/ k = d + 1
       /\ \A k \in 1 .. d : k \in 1 .. d + 1
  <2> HIDE DEF n, d
  <2> QED  BY <1>3
<1>13. FramesAgree(n)
  BY <1>9, <1>12 DEF FramesAgree
<1>14. ValueKept(value', act, last_return_value', packages')
  <2>1. ValueKept(value, Top, last_return_value, packages)
    BY DEF Holding, RunOK
  <2> DEFINE a == IF Top.fn = "call" /\ Top.pc = "arguments" THEN 1 ELSE 0
  <2>2. d - a = d /\ ~Returning(Top)
    <3>1. a = 0
      BY <1>1
    <3> HIDE DEF d, a
    <3> QED  BY <1>1, <1>3, <3>1 DEF Returning
  <2>3. \/ value[1] # "object" \/ InternedId(value[2], packages)
        \/ \E k \in 1 .. d : value = last_return_value[k]
    BY <1>3, <2>1, <2>2 DEF ValueKept
  <2> HIDE DEF d
  <2>4. \/ value'[1] # "object" \/ InternedId(value'[2], packages')
        \/ \E k \in 1 .. (d + 1) - 1 : value' = last_return_value'[k]
    BY <1>2, <1>9, <1>12, <2>3
  <2> QED  BY <1>7, <1>9, <2>4 DEF ValueKept
<1>15. QuoteKept(value', act, packages')
  BY <1>7 DEF QuoteKept
<1>16. RunOK'
  BY <1>2, <1>3, <1>4, <1>5, <1>10, <1>11, <1>13, <1>14, <1>15, ReplacedHolds DEF Holding
<1>17. LastsOK'
  <2>1. \A k \in 1 .. d : FormOK(last_return_value[k], objects')
    BY <1>3, <1>6 DEF Holding, LastsOK, FormOK, Grows
  <2>2. FormOK(Nil, objects')
    BY DEF FormOK, Nil
  <2> HIDE DEF d
  <2> QED  BY <1>9, <1>12, <2>1, <2>2 DEF LastsOK
<1> QED  BY <1>4, <1>16, <1>17 DEF Holding

LEMMA CallTakesArgHolding ==
  ASSUME InitializesInOrder, Inv, Holding, CallTakesArg
  PROVE  Holding'
<1>1. Top.fn = "call" /\ Top.pc = "arguments"
  BY DEF CallTakesArg, Doing, In
<1>2. PICK b : Laid(b, acts, form_stack, Len(frame_stack), objects)
  BY DEF Inv
<1> DEFINE n == Len(acts)
           m == Len(form_stack)
           d == Len(frame_stack)
           next == Top.arg_i + 1
           act == [Top EXCEPT !.arg_i = next]
           arg == form_stack[Top.fn_index + 2 + Top.arg_i]
           evaled == EvaledOffset(Top) + 1
           before == Conses(form_stack[evaled])
           x == Object(Fresh)
           c == Last(before)
<1>3. /\ SetLastReturn(arg) /\ packages' = packages /\ frame_stack' = frame_stack /\ value' = value
      /\ acts' = Append(Below, act) /\ Top.arg_i < Top.arg_count
  BY DEF CallTakesArg, Becomes, image
<1>4. \/ form_stack' = [form_stack EXCEPT ![evaled] = x] /\ Allocates(ConsCell(arg, Nil), objects)
      \/ /\ form_stack' = form_stack
         /\ Allocates(ConsCell(arg, Nil), [objects EXCEPT ![c].cdr = Object(Fresh)])
  BY DEF CallTakesArg
<1>5. /\ CallOK(Top) /\ 2 <= n /\ n \in Nat /\ 2 * d = n + 2 /\ d \in Nat
      /\ CallHolds(Top, form_stack) /\ IsSeq(form_stack) /\ Len(last_return_value) = d
  BY <1>1, CallTopIs DEF Holding
<1>6. /\ Top.fn_index + 1 \in 1 .. m /\ evaled = m /\ Top.fn_index + 1 < m /\ Top.fn_index + 1 \in Nat
  BY <1>1, <1>2, CallIsAt
<1>7. FormOK(arg, objects)
  <2> DEFINE f == Top.fn_index
             k == Top.arg_i
             a == Top.arg_count
             j == f + 2 + k
  <2>1. f \in Nat /\ k \in Nat /\ a \in Nat /\ k < a
    BY <1>3, <1>5 DEF CallOK
  <2>2. EvaledOffset(Top) = f + a + 1 /\ m \in Nat /\ EvaledOffset(Top) + 1 = m
    BY <1>1, <1>6, CallTopIs DEF EvaledOffset, Holding
  <2>3. arg = form_stack[j]
    OBVIOUS
  <2> HIDE DEF f, k, a, m, arg
  <2>4. m = f + a + 2
    BY <2>1, <2>2
  <2>5. j \in 1 .. m
    BY <2>1, <2>4
  <2> HIDE DEF j
  <2> QED  BY <2>3, <2>5 DEF Inv, FormsOK, m
<1>8. /\ act.fn = "call" /\ act.pc = "arguments" /\ act.held = Top.held /\ act.fn_index = Top.fn_index
  BY <1>1, <1>5 DEF CallOK
<1> HIDE DEF act, arg, evaled, c, x
<1>9. Filled' /\ KeepsBindings(objects, objects')
  <2> DEFINE o == ConsCell(arg, Nil)
  <2>1. o.kind = "cons"
    BY DEF ConsCell
  <2>2. CASE Allocates(o, objects)
    <3> HIDE DEF o
    <3> QED  BY <2>1, <2>2, PlainAllocation DEF Holding
  <2>3. CASE Allocates(o, [objects EXCEPT ![c].cdr = Object(Fresh)])
    BY <1>3, <1>7, <2>3, LinkedFills DEF Holding
  <2> QED  BY <1>4, <2>2, <2>3
<1>10. Undisturbed
  BY CallTakesArgKeeps
<1>11. Grows(objects, objects') /\ DOMAIN objects \subseteq DOMAIN objects'
  BY <1>10, UndisturbedGrows
<1>12. form_stack'[Top.fn_index + 1] = form_stack[Top.fn_index + 1]
  <2> DEFINE f == Top.fn_index + 1
  <2>1. f \in 1 .. m /\ f # m
    <3> HIDE DEF f, m
    <3> QED  BY <1>6 DEF f
  <2>2. DOMAIN form_stack = 1 .. m
    BY <1>5, SeqIs
  <2> HIDE DEF f, m
  <2>3. form_stack'[f] = form_stack[f]
    BY <1>4, <1>6, <2>1, <2>2
  <2> QED  BY <2>3 DEF f
<1>13. HoldsAt(n, act, acts[n - 1], form_stack', frame_stack', objects', packages')
  <2>1. CallHolds(act, form_stack')
    BY <1>1, <1>5, <1>8, <1>12 DEF CallHolds
  <2> QED  BY <1>8, <2>1, HoldsIs
<1>14. 2 * Len(frame_stack') = FramesOf(n, act)
  <2>1. FramesOf(n, act) = n + 2
    BY <1>8 DEF FramesOf, Readers
  <2> QED  BY <1>3, <1>5, <2>1
<1>15. LastsOK' /\ Len(last_return_value') = d
       /\ \A k \in 1 .. d - 1 : last_return_value'[k] = last_return_value[k]
  BY <1>3, <1>5, <1>7, <1>11, LastReturnSet DEF Holding
<1>16. ValueKept(value', act, last_return_value', packages')
  <2>1. ValueKept(value, Top, last_return_value, packages)
    BY DEF Holding, RunOK
  <2> HIDE DEF d
  <2>2. \/ value[1] # "object" \/ InternedId(value[2], packages)
        \/ \E k \in 1 .. d - 1 : value = last_return_value[k]
    BY <1>1, <1>5, <2>1 DEF ValueKept, Returning
  <2>3. \/ value'[1] # "object" \/ InternedId(value'[2], packages')
        \/ \E k \in 1 .. d - 1 : value' = last_return_value'[k]
    BY <1>3, <1>15, <2>2
  <2> QED  BY <1>8, <1>15, <2>3 DEF ValueKept
<1>17. QuoteKept(value', act, packages') /\ FramesAgree(n)
  BY <1>3, <1>8, FramesStand DEF QuoteKept
<1>18. RunOK'
  BY <1>3, <1>5, <1>9, <1>10, <1>13, <1>14, <1>16, <1>17, ReplacedHolds DEF Holding
<1> QED  BY <1>9, <1>15, <1>18 DEF Holding

LEMMA CallReturnsHolding ==
  ASSUME InitializesInOrder, Inv, Holding, CallReturns
  PROVE  Holding'
<1>1. Top.fn = "call" /\ Top.pc = "return"
  BY DEF CallReturns, Doing, In
<1> DEFINE n == Len(acts)
           d == Len(frame_stack)
           k == d - 1
           act == acts[n - 1]
<1>2. /\ UNCHANGED <<objects, packages>> /\ acts' = Below /\ value' = value
      /\ frame_stack' = SubSeq(frame_stack, 1, k)
      /\ last_return_value' = [SubSeq(last_return_value, 1, k) EXCEPT ![k] = value]
  BY DEF CallReturns, Returns, heap, image
<1>3. /\ 2 <= n /\ n \in Nat /\ 2 * d = n + 2 /\ d \in Nat
      /\ Len(last_return_value) = d /\ IsSeq(frame_stack) /\ IsSeq(last_return_value)
  BY <1>1, CallTopIs DEF Holding
<1>4. Filled' /\ KeepsBindings(objects, objects')
  BY <1>2, NothingFills DEF Holding
<1>5. Undisturbed
  BY CallReturnsKeeps
<1>6. act.fn \in {"initialize_runtime"} \cup Readers /\ act.fn # "call"
      /\ (act.fn = "'" => act.pc = "quote")
  <2>1. \A i \in 1 .. n - 1 : Waits(acts[i], acts[i + 1])
    BY ActsAre
  <2>2. Top = acts[n]
    BY ActsAre
  <2> HIDE DEF n
  <2>3. n - 1 \in 1 .. n - 1 /\ (n - 1) + 1 = n
    BY <1>3
  <2>4. Waits(acts[n - 1], Top)
    BY <2>1, <2>2, <2>3
  <2> QED  BY <1>1, <2>4 DEF Waits, Readers
<1>7. 2 * k = n /\ k \in Nat /\ 1 <= k /\ k \in Int /\ k <= d /\ (IF 1 <= k THEN k ELSE 0) = k
      /\ (\A i \in 1 .. d : 2 * i <= n => i \in 1 .. k)
      /\ (\A i \in 1 .. k : i \in 1 .. d)
  <2> HIDE DEF d, n
  <2> QED  BY <1>3
<1> HIDE DEF k, act
<1>8. Len(frame_stack') = k /\ \A i \in 1 .. k : frame_stack'[i] = frame_stack[i]
  BY <1>2, <1>3, <1>7, SubSeqIs
<1>9. /\ Len(last_return_value') = k /\ last_return_value'[k] = value
      /\ \A i \in 1 .. k : last_return_value'[i] = IF i = k THEN value ELSE last_return_value[i]
  <2> DEFINE kept == SubSeq(last_return_value, 1, k)
  <2>1. IsSeq(kept) /\ Len(kept) = k /\ \A i \in 1 .. k : kept[i] = last_return_value[i]
    BY <1>3, <1>7, SubSeqIs
  <2>2. last_return_value' = [kept EXCEPT ![k] = value]
    BY <1>2
  <2> HIDE DEF kept
  <2>3. DOMAIN kept = 1 .. k /\ k \in 1 .. k
    BY <1>7, <2>1, SeqIs
  <2>4. Len(last_return_value') = k
    BY <2>1, <2>2, ExceptIs
  <2> QED  BY <2>1, <2>2, <2>3, <2>4
<1>10. FramesAgree(n)
  <2> HIDE DEF n
  <2> QED  BY <1>7, <1>8 DEF FramesAgree
<1>11. 2 * Len(frame_stack') = FramesOf(n - 1, act)
  <2> HIDE DEF n
  <2>1. FramesOf(n - 1, act) = (n - 1) + 1
    BY <1>6 DEF FramesOf, Readers
  <2> QED  BY <1>3, <1>7, <1>8, <2>1
<1>12. ValueKept(value', act, last_return_value', packages') /\ QuoteKept(value', act, packages')
  <2>1. k - 0 = k /\ k \in 1 .. k
    BY <1>7
  <2>2. \E i \in 1 .. k : value' = last_return_value'[i]
    BY <1>2, <1>9, <2>1
  <2> QED  BY <1>6, <1>9, <2>1, <2>2 DEF ValueKept, QuoteKept
<1>13. RunOK'
  <2> HIDE DEF n
  <2> QED  BY <1>2, <1>3, <1>4, <1>5, <1>10, <1>11, <1>12, ReturnedHolds DEF Holding, act, n
<1>14. LastsOK'
  <2>1. FormOK(value, objects) /\ \A i \in 1 .. d : FormOK(last_return_value[i], objects)
    BY <1>3 DEF Inv, ValueOK, Holding, LastsOK
  <2> QED  BY <1>2, <1>7, <1>9, <2>1 DEF LastsOK
<1> QED  BY <1>4, <1>13, <1>14 DEF Holding

(* The function that is called begins.                                     *)
LEMMA InvokesHolding ==
  ASSUME InitializesInOrder, Inv, Holding, Undisturbed, NEW name, NEW act, Invokes(name, act),
         act.fn \in Readers, act.fn # "'" \/ act.pc # "read", NEW waits, waits = [Top EXCEPT !.pc = "return"],
         HoldsAt(Len(acts) + 1, act, waits, form_stack, frame_stack, objects, packages)
  PROVE  Holding'
<1>1. Top.fn = "call" /\ Top.pc = "arguments"
  BY DEF Invokes, Doing, In
<1>2. /\ acts' = Below \o <<waits, act>>
      /\ UNCHANGED <<objects, packages, frame_stack, last_return_value, form_stack, value>>
  BY DEF Invokes, Calls, heap, image, stack, frames
<1>3. /\ CallOK(Top) /\ CallHolds(Top, form_stack) /\ 2 <= Len(acts)
      /\ 2 * Len(frame_stack) = Len(acts) + 2 /\ Len(acts) \in Nat
  BY <1>1, CallTopIs DEF Holding
<1>4. /\ waits.fn = "call" /\ waits.pc = "return" /\ waits.held = Top.held
      /\ waits.fn_index = Top.fn_index
  BY <1>1, <1>3 DEF CallOK
<1>5. HoldsAt(Len(acts), waits, acts[Len(acts) - 1], form_stack', frame_stack', objects', packages')
  <2>1. CallHolds(waits, form_stack)
    BY <1>1, <1>3, <1>4 DEF CallHolds
  <2> QED  BY <1>2, <1>4, <2>1, HoldsIs
<1>6. Filled' /\ KeepsBindings(objects, objects') /\ FramesAgree(Len(acts))
  BY <1>2, NothingFills, FramesStand DEF Holding
<1>7. 2 * Len(frame_stack') = FramesOf(Len(acts) + 1, act)
  <2> DEFINE n == Len(acts)
  <2>1. FramesOf(n + 1, act) = (n + 1) + 1
    BY ReaderHasFrames
  <2> HIDE DEF n
  <2>2. (n + 1) + 1 = n + 2
    BY <1>3 DEF n
  <2> QED  BY <1>2, <1>3, <2>1, <2>2 DEF n
<1>8. ValueKept(value', act, last_return_value', packages')
  <2>1. ValueKept(value, Top, last_return_value, packages) /\ ~Returning(Top) /\ act.fn # "call"
    BY <1>1 DEF Holding, RunOK, Returning, Readers
  <2> QED  BY <1>2, <2>1, UndisturbedGrows, ValueStays
<1>9. QuoteKept(value', act, packages')
  BY DEF QuoteKept
<1>10. LastsOK'
  BY <1>2, LastsStay DEF Holding
<1>11. HoldsAt(Len(acts) + 1, act, waits, form_stack', frame_stack', objects', packages')
  BY <1>2
<1>12. RunOK'
  BY <1>2, <1>3, <1>5, <1>6, <1>7, <1>8, <1>9, <1>11, CalledHolds DEF Holding
<1> QED  BY <1>6, <1>10, <1>12 DEF Holding

LEMMA StartsHolding ==
  ASSUME InitializesInOrder, Inv, Holding,
         ReadStarts \/ OpenParenStarts \/ DoubleQuoteStarts \/ SingleQuoteStarts \/ ReplStarts
  PROVE  Holding'
<1>1. Undisturbed
  BY StartsKeep
<1> DEFINE n == Len(acts)
           waits == [Top EXCEPT !.pc = "return"]
<1>2. CASE ReadStarts
  <2> DEFINE act == ReadAct(IF Top.arg_count = 0 THEN Stdin ELSE objects[FirstArgument[2]].file)
  <2>1. act.fn = "READ" /\ act.pc = "gensym" /\ act.held = {}
    BY DEF ReadAct
  <2>2. Invokes("READ", act)
    BY <1>2 DEF ReadStarts
  <2> HIDE DEF act, waits
  <2>3. HoldsAt(n + 1, act, waits, form_stack, frame_stack, objects, packages)
    BY <2>1, HoldsIs DEF ReadHolds
  <2> QED  BY <1>1, <2>1, <2>2, <2>3, InvokesHolding DEF Readers, waits
<1>3. CASE OpenParenStarts
  <2> DEFINE act == OpenParenAct(objects[FirstArgument[2]].file)
  <2>1. act.fn = "(" /\ act.pc = "scan" /\ act.held = {} /\ act.last = NoBuffer
    BY DEF OpenParenAct
  <2>2. Invokes("READ-OPEN-PAREN", act)
    BY <1>3 DEF OpenParenStarts
  <2> HIDE DEF act, waits
  <2>3. HoldsAt(n + 1, act, waits, form_stack, frame_stack, objects, packages)
    BY <2>1, HoldsIs DEF OpenParenHolds
  <2> QED  BY <1>1, <2>1, <2>2, <2>3, InvokesHolding DEF Readers, waits
<1>4. CASE DoubleQuoteStarts
  <2> DEFINE act == DoubleQuoteAct(objects[FirstArgument[2]].file)
  <2>1. ReadsString(act) /\ act.held = {} /\ act.fn \in Readers /\ act.fn # "'"
    BY DEF DoubleQuoteAct, ReadsString, Readers
  <2>2. Invokes("READ-DOUBLE-QUOTE", act)
    BY <1>4 DEF DoubleQuoteStarts
  <2> HIDE DEF act, waits
  <2>3. HoldsAt(n + 1, act, waits, form_stack, frame_stack, objects, packages)
    BY <2>1, HoldsIs DEF DoubleQuoteHolds
  <2> QED  BY <1>1, <2>1, <2>2, <2>3, InvokesHolding DEF waits
<1>5. CASE ReplStarts
  <2>1. ReplAct.fn = "REPL" /\ ReplAct.pc = "gensym" /\ ReplAct.held = {}
    BY DEF ReplAct
  <2>2. Invokes("REPL", ReplAct)
    BY <1>5 DEF ReplStarts
  <2> HIDE DEF waits
  <2>3. HoldsAt(n + 1, ReplAct, waits, form_stack, frame_stack, objects, packages)
    BY <2>1, HoldsIs DEF ReplHolds
  <2> QED  BY <1>1, <2>1, <2>2, <2>3, InvokesHolding DEF Readers, waits
<1>6. CASE SingleQuoteStarts
  <2> DEFINE act == SingleQuoteAct(FirstArgument)
             name == "READ-SINGLE-QUOTE"
  <2>1. act.fn = "'" /\ act.pc = "intern" /\ act.held = Ids({FirstArgument}) /\ act.stream = FirstArgument
    BY DEF SingleQuoteAct
  <2>2. Invokes(name, act) /\ name \notin {"READ", "REPL"}
    BY <1>6 DEF SingleQuoteStarts
  <2>3. /\ Doing("call", "arguments") /\ Top.arg_i = Top.arg_count /\ Top.fn = "call" /\ Top.pc # "begin"
        /\ objects[form_stack[Top.fn_index + 1][2]].name = name
    BY <2>2 DEF Invokes, Doing, In
  <2>4. PICK b : Laid(b, acts, form_stack, Len(frame_stack), objects)
    BY DEF Inv
  <2> DEFINE lo == b[n - 1]
             hi == b[n]
             m == Len(form_stack)
  <2>5. /\ Suits(form_stack[Top.fn_index + 1], Top.arg_count, objects)
        /\ EvaledOffset(Top) + 1 = m
        /\ Evaluated(form_stack[m], Top.arg_i, lo.conses, hi.conses, objects)
    BY <2>3, <2>4, CallIsAt
  <2>6. CallOK(Top)
    BY <2>3, CallTopIs DEF Holding
  <2> HIDE DEF act, name, lo, hi, m
  <2>7. Top.arg_count > 0
    <3>1. PICK id \in DOMAIN objects :
            /\ form_stack[Top.fn_index + 1] = Object(id)
            /\ Top.arg_count > 0 \/ objects[id] = Inherent("READ") \/ objects[id] = Inherent("REPL")
      BY <2>5 DEF Suits
    <3>2. objects[id].name = name
      BY <2>3, <3>1 DEF Object
    <3> QED  BY <2>2, <3>1, <3>2 DEF Inherent
  <2>8. Top.arg_i \in {1, 2}
    BY <2>3, <2>6, <2>7 DEF CallOK
  <2>9. PICK h \in DOMAIN objects : form_stack[m] = Object(h) /\ objects[h].kind = "cons"
    BY <2>5, <2>8 DEF Evaluated
  <2>10. FirstArgument = objects[h].car
    BY <2>5, <2>9 DEF FirstArgument, Object
  <2>11. EvaledOffset(waits) = EvaledOffset(Top)
    BY <2>6 DEF EvaledOffset, CallOK
  <2> HIDE DEF waits
  <2>12. SingleQuoteHolds(act, waits, form_stack, objects, packages)
    BY <2>1, <2>5, <2>9, <2>10, <2>11 DEF SingleQuoteHolds
  <2>13. HoldsAt(n + 1, act, waits, form_stack, frame_stack, objects, packages)
    BY <2>1, <2>12, HoldsIs
  <2>14. act.fn \in Readers /\ act.pc # "read"
    BY <2>1 DEF Readers
  <2> QED  BY <1>1, <2>2, <2>13, <2>14, InvokesHolding DEF waits
<1> QED  BY <1>2, <1>3, <1>4, <1>5, <1>6

----------------------------------------------------------------------------
(* intern_symbol                                                           *)

(* What intern_symbol waits on, once the start is over.                    *)
LEMMA InternBelowIs ==
  ASSUME InitializesInOrder, Inv, Started, Top.fn = "intern_symbol"
  PROVE  LET below == acts[Len(acts) - 1]
         IN  /\ 2 <= Len(acts) /\ Len(acts) \in Nat
             /\ \/ below.fn = "READ" /\ below.pc = "interned"
                \/ below.fn = "'" /\ below.pc = "read"
<1> DEFINE n == Len(acts)
           below == acts[n - 1]
<1>1. 2 <= n /\ n \in Nat
  BY StartWaits, ActsAre
<1>2. Waits(below, Top)
  <2>1. Top = acts[n] /\ \A i \in 1 .. n - 1 : Waits(acts[i], acts[i + 1])
    BY ActsAre
  <2> HIDE DEF n
  <2>2. n - 1 \in 1 .. n - 1 /\ (n - 1) + 1 = n
    BY <1>1
  <2> QED  BY <2>1, <2>2
<1>3. below.fn # "initialize_runtime"
  <2>1. CASE n = 2
    <3>1. ~Does(Steps, "intern")
      <4> DEFINE s == Steps
      <4>1. Early("intern")
        BY DEF Early
      <4>2. s \in Nat /\ (s \in 1 .. s => ~(s < s - 2)) /\ (Does(s, "intern") => s \in 1 .. s)
        <5>1. s \in Nat /\ (Does(s, "intern") => s \in 1 .. s)
          BY OrderIs
        <5> HIDE DEF s
        <5>2. s \in 1 .. s => ~(s < s - 2)
          BY <5>1
        <5> QED  BY <5>1, <5>2
      <4> QED  BY <4>1, <4>2, EarlyIs
    <3>2. acts[1].pc - 1 = Steps
      <4> DEFINE s == Steps
      <4>1. s \in Nat /\ acts[1].pc = s + 1
        BY OrderIs DEF Started
      <4> HIDE DEF s
      <4> QED  BY <4>1 DEF s
    <3>3. InternsFor(acts[1], acts[2]) /\ Top = acts[2]
      BY <2>1 DEF Inv, StartOK, Top, Last
    <3> QED  BY <3>1, <3>2, <3>3 DEF InternsFor
  <2>2. CASE n # 2
    <3>1. \A i \in 1 .. n - 1 : Waits(acts[i], acts[i + 1])
      BY ActsAre
    <3> HIDE DEF n
    <3>2. n - 2 \in 1 .. n - 1 /\ (n - 2) + 1 = n - 1
      BY <1>1, <2>2
    <3>3. Waits(acts[n - 2], below)
      BY <3>1, <3>2
    <3> QED  BY <3>3 DEF Waits
  <2> QED  BY <2>1, <2>2
<1> QED  BY <1>1, <1>2, <1>3 DEF Waits

LEMMA InternTopIs ==
  ASSUME Inv, Top.fn = "intern_symbol"
  PROVE  /\ InternOK(Top, objects, packages)
         /\ Top = [fn |-> Top.fn, pc |-> Top.pc, package |-> Top.package, name |-> Top.name,
                   held |-> Top.held]
         /\ Top.package \in DOMAIN packages
<1>1. ActOK(Top, objects, packages)
  BY ActsAre
<1> QED  BY <1>1 DEF ActOK, InternOK

(* What interning does to the heap, and to the package.                    *)
LEMMA InternsFill ==
  ASSUME InitializesInOrder, Inv, Interns, UNCHANGED <<files, session>>
  PROVE  (Filled => Filled') /\ KeepsBindings(objects, objects') /\ Undisturbed
<1>1. ended' = ended
  BY DEF session
<1>2. CASE InternFinds
  <2>1. objects' = objects
    BY <1>2 DEF InternFinds, heap
  <2> QED  BY <1>1, <1>2, <2>1, NothingFills, InternFindsKeeps
<1>3. CASE InternAllocatesSymbol
  <2> DEFINE o == Symbol(Top.package, 0)
  <2>1. o.kind = "symbol" /\ Allocates(o, objects)
    BY <1>3 DEF InternAllocatesSymbol, Symbol
  <2> HIDE DEF o
  <2> QED  BY <1>1, <1>3, <2>1, PlainAllocation, InternAllocatesSymbolKeeps
<1>4. CASE InternAllocatesName
  <2> DEFINE sym == CHOOSE s \in Top.held : TRUE
             p == Top.package
             name == Top.name
  <2>1. /\ Top.fn = "intern_symbol" /\ Top.pc = "name"
        /\ packages' = Interned(p, name, sym, packages)
        /\ Allocates(Text(name), [objects EXCEPT ![sym].lexeme = Fresh])
    BY <1>4 DEF InternAllocatesName, In
  <2>2. /\ p \in DOMAIN packages /\ name \notin DOMAIN packages[p].interned
        /\ sym \in DOMAIN objects /\ objects[sym].kind = "symbol" /\ objects[sym].lexeme = Null
        /\ objects[sym].package = p
    <3>1. PICK s \in DOMAIN objects :
              /\ Top.held = {s} /\ objects[s].kind = "symbol"
              /\ objects[s].lexeme = Null /\ objects[s].package = Top.package
      BY <2>1, InternTopIs DEF InternOK
    <3>2. sym = s
      BY <3>1
    <3> QED  BY <2>1, <3>1, <3>2, InternTopIs DEF InternOK
  <2> HIDE DEF sym, p, name
  <2>3. ObjectsOK(objects, packages)
    BY DEF Inv
  <2>4. /\ HeapGrows /\ Allocated(Text(name))
        /\ \A id \in DOMAIN objects : id # sym => objects'[id] = objects[id]
    BY <2>1, <2>2, <2>3, NamingGrows
  <2>5. Undisturbed
    BY <1>1, <1>4, InternAllocatesNameKeeps
  <2>6. Grows(objects, objects')
    BY <2>5, UndisturbedGrows
  <2> DEFINE o == Text(name)
  <2>7. o.kind = "chars" /\ Allocated(o)
    BY <2>4 DEF Text
  <2> HIDE DEF o
  <2>8. (Filled => Filled') /\ KeepsBindings(objects, objects')
    BY <2>2, <2>4, <2>6, <2>7, AlteredFills
  <2> QED  BY <2>5, <2>8
<1> QED  BY <1>2, <1>3, <1>4 DEF Interns

(* What intern_symbol returns is in the package, under its name.           *)
LEMMA InternReturnsIt ==
  ASSUME Inv, InternFinds \/ InternAllocatesName
  PROVE  /\ acts' = Below /\ UNCHANGED frames /\ value'[2] = packages'[Top.package].interned[Top.name]
         /\ Top.package \in DOMAIN packages' /\ Top.name \in DOMAIN packages'[Top.package].interned
<1> DEFINE p == Top.package
           name == Top.name
<1>1. CASE InternFinds
  <2>1. Top.fn = "intern_symbol"
    BY <1>1 DEF InternFinds, In
  <2> QED  BY <1>1, <2>1, InternTopIs DEF InternFinds, Returns, Object, image
<1>2. CASE InternAllocatesName
  <2> DEFINE sym == CHOOSE s \in Top.held : TRUE
  <2>1. /\ Top.fn = "intern_symbol" /\ acts' = Below /\ UNCHANGED frames /\ value' = Object(sym)
        /\ packages' = Interned(p, name, sym, packages)
    BY <1>2 DEF InternAllocatesName, In, Returns
  <2>2. p \in DOMAIN packages
    BY <2>1, InternTopIs
  <2>3. PackagesOK(objects, packages) /\ packages' = Interned(p, name, sym, packages)
    BY <2>1 DEF Inv, ObjectsOK
  <2> HIDE DEF p, name, sym
  <2>4. /\ DOMAIN packages' = DOMAIN packages /\ packages'[p].interned[name] = sym
        /\ DOMAIN packages'[p].interned = DOMAIN packages[p].interned \cup {name}
    <3>1. PICK q, key, s : q = p /\ key = name /\ s = sym
      OBVIOUS
    <3>2. q \in DOMAIN packages /\ packages' = Interned(q, key, s, packages)
      BY <2>2, <2>3, <3>1
    <3>3. /\ DOMAIN packages' = DOMAIN packages /\ packages'[q].interned[key] = s
          /\ DOMAIN packages'[q].interned = DOMAIN packages[q].interned \cup {key}
      <4>1. PackagesOK(objects, packages)
        BY <2>3
      <4>2. q \in DOMAIN packages
        BY <3>2
      <4>3. packages' = Interned(q, key, s, packages)
        BY <3>2
      <4>4. /\ DOMAIN packages' = DOMAIN packages
            /\ packages'[q] = [global |-> packages[q].global, exported |-> packages[q].exported,
                               interned |-> Inserted(packages[q].interned, key, s)]
            /\ DOMAIN packages'[q].interned = DOMAIN packages[q].interned \cup {key}
            /\ packages'[q].interned[key] = s
        BY <4>1, <4>2, <4>3, InterningGrows
      <4> QED  BY <4>4
    <3> QED  BY <3>1, <3>3
  <2>5. value'[2] = sym
    BY <2>1 DEF Object
  <2>6. value'[2] = packages'[p].interned[name] /\ p \in DOMAIN packages' /\ name \in DOMAIN packages'[p].interned
    BY <2>2, <2>4, <2>5
  <2> QED  BY <2>1, <2>6 DEF p, name
<1> QED  BY <1>1, <1>2

LEMMA InternsHolding ==
  ASSUME InitializesInOrder, Inv, Holding, Started, Interns, UNCHANGED <<files, session>>
  PROVE  Holding'
<1> DEFINE n == Len(acts)
           below == acts[n - 1]
<1>1. Top.fn = "intern_symbol"
  BY DEF Interns, InternFinds, InternAllocatesSymbol, InternAllocatesName, In
<1>2. /\ 2 <= n /\ n \in Nat
      /\ \/ below.fn = "READ" /\ below.pc = "interned"
         \/ below.fn = "'" /\ below.pc = "read"
  BY <1>1, InternBelowIs
<1>3. Filled' /\ KeepsBindings(objects, objects') /\ Undisturbed
  BY InternsFill DEF Holding
<1>4. UNCHANGED frames
  BY DEF Interns, InternFinds, InternAllocatesSymbol, InternAllocatesName
<1>5. UNCHANGED <<last_return_value, frame_stack>>
  BY <1>4 DEF frames
<1>6. FramesAgree(n) /\ LastsOK'
  BY <1>3, <1>5, FramesStand, LastsStay, UndisturbedGrows DEF Holding
<1>7. 2 * Len(frame_stack) = n
  <2>1. FramesOf(n, Top) = n
    BY <1>1 DEF FramesOf, Readers
  <2> QED  BY <2>1 DEF Holding, RunOK
<1>8. InternHolds(Top, below)
  <2>1. HoldsAt(n, Top, below, form_stack, frame_stack, objects, packages)
    BY <1>1, TopHolds DEF Holding
  <2> QED  BY <1>1, <2>1, HoldsIs
<1> HIDE DEF below
<1>9. CASE InternAllocatesSymbol
  <2> DEFINE act == [Top EXCEPT !.pc = "name", !.held = {Fresh}]
  <2>1. acts' = Append(Below, act) /\ value' = value
    BY <1>9 DEF InternAllocatesSymbol, Becomes
  <2>2. act.fn = "intern_symbol" /\ act.name = Top.name
    BY <1>1, InternTopIs
  <2> HIDE DEF act
  <2>3. HoldsAt(n, act, below, form_stack', frame_stack', objects', packages')
    BY <1>8, <2>2, HoldsIs DEF InternHolds
  <2>4. 2 * Len(frame_stack') = FramesOf(n, act)
    BY <1>5, <1>7, <2>2 DEF FramesOf, Readers
  <2>5. ValueKept(value', act, last_return_value', packages') /\ QuoteKept(value', act, packages')
    <3>1. ValueKept(value, Top, last_return_value, packages) /\ ~Returning(Top)
      BY <1>1 DEF Holding, RunOK, Returning
    <3> QED  BY <1>3, <1>5, <2>1, <2>2, <3>1, ValueStays, UndisturbedGrows DEF QuoteKept
  <2>6. RunOK'
    BY <1>2, <1>3, <1>6, <2>1, <2>3, <2>4, <2>5, ReplacedHolds DEF Holding, below
  <2> QED  BY <1>3, <1>6, <2>6 DEF Holding
<1>10. CASE InternFinds \/ InternAllocatesName
  <2>1. /\ acts' = Below /\ value'[2] = packages'[Top.package].interned[Top.name]
        /\ Top.package \in DOMAIN packages' /\ Top.name \in DOMAIN packages'[Top.package].interned
    BY <1>10, InternReturnsIt
  <2>2. below.fn = "'" => InternedId(value'[2], packages')
    <3>1. Chars("QUOTE") # NullLexeme
      BY DEF InitializesInOrder
    <3> QED  BY <1>8, <2>1, <3>1 DEF InternHolds, InternedId
  <2>3. ValueKept(value', below, last_return_value', packages') /\ QuoteKept(value', below, packages')
    BY <1>2, <2>2 DEF ValueKept, QuoteKept, Returning
  <2>4. 2 * Len(frame_stack') = FramesOf(n - 1, below)
    <3> DEFINE k == n - 1
    <3>1. FramesOf(k, below) = k + 1
      <4>1. below.fn \in Readers
        BY <1>2 DEF Readers
      <4> QED  BY <4>1, ReaderHasFrames, Zenon
    <3>2. k + 1 = n
      <4> HIDE DEF n
      <4> QED  BY <1>2
    <3> HIDE DEF n
    <3> QED  BY <1>2, <1>5, <1>7, <3>1, <3>2
  <2>5. RunOK'
    <3> HIDE DEF n
    <3> QED  BY <1>2, <1>3, <1>6, <2>1, <2>3, <2>4, ReturnedHolds DEF Holding, below, n
  <2> QED  BY <1>3, <1>6, <2>5 DEF Holding
<1> QED  BY <1>9, <1>10 DEF Interns

----------------------------------------------------------------------------
(* The start                                                               *)

(* No package loses a name, and none but USER alters one.                  *)
PackagesKeepNames ==
  \A p \in DOMAIN packages :
    /\ p \in DOMAIN packages'
    /\ DOMAIN packages[p].interned \subseteq DOMAIN packages'[p].interned
    /\ p # "USER" => packages'[p].interned = packages[p].interned

(* A package is there since before the first symbol went into it.          *)
LEMMA InternedIn ==
  ASSUME InitializesInOrder, Inv, NEW i \in 1 .. acts[1].pc - 1, Does(i, "intern")
  PROVE  InitializeRuntime[i].of \in DOMAIN packages
<1> DEFINE pc == acts[1].pc
           n == Steps
<1>1. pc \in 1 .. n + 1 /\ n \in Nat
  <2>1. ActOK(acts[1], objects, packages) /\ acts[1].fn = "initialize_runtime"
    BY ActsAre
  <2> QED  BY <2>1, OrderIs DEF ActOK, BootOK
<1> HIDE DEF pc, n
<1>2. i \in 1 .. n /\ pc \in Nat /\ i < pc
  BY <1>1 DEF pc
<1>3. Done(pc, objects, packages)
  BY DEF Inv, StartOK, pc
<1> QED  BY <1>2, <1>3, PackageThere DEF n

(* What has been interned stays so.                                        *)
LEMMA SoFarStays ==
  ASSUME InitializesInOrder, Inv, InternedSoFar, NEW i \in 1 .. acts[1].pc - 1, Does(i, "intern"),
         Len(acts) # 1 => i # acts[1].pc - 1,
         \A p \in DOMAIN packages :
           p \in DOMAIN packages' /\ DOMAIN packages[p].interned \subseteq DOMAIN packages'[p].interned
  PROVE  InternedBy(i, packages')
<1>1. InternedBy(i, packages)
  BY DEF InternedSoFar
<1>2. InitializeRuntime[i].of \in DOMAIN packages
  BY InternedIn
<1> QED  BY <1>1, <1>2 DEF InternedBy

(* An instruction that may intern leaves the others as they are.           *)
LEMMA BootsReady ==
  ASSUME InitializesInOrder, StartFits, Inv, StartInv, ReadyOK, NEW do, At(do), do # "repl",
         acts'[1].pc = Top.pc + 1, do = "intern" => Len(acts') # 1, value' = value, PackagesKeepNames
  PROVE  ReadyOK' /\ ~Started'
<1> DEFINE pc == Top.pc
           n == Steps
<1>1. /\ Len(acts) = 1 /\ acts[1] = Top /\ pc \in 1 .. n /\ Does(pc, do) /\ n \in Nat /\ pc \in Nat
      /\ pc < n
      /\ Lists(do) => pc = n - 2
      /\ do = "interpreter" => pc = n - 1
      /\ Early(do) => pc < n - 2
  BY InstructionIs
<1>2. ~Started'
  <2> HIDE DEF pc, n
  <2>1. pc + 1 # n + 1
    BY <1>1
  <2> QED  BY <2>1 DEF Started, pc, n
<1>3. 1 .. (pc + 1) - 1 = (1 .. pc - 1) \cup {pc} /\ (pc + 1) - 1 = pc
  <2>1. (pc + 1) - 1 = pc
    <3> HIDE DEF pc, n
    <3> QED  BY <1>1
  <2> QED  BY <1>1, <2>1, StepsSoFar
<1>4. \A p \in DOMAIN packages :
        p \in DOMAIN packages' /\ DOMAIN packages[p].interned \subseteq DOMAIN packages'[p].interned
  BY DEF PackagesKeepNames
<1>5. ASSUME NEW i \in 1 .. acts'[1].pc - 1, Does(i, "intern")
      PROVE  (Len(acts') # 1 /\ i = acts'[1].pc - 1) \/ InternedBy(i, packages')
  <2>1. CASE i = pc
    <3>1. do = "intern"
      BY <1>1, <1>5, <2>1, DoesOne
    <3> QED  BY <1>3, <2>1, <3>1
  <2>2. CASE i \in 1 .. pc - 1
    <3>1. i \in 1 .. acts[1].pc - 1 /\ (Len(acts) # 1 => i # acts[1].pc - 1)
      BY <1>1, <2>2
    <3> QED  BY <1>4, <1>5, <3>1, SoFarStays DEF ReadyOK
  <2>3. i \in 1 .. (pc + 1) - 1
    OBVIOUS
  <2> QED  BY <1>3, <2>1, <2>2, <2>3
<1>6. ASSUME n - 2 <= pc + 1  PROVE LastIsValue(packages', value')
  <2> DEFINE k == n - 3
  <2>1. LastIsValue(packages, value)
    <3>1. CASE n - 2 <= pc
      BY <1>1, <3>1 DEF ReadyOK
    <3>2. CASE ~(n - 2 <= pc)
      <4>1. pc = k
        <5> HIDE DEF pc, n
        <5> QED  BY <1>1, <1>6, <3>2
      <4>2. InternedFor(Top, packages, value)
        BY <1>1 DEF Inv, StartOK
      <4>3. BindsAt(k)
        BY DEF InitializesInOrder, Steps, BindsAt
      <4> QED  BY <4>1, <4>2, <4>3 DEF InternedFor, LastIsValue, InternedBy, BindsAt
    <3> QED  BY <3>1, <3>2
  <2>2. /\ Does(k - 1, "intern") /\ InitializeRuntime[k - 1].of = InitializeRuntime[k].of
        /\ InitializeRuntime[k].of # "USER"
    <3>1. Does(k, "bind function")
      BY DEF InitializesInOrder, Steps
    <3> HIDE DEF k
    <3> QED  BY <3>1, BindsInOrder
  <2>3. k - 1 \in 1 .. acts[1].pc - 1
    <3>1. k - 1 \in 1 .. n
      BY <2>2, OrderIs
    <3> HIDE DEF pc, n
    <3>2. k - 1 \in 1 .. pc - 1
      BY <1>1, <1>6, <3>1
    <3> QED  BY <1>1, <3>2 DEF pc
  <2>4. InitializeRuntime[k].of \in DOMAIN packages
    <3> DEFINE j == k - 1
    <3>1. j \in 1 .. acts[1].pc - 1 /\ Does(j, "intern") /\ InitializeRuntime[j].of = InitializeRuntime[k].of
      BY <2>2, <2>3
    <3> HIDE DEF j, k
    <3>2. InitializeRuntime[j].of \in DOMAIN packages
      BY <3>1, InternedIn
    <3> QED  BY <3>1, <3>2
  <2>5. packages'[InitializeRuntime[k].of].interned = packages[InitializeRuntime[k].of].interned
    BY <2>2, <2>4 DEF PackagesKeepNames
  <2> QED  BY <2>1, <2>5 DEF LastIsValue, InternedBy
<1>7. acts'[1].pc = pc + 1
  OBVIOUS
<1> HIDE DEF pc, n
<1> QED  BY <1>2, <1>5, <1>6, <1>7 DEF ReadyOK, InternedSoFar, n

Ready == ReadyOK /\ LastsOK /\ Filled

LEMMA SamePackages ==
  ASSUME packages' = packages
  PROVE  PackagesKeepNames
BY DEF PackagesKeepNames

LEMMA SameLasts ==
  ASSUME LastsOK, UNCHANGED frames, DOMAIN objects \subseteq DOMAIN objects'
  PROVE  LastsOK'
BY DEF LastsOK, frames, FormOK

(* An instruction goes on to the next.                                     *)
LEMMA NextInstruction ==
  ASSUME InitializesInOrder, Inv, NEW do, At(do), NEW act, act.pc = Top.pc + 1,
         acts' = Append(Below, act)
  PROVE  acts'[1].pc = Top.pc + 1 /\ Len(acts') = 1
<1>1. IsSeq(Below) /\ Len(Below) = 0
  BY BootIs, BootDoes
<1> QED  BY <1>1, AppendedFirst

LEMMA NextIs ==
  ASSUME InitializesInOrder, Inv, NEW do, At(do)
  PROVE  ThenNext.pc = Top.pc + 1 /\ \A held : [ThenNext EXCEPT !.held = held].pc = Top.pc + 1
<1>1. /\ ThenNext = [fn |-> "initialize_runtime", pc |-> Top.pc + 1, held |-> Top.held]
      /\ \A held : [ThenNext EXCEPT !.held = held] =
                     [fn |-> "initialize_runtime", pc |-> Top.pc + 1, held |-> held]
  BY BootDoes, BootBecomes
<1> QED  BY <1>1

(* The instructions that allocate something with no reference in it.       *)
LEMMA BootAllocates ==
  ASSUME InitializesInOrder, StartFits, Inv, StartInv, Ready, NEW do, At(do), do \notin {"intern", "repl"},
         NEW o, Allocates(o, objects), \A all : FilledOK(o, all),
         NEW act, act.pc = Top.pc + 1, acts' = Append(Below, act), value' = value, PackagesKeepNames
  PROVE  ReadyOK' /\ ~Started' /\ Filled' /\ DOMAIN objects \subseteq DOMAIN objects'
<1>1. acts'[1].pc = Top.pc + 1
  BY NextInstruction
<1>2. ReadyOK' /\ ~Started'
  BY <1>1, BootsReady DEF Ready
<1>3. /\ DOMAIN objects' = DOMAIN objects \cup {Fresh} /\ objects'[Fresh] = o
      /\ \A id \in DOMAIN objects : objects'[id] = objects[id]
  <2>1. HeapOK(objects, packages)
    BY DEF Inv, ObjectsOK
  <2> QED  BY <2>1, AllocationAdds
<1>4. ASSUME NEW id \in DOMAIN objects'  PROVE FilledOK(objects'[id], objects')
  BY <1>3, <1>4, FilledStays DEF Ready, Filled
<1> QED  BY <1>2, <1>3, <1>4 DEF Filled

LEMMA BootReadtableReady ==
  ASSUME InitializesInOrder, StartFits, Inv, StartInv, Ready, BootReadtable
  PROVE  Ready' /\ ~Started'
<1> DEFINE do == "readtable"
           o == Readtable
<1>1. /\ At(do) /\ do \notin {"intern", "repl"} /\ Allocates(o, objects)
      /\ acts' = Append(Below, ThenNext) /\ value' = value /\ packages' = packages /\ UNCHANGED frames
  BY DEF BootReadtable, Becomes, image
<1>2. \A all : FilledOK(o, all)
  BY BareFills DEF Readtable
<1> HIDE DEF do, o
<1>3. ThenNext.pc = Top.pc + 1 /\ PackagesKeepNames
  BY <1>1, NextIs, SamePackages
<1>4. ReadyOK' /\ ~Started' /\ Filled' /\ DOMAIN objects \subseteq DOMAIN objects'
  BY <1>1, <1>2, <1>3, BootAllocates
<1> QED  BY <1>1, <1>4, SameLasts DEF Ready

LEMMA BootPackageReady ==
  ASSUME InitializesInOrder, StartFits, Inv, StartInv, Ready, BootPackage
  PROVE  Ready' /\ ~Started'
<1> DEFINE do == "package"
           o == Environment(Null, Instruction.of)
           p == Instruction.of
<1>1. /\ At(do) /\ do \notin {"intern", "repl"} /\ Allocates(o, objects)
      /\ acts' = Append(Below, ThenNext) /\ value' = value /\ UNCHANGED frames
      /\ packages' = Inserted(packages, p, [global |-> Fresh, interned |-> << >>, exported |-> <<>>])
  BY DEF BootPackage, Becomes
<1>2. \A all : FilledOK(o, all)
  BY BareFills
<1>3. Top.pc \in 1 .. Steps /\ Does(Top.pc, "package") /\ Done(Top.pc, objects, packages)
  BY <1>1, BootDoes, BootIs
<1>4. p \notin DOMAIN packages
  BY <1>3, NewPackage DEF Instruction
<1> HIDE DEF do, o, p
<1>5. PackagesKeepNames
  BY <1>1, <1>4 DEF PackagesKeepNames, Inserted
<1>6. ThenNext.pc = Top.pc + 1
  BY <1>1, NextIs
<1>7. ReadyOK' /\ ~Started' /\ Filled' /\ DOMAIN objects \subseteq DOMAIN objects'
  BY <1>1, <1>2, <1>5, <1>6, BootAllocates
<1> QED  BY <1>1, <1>7, SameLasts DEF Ready

LEMMA BootFunctionReady ==
  ASSUME InitializesInOrder, StartFits, Inv, StartInv, Ready, BootFunction
  PROVE  Ready' /\ ~Started'
<1> DEFINE do == "function"
           o == Inherent(Instruction.name)
           act == [ThenNext EXCEPT !.held = {Fresh}]
<1>1. /\ At(do) /\ do \notin {"intern", "repl"} /\ Allocates(o, objects)
      /\ acts' = Append(Below, act) /\ value' = value /\ packages' = packages /\ UNCHANGED frames
  BY DEF BootFunction, Becomes, image
<1>2. \A all : FilledOK(o, all)
  BY BareFills DEF Inherent
<1> HIDE DEF do, o
<1>3. act.pc = Top.pc + 1 /\ PackagesKeepNames
  BY <1>1, NextIs, SamePackages
<1> HIDE DEF act
<1>4. ReadyOK' /\ ~Started' /\ Filled' /\ DOMAIN objects \subseteq DOMAIN objects'
  BY <1>1, <1>2, <1>3, BootAllocates
<1> QED  BY <1>1, <1>4, SameLasts DEF Ready

(* The interpreter begins in the environment of USER, with a last return.  *)
LEMMA BootInterpreterReady ==
  ASSUME InitializesInOrder, StartFits, Inv, StartInv, Ready, BootInterpreter
  PROVE  Ready' /\ ~Started'
<1> DEFINE do == "interpreter"
           o == InterpreterBlock
<1>1. /\ At(do) /\ do \notin {"intern", "repl"} /\ Allocates(o, objects)
      /\ acts' = Append(Below, ThenNext) /\ value' = value /\ packages' = packages
      /\ last_return_value' = <<Nil>>
  BY DEF BootInterpreter, Becomes
<1>2. \A all : FilledOK(o, all)
  BY BareFills DEF InterpreterBlock
<1> HIDE DEF do, o
<1>3. ThenNext.pc = Top.pc + 1 /\ PackagesKeepNames
  BY <1>1, NextIs, SamePackages
<1>4. ReadyOK' /\ ~Started' /\ Filled' /\ DOMAIN objects \subseteq DOMAIN objects'
  BY <1>1, <1>2, <1>3, BootAllocates
<1>5. LastsOK'
  <2>1. Len(<<Nil>>) = 1 /\ <<Nil>>[1] = Nil
    BY SingleIs
  <2>2. FormOK(Nil, objects')
    BY DEF FormOK, Nil
  <2> QED  BY <1>1, <2>1, <2>2 DEF LastsOK
<1> QED  BY <1>4, <1>5 DEF Ready

BindsConstants(i) == Does(i, "bind constants")

(* NIL and T are symbols of the package in which they are bound.           *)
LEMMA ConstantsThere ==
  ASSUME InitializesInOrder, ConstantsInOrder, StartFits, Inv, StartInv, Ready, NEW do, At(do),
         BindsConstants(Top.pc), NEW name \in {"NIL", "T"}
  PROVE  packages[Instruction.of].interned[Chars(name)] \in DOMAIN objects
<1> DEFINE i == Top.pc
           p == Instruction.of
<1>1. Len(acts) = 1 /\ acts[1] = Top /\ i \in 1 .. Steps
  BY InstructionIs
<1>2. PICK j \in 1 .. i - 1 : /\ Does(j, "intern") /\ InitializeRuntime[j].of = p
                              /\ InitializeRuntime[j].name = name
  <2>1. i \in DOMAIN InitializeRuntime
    BY <1>1, OrderIs
  <2> QED  BY <2>1 DEF ConstantsInOrder, BindsConstants, Of, Instruction
<1> HIDE DEF p, i
<1>3. j \in 1 .. acts[1].pc - 1
  BY <1>1 DEF i
<1>4. InternedBy(j, packages)
  BY <1>1, <1>2, <1>3 DEF Ready, ReadyOK, InternedSoFar
<1>5. p \in DOMAIN packages
  BY <1>2, <1>3, InternedIn
<1>6. PackageOK(packages[p], p, objects)
  BY <1>5 DEF Inv, ObjectsOK, PackagesOK
<1>7. InternedOK(Chars(name), packages[p].interned[Chars(name)], p, objects)
  BY <1>2, <1>4, <1>6 DEF InternedBy, PackageOK
<1> QED  BY <1>7 DEF InternedOK, Is, p

LEMMA BootBindConstantsReady ==
  ASSUME InitializesInOrder, ConstantsInOrder, StartFits, Inv, StartInv, Ready, BootBindConstants
  PROVE  Ready' /\ ~Started'
<1> DEFINE do == "bind constants"
           g == packages[Instruction.of].global
           nil == packages[Instruction.of].interned[Chars("NIL")]
           t == packages[Instruction.of].interned[Chars("T")]
           once == BoundTo(g, nil, Nil, objects)
<1>1. /\ At(do) /\ do \notin {"intern", "repl"} /\ BindsConstants(Top.pc)
      /\ objects' = BoundTo(g, t, T, once)
      /\ acts' = Append(Below, ThenNext) /\ value' = value /\ packages' = packages /\ UNCHANGED frames
  <2>1. At(do) /\ do \notin {"intern", "repl"}
    BY Zenon DEF BootBindConstants
  <2>2. BindsConstants(Top.pc)
    BY <2>1, BootDoes, Zenon DEF BindsConstants
  <2> HIDE DEF do
  <2> QED  BY <2>1, <2>2 DEF BootBindConstants, Becomes, image
<1> HIDE DEF do
<1>2. nil \in DOMAIN objects /\ t \in DOMAIN objects
  BY <1>1, ConstantsThere
<1> HIDE DEF g, nil, t
<1>3. HeapOK(objects, packages) /\ Filled
  BY DEF Inv, ObjectsOK, Ready
<1>4. \A all : FormOK(Nil, all) /\ FormOK(T, all)
  BY DEF FormOK, Nil, T
<1>5. DOMAIN once = DOMAIN objects /\ \A id \in DOMAIN objects : FilledOK(once[id], objects)
  BY <1>2, <1>3, <1>4, BoundFills DEF Filled
<1>6. HeapOK(once, packages)
  <2>1. Altered(objects, once, 0, String) /\ ObjectsOK(objects, packages) /\ String.kind # "cons"
    BY <1>3, BindingAlters DEF Inv, String
  <2> HIDE DEF once
  <2> QED  BY <2>1, AlterationKeeps DEF ObjectsOK
<1> HIDE DEF once
<1>7. \A id \in DOMAIN once : FilledOK(once[id], once)
  BY <1>5, FilledStays
<1>8. DOMAIN objects' = DOMAIN once /\ \A id \in DOMAIN once : FilledOK(objects'[id], once)
  BY <1>1, <1>2, <1>4, <1>5, <1>6, <1>7, BoundFills
<1>9. Filled'
  BY <1>8, FilledStays DEF Filled
<1>10. acts'[1].pc = Top.pc + 1 /\ PackagesKeepNames
  <2>1. ThenNext.pc = Top.pc + 1
    BY <1>1, NextIs
  <2> QED  BY <1>1, <2>1, NextInstruction, SamePackages
<1>11. ReadyOK' /\ ~Started'
  BY <1>1, <1>10, BootsReady DEF Ready
<1> QED  BY <1>1, <1>5, <1>8, <1>9, <1>11, SameLasts DEF Ready

LEMMA BootInternReady ==
  ASSUME InitializesInOrder, StartFits, Inv, StartInv, Ready, BootIntern
  PROVE  Ready' /\ ~Started'
<1> DEFINE do == "intern"
           callee == InternAct(Instruction.of, Chars(Instruction.name))
           act == ThenNext
<1>1. /\ At(do) /\ do # "repl" /\ acts' = Below \o <<act, callee>>
      /\ objects' = objects /\ value' = value /\ packages' = packages /\ UNCHANGED frames
  BY DEF BootIntern, Calls, heap, image
<1>2. act.pc = Top.pc + 1
  BY <1>1, NextIs
<1> HIDE DEF act, callee
<1>3. Len(acts') = 2 /\ acts'[1] = act
  <2>1. IsSeq(Below) /\ Len(Below) = 0
    BY <1>1, BootIs, BootDoes
  <2>2. IsSeq(<<act, callee>>) /\ Len(<<act, callee>>) = 2 /\ <<act, callee>>[1] = act
    BY PairIs
  <2>3. /\ Len(Below \o <<act, callee>>) = 0 + 2
        /\ \A i \in 1 .. 0 + 2 :
             (Below \o <<act, callee>>)[i] = IF i <= 0 THEN Below[i] ELSE <<act, callee>>[i - 0]
    BY <2>1, <2>2, ConcatIs
  <2>4. (Below \o <<act, callee>>)[1] = <<act, callee>>[1]
    BY <2>3
  <2> QED  BY <1>1, <2>2, <2>3, <2>4
<1> HIDE DEF do
<1>4. ReadyOK' /\ ~Started'
  <2>1. acts'[1].pc = Top.pc + 1 /\ (do = "intern" => Len(acts') # 1)
    BY <1>2, <1>3
  <2> QED  BY <1>1, <2>1, SamePackages, BootsReady DEF Ready
<1>5. Filled'
  BY <1>1 DEF Ready, Filled
<1> QED  BY <1>1, <1>4, <1>5, SameLasts DEF Ready

LEMMA BootBindFunctionReady ==
  ASSUME InitializesInOrder, StartFits, Inv, StartInv, Ready, BootBindFunction
  PROVE  Ready' /\ ~Started'
<1> DEFINE do == "bind function"
           act == [ThenNext EXCEPT !.held = {}]
           p == Instruction.of
           g == packages[p].global
           sym == value[2]
           f == CHOOSE h \in Top.held : TRUE
           i == Top.pc
<1>1. /\ At(do) /\ do \notin {"intern", "repl"} /\ BindsAt(i)
      /\ objects' = [objects EXCEPT ![g].functions = Inserted(@, sym, f)]
      /\ \/ packages' = [packages EXCEPT ![p].exported = Append(@, sym)]
         \/ packages' = packages
      /\ acts' = Append(Below, act) /\ value' = value /\ UNCHANGED frames
  <2>1. At(do) /\ do \notin {"intern", "repl"}
    BY Zenon DEF BootBindFunction
  <2>2. BindsAt(i)
    BY <2>1, BootDoes, Zenon DEF BindsAt
  <2> HIDE DEF do
  <2> QED  BY <2>1, <2>2 DEF BootBindFunction, Becomes
<1> HIDE DEF do
<1>2. /\ Len(acts) = 1 /\ acts[1] = Top /\ i \in 1 .. Steps
      /\ Holds(Top, objects) /\ InternedFor(Top, packages, value)
  BY <1>1, InstructionIs, BootDoes, BootIs
<1>3. act.pc = Top.pc + 1
  BY <1>1, NextIs
<1> HIDE DEF act
<1>4. f \in DOMAIN objects
  <2>1. PICK h \in DOMAIN objects : Top.held = {h}
    BY <1>1, <1>2 DEF Holds, BindsAt
  <2> QED  BY <2>1
<1>5. p \in DOMAIN packages
  <2> DEFINE j == i - 1
  <2>1. Does(j, "intern") /\ InitializeRuntime[j].of = p
    BY <1>1, BindsInOrder DEF BindsAt, Instruction
  <2>2. j \in 1 .. Steps /\ Steps \in Nat
    BY <2>1, OrderIs
  <2>3. j \in 1 .. i - 1
    <3> HIDE DEF i
    <3> QED  BY <1>2, <2>2
  <2> HIDE DEF j
  <2>4. j \in 1 .. acts[1].pc - 1
    BY <1>2, <2>3
  <2> QED  BY <2>1, <2>4, InternedIn
<1>6. PackageOK(packages[p], p, objects) /\ HeapOK(objects, packages)
  BY <1>5 DEF Inv, ObjectsOK, PackagesOK
<1>7. sym \in DOMAIN objects
  <2> DEFINE name == Chars(InitializeRuntime[i].name)
             s == packages[p].interned[name]
  <2>1. name \in DOMAIN packages[p].interned /\ value = Object(s)
    BY <1>1, <1>2 DEF InternedFor, BindsAt, Instruction
  <2>2. InternedOK(name, s, p, objects)
    BY <1>6, <2>1 DEF PackageOK
  <2> HIDE DEF s
  <2> QED  BY <2>1, <2>2 DEF InternedOK, Is, Object
<1>8. Is(g, "environment", objects)
  BY <1>6 DEF PackageOK
<1> HIDE DEF g, f, sym, i
<1>9. /\ DOMAIN objects' = DOMAIN objects /\ \A id \in DOMAIN objects : id # g => objects'[id] = objects[id]
      /\ objects'[g].functions = Inserted(objects[g].functions, sym, f)
      /\ objects'[g].values = objects[g].values /\ objects'[g].kind = "environment"
  <2>1. PICK h, s, fn : h = g /\ s = sym /\ fn = f
    OBVIOUS
  <2>2. objects' = [objects EXCEPT ![h].functions = Inserted(@, s, fn)] /\ Is(h, "environment", objects)
    BY <1>1, <1>8, <2>1
  <2>3. DOMAIN objects' = DOMAIN objects /\ \A id \in DOMAIN objects : id # h => objects'[id] = objects[id]
    BY <2>2
  <2>4. /\ objects'[h].values = objects[h].values /\ objects'[h].kind = "environment"
        /\ objects'[h].functions = Inserted(objects[h].functions, s, fn)
    <3> DEFINE old == objects[h]
               more == Inserted(old.functions, s, fn)
               new == [old EXCEPT !.functions = more]
    <3>1. old = [kind |-> "environment", parent |-> old.parent, package |-> old.package,
                 values |-> old.values, functions |-> old.functions]
      BY <1>6, <2>2 DEF Is, HeapOK, ObjectOK, EnvironmentOK
    <3>2. objects'[h] = new
      BY <2>2 DEF Is
    <3> HIDE DEF old, more
    <3>3. new.values = old.values /\ new.kind = "environment" /\ new.functions = more
      BY <3>1
    <3> QED  BY <3>2, <3>3 DEF old, more
  <2> QED  BY <2>1, <2>3, <2>4
<1>10. Filled'
  <2> DEFINE v == Inserted(objects[g].functions, sym, f)
  <2>1. DOMAIN v = DOMAIN objects[g].functions \cup {sym}
        /\ \A s \in DOMAIN v : v[s] = f \/ (s \in DOMAIN objects[g].functions /\ v[s] = objects[g].functions[s])
    BY DEF Inserted
  <2>2. FilledOK(objects[g], objects) /\ objects[g].kind = "environment"
    BY <1>8 DEF Ready, Filled, Is
  <2> HIDE DEF v
  <2>3. \A s \in DOMAIN v : s \in DOMAIN objects /\ v[s] \in DOMAIN objects
    BY <1>4, <1>7, <2>1, <2>2 DEF FilledOK
  <2>4. objects'[g].functions = v
    BY <1>9 DEF v
  <2>5. FilledOK(objects'[g], objects')
    BY <1>9, <2>2, <2>3, <2>4 DEF FilledOK, FormOK
  <2> QED  BY <1>9, <2>5, FilledStays DEF Ready, Filled
<1>11. PackagesKeepNames
  <2>1. CASE packages' = packages
    BY <2>1, SamePackages
  <2>2. CASE packages' = [packages EXCEPT ![p].exported = Append(@, sym)]
    <3> DEFINE old == packages[p]
               more == Append(old.exported, sym)
               new == [old EXCEPT !.exported = more]
    <3>1. /\ DOMAIN packages' = DOMAIN packages /\ packages'[p] = new
          /\ \A q \in DOMAIN packages : q # p => packages'[q] = packages[q]
      BY <1>5, <2>2
    <3>2. old = [global |-> old.global, interned |-> old.interned, exported |-> old.exported]
      BY <1>6 DEF PackageOK
    <3> HIDE DEF old, more
    <3>3. new.interned = old.interned
      BY <3>2
    <3> QED  BY <3>1, <3>3 DEF PackagesKeepNames, old
  <2> QED  BY <1>1, <2>1, <2>2
<1>12. acts'[1].pc = Top.pc + 1
  BY <1>1, <1>3, NextInstruction
<1>13. ReadyOK' /\ ~Started'
  BY <1>1, <1>11, <1>12, BootsReady DEF Ready
<1> QED  BY <1>1, <1>9, <1>10, <1>13, SameLasts DEF Ready

LEMMA BootListPackagesReady ==
  ASSUME InitializesInOrder, StartFits, Inv, StartInv, Ready, BootListPackages
  PROVE  Ready' /\ ~Started'
<1> DEFINE do == "list packages"
           act == ThenNext
           macros == [c \in MacroCharacters |-> FunctionNamed("SYSTEM", ReaderMacros[c])]
           user == packages["USER"]
           exported == ToSet(packages["COMMON-LISP"].exported)
           more == Imported(exported, user.interned)
<1>1. /\ At(do) /\ do \notin {"intern", "repl", "readtable"}
      /\ packages' = [packages EXCEPT !["USER"] = [user EXCEPT !.interned = more]]
      /\ objects' = [objects EXCEPT ![SystemReadtable].macros = macros]
      /\ acts' = Append(Below, act) /\ value' = value /\ UNCHANGED frames
  <2>1. At(do) /\ do \notin {"intern", "repl", "readtable"}
    BY Zenon DEF BootListPackages
  <2> HIDE DEF do
  <2> QED  BY <2>1 DEF BootListPackages, Becomes
<1>2. act.pc = Top.pc + 1
  BY <1>1, NextIs
<1> HIDE DEF act, macros
<1>3. Is(SystemReadtable, "readtable", objects)
  BY <1>1, ReadtableThere
<1>4. /\ DOMAIN objects' = DOMAIN objects /\ objects'[SystemReadtable].kind = "readtable"
      /\ \A id \in DOMAIN objects : id # SystemReadtable => objects'[id] = objects[id]
  <2> DEFINE old == objects[SystemReadtable]
             new == [old EXCEPT !.macros = macros]
  <2>1. old = [kind |-> "readtable", macros |-> old.macros]
    BY <1>3 DEF Inv, ObjectsOK, HeapOK, ObjectOK, Is
  <2>2. /\ DOMAIN objects' = DOMAIN objects /\ objects'[SystemReadtable] = new
        /\ \A id \in DOMAIN objects : id # SystemReadtable => objects'[id] = objects[id]
    BY <1>1, <1>3 DEF Is
  <2> HIDE DEF old
  <2>3. new.kind = "readtable"
    BY <2>1
  <2> QED  BY <2>2, <2>3
<1>5. Filled'
  <2>1. FilledOK(objects'[SystemReadtable], objects')
    BY <1>4 DEF FilledOK
  <2> QED  BY <1>4, <2>1, FilledStays DEF Ready, Filled
<1>6. PackagesKeepNames
  <2>1. DOMAIN user.interned \subseteq DOMAIN more
    BY DEF Imported
  <2>2. "USER" \in DOMAIN packages => PackageOK(user, "USER", objects)
    BY DEF Inv, ObjectsOK, PackagesOK
  <2> HIDE DEF more, user
  <2> DEFINE new == [user EXCEPT !.interned = more]
  <2>3. "USER" \in DOMAIN packages => new.interned = more
    BY <2>2 DEF PackageOK
  <2>4. /\ DOMAIN packages' = DOMAIN packages
        /\ \A p \in DOMAIN packages : packages'[p] = IF p = "USER" THEN new ELSE packages[p]
    BY <1>1
  <2> HIDE DEF new
  <2> QED  BY <2>1, <2>3, <2>4 DEF PackagesKeepNames, user
<1> HIDE DEF do, more, user, exported
<1>7. acts'[1].pc = Top.pc + 1
  BY <1>1, <1>2, NextInstruction
<1>8. ReadyOK' /\ ~Started'
  BY <1>1, <1>6, <1>7, BootsReady DEF Ready
<1> QED  BY <1>1, <1>4, <1>5, <1>8, SameLasts DEF Ready

(* The last instruction calls the REPL, with a symbol as the value.        *)
LEMMA BootCallsReplHolding ==
  ASSUME InitializesInOrder, StartFits, Inv, StartInv, Ready, BootCallsRepl
  PROVE  Holding' /\ Started'
<1> DEFINE do == "repl"
           act == ThenNext
           callee == CallAct(Len(<<>>))
           n == Steps
           k == n - 3
<1>1. /\ At(do) /\ acts' = Below \o <<act, callee>> /\ objects' = objects /\ value' = value
      /\ packages' = packages /\ UNCHANGED frames
  BY DEF BootCallsRepl, CallsFunction, Calls, heap, image
<1>2. /\ Len(acts) = 1 /\ acts[1] = Top /\ Top.pc = n /\ n \in Nat /\ 3 < n
      /\ Len(frame_stack) = 1
  <2>1. Len(acts) = 1 /\ acts[1] = Top /\ Top.pc \in 1 .. n /\ Does(Top.pc, do)
    BY <1>1, InstructionIs
  <2>2. Top.pc = n
    BY <2>1 DEF InitializesInOrder, Steps
  <2>3. n \in Nat /\ 3 < n
    BY OrderIs
  <2>4. Len(frame_stack) = IF Top.pc < n THEN 0 ELSE 1
    BY <1>1, BootDoes, BootIs
  <2> HIDE DEF do, n
  <2>5. ~(n < n)
    BY <2>3
  <2> QED  BY <2>1, <2>2, <2>3, <2>4, <2>5
<1>3. callee.fn = "call" /\ callee.pc = "begin" /\ callee.held = {}
  BY DEF CallAct
<1> HIDE DEF callee
<1>4. Len(acts') = 2 /\ acts'[1] = act /\ acts'[2] = callee /\ Top' = callee
  <2> HIDE DEF act
  <2>1. IsSeq(Below) /\ Len(Below) = 0
    BY <1>1, BootIs, BootDoes
  <2>2. /\ IsSeq(<<act, callee>>) /\ Len(<<act, callee>>) = 2
        /\ <<act, callee>>[1] = act /\ <<act, callee>>[2] = callee
    BY PairIs
  <2>3. /\ Len(Below \o <<act, callee>>) = 0 + 2
        /\ \A i \in 1 .. 0 + 2 :
             (Below \o <<act, callee>>)[i] = IF i <= 0 THEN Below[i] ELSE <<act, callee>>[i - 0]
    BY <2>1, <2>2, ConcatIs
  <2>4. (Below \o <<act, callee>>)[1] = <<act, callee>>[1] /\ (Below \o <<act, callee>>)[2] = <<act, callee>>[2]
    BY <2>3
  <2>5. Len(acts') = 2 /\ acts'[1] = act /\ acts'[2] = callee
    BY <1>1, <2>2, <2>3, <2>4
  <2> QED  BY <2>5 DEF Top, Last
<1>5. Started'
  <2>1. act.pc = Top.pc + 1
    BY <1>1, NextIs
  <2> QED  BY <1>2, <1>4, <2>1 DEF Started
<1>6. InternedId(value[2], packages)
  <2>1. /\ Does(k, "bind function") /\ Does(k - 1, "intern")
        /\ InitializeRuntime[k - 1].of = InitializeRuntime[k].of
    <3>1. Does(k, "bind function")
      BY DEF InitializesInOrder, Steps
    <3> HIDE DEF k
    <3> QED  BY <3>1, BindsInOrder
  <2>2. Chars(InitializeRuntime[k].name) # NullLexeme
    <3> HIDE DEF k
    <3> QED  BY <2>1, OrderIs
  <2>3. k - 1 \in 1 .. acts[1].pc - 1
    <3>1. k - 1 \in 1 .. n
      BY <2>1, OrderIs
    <3>2. acts[1].pc = n
      BY <1>2
    <3> HIDE DEF n
    <3> QED  BY <1>2, <3>1, <3>2
  <2>4. InitializeRuntime[k].of \in DOMAIN packages
    <3> DEFINE j == k - 1
    <3>1. j \in 1 .. acts[1].pc - 1 /\ Does(j, "intern") /\ InitializeRuntime[j].of = InitializeRuntime[k].of
      BY <2>1, <2>3
    <3> HIDE DEF j, k
    <3>2. InitializeRuntime[j].of \in DOMAIN packages
      BY <3>1, InternedIn
    <3> QED  BY <3>1, <3>2
  <2>5. LastIsValue(packages, value)
    <3>1. n - 2 <= acts[1].pc
      <4>1. acts[1].pc = n
        BY <1>2
      <4> HIDE DEF n
      <4> QED  BY <1>2, <4>1
    <3> QED  BY <3>1 DEF Ready, ReadyOK
  <2> DEFINE p == InitializeRuntime[k].of
             name == Chars(InitializeRuntime[k].name)
             s == packages[p].interned[name]
  <2>6. name \in DOMAIN packages[p].interned /\ value = Object(s) /\ name # NullLexeme /\ p \in DOMAIN packages
    BY <2>2, <2>4, <2>5 DEF LastIsValue, InternedBy
  <2>7. s = packages[p].interned[name]
    OBVIOUS
  <2> HIDE DEF p, name, s
  <2>8. value[2] = s
    BY <2>6 DEF Object
  <2> QED  BY <2>6, <2>7, <2>8 DEF InternedId
<1> HIDE DEF do, act, n, k
<1>7. RunOK'
  <2>1. frame_stack' = frame_stack
    BY <1>1 DEF frames
  <2>2. FramesOf(2, callee) = 2
    BY <1>3 DEF FramesOf, Readers
  <2>3. 2 * Len(frame_stack') = FramesOf(Len(acts'), Top')
    <3>1. FramesOf(Len(acts'), Top') = 2
      BY <1>4, <2>2
    <3>2. Len(frame_stack') = 1
      BY <1>2, <2>1
    <3>3. 2 * Len(frame_stack') = 2
      BY <3>2
    <3> QED  BY <3>1, <3>3
  <2>4. ValueKept(value', Top', last_return_value', packages') /\ QuoteKept(value', Top', packages')
    BY <1>1, <1>3, <1>4, <1>6 DEF ValueKept, QuoteKept
  <2>5. HoldsAt(2, acts'[2], acts'[2 - 1], form_stack', frame_stack', objects', packages')
    <3>1. CallHolds(callee, form_stack')
      BY <1>3 DEF CallHolds
    <3> QED  BY <1>3, <1>4, <3>1, HoldsIs
  <2>6. \A i \in 2 .. Len(acts') : i = 2
    BY <1>4
  <2> QED  BY <2>3, <2>4, <2>5, <2>6 DEF RunOK
<1>8. Filled' /\ LastsOK'
  BY <1>1, SameLasts DEF Ready, Filled
<1> QED  BY <1>5, <1>7, <1>8 DEF Holding

LEMMA InternsReady ==
  ASSUME InitializesInOrder, StartFits, Inv, StartInv, Ready, Interns, Len(acts) = 2,
         UNCHANGED <<files, session>>
  PROVE  Ready' /\ ~Started'
<1> DEFINE pc == acts[1].pc
           i == pc - 1
           n == Steps
<1>1. Top.fn = "intern_symbol"
  BY DEF Interns, InternFinds, InternAllocatesSymbol, InternAllocatesName, In
<1>2. i \in 1 .. n /\ Does(i, "intern") /\ acts[2] = Top /\ pc < n - 2 /\ pc = i + 1
      /\ Top.name = Chars(InitializeRuntime[i].name)
  BY <1>1, StartInterns
<1>3. n \in Nat /\ ~(n - 2 <= pc) /\ pc # n + 1
  <2>1. n \in Nat
    BY OrderIs
  <2> HIDE DEF n, i, pc
  <2> QED  BY <1>2, <2>1
<1>4. Filled' /\ Undisturbed
  BY InternsFill DEF Ready
<1>5. LastsOK'
  <2>1. UNCHANGED frames
    BY DEF Interns, InternFinds, InternAllocatesSymbol, InternAllocatesName
  <2>2. DOMAIN objects \subseteq DOMAIN objects'
    BY <1>4, UndisturbedGrows DEF Grows
  <2> QED  BY <2>1, <2>2, SameLasts DEF Ready
<1>6. IsSeq(Below) /\ Len(Below) = 1 /\ Below[1] = acts[1]
  BY ActsAre
<1>7. CASE InternAllocatesSymbol
  <2> DEFINE act == [Top EXCEPT !.pc = "name", !.held = {Fresh}]
             m == Len(Below)
  <2>1. acts' = Append(Below, act) /\ packages' = packages
    BY <1>7 DEF InternAllocatesSymbol, Becomes, image
  <2> HIDE DEF act
  <2>2. /\ Len(acts') = m + 1 /\ \A j \in 1 .. m : acts'[j] = Below[j]
    <3>1. acts' = Append(Below, act) /\ IsSeq(Below)
      BY <1>6, <2>1
    <3> QED  BY <3>1, AppendIs
  <2>3. m = 1
    BY <1>6
  <2> HIDE DEF m
  <2>4. Len(acts') = 2 /\ acts'[1] = acts[1]
    BY <1>6, <2>2, <2>3
  <2>5. InternedSoFar'
    BY <2>1, <2>4 DEF InternedSoFar, Ready, ReadyOK, InternedBy
  <2> QED  BY <1>3, <1>4, <1>5, <2>4, <2>5 DEF Ready, ReadyOK, Started
<1>8. CASE InternFinds \/ InternAllocatesName
  <2>1. /\ acts' = Below /\ Top.package \in DOMAIN packages' /\ Top.name \in DOMAIN packages'[Top.package].interned
    BY <1>8, InternReturnsIt
  <2>2. Len(acts') = 1 /\ acts'[1] = acts[1]
    BY <1>6, <2>1
  <2>3. Top.package = InitializeRuntime[i].of
    BY <1>1, <1>2 DEF Inv, StartOK, InternsFor
  <2>4. InternedBy(i, packages')
    BY <1>2, <2>1, <2>3 DEF InternedBy
  <2>5. \A p \in DOMAIN packages :
          p \in DOMAIN packages' /\ DOMAIN packages[p].interned \subseteq DOMAIN packages'[p].interned
    <3>1. CASE InternFinds
      BY <3>1 DEF InternFinds, image
    <3>2. CASE InternAllocatesName
      <4>1. PICK p, name, sym : packages' = Interned(p, name, sym, packages)
        BY <3>2 DEF InternAllocatesName
      <4> DEFINE more == Inserted(packages[p].interned, name, sym)
      <4>2. packages' = [packages EXCEPT ![p].interned = more]
        BY <4>1 DEF Interned
      <4>3. DOMAIN packages[p].interned \subseteq DOMAIN more
        BY DEF Inserted
      <4>4. p \in DOMAIN packages =>
              packages[p] = [global |-> packages[p].global, interned |-> packages[p].interned,
                             exported |-> packages[p].exported]
        BY DEF Inv, ObjectsOK, PackagesOK, PackageOK
      <4> HIDE DEF more
      <4> DEFINE old == packages[p]
                 new == [old EXCEPT !.interned = more]
      <4>5. \A q \in DOMAIN packages : packages'[q] = IF q = p THEN new ELSE packages[q]
        BY <4>2
      <4>6. p \in DOMAIN packages => new.interned = more
        BY <4>4
      <4>7. DOMAIN packages' = DOMAIN packages
        BY <4>2
      <4> HIDE DEF new
      <4> QED  BY <4>3, <4>5, <4>6, <4>7
    <3> QED  BY <1>8, <3>1, <3>2
  <2>6. ASSUME NEW j \in 1 .. acts'[1].pc - 1, Does(j, "intern")  PROVE InternedBy(j, packages')
    <3>1. CASE j = i
      BY <2>4, <3>1
    <3>2. CASE j # i
      <4>1. j \in 1 .. acts[1].pc - 1 /\ (Len(acts) # 1 => j # acts[1].pc - 1)
        BY <2>2, <3>2
      <4> QED  BY <2>5, <2>6, <4>1, SoFarStays DEF Ready, ReadyOK
    <3> QED  BY <3>1, <3>2
  <2>7. InternedSoFar'
    BY <2>6 DEF InternedSoFar
  <2> QED  BY <1>3, <1>4, <1>5, <2>2, <2>7 DEF Ready, ReadyOK, Started
<1> QED  BY <1>7, <1>8 DEF Interns

(* What holds before and after the start.                                  *)
HeldInv == IF Started THEN Holding ELSE Ready

LEMMA NextHolding ==
  ASSUME InitializesInOrder, Inv, Holding, Started, Next, Top.fn # "initialize_runtime"
  PROVE  Holding'
<1>1. CASE Running /\ (Boots \/ Interns) /\ UNCHANGED <<files, session>>
  <2>1. ~Boots
    <3>1. \A do : ~At(do)
      BY DEF At
    <3> QED  BY <3>1 DEF Boots, BootReadtable, BootPackage, BootIntern, BootBindConstants,
              BootFunction, BootBindFunction, BootListPackages, BootInterpreter
  <2> QED  BY <1>1, <2>1, InternsHolding
<1>2. CASE CallBegins \/ CallTakesArg \/ CallReturns
  BY <1>2, CallBeginsHolding, CallTakesArgHolding, CallReturnsHolding
<1>3. CASE Reads
  BY <1>3, EndsHolding, StartsHolding, ReadGensymsHolding, ReadAllocatesStreamHolding,
     ReadTokenHolding, ReadReturnsHolding, ReadCallsHolding DEF Reads
<1>4. CASE ReadsList
  BY <1>4, EndsHolding, StartsHolding, OpenParenFillsHolding, OpenParenBindsHolding,
     OpenParenReadsHolding, OpenParenBeginsListHolding, OpenParenExtendsListHolding,
     OpenParenReturnsHolding DEF ReadsList
<1>5. CASE ReadsQuoted
  BY <1>5, EndsHolding, StartsHolding, DoubleQuoteScansHolding, DoubleQuoteAllocatesStringHolding,
     DoubleQuoteReturnsHolding, SingleQuoteInternsHolding, SingleQuoteReadsHolding,
     SingleQuoteBeginsHolding, SingleQuoteReturnsHolding DEF ReadsQuoted
<1>6. CASE Repl
  <2>1. ~BootCallsRepl
    BY DEF BootCallsRepl, At
  <2> QED
    BY <1>6, <2>1, EndsHolding, StartsHolding, ReplBindsHolding, ReplAllocatesCharsHolding,
       ReplReadsHolding, ReplFormatsHolding DEF Repl
<1> QED  BY <1>1, <1>2, <1>3, <1>4, <1>5, <1>6 DEF Next

LEMMA HeldInvKept ==
  ASSUME InitializesInOrder, ConstantsInOrder, StartFits, Inv, StartInv, HeldInv, [Next]_vars
  PROVE  HeldInv'
<1>1. CASE UNCHANGED vars
  <2>1. UNCHANGED <<heap, image, stack, frames, acts, value>>
    BY <1>1 DEF vars
  <2>2. UNCHANGED <<objects, packages, last_return_value, acts, value>>
    BY <2>1 DEF heap, image, frames
  <2>3. Ready => Ready'
    BY <2>2 DEF Ready, ReadyOK, InternedSoFar, LastsOK, Filled
  <2>4. Started' <=> Started
    BY <2>2 DEF Started
  <2> QED  BY <2>1, <2>3, <2>4, UnchangedHolding DEF HeldInv
<1>2. CASE Next /\ Top.fn = "initialize_runtime"
  <2>1. Boots \/ BootCallsRepl
    BY <1>2, StartRuns
  <2>2. ~Started
    <3>1. PICK do : At(do)
      BY <2>1, Zenon DEF Boots, BootReadtable, BootPackage, BootIntern, BootBindConstants, BootFunction,
         BootBindFunction, BootListPackages, BootInterpreter, BootCallsRepl
    <3>2. acts[1] = Top /\ Top.pc \in 1 .. Steps /\ Steps \in Nat
      BY <3>1, InstructionIs
    <3> DEFINE pc == Top.pc
               n == Steps
    <3>3. pc \in 1 .. n /\ n \in Nat
      BY <3>2
    <3> HIDE DEF pc, n
    <3>4. pc # n + 1
      BY <3>3
    <3> QED  BY <3>2, <3>4 DEF Started, pc, n
  <2>3. Ready
    BY <2>2 DEF HeldInv
  <2> QED  BY <2>1, <2>3, BootReadtableReady, BootPackageReady, BootFunctionReady, BootInterpreterReady,
     BootBindConstantsReady, BootInternReady, BootBindFunctionReady, BootListPackagesReady,
     BootCallsReplHolding DEF Boots, HeldInv
<1>3. CASE Next /\ Top.fn # "initialize_runtime" /\ Started
  <2>1. Holding
    BY <1>3 DEF HeldInv
  <2>2. Holding'
    BY <1>3, <2>1, NextHolding
  <2>3. 2 <= Len(acts) /\ Moves
    BY <1>3, StartWaits, StepMoves
  <2>4. acts'[1] = acts[1]
    BY <1>3, <2>3, StartIsKept
  <2> QED  BY <1>3, <2>2, <2>4 DEF HeldInv, Started
<1>4. CASE Next /\ Top.fn # "initialize_runtime" /\ ~Started
  <2>1. Top.fn = "intern_symbol" /\ Len(acts) = 2
    BY <1>4, StartWaits DEF Started
  <2>2. Interns
    BY <1>4, <2>1, InternsRun
  <2>3. UNCHANGED <<files, session>>
    BY <1>4, <2>1, InternsRun
  <2> QED  BY <1>4, <2>1, <2>2, <2>3, InternsReady DEF HeldInv
<1> QED  BY <1>1, <1>2, <1>3, <1>4

LEMMA InitIsHeld ==
  ASSUME InitializesInOrder, Init
  PROVE  HeldInv
<1> DEFINE n == Steps
<1>1. acts = <<BootAct>> /\ objects = << >> /\ last_return_value = <<>>
  BY DEF Init, RuntimeInit
<1>2. acts[1].pc = 1
  BY <1>1 DEF BootAct
<1>3. n \in Nat /\ 3 < n
  BY OrderIs
<1>4. ~(n - 2 <= 1) /\ 1 # n + 1
  <2> HIDE DEF n
  <2> QED  BY <1>3
<1>5. InternedSoFar
  <2>1. 1 .. 1 - 1 = {}
    OBVIOUS
  <2> QED  BY <1>2, <2>1 DEF InternedSoFar
<1>6. LastsOK /\ Filled
  <2>1. Len(<<>>) = 0 /\ DOMAIN << >> = {} /\ 1 .. 0 = {}
    BY EmptySeq, LenProperties
  <2> QED  BY <1>1, <2>1 DEF LastsOK, Filled
<1> QED  BY <1>2, <1>4, <1>5, <1>6 DEF HeldInv, Started, Ready, ReadyOK

----------------------------------------------------------------------------
(* What the marker reaches                                                 *)

Markers(some) == some \cup UNION {Marks(id) : id \in some}

(* The marker reaches all that is marked by what it reaches, and comes to  *)
(* an end: with each round it reaches more of finitely many objects.       *)
LEMMA ReachedIs ==
  ASSUME HeapClosed, NEW k \in Nat, DOMAIN objects = 0 .. k - 1, Roots \subseteq DOMAIN objects
  PROVE  /\ Roots \subseteq Reached /\ Reached \subseteq DOMAIN objects
         /\ \A id \in Reached : Marks(id) \subseteq Reached
<1> DEFINE D == DOMAIN objects
           S == SUBSET D
           K == Cardinality(D)
           m == [x \in S |-> K - Cardinality(x)]
           nx == [x \in S |-> IF Markers(x) = x THEN D \cup {Null} ELSE Markers(x)]
           step == [x \in S |-> [v \in S |-> v]]
           start == [x \in S |-> x]
           R(f) == [some \in S |-> IF Markers(some) = some THEN some ELSE f[Markers(some)]]
           made == CHOOSE f : f = R(f)
           Closed(c) == \A id \in c : Marks(id) \subseteq c
<1>1. Reached = made[Roots]
  BY DEF Reached, Markers
<1>2. IsFiniteSet(D) /\ K \in Nat /\ Null \notin D
  <2>1. IsFiniteSet(0 .. k - 1)
    BY FS_Interval
  <2>2. IsFiniteSet(D)
    BY <2>1
  <2>3. Null \notin D
    BY DEF Null
  <2> HIDE DEF D
  <2> QED  BY <2>2, <2>3, FS_CardinalityType
<1>3. \A x \in S : Markers(x) \in S /\ x \subseteq Markers(x)
  BY DEF HeapClosed, Markers
<1> HIDE DEF D
<1>4. \A x \in S : Cardinality(x) \in Nat /\ Cardinality(x) <= K
  BY <1>2, FS_Subset, FS_CardinalityType
<1>5. \A x, y \in S : x \subseteq y /\ x # y => Cardinality(x) < Cardinality(y)
  <2> SUFFICES ASSUME NEW x \in S, NEW y \in S, x \subseteq y, x # y
               PROVE  Cardinality(x) < Cardinality(y)
    OBVIOUS
  <2>1. IsFiniteSet(y)
    BY <1>2, FS_Subset
  <2>2. Cardinality(x) <= Cardinality(y) /\ Cardinality(x) # Cardinality(y)
    BY <2>1, FS_Subset
  <2>3. Cardinality(x) \in Nat /\ Cardinality(y) \in Nat
    BY <1>4
  <2> QED  BY <2>2, <2>3
<1>6. \A x \in S : Markers(x) # x => m[Markers(x)] < m[x]
  <2> SUFFICES ASSUME NEW x \in S, Markers(x) # x  PROVE m[Markers(x)] < m[x]
    OBVIOUS
  <2>1. Cardinality(x) < Cardinality(Markers(x))
    BY <1>3, <1>5
  <2>2. m[x] = K - Cardinality(x) /\ m[Markers(x)] = K - Cardinality(Markers(x))
    BY <1>3
  <2>3. K \in Nat /\ Cardinality(x) \in Nat /\ Cardinality(Markers(x)) \in Nat
    BY <1>2, <1>3, <1>4
  <2> HIDE DEF m, K
  <2> QED  BY <2>1, <2>2, <2>3
<1>7. m \in [S -> 0 .. K]
  <2> SUFFICES ASSUME NEW x \in S  PROVE K - Cardinality(x) \in 0 .. K
    OBVIOUS
  <2>1. K \in Nat /\ Cardinality(x) \in Nat /\ Cardinality(x) <= K
    BY <1>2, <1>4
  <2> HIDE DEF K
  <2> QED  BY <2>1
<1>8. \A x \in S : nx[x] \in S <=> Markers(x) # x
  BY <1>2, <1>3
<1>9. \E f \in [S -> S] : \A x \in S : f[x] = IF nx[x] \in S THEN step[x][f[nx[x]]] ELSE start[x]
  <2>1. \A x \in S : nx[x] \in S => m[nx[x]] < m[x]
    <3> SUFFICES ASSUME NEW x \in S, nx[x] \in S  PROVE m[nx[x]] < m[x]
      OBVIOUS
    <3>1. Markers(x) # x
      BY <1>8
    <3>2. nx[x] = Markers(x)
      BY <3>1
    <3> HIDE DEF nx, m
    <3> QED  BY <1>6, <3>1, <3>2
  <2>2. start \in [S -> S] /\ \A x \in S, v \in S : step[x][v] \in S
    OBVIOUS
  <2> HIDE DEF S, K, m, nx, step, start
  <2>3. ComesToAnEnd(S, S, K, m, nx, step, start)
    BY <1>2, <1>7, <2>1, <2>2 DEF ComesToAnEnd
  <2> QED  BY <2>3, RecursionIs
<1>10. PICK f \in [S -> S] : f = R(f)
  <2>1. PICK f \in [S -> S] : \A x \in S : f[x] = IF nx[x] \in S THEN step[x][f[nx[x]]] ELSE start[x]
    BY <1>9
  <2>2. ASSUME NEW x \in S  PROVE f[x] = IF Markers(x) = x THEN x ELSE f[Markers(x)]
    <3>1. CASE Markers(x) = x
      <4>1. nx[x] \notin S /\ start[x] = x
        BY <1>8, <3>1
      <4> HIDE DEF nx, start, step
      <4> QED  BY <2>1, <3>1, <4>1
    <3>2. CASE Markers(x) # x
      <4>1. nx[x] = Markers(x) /\ nx[x] \in S /\ f[Markers(x)] \in S
        BY <1>3, <3>2
      <4>2. step[x][f[Markers(x)]] = f[Markers(x)]
        BY <4>1
      <4> HIDE DEF nx, start, step
      <4> QED  BY <2>1, <3>2, <4>1, <4>2
    <3> QED  BY <3>1, <3>2
  <2>3. f = [x \in S |-> f[x]]
    OBVIOUS
  <2> HIDE DEF S
  <2> QED  BY <2>2, <2>3
<1>11. made = R(made)
  BY <1>10
<1>12. \A x \in S : made[x] = IF Markers(x) = x THEN x ELSE made[Markers(x)]
  <2> HIDE DEF made, S
  <2> QED  BY <1>11
<1> HIDE DEF made
<1> DEFINE Good(x) == x \subseteq made[x] /\ made[x] \subseteq D /\ Closed(made[x])
           Bad == {m[x] : x \in {y \in S : ~Good(y)}}
<1>13. ASSUME Bad # {}  PROVE FALSE
  <2>1. Bad \subseteq Nat
    <3> SUFFICES ASSUME NEW x \in S  PROVE m[x] \in Nat
      OBVIOUS
    <3>1. m[x] \in 0 .. K
      <4> HIDE DEF m, S
      <4> QED  BY <1>7
    <3> HIDE DEF m
    <3> QED  BY <1>2, <3>1
  <2>2. PICK low \in Bad : \A y \in Bad : low <= y
    <3> HIDE DEF Bad
    <3> QED  BY <1>13, <2>1, LeastIs
  <2>3. PICK x \in S : ~Good(x) /\ low = m[x]
    BY <2>2
  <2>4. Markers(x) # x
    <3>1. ASSUME Markers(x) = x  PROVE Good(x)
      <4>1. made[x] = x
        BY <1>12, <3>1
      <4>2. Closed(x)
        BY <3>1 DEF Markers
      <4> QED  BY <4>1, <4>2
    <3> QED  BY <2>3, <3>1
  <2> DEFINE y == Markers(x)
  <2>5. made[x] = made[y] /\ y \in S /\ x \subseteq y /\ m[y] < m[x]
    <3> HIDE DEF m
    <3> QED  BY <1>3, <1>6, <1>12, <2>4
  <2> HIDE DEF y
  <2>6. ~Good(y)
    <3>1. Good(y) => Good(x)
      BY <2>5
    <3> QED  BY <2>3, <3>1
  <2>7. m[y] \in Bad
    <3> HIDE DEF m, Good
    <3> QED  BY <2>5, <2>6
  <2>8. m[x] <= m[y] /\ m[x] \in Nat /\ m[y] \in Nat
    <3> HIDE DEF m, Bad
    <3> QED  BY <2>1, <2>2, <2>3, <2>7
  <2> HIDE DEF m, Bad, Good
  <2> QED  BY <2>5, <2>8
<1>14. Roots \in S
  BY DEF D
<1>15. Good(Roots)
  <2> HIDE DEF m, Good, S
  <2> QED  BY <1>13, <1>14
<1> QED  BY <1>1, <1>15 DEF D

LEMMA ElementsAre ==
  ASSUME NEW s, IsSeq(s)
  PROVE  ToSet(s) = {s[k] : k \in 1 .. Len(s)}
BY SeqIs DEF ToSet

(* What the marker starts at is there, once the runtime is.                *)
LEMMA RootsThere ==
  ASSUME InitializesInOrder, Inv, RuntimeOK, LastsOK, Started
  PROVE  /\ Roots \subseteq DOMAIN objects /\ InterpreterMarks \subseteq Roots
         /\ \A p \in DOMAIN packages : PackageMarks(p) \subseteq Roots
<1> DEFINE n == Steps
           pc == acts[1].pc
<1>1. RuntimeThere
  BY LaterStartIs DEF Started
<1>2. n \in Nat /\ 3 < n /\ pc = n + 1
  BY OrderIs DEF Started
<1> HIDE DEF n, pc
<1>3. n <= pc /\ pc # 1 /\ n - 2 < pc /\ n - 2 <= pc /\ pc \in Nat
  BY <1>2
<1>4. rt.interpreter \in DOMAIN objects
  BY <1>3 DEF RuntimeOK, n, pc
<1>5. Done(pc, objects, packages)
  BY DEF Inv, StartOK, pc
<1>6. SystemReadtable \in DOMAIN objects
  BY <1>3, <1>5 DEF Done, Is
<1>7. DOMAIN packages = ToSet(PackageNames)
  <2>1. DOMAIN packages = {InitializeRuntime[j].of : j \in {k \in 1 .. pc - 1 : Does(k, "package")}}
    BY <1>5 DEF Done
  <2>2. {InitializeRuntime[j].of : j \in {k \in 1 .. n : Does(k, "package")}} = ToSet(PackageNames)
    BY DEF InitializesInOrder, n, Steps
  <2>3. pc - 1 = n
    BY <1>2
  <2> HIDE DEF n
  <2> QED  BY <2>1, <2>2, <2>3
<1>8. Roots = {SystemReadtable} \cup InterpreterMarks \cup UNION {PackageMarks(p) : p \in DOMAIN packages}
  BY <1>1, <1>7 DEF Roots, RuntimeThere
<1>9. InterpreterMarks \subseteq DOMAIN objects
  <2>1. Ids(ToSet(form_stack)) \subseteq DOMAIN objects
    <3>1. IsSeq(form_stack) /\ \A k \in 1 .. Len(form_stack) : FormOK(form_stack[k], objects)
      BY DEF Inv, FormsOK
    <3>2. \A form \in ToSet(form_stack) : FormOK(form, objects)
      BY <3>1, ElementsAre
    <3> QED  BY <3>2 DEF FormOK, Ids
  <2>2. Ids(ToSet(last_return_value)) \subseteq DOMAIN objects
    <3>1. IsSeq(last_return_value)
      BY DEF Inv, FramesOK
    <3>2. \A form \in ToSet(last_return_value) : FormOK(form, objects)
      BY <3>1, ElementsAre DEF LastsOK
    <3> QED  BY <3>2 DEF FormOK, Ids
  <2>3. ToSet(frame_stack) \subseteq DOMAIN objects
    <3>1. IsSeq(frame_stack) /\ \A k \in 1 .. Len(frame_stack) : frame_stack[k] \in DOMAIN objects
      BY DEF Inv, FramesOK, Is
    <3> QED  BY <3>1, ElementsAre
  <2> QED  BY <1>4, <2>1, <2>2, <2>3 DEF InterpreterMarks
<1>10. ASSUME NEW p \in DOMAIN packages  PROVE PackageMarks(p) \subseteq DOMAIN objects
  <2>1. PackageOK(packages[p], p, objects)
    BY DEF Inv, ObjectsOK, PackagesOK
  <2>2. packages[p].global \in DOMAIN objects
        /\ \A name \in DOMAIN packages[p].interned : packages[p].interned[name] \in DOMAIN objects
    BY <2>1 DEF PackageOK, InternedOK, Is
  <2>3. ToSet(packages[p].exported) \subseteq DOMAIN objects
    BY <2>1, ElementsAre DEF PackageOK, Is
  <2> QED  BY <1>6, <2>2, <2>3 DEF PackageMarks
<1> QED  BY <1>6, <1>8, <1>9, <1>10

(* What the lemmas above know the objects of the running functions by is   *)
(* reached.                                                                *)
LEMMA FoundIsReached ==
  ASSUME InitializesInOrder, Inv, RuntimeOK, LastsOK, Filled, Started
  PROVE  /\ \A k \in 1 .. Len(form_stack) : Ids({form_stack[k]}) \subseteq Reached
         /\ \A k \in 1 .. Len(last_return_value) : Ids({last_return_value[k]}) \subseteq Reached
         /\ \A id \in Reached : Marks(id) \subseteq Reached
         /\ \A id : InternedId(id, packages) => id \in Reached
         /\ \A held : NewSymbol(held, objects, packages) => held \subseteq Reached
         /\ \A id, i : BoundInFrame(id, i, frame_stack, objects) => id \in Reached
         /\ \A y : \A x \in Reached : Leads(x, y, objects) => y \in Reached
<1>1. HeapClosed
  BY HeapIsClosed
<1>2. PICK n \in Nat : DOMAIN objects = 0 .. n - 1
  BY DEF Inv, ObjectsOK, HeapOK
<1>3. /\ Roots \subseteq DOMAIN objects /\ InterpreterMarks \subseteq Roots
      /\ \A p \in DOMAIN packages : PackageMarks(p) \subseteq Roots
  BY RootsThere
<1>4. /\ Roots \subseteq Reached /\ Reached \subseteq DOMAIN objects
      /\ \A id \in Reached : Marks(id) \subseteq Reached
  BY <1>1, <1>2, <1>3, ReachedIs
<1>5. /\ InterpreterMarks \subseteq Reached
      /\ \A p \in DOMAIN packages : PackageMarks(p) \subseteq Reached
  BY <1>3, <1>4
<1>6. ASSUME NEW k \in 1 .. Len(form_stack)  PROVE Ids({form_stack[k]}) \subseteq Reached
  <2>1. form_stack[k] \in ToSet(form_stack)
    BY ElementsAre DEF Inv, FormsOK
  <2>2. Ids({form_stack[k]}) \subseteq Ids(ToSet(form_stack))
    BY <2>1 DEF Ids
  <2> QED  BY <1>5, <2>2 DEF InterpreterMarks
<1>7. ASSUME NEW k \in 1 .. Len(last_return_value)  PROVE Ids({last_return_value[k]}) \subseteq Reached
  <2>1. last_return_value[k] \in ToSet(last_return_value)
    BY ElementsAre DEF Inv, FramesOK
  <2>2. Ids({last_return_value[k]}) \subseteq Ids(ToSet(last_return_value))
    BY <2>1 DEF Ids
  <2> QED  BY <1>5, <2>2 DEF InterpreterMarks
<1>8. ASSUME NEW p \in DOMAIN packages, NEW name \in DOMAIN packages[p].interned
      PROVE  packages[p].interned[name] \in Reached
  BY <1>5 DEF PackageMarks
<1>9. ASSUME NEW id, InternedId(id, packages)  PROVE id \in Reached
  BY <1>8, <1>9 DEF InternedId
<1>10. ASSUME NEW held, NewSymbol(held, objects, packages)  PROVE held \subseteq Reached
  BY <1>8, <1>10 DEF NewSymbol
<1>11. ASSUME NEW id, NEW i, BoundInFrame(id, i, frame_stack, objects)  PROVE id \in Reached
  <2>1. PICK k \in 1 .. Len(frame_stack) :
          /\ frame_stack[k] \in Environments(objects)
          /\ \E s \in DOMAIN objects[frame_stack[k]].values :
               objects[frame_stack[k]].values[s] = Object(id)
    BY <1>11 DEF BoundInFrame
  <2> DEFINE o == objects[frame_stack[k]]
  <2>2. PICK s \in DOMAIN o.values : o.values[s] = Object(id)
    BY <2>1
  <2>3. frame_stack[k] \in Reached
    <3>1. frame_stack[k] \in ToSet(frame_stack)
      BY ElementsAre DEF Inv, FramesOK
    <3> QED  BY <1>5, <3>1 DEF InterpreterMarks
  <2>4. o.kind = "environment"
    BY <2>1 DEF Environments
  <2>5. Marks(frame_stack[k]) =
          ({o.parent} \ {Null})
          \cup DOMAIN o.values \cup Ids({o.values[t] : t \in DOMAIN o.values})
          \cup DOMAIN o.functions \cup {o.functions[t] : t \in DOMAIN o.functions}
    BY <2>4 DEF Marks
  <2>6. id \in Ids({o.values[t] : t \in DOMAIN o.values})
    <3>1. Object(id)[1] = "object" /\ Object(id)[2] = id
      BY DEF Object
    <3> HIDE DEF o
    <3> QED  BY <2>2, <3>1 DEF Ids
  <2> QED  BY <1>4, <2>3, <2>5, <2>6
<1>12. ASSUME NEW x \in Reached, NEW y, Leads(x, y, objects)  PROVE y \in Reached
  <2>1. ASSUME NEW c \in Reached, NEW d \in DOMAIN objects, objects[c].kind = "cons",
               objects[c].cdr = Object(d)
        PROVE  d \in Reached
    <3>1. Marks(c) = Ids({objects[c].car, objects[c].cdr})
      BY <2>1 DEF Marks
    <3>2. Object(d)[1] = "object" /\ Object(d)[2] = d
      BY DEF Object
    <3>3. d \in Ids({objects[c].car, objects[c].cdr})
      BY <2>1, <3>2 DEF Ids
    <3> QED  BY <1>4, <3>1, <3>3
  <2>2. Reached \in SUBSET DOMAIN objects
    BY <1>4
  <2> QED  BY <1>12, <2>1, <2>2 DEF Leads
<1> QED  BY <1>4, <1>6, <1>7, <1>9, <1>10, <1>11, <1>12

(* An activation that returns to its caller, or "'" before it builds the   *)
(* list, allocates nothing.                                                *)
LEMMA AllocatingTop ==
  ASSUME Next, Top.fn # "initialize_runtime", objects' # objects
  PROVE  ~Returning(Top) /\ (Top.fn = "'" => Top.pc \in {"quote", "form"})
<1> SUFFICES ASSUME Returning(Top) \/ (Top.fn = "'" /\ Top.pc \notin {"quote", "form"})
             PROVE  objects' = objects
  OBVIOUS
<1>1. \A fn, pc : Doing(fn, pc) => fn = Top.fn /\ pc = Top.pc
  BY DEF Doing, In
<1>2. \A name, act : ~Invokes(name, act)
  BY DEF Invokes, Doing, In, Returning
<1>3. ~(Boots \/ Interns)
  <2>1. \A do : ~At(do)
    BY DEF At
  <2>2. ~Interns
    BY DEF Interns, InternFinds, InternAllocatesSymbol, InternAllocatesName, In, Returning
  <2> QED  BY <2>1, <2>2 DEF Boots, BootReadtable, BootPackage, BootIntern, BootBindConstants,
            BootFunction, BootBindFunction, BootListPackages, BootInterpreter
<1>4. \A how : Ends(how) => objects' = objects
  BY DEF Ends, heap
<1>5. CASE CallBegins \/ CallTakesArg \/ CallReturns
  BY <1>1, <1>5 DEF CallBegins, CallTakesArg, CallReturns, Returning, heap
<1>6. CASE Reads
  <2>1. ~(ReadGensyms \/ ReadAllocatesStream)
    BY <1>1 DEF ReadGensyms, ReadAllocatesStream, Returning
  <2> QED
    BY <1>2, <1>4, <1>6, <2>1 DEF Reads, ReadStarts, ReadSkipsWhitespace, ReadCallsMacro,
       ReadStartsToken, ReadStep8, ReadStep9, ReadEndsToken, ReadNumber, ReadSymbol, ReadReturns,
       ReadFails, ReadCallsNothing, heap
<1>7. CASE ReadsList
  <2>1. ~(OpenParenGensyms \/ OpenParenAllocatesStream \/ OpenParenBeginsList \/ OpenParenExtendsList)
    BY <1>1 DEF OpenParenGensyms, OpenParenAllocatesStream, OpenParenBeginsList,
       OpenParenExtendsList, Returning
  <2> QED
    BY <1>2, <1>4, <1>7, <2>1 DEF ReadsList, OpenParenStarts, OpenParenScans, OpenParenCopies,
       OpenParenReads, OpenParenLoses, OpenParenReturns, OpenParenLoops, CloseParenAborts, heap
<1>8. CASE ReadsQuoted
  <2>1. ~(DoubleQuoteAllocatesString \/ DoubleQuoteReturns \/ SingleQuoteBegins \/ SingleQuoteReturns)
    <3>1. ~(DoubleQuoteAllocatesString \/ DoubleQuoteReturns)
      <4>1. DoubleQuoteAllocatesString \/ DoubleQuoteReturns => ReadsString(Top)
        BY DEF DoubleQuoteAllocatesString, DoubleQuoteReturns, Doing, In, ReadsString
      <4>2. ~ReadsString(Top)
        BY DEF ReadsString, Returning
      <4> QED  BY <4>1, <4>2
    <3>2. ~(SingleQuoteBegins \/ SingleQuoteReturns)
      BY <1>1 DEF SingleQuoteBegins, SingleQuoteReturns, Returning
    <3> QED  BY <3>1, <3>2
  <2> QED
    BY <1>2, <1>4, <1>8, <2>1 DEF ReadsQuoted, DoubleQuoteStarts, DoubleQuoteScans, DoubleQuoteLoops,
       SingleQuoteStarts, SingleQuoteInterns, SingleQuoteReads, heap
<1>9. CASE Repl
  <2>1. ~(ReplGensyms \/ ReplAllocatesString \/ ReplAllocatesChars)
    BY <1>1 DEF ReplGensyms, ReplAllocatesString, ReplAllocatesChars, Returning
  <2> QED
    BY <1>2, <1>4, <1>9, <2>1 DEF Repl, BootCallsRepl, ReplStarts, UserTypes, ReplReads, ReplFormats,
       ReplQuits, heap
<1> QED  BY <1>3, <1>5, <1>6, <1>7, <1>8, <1>9 DEF Next

(* Once the runtime is there the start holds nothing.                      *)
LEMMA StartHoldsNothing ==
  ASSUME InitializesInOrder, StartHolds, Started
  PROVE  acts[1].held = {}
<1> DEFINE n == Steps
           pc == acts[1].pc
<1>1. n \in Nat /\ pc = n + 1
  BY OrderIs DEF Started
<1>2. \A i, do : Does(i, do) => i \in 1 .. n
  BY OrderIs DEF Does
<1> HIDE DEF n, pc
<1>3. pc \notin 1 .. n /\ pc + 1 \notin 1 .. n
  BY <1>1
<1> QED  BY <1>2, <1>3 DEF StartHolds, pc

(* What an activation holds is reached, while something is allocated.      *)
LEMMA ActIsReached ==
  ASSUME InitializesInOrder, Inv, StartInv, Holding, Started, ~Returning(Top),
         Top.fn = "'" => Top.pc \in {"quote", "form"},
         NEW i \in 1 .. Len(acts), acts[i].fn # "intern_symbol"
  PROVE  acts[i].held \subseteq Reached
<1> DEFINE act == acts[i]
           below == acts[i - 1]
<1>1. /\ \A k \in 1 .. Len(form_stack) : Ids({form_stack[k]}) \subseteq Reached
      /\ \A id \in Reached : Marks(id) \subseteq Reached
      /\ \A id : InternedId(id, packages) => id \in Reached
      /\ \A held : NewSymbol(held, objects, packages) => held \subseteq Reached
      /\ \A id, j : BoundInFrame(id, j, frame_stack, objects) => id \in Reached
      /\ \A y : \A x \in Reached : Leads(x, y, objects) => y \in Reached
  BY FoundIsReached DEF Holding, StartInv
<1>2. CASE i = 1
  BY <1>2, StartHoldsNothing DEF StartInv
<1>3. CASE i # 1
  <2>1. i \in 2 .. Len(acts)
    BY <1>3, ActsAre
  <2>2. PICK b : Laid(b, acts, form_stack, Len(frame_stack), objects)
    BY DEF Inv
  <2>3. HoldsAt(i, act, below, form_stack, frame_stack, objects, packages)
    BY <2>1 DEF Holding, RunOK
  <2>4. /\ i \in Nat /\ ActOK(act, objects, packages) /\ Waits(below, act)
        /\ i < Len(acts) => Waits(act, acts[i + 1])
        /\ b[i - 1] \in Levels /\ b[i] \in Levels
        /\ ActLaid(act, b[i - 1], b[i], form_stack, objects)
        /\ b[i].forms <= Len(form_stack)
    BY <2>1, <2>2, LayerIs
  <2>5. act.fn \in {"call"} \cup Readers
    BY <2>4 DEF ActOK, Waits
  <2>6. Len(form_stack) \in Nat /\ Len(acts) \in Nat
    BY ActsAre, SeqIs DEF Inv, FormsOK
  <2> DEFINE lo == b[i - 1]
             hi == b[i]
             e == EvaledOffset(below)
             m == Len(form_stack)
  <2>7. act.fn \in Readers => /\ lo.forms \in Nat /\ 1 <= lo.forms
                              /\ e + 1 = lo.forms /\ e + 2 = lo.forms + 1
    BY <2>1, <2>2, CallBelowIs
  <2>8. lo.forms \in Nat /\ hi.forms \in Nat /\ hi.forms <= m /\ m \in Nat
    BY <2>4, <2>6 DEF Levels
  <2>9. ActLaid(act, lo, hi, form_stack, objects)
    BY <2>4
  <2> HIDE DEF act, below, lo, hi, e, m
  <2>10. ASSUME act.fn = "call"  PROVE act.held \subseteq Reached
    <3>1. CallHolds(act, form_stack) /\ CallOK(act) /\ CallLaid(act, lo, hi, form_stack, objects)
      BY <2>3, <2>4, <2>9, <2>10, HoldsIs DEF ActOK, ActLaid, act
    <3>2. CASE act.pc # "begin"
      <4>1. act.fn_index = lo.forms /\ hi.forms = lo.forms + act.arg_count + 2 /\ act.arg_count \in Nat
        BY <3>1, <3>2 DEF CallLaid, CallOK
      <4> DEFINE k == act.arg_count
                 f == act.fn_index
                 g == lo.forms
                 h == hi.forms
      <4>2. f = g /\ h = g + k + 2 /\ k \in Nat /\ g \in Nat /\ h <= m /\ m \in Nat
        BY <2>8, <4>1
      <4> HIDE DEF k, f, g, h
      <4>3. f + 1 \in 1 .. m
        BY <4>2
      <4>4. act.held = Ids({form_stack[f + 1]})
        BY <3>1, <3>2 DEF CallHolds, f
      <4> QED  BY <1>1, <4>3, <4>4 DEF m
    <3> QED  BY <3>1, <3>2 DEF CallHolds
  <2>11. ASSUME act.fn = "READ"  PROVE act.held \subseteq Reached
    <3>1. ReadHolds(act, i, frame_stack, objects, packages)
      BY <2>3, <2>11, HoldsIs DEF act
    <3> QED  BY <1>1, <3>1 DEF ReadHolds
  <2>12. ASSUME act.fn = "REPL"  PROVE act.held \subseteq Reached
    <3>1. ReplHolds(act, i, frame_stack, objects, packages)
      BY <2>3, <2>12, HoldsIs DEF act
    <3> QED  BY <1>1, <3>1 DEF ReplHolds
  <2>13. ASSUME act.fn = "("  PROVE act.held \subseteq Reached
    <3>1. OpenParenHolds(act, below, i, form_stack, frame_stack, objects, packages)
      BY <2>3, <2>13, HoldsIs DEF act
    <3>2. CASE act.pc \in {"scan", "gensym", "stream"}
      BY <1>1, <3>1, <3>2 DEF OpenParenHolds
    <3>3. CASE act.pc \notin {"scan", "gensym", "stream"}
      <4>1. /\ act.held = {act.stream} \cup (IF act.last = NoBuffer THEN {} ELSE {act.cons})
            /\ BoundInFrame(act.stream, i, frame_stack, objects)
            /\ act.last # NoBuffer =>
                 \E h \in DOMAIN objects : form_stack[e + 2] = Object(h) /\ Leads(h, act.cons, objects)
        BY <3>1, <3>3 DEF OpenParenHolds, e
      <4>2. ASSUME act.last # NoBuffer  PROVE act.cons \in Reached
        <5>1. PICK h \in DOMAIN objects : form_stack[e + 2] = Object(h) /\ Leads(h, act.cons, objects)
          BY <4>1, <4>2
        <5>2. OpenParenLaid(act, lo, hi)
          BY <2>9, <2>13 DEF ActLaid
        <5>3. hi.forms = lo.forms + 1 /\ e + 2 = lo.forms + 1
          BY <2>7, <2>13, <4>2, <5>2 DEF OpenParenLaid, Readers
        <5>4. e + 2 \in 1 .. m
          BY <2>8, <5>3
        <5>5. Ids({form_stack[e + 2]}) \subseteq Reached
          BY <1>1, <5>4 DEF m
        <5>6. h \in Reached
          <6>1. h \in Ids({Object(h)})
            <7>1. Object(h)[1] = "object" /\ Object(h)[2] = h
              BY DEF Object
            <7> QED  BY <7>1 DEF Ids
          <6> QED  BY <5>1, <5>5, <6>1
        <5> QED  BY <1>1, <5>1, <5>6
      <4> QED  BY <1>1, <4>1, <4>2
    <3> QED  BY <3>2, <3>3
  <2>14. ASSUME ReadsString(act)  PROVE act.held \subseteq Reached
    <3>1. DoubleQuoteHolds(act, below, form_stack)
      BY <2>3, <2>14, HoldsIs DEF act
    <3>2. CASE act.pc = "chars"
      <4>1. DoubleQuoteLaid(act, lo, hi, form_stack, objects)
        BY <2>9, <2>14 DEF ActLaid, ReadsString
      <4>2. hi.forms = lo.forms + 1 /\ e + 2 = lo.forms + 1
        BY <2>7, <2>14, <3>2, <4>1 DEF DoubleQuoteLaid, Readers, ReadsString
      <4>3. e + 2 \in 1 .. m
        BY <2>8, <4>2
      <4>4. act.held \subseteq Ids({form_stack[e + 2]})
        BY <3>1, <3>2 DEF DoubleQuoteHolds, e
      <4> QED  BY <1>1, <4>3, <4>4 DEF m
    <3> QED  BY <3>1, <3>2 DEF DoubleQuoteHolds
  <2>15. ASSUME act.fn = "'"  PROVE act.held \subseteq Reached
    <3>1. SingleQuoteHolds(act, below, form_stack, objects, packages)
      BY <2>3, <2>15, HoldsIs DEF act
    <3>2. act.pc \in {"read", "quote", "form"}
      <4>1. CASE i = Len(acts)
        BY <2>15, <4>1, ActsAre DEF act
      <4>2. CASE i # Len(acts)
        <5>1. i < Len(acts)
          BY <2>1, <2>6, <4>2
        <5>2. Waits(act, acts[i + 1]) /\ ActOK(acts[i + 1], objects, packages)
          <6>1. i + 1 \in 1 .. Len(acts)
            BY <2>1, <2>6, <5>1
          <6> QED  BY <2>4, <5>1, <6>1, ActsAre DEF act
        <5> QED  BY <2>15, <5>2 DEF Waits, ActOK
      <4> QED  BY <4>1, <4>2
    <3>3. CASE act.pc = "read"
      <4>1. PICK h \in DOMAIN objects : /\ form_stack[e + 1] = Object(h)
                                        /\ objects[h].kind = "cons" /\ objects[h].car = act.stream
        BY <3>1, <3>3 DEF SingleQuoteHolds, e
      <4>2. act.held = Ids({act.stream})
        BY <3>1, <3>3 DEF SingleQuoteHolds
      <4>3. SingleQuoteLaid(act, lo, hi, form_stack, objects)
        BY <2>9, <2>15 DEF ActLaid
      <4>4. e + 1 \in 1 .. m
        <5>1. hi.forms = lo.forms /\ e + 1 = lo.forms /\ 1 <= lo.forms
          BY <2>7, <2>15, <3>3, <4>3 DEF SingleQuoteLaid, Readers
        <5> QED  BY <2>8, <5>1
      <4>5. h \in Reached
        <5>1. Ids({form_stack[e + 1]}) \subseteq Reached
          BY <1>1, <4>4 DEF m
        <5> QED  BY <4>1, <5>1 DEF Ids, Object
      <4>6. Marks(h) = Ids({objects[h].car, objects[h].cdr})
        BY <4>1 DEF Marks
      <4>7. Ids({act.stream}) \subseteq Marks(h)
        BY <4>1, <4>6 DEF Ids
      <4> QED  BY <1>1, <4>2, <4>5, <4>7
    <3>4. CASE act.pc = "quote"
      BY <1>1, <3>1, <3>4 DEF SingleQuoteHolds
    <3>5. CASE act.pc = "form"
      <4>1. act.held \subseteq Ids({form_stack[e + 2]})
        BY <3>1, <3>5 DEF SingleQuoteHolds, e
      <4>2. SingleQuoteLaid(act, lo, hi, form_stack, objects)
        BY <2>9, <2>15 DEF ActLaid
      <4>3. hi.forms = lo.forms + 1 /\ e + 2 = lo.forms + 1
        BY <2>7, <2>15, <3>5, <4>2 DEF SingleQuoteLaid, Readers
      <4>4. e + 2 \in 1 .. m
        BY <2>8, <4>3
      <4> QED  BY <1>1, <4>1, <4>4 DEF m
    <3> QED  BY <3>2, <3>3, <3>4, <3>5
  <2>16. act.fn \in {"call", "READ", "(", "'", "REPL"} \/ ReadsString(act)
    BY <2>5 DEF Readers, ReadsString, act
  <2>17. act.held \subseteq Reached
    BY <2>10, <2>11, <2>12, <2>13, <2>14, <2>15, <2>16
  <2> QED  BY <2>17 DEF act
<1> QED  BY <1>2, <1>3

(* The value that was returned last is reached.                            *)
LEMMA ValueIsReached ==
  ASSUME InitializesInOrder, Inv, RuntimeOK, Holding, Started, ~Returning(Top)
  PROVE  Ids({value}) \subseteq Reached
<1>1. /\ \A k \in 1 .. Len(last_return_value) : Ids({last_return_value[k]}) \subseteq Reached
      /\ \A id : InternedId(id, packages) => id \in Reached
  BY FoundIsReached DEF Holding
<1>2. \/ value[1] # "object" \/ InternedId(value[2], packages)
      \/ \E k \in 1 .. Len(last_return_value)
                       - (IF Top.fn = "call" /\ Top.pc = "arguments" THEN 1 ELSE 0) :
           value = last_return_value[k]
  BY DEF Holding, RunOK, ValueKept
<1>3. CASE value[1] # "object" \/ InternedId(value[2], packages)
  BY <1>1, <1>3 DEF Ids
<1> DEFINE m == Len(last_return_value)
<1>4. ASSUME NEW less \in {0, 1}, NEW k \in 1 .. m - less, value = last_return_value[k]
      PROVE  Ids({value}) \subseteq Reached
  <2>1. m \in Nat
    BY SeqIs DEF Inv, FramesOK
  <2> HIDE DEF m
  <2>2. k \in 1 .. m
    BY <2>1
  <2> QED  BY <1>1, <1>4, <2>2 DEF m
<1> QED  BY <1>2, <1>3, <1>4

(* Nothing is allocated between the interpreter and the REPL.              *)
LEMMA AllocatingIsStarted ==
  ASSUME InitializesInOrder, StartFits, Inv, StartInv, Next, objects' # objects, rt.interpreter # Null
  PROVE  Started /\ Top.fn # "initialize_runtime"
<1> DEFINE n == Steps
           pc == acts[1].pc
<1>1. n \in Nat /\ pc \in 1 .. n + 1
  <2>1. ActOK(acts[1], objects, packages) /\ acts[1].fn = "initialize_runtime"
    BY ActsAre
  <2>2. BootOK(acts[1])
    BY <2>1 DEF ActOK
  <2> QED  BY <2>2, OrderIs DEF BootOK
<1>2. n <= pc
  BY DEF StartInv, RuntimeOK
<1>3. Top.fn # "initialize_runtime"
  <2> SUFFICES ASSUME Top.fn = "initialize_runtime"  PROVE FALSE
    OBVIOUS
  <2>1. Boots \/ BootCallsRepl
    BY StartRuns
  <2>2. ~BootCallsRepl
    BY DEF BootCallsRepl, heap
  <2>3. PICK do : At(do) /\ do # "repl"
    <3>1. "readtable" # "repl" /\ "package" # "repl" /\ "intern" # "repl" /\ "function" # "repl"
          /\ "interpreter" # "repl"
      OBVIOUS
    <3>2. "bind constants" # "repl" /\ "bind function" # "repl" /\ "list packages" # "repl"
      BY Zenon
    <3>3. BootReadtable => At("readtable")
      BY Zenon DEF BootReadtable
    <3>4. BootPackage => At("package")
      BY Zenon DEF BootPackage
    <3>5. BootIntern => At("intern")
      BY Zenon DEF BootIntern
    <3>6. BootBindConstants => At("bind constants")
      BY Zenon DEF BootBindConstants
    <3>7. BootFunction => At("function")
      BY Zenon DEF BootFunction
    <3>8. BootBindFunction => At("bind function")
      BY Zenon DEF BootBindFunction
    <3>9. BootListPackages => At("list packages")
      BY Zenon DEF BootListPackages
    <3>10. BootInterpreter => At("interpreter")
      BY Zenon DEF BootInterpreter
    <3> QED
      BY <2>1, <2>2, <3>1, <3>2, <3>3, <3>4, <3>5, <3>6, <3>7, <3>8, <3>9, <3>10, Zenon DEF Boots
  <2>4. Top.pc < n /\ acts[1] = Top
    BY <2>3, InstructionIs
  <2> HIDE DEF n
  <2>5. pc < n
    BY <2>4
  <2> HIDE DEF pc
  <2> QED  BY <1>1, <1>2, <2>5
<1>4. Started
  <2> SUFFICES ASSUME ~Started  PROVE FALSE
    OBVIOUS
  <2>1. Top.fn = "intern_symbol" /\ Len(acts) = 2
    BY <1>3, StartWaits DEF Started
  <2>2. pc < n - 2
    BY <2>1, StartInterns
  <2> HIDE DEF n, pc
  <2> QED  BY <1>1, <1>2, <2>2
<1> QED  BY <1>3, <1>4

LEMMA HeldWhileAllocating ==
  ASSUME InitializesInOrder, StartFits, Inv, StartInv, HeldInv, [Next]_vars
  PROVE  AllocationStarts /\ rt.interpreter # Null => Held \ BeingInterned \subseteq Reached
<1> SUFFICES ASSUME AllocationStarts, rt.interpreter # Null  PROVE Held \ BeingInterned \subseteq Reached
  OBVIOUS
<1>1. objects' # objects
  BY DEF AllocationStarts
<1>2. Next
  BY <1>1 DEF vars, heap
<1>3. Started /\ Top.fn # "initialize_runtime"
  BY <1>1, <1>2, AllocatingIsStarted
<1>4. Holding
  BY <1>3 DEF HeldInv
<1>5. ~Returning(Top) /\ (Top.fn = "'" => Top.pc \in {"quote", "form"})
  BY <1>1, <1>2, <1>3, AllocatingTop
<1>6. Ids({value}) \subseteq Reached
  BY <1>3, <1>4, <1>5, ValueIsReached DEF StartInv
<1>7. DOMAIN acts = 1 .. Len(acts)
  BY ActsAre, SeqIs
<1>8. \A i \in DOMAIN acts : acts[i].fn # "intern_symbol" => acts[i].held \subseteq Reached
  BY <1>3, <1>4, <1>5, <1>7, ActIsReached
<1> QED  BY <1>6, <1>8 DEF Held, BeingInterned

(* Whatever is typed, however deep the lists nest and however often a      *)
(* stack moves: when something is allocated, and a collection may run,     *)
(* everything that the functions under way will still use is reached by    *)
(* the marker, but for the symbol that intern_symbol is making: on the     *)
(* form stack, in the last returns, or bound to the symbols of gensym.     *)
(* That is what system_inherents.c:29 says the bindings are for;           *)
(* interpret_function_call (interpreter.c:877) and the reader macros push  *)
(* what they build for the same reason.                                    *)
THEOREM HeldIsFound ==
  ASSUME InitializesInOrder, ConstantsInOrder, StartFits
  PROVE  Spec => HeldIsReached
<1>1. Init => StartInv /\ HeldInv
  BY InitIsStart, InitIsHeld
<1>2. Inv /\ StartInv /\ HeldInv /\ [Next]_vars => StartInv' /\ HeldInv'
  BY StartKept, HeldInvKept
<1>3. Inv /\ StartInv /\ HeldInv /\ [Next]_vars =>
        [AllocationStarts /\ rt.interpreter # Null => Held \ BeingInterned \subseteq Reached]_vars
  BY HeldWhileAllocating
<1>4. Spec => []Inv
  BY ReaderKept
<1> QED  BY <1>1, <1>2, <1>3, <1>4, PTL DEF Spec, HeldIsReached
=============================================================================
