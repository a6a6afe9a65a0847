------------------------------- MODULE Runtime -------------------------------
(***************************************************************************)
(* The runtime of src/runtime/runtime.c: the objects that were allocated   *)
(* and how they refer to each other, the packages and their symbols, the   *)
(* environments, and what the collector's marker reaches of all this.      *)
(*                                                                         *)
(* What the C functions that are under way keep in their variables is in   *)
(* acts, the running one last; a step allocates at most once, at its       *)
(* beginning, so that the state before it is what a collection would see.  *)
(* Nothing is freed here: whether a collection would free something that   *)
(* is still used is what the properties ask.                               *)
(***************************************************************************)
EXTENDS Forms, Lists, Characters, SequencesExt

CONSTANTS
  FirstCollection   \* INITIAL_GC_CHECK: bytes allocated when a collection first runs

ASSUME CollectionAssumption == FirstCollection \in Nat

VARIABLES
  objects,            \* what was allocated: id -> record
  bytes, next_gc,     \* allocated_bytes and next_gc_size of the manager
  packages,           \* name -> [global, interned, exported]
  rt,                 \* [packages: those listed, interpreter]
  form_stack, form_cap,
  last_return_value,
  frame_stack, frame_cap,   \* the environments of the frames
  acts,
  value               \* what the last C function returned

heap   == <<objects, bytes, next_gc>>
stack  == <<form_stack, form_cap>>
frames == <<last_return_value, frame_stack, frame_cap>>
image  == <<packages, rt>>

----------------------------------------------------------------------------
(* Objects                                                                 *)

Null       == -1              \* no object
NullLexeme == <<"NULL">>      \* the key that gensym files its symbols under
Fresh      == Cardinality(DOMAIN objects)

Object(id) == <<"object", id>>
Char(c)    == <<"char", c>>
Ids(some)  == {form[2] : form \in {f \in some : f[1] = "object"}}
Kind(form) == IF form[1] = "object" THEN objects[form[2]].kind ELSE form[1]

ConsCell(car, cdr) == [kind |-> "cons", car |-> car, cdr |-> cdr]
Symbol(p, id)    == [kind |-> "symbol", lexeme |-> Null, package |-> p, id |-> id]
Text(chars)      == [kind |-> "chars", chars |-> chars]
String           == [kind |-> "string", lexeme |-> Null]
Stream(file)     == [kind |-> "stream", file |-> file]
Inherent(name)   == [kind |-> "function", name |-> name]
Readtable        == [kind |-> "readtable", macros |-> << >>]
InterpreterBlock == [kind |-> "interpreter"]
Environment(parent, p) ==
  [kind |-> "environment", parent |-> parent, package |-> p,
   values |-> << >>, functions |-> << >>]

(* sizeof, on a machine with addresses of 8 bytes.                         *)
SizeOf(object) ==
  IF object.kind = "chars" THEN Len(object.chars) + 1
  ELSE [readtable |-> 32, environment |-> 64, symbol |-> 32, function |-> 16,
        interpreter |-> 104, cons |-> 40, string |-> 16, stream |-> 16][object.kind]

(* Faulty variant: the header in front of the object is counted too.       *)
AllocatesWithHeader(object, others) ==
  /\ objects' = Inserted(others, Fresh, object)
  /\ bytes' = bytes + 24 + SizeOf(object)
  /\ next_gc' = IF bytes' >= next_gc THEN 2 * next_gc ELSE next_gc

(* A new object, and the others as they are once it is stored somewhere.   *)
Allocates(object, others) ==
  /\ objects' = Inserted(others, Fresh, object)
  /\ bytes' = bytes + SizeOf(object)
  /\ next_gc' = IF bytes' >= next_gc THEN 2 * next_gc ELSE next_gc

----------------------------------------------------------------------------
(* The functions under way                                                 *)

Top   == Last(acts)
Below == Front(acts)

In(fn, pc) == acts # <<>> /\ Top.fn = fn /\ Top.pc = pc

Becomes(act)       == acts' = Append(Below, act) /\ UNCHANGED value
Goes(pc)           == Becomes([Top EXCEPT !.pc = pc])
Calls(act, callee) == acts' = Below \o <<act, callee>> /\ UNCHANGED value
Returns(form)      == acts' = Below /\ value' = form

(* The objects that the variables of the functions under way lead to, and  *)
(* that these functions will still use.                                    *)
Held == (UNION {acts[i].held : i \in DOMAIN acts}) \cup Ids({value})

----------------------------------------------------------------------------
(* Environments                                                            *)

CurrentEnv == Last(frame_stack)

Environments(all) == {e \in DOMAIN all : all[e].kind = "environment"}

(* bind_value: where the symbol is bound already, or else here.            *)
BoundTo(env, sym, form, others) ==
  LET binder[e \in Environments(others)] ==
        IF sym \in DOMAIN others[e].values THEN e
        ELSE IF others[e].parent = Null THEN Null ELSE binder[others[e].parent]
      at == IF binder[env] = Null THEN env ELSE binder[env]
  IN  [others EXCEPT ![at].values = Inserted(@, sym, form)]

(* symbol_function: in the package of the symbol, from there up.           *)
SymbolFunction(env, sym) ==
  LET p == objects[sym].package
      nearest[e \in Environments(objects)] ==
        IF objects[e].package # p THEN nearest[packages[p].global]
        ELSE IF sym \in DOMAIN objects[e].functions THEN objects[e].functions[sym]
        ELSE IF objects[e].parent = Null THEN Null ELSE nearest[objects[e].parent]
  IN  nearest[env]

(* The function of a symbol that is interned in a package already.         *)
FunctionNamed(p, name) ==
  SymbolFunction(packages[p].global, packages[p].interned[Chars(name)])

----------------------------------------------------------------------------
(* Symbols                                                                 *)

InternAct(p, name) ==
  [fn |-> "intern_symbol", pc |-> "find", package |-> p, name |-> name, held |-> {}]

Interned(p, name, sym, all) == [all EXCEPT ![p].interned = Inserted(@, name, sym)]

InternFinds ==
  /\ In("intern_symbol", "find")
  /\ LET known == packages[Top.package].interned
     IN  Top.name \in DOMAIN known /\ Returns(Object(known[Top.name]))
  /\ UNCHANGED <<heap, image, stack, frames>>

(* Faulty variant: also when there is a symbol of that name.               *)
InternAllocatesSymbolAlways ==
  /\ In("intern_symbol", "find")
  /\ Allocates(Symbol(Top.package, 0), objects)
  /\ Becomes([Top EXCEPT !.pc = "name", !.held = {Fresh}])
  /\ UNCHANGED <<image, stack, frames>>

InternAllocatesSymbol ==
  /\ In("intern_symbol", "find")
  /\ Top.name \notin DOMAIN packages[Top.package].interned
  /\ Allocates(Symbol(Top.package, 0), objects)
  /\ Becomes([Top EXCEPT !.pc = "name", !.held = {Fresh}])
  /\ UNCHANGED <<image, stack, frames>>

(* Nothing but the variable of intern_symbol leads to the symbol yet.      *)
InternAllocatesName ==
  /\ In("intern_symbol", "name")
  /\ LET sym == CHOOSE s \in Top.held : TRUE
     IN  /\ Allocates(Text(Top.name), [objects EXCEPT ![sym].lexeme = Fresh])
         /\ packages' = Interned(Top.package, Top.name, sym, packages)
         /\ Returns(Object(sym))
  /\ UNCHANGED <<rt, stack, frames>>

(* gensym of no name: the symbol takes the place of the one before it.     *)
Gensyms(p) ==
  LET known == packages[p].interned
      id    == IF NullLexeme \in DOMAIN known THEN objects[known[NullLexeme]].id + 1 ELSE 1
  IN  /\ Allocates(Symbol(p, id), objects)
      /\ packages' = Interned(p, NullLexeme, Fresh, packages)

----------------------------------------------------------------------------
(* Initialisation, one instruction after the other                         *)

PackageNames == <<"SYSTEM", "COMMON-LISP", "USER">>

InitializePackage(p) ==
  <<[do |-> "package", of |-> p]>>
  \o [i \in 1 .. 2 |-> [do |-> "intern", of |-> p, name |-> <<"NIL", "T">>[i]]]
  \o <<[do |-> "bind constants", of |-> p]>>

InstallInherent(p, name, export) ==
  <<[do |-> "function", of |-> p, name |-> name],
    [do |-> "intern", of |-> p, name |-> name],
    [do |-> "bind function", of |-> p, name |-> name, export |-> export]>>

ReaderMacros ==
  [c \in MacroCharacters |-> CASE c = "("  -> "READ-OPEN-PAREN"
                                [] c = ")"  -> "READ-CLOSE-PAREN"
                                [] c = "\"" -> "READ-DOUBLE-QUOTE"
                                [] c = "'"  -> "READ-SINGLE-QUOTE"]

InitializeRuntime ==
  <<[do |-> "readtable"]>>
  \o FlattenSeq([i \in 1 .. 3 |-> InitializePackage(PackageNames[i])])
  \o InstallInherent("SYSTEM", "REPL", FALSE)
  \o InstallInherent("SYSTEM", "READ-OPEN-PAREN", FALSE)
  \o InstallInherent("SYSTEM", "READ-CLOSE-PAREN", FALSE)
  \o InstallInherent("SYSTEM", "READ-DOUBLE-QUOTE", FALSE)
  \o InstallInherent("SYSTEM", "READ-SINGLE-QUOTE", FALSE)
  \o InstallInherent("COMMON-LISP", "READ", TRUE)
  \o InstallInherent("COMMON-LISP", "FORMAT", TRUE)
  \o <<[do |-> "list packages"], [do |-> "interpreter"], [do |-> "repl"]>>

(* What the instructions take for granted of each other: a symbol and a    *)
(* function go into a package that is there, a symbol is bound to the      *)
(* function allocated just before it was interned, under a name of its     *)
(* own, the last of them right before the packages are listed, and all are *)
(* bound when the interpreter comes to use them.                           *)
Does(i, do) == i \in DOMAIN InitializeRuntime /\ InitializeRuntime[i].do = do

Of(i, p)           == InitializeRuntime[i].of = p
Installed(p, name) ==
  \E i \in DOMAIN InitializeRuntime :
    Does(i, "bind function") /\ Of(i, p) /\ InitializeRuntime[i].name = name

InitializesInOrder ==
  LET run == InitializeRuntime
      n   == Len(run)
  IN  /\ n \in Nat /\ DOMAIN run = 1 .. n
      /\ \A i \in 1 .. n : Does(i, "readtable") <=> i = 1
      /\ \A i, j \in 1 .. n :
           Does(i, "package") /\ Does(j, "package") /\ Of(i, run[j].of) => i = j
      /\ \A i \in 1 .. n :
           Does(i, "intern") => \E j \in 1 .. i - 1 : Does(j, "package") /\ Of(j, run[i].of)
      /\ \A i \in 1 .. n : Does(i, "bind function") =>
           /\ Does(i - 1, "intern") /\ Of(i - 1, run[i].of) /\ run[i - 1].name = run[i].name
           /\ Does(i - 2, "function") /\ run[i - 2].name = run[i].name
           /\ ~Of(i, "USER") /\ Chars(run[i].name) # NullLexeme
      /\ \A i \in 1 .. n : Does(i, "function") => Does(i + 2, "bind function")
      /\ \A i, j \in 1 .. n :
           /\ Does(i, "bind function") /\ Does(j, "bind function") /\ Of(i, run[j].of)
           /\ Chars(run[i].name) = Chars(run[j].name)
           => i = j
      /\ \A i \in 1 .. n :
           /\ Does(i, "list packages") <=> i = n - 2
           /\ Does(i, "interpreter") <=> i = n - 1
           /\ Does(i, "repl") <=> i = n
      /\ 3 < n /\ Does(n - 3, "bind function") /\ Chars("QUOTE") # NullLexeme
      /\ {run[i].of : i \in {k \in 1 .. n : Does(k, "package")}} = ToSet(PackageNames)
      /\ \E i \in 1 .. n : Does(i, "package") /\ Of(i, "USER")
      /\ Installed("SYSTEM", "REPL") /\ Installed("COMMON-LISP", "READ")
      /\ \A c \in MacroCharacters : Installed("SYSTEM", ReaderMacros[c])

(* NIL and T are bound in a package once they are interned in it.          *)
ConstantsInOrder ==
  \A i \in DOMAIN InitializeRuntime : Does(i, "bind constants") =>
    \A name \in {"NIL", "T"} : \E j \in 1 .. i - 1 :
      /\ Does(j, "intern") /\ Of(j, InitializeRuntime[i].of)
      /\ InitializeRuntime[j].name = name

(* What an instruction allocates, at most, and all up to an instruction:   *)
(* the start is to be over before the first collection.                    *)
AllocatedBy(i) ==
  LET it == InitializeRuntime[i]
  IN  CASE it.do = "readtable"   -> SizeOf(Readtable)
        [] it.do = "package"     -> SizeOf(Environment(Null, it.of))
        [] it.do = "intern"      -> SizeOf(Symbol(it.of, 0)) + SizeOf(Text(Chars(it.name)))
        [] it.do = "function"    -> SizeOf(Inherent(it.name))
        [] it.do = "interpreter" -> SizeOf(InterpreterBlock)
        [] OTHER                 -> 0

StartBytes[i \in 0 .. Len(InitializeRuntime)] ==
  IF i = 0 THEN 0 ELSE StartBytes[i - 1] + AllocatedBy(i)

StartFits ==
  /\ \A i \in DOMAIN InitializeRuntime :
       /\ AllocatedBy(i) \in Nat
       /\ Does(i, "intern") => SizeOf(Text(Chars(InitializeRuntime[i].name))) \in Nat
  /\ StartBytes[Len(InitializeRuntime)] < FirstCollection

(* The activation holds the function between its allocation and binding;   *)
(* the packages, which are variables of initialize_packages for so long,   *)
(* are not listed in the runtime until they are complete.                  *)
BootAct == [fn |-> "initialize_runtime", pc |-> 1, held |-> {}]

At(do) ==
  /\ acts # <<>> /\ Top.fn = "initialize_runtime" /\ Top.pc <= Len(InitializeRuntime)
  /\ InitializeRuntime[Top.pc].do = do
Instruction == InitializeRuntime[Top.pc]
ThenNext    == [Top EXCEPT !.pc = @ + 1]

SystemReadtable == 0     \* the first object there is

BootReadtable ==
  /\ At("readtable")
  /\ Allocates(Readtable, objects)
  /\ Becomes(ThenNext)
  /\ UNCHANGED <<image, stack, frames>>

BootPackage ==
  /\ At("package")
  /\ Allocates(Environment(Null, Instruction.of), objects)
  /\ packages' = Inserted(packages, Instruction.of,
                          [global |-> Fresh, interned |-> << >>, exported |-> <<>>])
  /\ Becomes(ThenNext)
  /\ UNCHANGED <<rt, stack, frames>>

BootIntern ==
  /\ At("intern")
  /\ Calls(ThenNext, InternAct(Instruction.of, Chars(Instruction.name)))
  /\ UNCHANGED <<heap, image, stack, frames>>

BootBindConstants ==
  /\ At("bind constants")
  /\ LET p == packages[Instruction.of]
     IN  objects' = BoundTo(p.global, p.interned[Chars("T")], T,
                            BoundTo(p.global, p.interned[Chars("NIL")], Nil, objects))
  /\ Becomes(ThenNext)
  /\ UNCHANGED <<bytes, next_gc, image, stack, frames>>

BootFunction ==
  /\ At("function")
  /\ Allocates(Inherent(Instruction.name), objects)
  /\ Becomes([ThenNext EXCEPT !.held = {Fresh}])
  /\ UNCHANGED <<image, stack, frames>>

BootBindFunction ==
  /\ At("bind function")
  /\ LET p   == packages[Instruction.of]
         sym == value[2]
         fn  == CHOOSE f \in Top.held : TRUE
     IN  /\ objects' = [objects EXCEPT ![p.global].functions = Inserted(@, sym, fn)]
         /\ packages' = IF Instruction.export
                        THEN [packages EXCEPT ![Instruction.of].exported = Append(@, sym)]
                        ELSE packages
  /\ Becomes([ThenNext EXCEPT !.held = {}])
  /\ UNCHANGED <<bytes, next_gc, rt, stack, frames>>

Name(sym) == IF objects[sym].lexeme = Null THEN NullLexeme ELSE objects[objects[sym].lexeme].chars

(* import_package into USER, the three packages pushed onto the list of    *)
(* the runtime, and the reader macros, whose names are interned already.   *)
Imported(exported, interned) ==
  LET names == {Name(sym) : sym \in exported}
  IN  [name \in DOMAIN interned \cup names |->
         IF name \in names THEN CHOOSE sym \in exported : Name(sym) = name
         ELSE interned[name]]

BootListPackages ==
  /\ At("list packages")
  /\ LET exported == ToSet(packages["COMMON-LISP"].exported)
     IN  packages' = [packages EXCEPT !["USER"].interned = Imported(exported, @)]
  /\ rt' = [rt EXCEPT !.packages = ToSet(PackageNames)]
  /\ objects' = [objects EXCEPT ![SystemReadtable].macros =
                   [c \in MacroCharacters |-> FunctionNamed("SYSTEM", ReaderMacros[c])]]
  /\ Becomes(ThenNext)
  /\ UNCHANGED <<bytes, next_gc, stack, frames>>

BootInterpreter ==
  /\ At("interpreter")
  /\ Allocates(InterpreterBlock, objects)
  /\ rt' = [rt EXCEPT !.interpreter = Fresh]
  /\ frame_stack' = <<packages["USER"].global>> /\ frame_cap' = InitialCapacity
  /\ last_return_value' = <<Nil>>
  /\ Becomes(ThenNext)
  /\ UNCHANGED <<packages, stack>>

RuntimeInit ==
  /\ objects = << >> /\ bytes = 0 /\ next_gc = FirstCollection
  /\ packages = << >>
  /\ rt = [packages |-> {}, interpreter |-> Null]
  /\ form_stack = <<>> /\ form_cap = 0
  /\ last_return_value = <<>> /\ frame_stack = <<>> /\ frame_cap = 0
  /\ acts = <<BootAct>> /\ value = Nil

Boots ==
  \/ BootReadtable \/ BootPackage \/ BootIntern \/ BootBindConstants
  \/ BootFunction \/ BootBindFunction \/ BootListPackages \/ BootInterpreter

Interns == InternFinds \/ InternAllocatesSymbol \/ InternAllocatesName

----------------------------------------------------------------------------
(* The marker: objs_mark_used and what it calls                            *)

(* What marking an object marks with it.                                   *)
Marks(id) ==
  LET o == objects[id]
  IN  CASE o.kind = "cons" -> Ids({o.car, o.cdr})
        [] o.kind \in {"symbol", "string"} -> {o.lexeme} \ {Null}
        [] o.kind = "environment" ->
             ({o.parent} \ {Null})
             \cup DOMAIN o.values \cup Ids({o.values[s] : s \in DOMAIN o.values})
             \cup DOMAIN o.functions \cup {o.functions[s] : s \in DOMAIN o.functions}
        [] OTHER -> {}

PackageMarks(p) ==
  {packages[p].global, SystemReadtable}
  \cup {packages[p].interned[name] : name \in DOMAIN packages[p].interned}
  \cup ToSet(packages[p].exported)

InterpreterMarks ==
  {rt.interpreter} \cup Ids(ToSet(form_stack)) \cup Ids(ToSet(last_return_value))
  \cup ToSet(frame_stack)

Roots ==
  {SystemReadtable} \cup (IF rt.interpreter = Null THEN {} ELSE InterpreterMarks)
  \cup UNION {PackageMarks(p) : p \in rt.packages}

Reached ==
  LET from[some \in SUBSET DOMAIN objects] ==
        LET more == some \cup UNION {Marks(id) : id \in some}
        IN  IF more = some THEN some ELSE from[more]
  IN  from[Roots]
=============================================================================
