--------------------------- MODULE ReadFormProofs ----------------------------
(***************************************************************************)
(* The reader keeps its stacks and the heap in order, whatever is typed:   *)
(* activations, stacks and objects go together as TypeOK says, and no      *)
(* two symbols of a package have the same name.                            *)
(***************************************************************************)
EXTENDS ReadForm, ListLemmas, FiniteSetTheorems

----------------------------------------------------------------------------
(* Objects                                                                 *)

FormOK(form, all)   == form[1] = "object" => form[2] \in DOMAIN all
Is(id, kind, all)   == id \in DOMAIN all /\ all[id].kind = kind

(* A list ends: a cons leads to a later one only.                          *)
ConsOK(o, id, all) ==
  /\ o = [kind |-> "cons", car |-> o.car, cdr |-> o.cdr]
  /\ FormOK(o.car, all)
  /\ o.cdr = Nil \/ \E k \in DOMAIN all : all[k].kind = "cons" /\ o.cdr = Object(k) /\ id < k

SymbolOK(o, all, packs) ==
  /\ o = [kind |-> "symbol", lexeme |-> o.lexeme, package |-> o.package, id |-> o.id]
  /\ o.lexeme = Null \/ Is(o.lexeme, "chars", all)
  /\ o.package \in DOMAIN packs

(* Parents are older, and of the same package.                             *)
EnvironmentOK(o, id, all, packs) ==
  /\ o = [kind |-> "environment", parent |-> o.parent, package |-> o.package,
          values |-> o.values, functions |-> o.functions]
  /\ o.package \in DOMAIN packs
  /\ \/ o.parent = Null
     \/ /\ Is(o.parent, "environment", all) /\ o.parent < id
        /\ all[o.parent].package = o.package

ObjectOK(o, id, all, packs) ==
  \/ o.kind = "cons" /\ ConsOK(o, id, all)
  \/ o.kind = "symbol" /\ SymbolOK(o, all, packs)
  \/ o.kind = "environment" /\ EnvironmentOK(o, id, all, packs)
  \/ o.kind = "string" /\ o = [kind |-> "string", lexeme |-> o.lexeme]
  \/ o.kind = "chars" /\ o = [kind |-> "chars", chars |-> o.chars]
  \/ o.kind = "function" /\ o = [kind |-> "function", name |-> o.name]
  \/ o.kind = "stream" /\ o = [kind |-> "stream", file |-> o.file]
  \/ o.kind = "readtable" /\ o = [kind |-> "readtable", macros |-> o.macros]
  \/ o.kind = "interpreter" /\ o = [kind |-> "interpreter"]

HeapOK(all, packs) ==
  /\ \E n \in Nat : DOMAIN all = 0 .. n - 1
  /\ \A id \in DOMAIN all : ObjectOK(all[id], id, all, packs)

(* What a package has under a name is the symbol of that name, ...         *)
InternedOK(name, s, p, all) ==
  /\ Is(s, "symbol", all)
  /\ name # NullLexeme => all[s].lexeme # Null /\ all[all[s].lexeme].chars = name
  /\ p # "USER" => all[s].package = p

PackageOK(package, p, all) ==
  /\ package = [global |-> package.global, interned |-> package.interned,
                exported |-> package.exported]
  /\ Is(package.global, "environment", all)
  /\ all[package.global].package = p /\ all[package.global].parent = Null
  /\ \A name \in DOMAIN package.interned : InternedOK(name, package.interned[name], p, all)
  /\ IsSeq(package.exported)
  /\ \A i \in 1 .. Len(package.exported) : Is(package.exported[i], "symbol", all)

PackagesOK(all, packs) == \A p \in DOMAIN packs : PackageOK(packs[p], p, all)

(* ... and every symbol that has a name is found in its package.           *)
HasName(s, all) == Is(s, "symbol", all) /\ all[s].lexeme # Null
NameOf(s, all)  == all[all[s].lexeme].chars
KnownTo(s, all, packs) == NameOf(s, all) \in DOMAIN packs[all[s].package].interned
SameName(s, t, all) ==
  NameOf(s, all) = NameOf(t, all) /\ all[s].package = all[t].package

NamesOK(all, packs) ==
  /\ \A s \in DOMAIN all : HasName(s, all) => KnownTo(s, all, packs)
  /\ \A s, t \in DOMAIN all : HasName(s, all) /\ HasName(t, all) /\ SameName(s, t, all) => s = t

ObjectsOK(all, packs) == HeapOK(all, packs) /\ PackagesOK(all, packs) /\ NamesOK(all, packs)

(* What stays as it is however objects are altered.                        *)
Lasts(o, p) ==
  /\ p.kind = o.kind
  /\ o.kind \in {"function", "chars"} => p = o
  /\ o.kind = "environment" => p.parent = o.parent /\ p.package = o.package
  /\ o.kind = "symbol" => p.package = o.package /\ (o.lexeme # Null => p.lexeme = o.lexeme)

Grows(all, new) ==
  DOMAIN all \subseteq DOMAIN new /\ \A id \in DOMAIN all : Lasts(all[id], new[id])

(* What stays once the runtime is there: functions are bound and macro     *)
(* characters set at the start only.                                       *)
Stays(o, p) ==
  /\ o.kind = "readtable" => p = o
  /\ o.kind = "environment" => p.functions = o.functions

Steady(all, new) == Grows(all, new) /\ \A id \in DOMAIN all : Stays(all[id], new[id])

(* No symbol gets its name.                                                *)
Quiet(all, new) ==
  Steady(all, new) /\ \A id \in DOMAIN all : all[id].kind = "symbol" => new[id] = all[id]

(* The conses below an id stay as they are.                                *)
Settled(all, new, below) ==
  \A id \in DOMAIN all : all[id].kind = "cons" /\ id < below => new[id] = all[id]

MorePackages(packs, packs2) == DOMAIN packs \subseteq DOMAIN packs2

LEMMA ObjectStaysOK ==
  ASSUME NEW all, NEW new, NEW packs, NEW packs2, NEW o, NEW id,
         Grows(all, new), MorePackages(packs, packs2), ObjectOK(o, id, all, packs)
  PROVE  ObjectOK(o, id, new, packs2)
<1>1. \A k, kind : Is(k, kind, all) => Is(k, kind, new)
  BY DEF Is, Grows, Lasts
<1>2. \A form : FormOK(form, all) => FormOK(form, new)
  BY DEF FormOK, Grows
<1>3. ASSUME ConsOK(o, id, all)  PROVE ConsOK(o, id, new)
  BY <1>1, <1>2, <1>3 DEF ConsOK, Is
<1>4. ASSUME SymbolOK(o, all, packs)  PROVE SymbolOK(o, new, packs2)
  BY <1>1, <1>4 DEF SymbolOK, MorePackages
<1>5. ASSUME EnvironmentOK(o, id, all, packs)  PROVE EnvironmentOK(o, id, new, packs2)
  <2>1. \A k : Is(k, "environment", all) => new[k].package = all[k].package
    BY DEF Is, Grows, Lasts
  <2> QED  BY <1>1, <1>5, <2>1 DEF EnvironmentOK, MorePackages
<1> QED  BY <1>3, <1>4, <1>5 DEF ObjectOK

(* An object is altered: variables are bound in an environment, the last   *)
(* cons of a list gets the new one for its cdr, or a string its text.      *)
Alters(o, p, n, new) ==
  \/ p = o
  \/ o.kind = "environment" /\
       p = [kind |-> "environment", parent |-> o.parent, package |-> o.package,
            values |-> p.values, functions |-> o.functions]
  \/ o.kind = "cons" /\ new.kind = "cons" /\
       p = [kind |-> "cons", car |-> o.car, cdr |-> Object(n)]
  \/ o.kind = "string" /\ p = [kind |-> "string", lexeme |-> p.lexeme]

Altered(all, others, n, new) ==
  DOMAIN others = DOMAIN all /\ \A id \in DOMAIN all : Alters(all[id], others[id], n, new)

(* A new object, which has no name.                                        *)
Added(all, others, n, o) ==
  /\ n \in Nat /\ DOMAIN others = 0 .. n - 1
  /\ DOMAIN all = 0 .. n /\ all[n] = o /\ \A id \in 0 .. n - 1 : all[id] = others[id]

LEMMA AlteredIsQuiet ==
  ASSUME NEW o, NEW p, NEW n, NEW new, NEW all, NEW packs, NEW id,
         ObjectOK(o, id, all, packs), Alters(o, p, n, new)
  PROVE  Lasts(o, p) /\ Stays(o, p) /\ (o.kind = "symbol" => p = o)
<1>1. CASE p = o
  BY <1>1 DEF Lasts, Stays
<1>2. CASE o.kind = "environment" /\
             p = [kind |-> "environment", parent |-> o.parent, package |-> o.package,
                  values |-> p.values, functions |-> o.functions]
  <2>1. p.kind = "environment" /\ p.parent = o.parent /\ p.package = o.package /\ p.functions = o.functions
    BY <1>2
  <2> QED  BY <1>2, <2>1 DEF Lasts, Stays
<1>3. CASE o.kind = "cons" /\ p = [kind |-> "cons", car |-> o.car, cdr |-> Object(n)]
  <2>1. p.kind = "cons"
    BY <1>3
  <2> QED  BY <1>3, <2>1 DEF Lasts, Stays
<1>4. CASE o.kind = "string" /\ p = [kind |-> "string", lexeme |-> p.lexeme]
  <2>1. p.kind = "string"
    BY <1>4
  <2> QED  BY <1>4, <2>1 DEF Lasts, Stays
<1> QED  BY <1>1, <1>2, <1>3, <1>4 DEF Alters

LEMMA AdditionIsQuiet ==
  ASSUME NEW all, NEW others, NEW new, NEW packs, NEW n, NEW o,
         HeapOK(all, packs), Altered(all, others, n, o), Added(new, others, n, o)
  PROVE  Quiet(all, new) /\ n \notin DOMAIN all /\ DOMAIN new = DOMAIN all \cup {n}
<1>1. DOMAIN all = 0 .. n - 1 /\ n \in Nat /\ DOMAIN new = 0 .. n
  BY DEF Altered, Added
<1>2. \A id \in DOMAIN all : Alters(all[id], new[id], n, o)
  BY <1>1 DEF Altered, Added
<1>3. \A id \in DOMAIN all : /\ Lasts(all[id], new[id]) /\ Stays(all[id], new[id])
                             /\ all[id].kind = "symbol" => new[id] = all[id]
  BY <1>2, AlteredIsQuiet DEF HeapOK
<1> QED  BY <1>1, <1>3 DEF Quiet, Steady, Grows

LEMMA AdditionKeepsHeap ==
  ASSUME NEW all, NEW others, NEW new, NEW packs, NEW packs2, NEW n, NEW o,
         HeapOK(all, packs), Altered(all, others, n, o), Added(new, others, n, o),
         MorePackages(packs, packs2), ObjectOK(o, n, all, packs2)
  PROVE  HeapOK(new, packs2)
<1>1. DOMAIN all = 0 .. n - 1 /\ n \in Nat /\ DOMAIN new = 0 .. n /\ new[n] = o
  BY DEF Altered, Added
<1>2. \A id \in DOMAIN all : Alters(all[id], new[id], n, o)
  BY <1>1 DEF Altered, Added
<1>3. Quiet(all, new)
  BY AdditionIsQuiet
<1>4. ObjectOK(o, n, new, packs2)
  <2>1. Grows(all, new) /\ MorePackages(packs2, packs2)
    BY <1>3 DEF Quiet, Steady, MorePackages
  <2> QED  BY <2>1, ObjectStaysOK
<1>5. ASSUME NEW id \in DOMAIN all  PROVE ObjectOK(new[id], id, new, packs2)
  <2>1. ObjectOK(all[id], id, new, packs2)
    BY <1>3, ObjectStaysOK DEF HeapOK, Quiet, Steady
  <2>2. CASE new[id] = all[id]
    BY <2>1, <2>2
  <2> DEFINE p == all[id]
             q == new[id]
  <2> HIDE DEF p, q
  <2>3. CASE p.kind = "environment" /\
               q = [kind |-> "environment", parent |-> p.parent, package |-> p.package,
                    values |-> q.values, functions |-> p.functions]
    <3>1. q.kind = "environment" /\ q.parent = p.parent /\ q.package = p.package /\ q.functions = p.functions
      BY <2>3
    <3>2. EnvironmentOK(p, id, new, packs2)
      BY <2>1, <2>3 DEF ObjectOK, p
    <3>3. EnvironmentOK(q, id, new, packs2)
      BY <2>3, <3>1, <3>2 DEF EnvironmentOK
    <3> QED  BY <3>1, <3>3 DEF ObjectOK, q
  <2>4. CASE p.kind = "cons" /\ o.kind = "cons" /\
               q = [kind |-> "cons", car |-> p.car, cdr |-> Object(n)]
    <3>1. q.kind = "cons" /\ q.car = p.car /\ q.cdr = Object(n)
      BY <2>4
    <3>2. ConsOK(p, id, new)
      BY <2>1, <2>4 DEF ObjectOK, p
    <3>3. Is(n, "cons", new) /\ id < n
      BY <1>1, <2>4 DEF Is
    <3>4. ConsOK(q, id, new)
      BY <2>4, <3>1, <3>2, <3>3 DEF ConsOK, Is
    <3> QED  BY <3>1, <3>4 DEF ObjectOK, q
  <2>5. CASE p.kind = "string" /\ q = [kind |-> "string", lexeme |-> q.lexeme]
    <3>1. q.kind = "string"
      BY <2>5
    <3> QED  BY <2>5, <3>1 DEF ObjectOK, q
  <2> QED  BY <1>2, <2>2, <2>3, <2>4, <2>5 DEF Alters, p, q
<1>6. \A id \in DOMAIN new : id = n \/ id \in DOMAIN all
  BY <1>1
<1>7. DOMAIN new = 0 .. n + 1 - 1 /\ n + 1 \in Nat
  BY <1>1
<1> QED  BY <1>1, <1>4, <1>5, <1>6, <1>7 DEF HeapOK

(* Packages gain symbols, and at most gensym replaces one.                 *)
FilesMore(packs, packs2) ==
  /\ DOMAIN packs2 = DOMAIN packs
  /\ \A p \in DOMAIN packs :
       /\ packs2[p].global = packs[p].global
       /\ \A name \in DOMAIN packs[p].interned \ {NullLexeme} :
            /\ name \in DOMAIN packs2[p].interned
            /\ packs2[p].interned[name] = packs[p].interned[name]

LEMMA PackageStaysOK ==
  ASSUME NEW all, NEW new, NEW package, NEW p, NEW packs,
         HeapOK(all, packs), Grows(all, new), PackageOK(package, p, all)
  PROVE  PackageOK(package, p, new)
<1>1. \A k, kind : Is(k, kind, all) => Is(k, kind, new)
  BY DEF Is, Grows, Lasts
<1>2. new[package.global].package = p /\ new[package.global].parent = Null
  BY DEF PackageOK, Is, Grows, Lasts
<1>3. ASSUME NEW name, NEW s, InternedOK(name, s, p, all)  PROVE InternedOK(name, s, p, new)
  <2>1. Is(s, "symbol", new) /\ s \in DOMAIN all /\ new[s].package = all[s].package
    BY <1>1, <1>3 DEF InternedOK, Is, Grows, Lasts
  <2>2. ASSUME name # NullLexeme  PROVE new[s].lexeme # Null /\ new[new[s].lexeme].chars = name
    <3>1. all[s].lexeme # Null /\ all[all[s].lexeme].chars = name
      BY <1>3, <2>2 DEF InternedOK
    <3>2. new[s].lexeme = all[s].lexeme
      BY <1>3, <3>1 DEF InternedOK, Is, Grows, Lasts
    <3>3. Is(all[s].lexeme, "chars", all)
      <4>1. s \in DOMAIN all /\ all[s].kind = "symbol"
        BY <1>3 DEF InternedOK, Is
      <4>2. SymbolOK(all[s], all, packs)
        BY <4>1 DEF HeapOK, ObjectOK
      <4> QED  BY <3>1, <4>2 DEF SymbolOK
    <3> QED  BY <3>1, <3>2, <3>3 DEF Is, Grows, Lasts
  <2> QED  BY <1>3, <2>1, <2>2 DEF InternedOK
<1> QED  BY <1>1, <1>2, <1>3 DEF PackageOK

(* Names stay while the symbols there are keep theirs, the new ones have   *)
(* none, and packages forget none.                                         *)
LEMMA NamesStayOK ==
  ASSUME NEW all, NEW new, NEW packs, NEW packs2, HeapOK(all, packs), NamesOK(all, packs),
         Grows(all, new), \A id \in DOMAIN all : all[id].kind = "symbol" => new[id] = all[id],
         \A id \in DOMAIN new \ DOMAIN all : new[id].kind = "symbol" => new[id].lexeme = Null,
         \A p \in DOMAIN packs : DOMAIN packs[p].interned \subseteq DOMAIN packs2[p].interned
  PROVE  NamesOK(new, packs2)
<1>1. ASSUME NEW s \in DOMAIN new, HasName(s, new)
      PROVE  /\ s \in DOMAIN all /\ HasName(s, all) /\ new[s] = all[s]
             /\ NameOf(s, new) = NameOf(s, all) /\ all[s].package \in DOMAIN packs
  <2>1. s \in DOMAIN all
    BY <1>1 DEF HasName, Is
  <2>2. new[s].kind = all[s].kind
    BY <2>1 DEF Grows, Lasts
  <2>3. new[s] = all[s] /\ HasName(s, all)
    BY <1>1, <2>1, <2>2 DEF HasName, Is
  <2>4. SymbolOK(all[s], all, packs)
    BY <2>1, <2>3 DEF HasName, Is, HeapOK, ObjectOK
  <2>5. Is(all[s].lexeme, "chars", all)
    BY <2>3, <2>4 DEF SymbolOK, HasName
  <2>6. NameOf(s, new) = NameOf(s, all)
    BY <2>3, <2>5 DEF NameOf, Is, Grows, Lasts
  <2> QED  BY <2>1, <2>3, <2>4, <2>6 DEF SymbolOK
<1>2. ASSUME NEW s \in DOMAIN new, HasName(s, new)  PROVE KnownTo(s, new, packs2)
  <2>1. KnownTo(s, all, packs)
    BY <1>1, <1>2 DEF NamesOK
  <2> QED  BY <1>1, <1>2, <2>1 DEF KnownTo
<1>3. ASSUME NEW s \in DOMAIN new, NEW t \in DOMAIN new,
             HasName(s, new), HasName(t, new), SameName(s, t, new)
      PROVE  s = t
  <2>1. SameName(s, t, all)
    BY <1>1, <1>3 DEF SameName
  <2> QED  BY <1>1, <1>3, <2>1 DEF NamesOK
<1> QED  BY <1>2, <1>3 DEF NamesOK

Size(all) == Cardinality(DOMAIN all)

LEMMA SizeIs ==
  ASSUME NEW all, NEW packs, HeapOK(all, packs)
  PROVE  Size(all) \in Nat /\ DOMAIN all = 0 .. Size(all) - 1 /\ Size(all) \notin DOMAIN all
<1>1. PICK n \in Nat : DOMAIN all = 0 .. n - 1
  BY DEF HeapOK
<1>2. Cardinality(0 .. n - 1) = IF 0 > n - 1 THEN 0 ELSE n - 1 - 0 + 1
  BY FS_Interval
<1>3. Size(all) = n
  BY <1>1, <1>2 DEF Size
<1> QED  BY <1>1, <1>3

(* An allocation adds an object to those there are once it is stored.      *)
LEMMA AllocationAdds ==
  ASSUME NEW others, NEW o, NEW packs, HeapOK(objects, packs),
         DOMAIN others = DOMAIN objects, Allocates(o, others)
  PROVE  /\ Added(objects', others, Fresh, o)
         /\ Fresh \in Nat /\ Fresh \notin DOMAIN objects
         /\ DOMAIN objects' = DOMAIN objects \cup {Fresh} /\ objects'[Fresh] = o
         /\ \A id \in DOMAIN objects : objects'[id] = others[id]
         /\ Size(objects') = Fresh + 1
<1> DEFINE n == Fresh
<1>1. n \in Nat /\ DOMAIN objects = 0 .. n - 1 /\ n = Size(objects)
  BY SizeIs DEF Fresh, Size
<1> HIDE DEF n
<1>2. objects' = [k \in DOMAIN others \cup {n} |-> IF k = n THEN o ELSE others[k]]
  BY DEF Allocates, Inserted, n
<1>3. DOMAIN objects' = 0 .. n /\ n \notin DOMAIN objects
  BY <1>1, <1>2
<1>4. Cardinality(0 .. n) = n + 1
  BY <1>1, FS_Interval
<1>5. DOMAIN objects' = DOMAIN objects \cup {n} /\ objects'[n] = o
  BY <1>2
<1>6. \A id \in DOMAIN objects : objects'[id] = others[id]
  BY <1>2, <1>3
<1> QED  BY <1>1, <1>3, <1>4, <1>5, <1>6 DEF Added, Size, n

(* What an allocation that names no symbol does to the runtime.            *)
HeapGrows ==
  /\ ObjectsOK(objects', packages')
  /\ Steady(objects, objects') /\ FilesMore(packages, packages')
  /\ Size(objects) <= Size(objects')

Allocated(o) ==
  /\ Fresh \in Nat /\ Fresh = Size(objects) /\ Size(objects') = Fresh + 1
  /\ Fresh \notin DOMAIN objects /\ DOMAIN objects' = DOMAIN objects \cup {Fresh}
  /\ objects'[Fresh] = o

LEMMA QuietAllocation ==
  ASSUME NEW others, NEW o, ObjectsOK(objects, packages), Altered(objects, others, Fresh, o),
         Allocates(o, others), packages' = packages, ObjectOK(o, Fresh, objects, packages),
         o.kind = "symbol" => o.lexeme = Null
  PROVE  /\ HeapGrows /\ Allocated(o)
         /\ \A id \in DOMAIN objects : objects'[id] = others[id]
<1>1. /\ Added(objects', others, Fresh, o) /\ Fresh \in Nat /\ Fresh \notin DOMAIN objects
      /\ DOMAIN objects' = DOMAIN objects \cup {Fresh} /\ objects'[Fresh] = o
      /\ \A id \in DOMAIN objects : objects'[id] = others[id]
      /\ Size(objects') = Fresh + 1
  BY AllocationAdds DEF ObjectsOK, Altered
<1>2. Quiet(objects, objects')
  BY <1>1, AdditionIsQuiet DEF ObjectsOK
<1>3. HeapOK(objects', packages')
  <2>1. MorePackages(packages, packages)
    BY DEF MorePackages
  <2> QED  BY <1>1, <2>1, AdditionKeepsHeap DEF ObjectsOK
<1>4. PackagesOK(objects', packages')
  <2>1. Grows(objects, objects')
    BY <1>2 DEF Quiet, Steady
  <2> QED  BY <2>1, PackageStaysOK DEF ObjectsOK, PackagesOK
<1>5. NamesOK(objects', packages')
  <2>1. \A id \in DOMAIN objects' \ DOMAIN objects :
          objects'[id].kind = "symbol" => objects'[id].lexeme = Null
    BY <1>1
  <2> QED  BY <1>2, <2>1, NamesStayOK DEF ObjectsOK, Quiet, Steady
<1>6. FilesMore(packages, packages') /\ Fresh = Size(objects)
  BY DEF FilesMore, Fresh, Size
<1> QED  BY <1>1, <1>2, <1>3, <1>4, <1>5, <1>6 DEF HeapGrows, Allocated, ObjectsOK, Quiet

(* bind_value alters one environment.                                      *)
LEMMA ValuesOnlyInEnvironments ==
  ASSUME NEW o, NEW id, NEW all, NEW packs, NEW v, ObjectOK(o, id, all, packs)
  PROVE  [o EXCEPT !.values = v] =
           IF o.kind = "environment"
           THEN [kind |-> "environment", parent |-> o.parent, package |-> o.package,
                 values |-> v, functions |-> o.functions]
           ELSE o
<1>1. CASE o.kind = "environment"
  <2>1. o = [kind |-> "environment", parent |-> o.parent, package |-> o.package,
             values |-> o.values, functions |-> o.functions]
    BY <1>1 DEF ObjectOK, EnvironmentOK
  <2> QED  BY <1>1, <2>1
<1>2. CASE o.kind # "environment"
  <2>1. o = [x \in DOMAIN o |-> o[x]] /\ "values" \notin DOMAIN o
    <3>1. CASE o.kind = "cons" /\ ConsOK(o, id, all)
      <4>1. o = [kind |-> "cons", car |-> o.car, cdr |-> o.cdr]
        BY <3>1 DEF ConsOK
      <4> QED  BY <4>1
    <3>2. CASE o.kind = "symbol" /\ SymbolOK(o, all, packs)
      <4>1. o = [kind |-> "symbol", lexeme |-> o.lexeme, package |-> o.package, id |-> o.id]
        BY <3>2 DEF SymbolOK
      <4> QED  BY <4>1
    <3>3. CASE o = [kind |-> "string", lexeme |-> o.lexeme]
      BY <3>3
    <3>4. CASE o = [kind |-> "chars", chars |-> o.chars]
      BY <3>4
    <3>5. CASE o = [kind |-> "function", name |-> o.name]
      BY <3>5
    <3>6. CASE o = [kind |-> "stream", file |-> o.file]
      BY <3>6
    <3>7. CASE o = [kind |-> "readtable", macros |-> o.macros]
      BY <3>7
    <3>8. CASE o = [kind |-> "interpreter"]
      BY <3>8
    <3> QED  BY <1>2, <3>1, <3>2, <3>3, <3>4, <3>5, <3>6, <3>7, <3>8 DEF ObjectOK
  <2>2. [o EXCEPT !.values = v] = o
    BY <2>1
  <2> QED  BY <1>2, <2>2
<1> QED  BY <1>1, <1>2

LEMMA BindingAlters ==
  ASSUME NEW env, NEW sym, NEW form, NEW all, NEW packs, NEW n, NEW o, HeapOK(all, packs)
  PROVE  /\ Altered(all, BoundTo(env, sym, form, all), n, o)
         /\ \A id \in DOMAIN all :
              all[id].kind # "environment" => BoundTo(env, sym, form, all)[id] = all[id]
<1>1. PICK at : BoundTo(env, sym, form, all) =
                  [all EXCEPT ![at].values = Inserted(@, sym, form)]
  BY DEF BoundTo
<1> DEFINE v == Inserted(all[at].values, sym, form)
           p == [all[at] EXCEPT !.values = v]
<1> HIDE DEF v
<1>2. BoundTo(env, sym, form, all) = [id \in DOMAIN all |-> IF id = at THEN p ELSE all[id]]
  BY <1>1 DEF v
<1>3. ASSUME at \in DOMAIN all
      PROVE  Alters(all[at], p, n, o) /\ (all[at].kind # "environment" => p = all[at])
  <2> DEFINE q == all[at]
  <2>1. ObjectOK(q, at, all, packs)
    BY <1>3 DEF HeapOK
  <2> HIDE DEF q
  <2>2. CASE q.kind = "environment"
    <3>1. [q EXCEPT !.values = v] =
            [kind |-> "environment", parent |-> q.parent, package |-> q.package,
             values |-> v, functions |-> q.functions]
      BY <2>1, <2>2, ValuesOnlyInEnvironments
    <3>2. [q EXCEPT !.values = v].values = v
      BY <3>1
    <3> QED  BY <2>2, <3>1, <3>2 DEF Alters, q
  <2>3. CASE q.kind # "environment"
    <3>1. [q EXCEPT !.values = v] = q
      BY <2>1, <2>3, ValuesOnlyInEnvironments
    <3> QED  BY <2>3, <3>1 DEF Alters, q
  <2> QED  BY <2>2, <2>3
<1>4. ASSUME NEW id \in DOMAIN all
      PROVE  /\ Alters(all[id], BoundTo(env, sym, form, all)[id], n, o)
             /\ all[id].kind # "environment" => BoundTo(env, sym, form, all)[id] = all[id]
  <2> HIDE DEF p
  <2>1. CASE id = at
    BY <1>2, <1>3, <2>1
  <2>2. CASE id # at
    BY <1>2, <2>2 DEF Alters
  <2> QED  BY <2>1, <2>2
<1> QED  BY <1>2, <1>4 DEF Altered

(* Linking the new cons to another alters that one.                        *)
Linked(c, n, all) == [all EXCEPT ![c].cdr = Object(n)]

LEMMA LinkingAlters ==
  ASSUME NEW c, NEW all, NEW packs, NEW n, NEW o, HeapOK(all, packs), o.kind = "cons"
  PROVE  /\ Altered(all, Linked(c, n, all), n, o)
         /\ \A id \in DOMAIN all :
              id # c \/ all[id].kind # "cons" => Linked(c, n, all)[id] = all[id]
         /\ Is(c, "cons", all) => Linked(c, n, all)[c] = ConsCell(all[c].car, Object(n))
<1> DEFINE x == Object(n)
           q == all[c]
<1> HIDE DEF x
<1>1. [all EXCEPT ![c].cdr = x] = [id \in DOMAIN all |-> IF id = c THEN [q EXCEPT !.cdr = x] ELSE all[id]]
  OBVIOUS
<1>2. ASSUME c \in DOMAIN all
      PROVE  /\ Alters(q, [q EXCEPT !.cdr = x], n, o)
             /\ IF q.kind = "cons" THEN [q EXCEPT !.cdr = x] = ConsCell(q.car, x)
                ELSE [q EXCEPT !.cdr = x] = q
  <2>1. ObjectOK(q, c, all, packs)
    BY <1>2 DEF HeapOK
  <2> HIDE DEF q
  <2>2. CASE q.kind = "cons"
    <3>1. q = [kind |-> "cons", car |-> q.car, cdr |-> q.cdr]
      BY <2>1, <2>2 DEF ObjectOK, ConsOK
    <3>2. [q EXCEPT !.cdr = x] = [kind |-> "cons", car |-> q.car, cdr |-> x]
      BY <2>2, <3>1
    <3> QED  BY <2>2, <3>2 DEF Alters, x, ConsCell
  <2>3. CASE q.kind # "cons"
    <3>1. q = [y \in DOMAIN q |-> q[y]] /\ "cdr" \notin DOMAIN q
      <4>1. CASE q.kind = "environment" /\ EnvironmentOK(q, c, all, packs)
        <5>1. q = [kind |-> "environment", parent |-> q.parent, package |-> q.package,
                   values |-> q.values, functions |-> q.functions]
          BY <4>1 DEF EnvironmentOK
        <5> QED  BY <5>1
      <4>2. CASE q.kind = "symbol" /\ SymbolOK(q, all, packs)
        <5>1. q = [kind |-> "symbol", lexeme |-> q.lexeme, package |-> q.package, id |-> q.id]
          BY <4>2 DEF SymbolOK
        <5> QED  BY <5>1
      <4>3. CASE q = [kind |-> "string", lexeme |-> q.lexeme]
        BY <4>3
      <4>4. CASE q = [kind |-> "chars", chars |-> q.chars]
        BY <4>4
      <4>5. CASE q = [kind |-> "function", name |-> q.name]
        BY <4>5
      <4>6. CASE q = [kind |-> "stream", file |-> q.file]
        BY <4>6
      <4>7. CASE q = [kind |-> "readtable", macros |-> q.macros]
        BY <4>7
      <4>8. CASE q = [kind |-> "interpreter"]
        BY <4>8
      <4> QED  BY <2>1, <2>3, <4>1, <4>2, <4>3, <4>4, <4>5, <4>6, <4>7, <4>8 DEF ObjectOK
    <3>2. [q EXCEPT !.cdr = x] = q
      BY <3>1
    <3> QED  BY <2>3, <3>2 DEF Alters
  <2> QED  BY <2>2, <2>3
<1>3. \A id \in DOMAIN all : /\ Alters(all[id], [all EXCEPT ![c].cdr = x][id], n, o)
                             /\ id # c \/ all[id].kind # "cons" =>
                                  [all EXCEPT ![c].cdr = x][id] = all[id]
  <2> SUFFICES ASSUME NEW id \in DOMAIN all
               PROVE  /\ Alters(all[id], [all EXCEPT ![c].cdr = x][id], n, o)
                      /\ id # c \/ all[id].kind # "cons" =>
                           [all EXCEPT ![c].cdr = x][id] = all[id]
    OBVIOUS
  <2>1. CASE id = c
    <3>1. [all EXCEPT ![c].cdr = x][id] = [q EXCEPT !.cdr = x]
      BY <2>1
    <3> QED  BY <1>2, <2>1, <3>1
  <2>2. CASE id # c
    BY <2>2 DEF Alters
  <2> QED  BY <2>1, <2>2
<1>4. DOMAIN [all EXCEPT ![c].cdr = x] = DOMAIN all
  OBVIOUS
<1>5. Is(c, "cons", all) => [all EXCEPT ![c].cdr = x][c] = ConsCell(all[c].car, x)
  <2> SUFFICES ASSUME Is(c, "cons", all)  PROVE [all EXCEPT ![c].cdr = x][c] = ConsCell(q.car, x)
    OBVIOUS
  <2>1. c \in DOMAIN all /\ q.kind = "cons"
    BY DEF Is
  <2>2. [all EXCEPT ![c].cdr = x][c] = [q EXCEPT !.cdr = x]
    BY <2>1
  <2> QED  BY <1>2, <2>1, <2>2
<1>6. Linked(c, n, all) = [all EXCEPT ![c].cdr = x]
  BY DEF Linked, x
<1> HIDE DEF Linked
<1> QED  BY <1>3, <1>4, <1>5, <1>6 DEF Altered, x

(* A string gets its text.                                                 *)
LEMMA TextAlters ==
  ASSUME NEW s, NEW all, NEW packs, NEW n, NEW o, HeapOK(all, packs), Is(s, "string", all)
  PROVE  /\ Altered(all, [all EXCEPT ![s].lexeme = n], n, o)
         /\ \A id \in DOMAIN all : all[id].kind # "string" => [all EXCEPT ![s].lexeme = n][id] = all[id]
<1> DEFINE q == all[s]
           p == [q EXCEPT !.lexeme = n]
<1>1. s \in DOMAIN all /\ q.kind = "string"
  BY DEF Is
<1>2. [all EXCEPT ![s].lexeme = n] = [id \in DOMAIN all |-> IF id = s THEN p ELSE all[id]]
  OBVIOUS
<1>3. q = [kind |-> "string", lexeme |-> q.lexeme]
  BY <1>1 DEF HeapOK, ObjectOK
<1> HIDE DEF q
<1>4. p = [kind |-> "string", lexeme |-> p.lexeme]
  BY <1>3
<1> HIDE DEF p
<1>5. Alters(q, p, n, o)
  BY <1>1, <1>4 DEF Alters
<1>6. \A id \in DOMAIN all : Alters(all[id], IF id = s THEN p ELSE all[id], n, o)
  BY <1>5 DEF Alters, q
<1> QED  BY <1>1, <1>2, <1>6 DEF Altered, q

LEMMA NothingAltered ==
  ASSUME NEW all, NEW n, NEW o
  PROVE  Altered(all, all, n, o)
BY DEF Altered, Alters

(* gensym: the new symbol has no name, its package gets it.                *)
LEMMA InterningGrows ==
  ASSUME NEW p \in DOMAIN packages, NEW name, NEW sym, PackagesOK(objects, packages),
         packages' = Interned(p, name, sym, packages)
  PROVE  /\ DOMAIN packages' = DOMAIN packages
         /\ \A q \in DOMAIN packages :
              /\ packages'[q].global = packages[q].global
              /\ packages'[q].exported = packages[q].exported
              /\ q # p => packages'[q] = packages[q]
              /\ DOMAIN packages[q].interned \subseteq DOMAIN packages'[q].interned
         /\ packages'[p] = [global |-> packages[p].global, exported |-> packages[p].exported,
                            interned |-> Inserted(packages[p].interned, name, sym)]
         /\ DOMAIN packages'[p].interned = DOMAIN packages[p].interned \cup {name}
         /\ packages'[p].interned[name] = sym
         /\ \A other \in DOMAIN packages[p].interned :
              other # name => packages'[p].interned[other] = packages[p].interned[other]
<1> DEFINE r == packages[p]
           m == Inserted(r.interned, name, sym)
<1>1. /\ DOMAIN m = DOMAIN r.interned \cup {name} /\ m[name] = sym
      /\ \A other \in DOMAIN r.interned : other # name => m[other] = r.interned[other]
  BY DEF Inserted
<1> HIDE DEF m
<1>2. packages' = [packages EXCEPT ![p].interned = m]
  BY DEF Interned, m
<1>3. r = [global |-> r.global, interned |-> r.interned, exported |-> r.exported]
  BY DEF PackagesOK, PackageOK
<1>4. DOMAIN packages' = DOMAIN packages /\ \A q \in DOMAIN packages : q # p => packages'[q] = packages[q]
  BY <1>2
<1>5. packages'[p] = [r EXCEPT !.interned = m]
  BY <1>2
<1> HIDE DEF r
<1>6. [r EXCEPT !.interned = m] = [global |-> r.global, exported |-> r.exported, interned |-> m]
  BY <1>3
<1>7. packages'[p] = [global |-> r.global, exported |-> r.exported, interned |-> m]
  BY <1>5, <1>6
<1>8. /\ packages'[p].interned = m /\ packages'[p].global = r.global
      /\ packages'[p].exported = r.exported
  BY <1>7
<1> QED  BY <1>1, <1>4, <1>7, <1>8 DEF r, m

LEMMA GensymsGrow ==
  ASSUME NEW p \in DOMAIN packages, ObjectsOK(objects, packages), Gensyms(p)
  PROVE  /\ HeapGrows /\ \E k : Allocated(Symbol(p, k))
         /\ \A id \in DOMAIN objects : objects'[id] = objects[id]
         /\ NullLexeme \in DOMAIN packages'[p].interned
         /\ packages'[p].interned[NullLexeme] = Fresh
<1>1. PICK id : /\ Allocates(Symbol(p, id), objects)
                /\ packages' = Interned(p, NullLexeme, Fresh, packages)
  BY DEF Gensyms
<1> DEFINE o == Symbol(p, id)
<1>2. o.kind = "symbol" /\ o.package = p /\ o.lexeme = Null /\ ObjectOK(o, Fresh, objects, packages)
  BY DEF Symbol, ObjectOK, SymbolOK
<1> HIDE DEF o
<1>3. /\ Added(objects', objects, Fresh, o) /\ Fresh \in Nat /\ Fresh \notin DOMAIN objects
      /\ DOMAIN objects' = DOMAIN objects \cup {Fresh} /\ objects'[Fresh] = o
      /\ \A k \in DOMAIN objects : objects'[k] = objects[k]
      /\ Size(objects') = Fresh + 1
  BY <1>1, AllocationAdds DEF ObjectsOK, o
<1>4. Altered(objects, objects, Fresh, o)
  BY NothingAltered
<1>5. Quiet(objects, objects')
  BY <1>3, <1>4, AdditionIsQuiet DEF ObjectsOK
<1>6. /\ DOMAIN packages' = DOMAIN packages
      /\ \A q \in DOMAIN packages :
           /\ packages'[q].global = packages[q].global
           /\ packages'[q].exported = packages[q].exported
           /\ q # p => packages'[q] = packages[q]
           /\ DOMAIN packages[q].interned \subseteq DOMAIN packages'[q].interned
      /\ packages'[p] = [global |-> packages[p].global, exported |-> packages[p].exported,
                         interned |-> Inserted(packages[p].interned, NullLexeme, Fresh)]
      /\ DOMAIN packages'[p].interned = DOMAIN packages[p].interned \cup {NullLexeme}
      /\ packages'[p].interned[NullLexeme] = Fresh
      /\ \A other \in DOMAIN packages[p].interned :
           other # NullLexeme => packages'[p].interned[other] = packages[p].interned[other]
  BY <1>1, InterningGrows DEF ObjectsOK
<1>7. HeapOK(objects', packages')
  <2>1. MorePackages(packages, packages') /\ ObjectOK(o, Fresh, objects, packages')
    BY <1>2, <1>6 DEF MorePackages, ObjectOK, SymbolOK
  <2> QED  BY <1>3, <1>4, <2>1, AdditionKeepsHeap DEF ObjectsOK
<1>8. Grows(objects, objects')
  BY <1>5 DEF Quiet, Steady
<1>9. ASSUME NEW q \in DOMAIN packages  PROVE PackageOK(packages[q], q, objects')
  BY <1>8, PackageStaysOK DEF ObjectsOK, PackagesOK
<1>10. PackageOK(packages'[p], p, objects')
  <2> DEFINE r == packages'[p]
  <2>1. /\ r.global = packages[p].global /\ r.exported = packages[p].exported
        /\ r = [global |-> r.global, interned |-> r.interned, exported |-> r.exported]
    BY <1>6
  <2>2. InternedOK(NullLexeme, Fresh, p, objects')
    BY <1>2, <1>3 DEF InternedOK, Is
  <2>3. \A name \in DOMAIN r.interned : InternedOK(name, r.interned[name], p, objects')
    BY <1>6, <1>9, <2>2 DEF PackageOK
  <2> HIDE DEF r
  <2>4. PackageOK(r, p, objects')
    BY <1>9, <2>1, <2>3 DEF PackageOK
  <2> QED  BY <2>4 DEF r
<1>11. PackagesOK(objects', packages')
  BY <1>6, <1>9, <1>10 DEF PackagesOK
<1>12. NamesOK(objects', packages')
  <2>1. \A k \in DOMAIN objects' \ DOMAIN objects :
          objects'[k].kind = "symbol" => objects'[k].lexeme = Null
    BY <1>2, <1>3
  <2> QED  BY <1>5, <1>6, <2>1, NamesStayOK DEF ObjectsOK, Quiet, Steady
<1>13. FilesMore(packages, packages')
  BY <1>6 DEF FilesMore
<1>14. Fresh = Size(objects)
  BY DEF Fresh, Size
<1>15. Allocated(o)
  BY <1>3, <1>14 DEF Allocated
<1>16. \E k : Allocated(Symbol(p, k))
  BY <1>15 DEF o
<1>17. HeapGrows
  BY <1>3, <1>5, <1>7, <1>11, <1>12, <1>13, <1>14 DEF HeapGrows, ObjectsOK, Quiet
<1> QED  BY <1>3, <1>6, <1>16, <1>17

(* intern_symbol names its symbol: no other symbol of the package has that *)
(* name, since the package would have found it.                            *)
LEMMA NamingGrows ==
  ASSUME NEW p \in DOMAIN packages, NEW name, NEW sym \in DOMAIN objects,
         ObjectsOK(objects, packages), name \notin DOMAIN packages[p].interned,
         objects[sym].kind = "symbol", objects[sym].lexeme = Null, objects[sym].package = p,
         Allocates(Text(name), [objects EXCEPT ![sym].lexeme = Fresh]),
         packages' = Interned(p, name, sym, packages)
  PROVE  /\ HeapGrows /\ Allocated(Text(name))
         /\ \A id \in DOMAIN objects : id # sym => objects'[id] = objects[id]
         /\ packages'[p].interned[name] = sym /\ name \in DOMAIN packages'[p].interned
<1> DEFINE others == [objects EXCEPT ![sym].lexeme = Fresh]
           o == Text(name)
           s == objects[sym]
           t == [s EXCEPT !.lexeme = Fresh]
<1>1. o.kind = "chars" /\ o = [kind |-> "chars", chars |-> o.chars] /\ o.chars = name
  BY DEF Text
<1> HIDE DEF o
<1>2. others = [id \in DOMAIN objects |-> IF id = sym THEN t ELSE objects[id]]
  OBVIOUS
<1>3. SymbolOK(s, objects, packages)
  BY DEF ObjectsOK, HeapOK, ObjectOK
<1>4. s = [kind |-> "symbol", lexeme |-> s.lexeme, package |-> s.package, id |-> s.id]
  BY <1>3 DEF SymbolOK
<1>5. s.kind = "symbol" /\ s.package = p /\ s.lexeme = Null
  OBVIOUS
<1> HIDE DEF s
<1>6. t = [kind |-> "symbol", lexeme |-> Fresh, package |-> p, id |-> s.id]
  BY <1>4, <1>5
<1> HIDE DEF t
<1>7. t.kind = "symbol" /\ t.lexeme = Fresh /\ t.package = p
      /\ t = [kind |-> "symbol", lexeme |-> t.lexeme, package |-> t.package, id |-> t.id]
  BY <1>6
<1>8. /\ Fresh \in Nat /\ Fresh \notin DOMAIN objects
      /\ DOMAIN objects' = DOMAIN objects \cup {Fresh} /\ objects'[Fresh] = o
      /\ \A id \in DOMAIN objects : objects'[id] = others[id]
      /\ Size(objects') = Fresh + 1 /\ Added(objects', others, Fresh, o)
  BY AllocationAdds DEF ObjectsOK, o
<1>9. objects'[sym] = t /\ \A id \in DOMAIN objects : id # sym => objects'[id] = objects[id]
  BY <1>2, <1>8
<1>10. Lasts(s, t) /\ Stays(s, t)
  BY <1>5, <1>7 DEF Lasts, Stays
<1>11. Steady(objects, objects')
  BY <1>8, <1>9, <1>10 DEF Steady, Grows, Lasts, Stays, s
<1>12. Grows(objects, objects')
  BY <1>11 DEF Steady
<1>13. /\ DOMAIN packages' = DOMAIN packages
       /\ \A q \in DOMAIN packages :
            /\ packages'[q].global = packages[q].global
            /\ packages'[q].exported = packages[q].exported
            /\ q # p => packages'[q] = packages[q]
            /\ DOMAIN packages[q].interned \subseteq DOMAIN packages'[q].interned
       /\ packages'[p] = [global |-> packages[p].global, exported |-> packages[p].exported,
                          interned |-> Inserted(packages[p].interned, name, sym)]
       /\ DOMAIN packages'[p].interned = DOMAIN packages[p].interned \cup {name}
       /\ packages'[p].interned[name] = sym
       /\ \A other \in DOMAIN packages[p].interned :
            other # name => packages'[p].interned[other] = packages[p].interned[other]
  BY InterningGrows DEF ObjectsOK
<1>14. MorePackages(packages, packages')
  BY <1>13 DEF MorePackages
<1>15. HeapOK(objects', packages')
  <2>1. \E n \in Nat : DOMAIN objects' = 0 .. n - 1
    <3> DEFINE n == Fresh
    <3>1. DOMAIN objects = 0 .. n - 1 /\ n \in Nat /\ DOMAIN objects' = DOMAIN objects \cup {n}
      BY <1>8, SizeIs DEF Fresh, Size, ObjectsOK
    <3> HIDE DEF n
    <3>2. DOMAIN objects' = 0 .. (n + 1) - 1 /\ n + 1 \in Nat
      BY <3>1
    <3> QED  BY <3>2
  <2>2. Is(Fresh, "chars", objects') /\ ObjectOK(o, Fresh, objects', packages')
    BY <1>1, <1>8 DEF Is, ObjectOK
  <2>3. ObjectOK(t, sym, objects', packages')
    BY <1>7, <1>13, <2>2 DEF ObjectOK, SymbolOK
  <2>4. \A id \in DOMAIN objects : ObjectOK(objects[id], id, objects', packages')
    BY <1>12, <1>14, ObjectStaysOK DEF ObjectsOK, HeapOK
  <2> QED  BY <1>8, <1>9, <2>1, <2>2, <2>3, <2>4 DEF HeapOK
<1>16. ASSUME NEW q \in DOMAIN packages  PROVE PackageOK(packages[q], q, objects')
  BY <1>12, PackageStaysOK DEF ObjectsOK, PackagesOK
<1>17. PackageOK(packages'[p], p, objects')
  <2> DEFINE r == packages'[p]
  <2>1. /\ r.global = packages[p].global /\ r.exported = packages[p].exported
        /\ r = [global |-> r.global, interned |-> r.interned, exported |-> r.exported]
    BY <1>13
  <2>2. InternedOK(name, sym, p, objects')
    <3>1. objects'[sym].lexeme = Fresh /\ objects'[sym].kind = "symbol" /\ objects'[sym].package = p
      BY <1>7, <1>9
    <3>2. Fresh # Null /\ objects'[Fresh].chars = name
      BY <1>1, <1>8 DEF Null
    <3> QED  BY <1>8, <3>1, <3>2 DEF InternedOK, Is
  <2>3. \A other \in DOMAIN r.interned : InternedOK(other, r.interned[other], p, objects')
    BY <1>13, <1>16, <2>2 DEF PackageOK
  <2> HIDE DEF r
  <2>4. PackageOK(r, p, objects')
    BY <1>16, <2>1, <2>3 DEF PackageOK
  <2> QED  BY <2>4 DEF r
<1>18. PackagesOK(objects', packages')
  BY <1>13, <1>16, <1>17 DEF PackagesOK
<1>19. ASSUME NEW id \in DOMAIN objects', HasName(id, objects'), id # sym
       PROVE  /\ id \in DOMAIN objects /\ HasName(id, objects)
              /\ objects'[id] = objects[id] /\ objects[id].package \in DOMAIN packages
              /\ NameOf(id, objects') = NameOf(id, objects)
              /\ KnownTo(id, objects, packages)
  <2>1. id \in DOMAIN objects /\ objects'[id] = objects[id] /\ HasName(id, objects)
    BY <1>1, <1>8, <1>9, <1>19 DEF HasName, Is
  <2>2. SymbolOK(objects[id], objects, packages)
    BY <2>1 DEF HasName, Is, ObjectsOK, HeapOK, ObjectOK
  <2>3. Is(objects[id].lexeme, "chars", objects)
    BY <2>1, <2>2 DEF SymbolOK, HasName
  <2>4. NameOf(id, objects') = NameOf(id, objects)
    BY <1>12, <2>1, <2>3 DEF NameOf, Is, Grows, Lasts
  <2> QED  BY <2>1, <2>2, <2>4 DEF SymbolOK, ObjectsOK, NamesOK
<1>20. /\ NameOf(sym, objects') = name /\ objects'[sym].package = p
  <2>1. objects'[sym].lexeme = Fresh
    BY <1>7, <1>9
  <2> QED  BY <1>1, <1>7, <1>8, <1>9, <2>1 DEF NameOf
<1>21. ASSUME NEW id \in DOMAIN objects', HasName(id, objects'), id # sym
       PROVE  ~SameName(id, sym, objects')
  <2>1. KnownTo(id, objects, packages) /\ NameOf(id, objects') = NameOf(id, objects)
        /\ objects'[id] = objects[id]
    BY <1>19, <1>21
  <2> QED  BY <1>20, <2>1 DEF KnownTo, SameName
<1>22. NamesOK(objects', packages')
  <2>1. ASSUME NEW id \in DOMAIN objects', HasName(id, objects')  PROVE KnownTo(id, objects', packages')
    <3>1. CASE id = sym
      BY <1>13, <1>20, <3>1 DEF KnownTo
    <3>2. CASE id # sym
      BY <1>13, <1>19, <2>1, <3>2 DEF KnownTo
    <3> QED  BY <3>1, <3>2
  <2>2. ASSUME NEW i \in DOMAIN objects', NEW j \in DOMAIN objects',
               HasName(i, objects'), HasName(j, objects'), SameName(i, j, objects')
        PROVE  i = j
    <3>1. CASE i = sym
      <4>1. SameName(j, sym, objects')
        BY <2>2, <3>1 DEF SameName
      <4> QED  BY <1>21, <2>2, <3>1, <4>1
    <3>2. CASE j = sym
      BY <1>21, <2>2, <3>2
    <3>3. CASE i # sym /\ j # sym
      BY <1>19, <2>2, <3>3 DEF SameName, ObjectsOK, NamesOK
    <3> QED  BY <3>1, <3>2, <3>3
  <2> QED  BY <2>1, <2>2 DEF NamesOK
<1>23. FilesMore(packages, packages')
  BY <1>13 DEF FilesMore
<1>24. Fresh = Size(objects)
  BY DEF Fresh, Size
<1> QED  BY <1>8, <1>9, <1>11, <1>13, <1>15, <1>18, <1>22, <1>23, <1>24
          DEF HeapGrows, Allocated, ObjectsOK, o

----------------------------------------------------------------------------
(* Activations                                                             *)

Steps   == Len(InitializeRuntime)
Readers == {"READ", "(", "\"", "'", "REPL"}

BootOK(act) ==
  act = [fn |-> act.fn, pc |-> act.pc, held |-> act.held] /\ act.pc \in 1 .. Steps + 1

(* The symbol that is being made has no name, and nobody else can intern   *)
(* one of that name meanwhile.                                             *)
InternOK(act, all, packs) ==
  /\ act = [fn |-> act.fn, pc |-> act.pc, package |-> act.package, name |-> act.name,
            held |-> act.held]
  /\ act.package \in DOMAIN packs
  /\ act.pc = "name" =>
       /\ act.name \notin DOMAIN packs[act.package].interned
       /\ \E s \in DOMAIN all :
            /\ act.held = {s} /\ all[s].kind = "symbol"
            /\ all[s].lexeme = Null /\ all[s].package = act.package

CallOK(act) ==
  /\ act = [fn |-> act.fn, pc |-> act.pc, fn_index |-> act.fn_index,
            arg_count |-> act.arg_count, arg_i |-> act.arg_i, held |-> act.held]
  /\ act.fn_index \in Nat /\ act.arg_count \in 0 .. 2 /\ act.arg_i \in 0 .. act.arg_count
  /\ act.pc = "begin" => act.arg_i = 0

ReadOK(act, all) ==
  /\ act = [fn |-> act.fn, pc |-> act.pc, file |-> act.file, stream |-> act.stream,
            token |-> act.token, escaped |-> act.escaped, held |-> act.held]
  /\ act.pc \notin {"gensym", "stream"} => act.stream \in DOMAIN all

OpenParenOK(act, all) ==
  /\ act = [fn |-> act.fn, pc |-> act.pc, file |-> act.file, depth |-> act.depth,
            chars |-> act.chars, temp |-> act.temp, stream |-> act.stream,
            last |-> act.last, cons |-> act.cons, held |-> act.held]
  /\ act.pc \notin {"scan", "gensym", "stream"} => act.stream \in DOMAIN all

DoubleQuoteOK(act) ==
  act = [fn |-> act.fn, pc |-> act.pc, file |-> act.file, chars |-> act.chars,
         escaped |-> act.escaped, held |-> act.held]

SingleQuoteOK(act, all) ==
  /\ act = [fn |-> act.fn, pc |-> act.pc, stream |-> act.stream, held |-> act.held]
  /\ FormOK(act.stream, all)
  /\ act.pc = "quote" => act.held # {}

ReplOK(act, all) ==
  /\ act = [fn |-> act.fn, pc |-> act.pc, string |-> act.string, held |-> act.held]
  /\ act.pc = "chars" => Is(act.string, "string", all)

ActOK(act, all, packs) ==
  /\ act.fn \in {"initialize_runtime", "intern_symbol", "call"} \cup Readers
  /\ act.held \subseteq DOMAIN all
  /\ act.fn = "initialize_runtime" => BootOK(act)
  /\ act.fn = "intern_symbol" => InternOK(act, all, packs)
  /\ act.fn = "call" => CallOK(act)
  /\ act.fn = "READ" => ReadOK(act, all)
  /\ act.fn = "(" => OpenParenOK(act, all)
  /\ act.fn = "\"" => DoubleQuoteOK(act)
  /\ act.fn = "'" => SingleQuoteOK(act, all)
  /\ act.fn = "REPL" => ReplOK(act, all)

(* Who waits for whom, and where.                                          *)
Waits(act, callee) ==
  /\ callee.fn # "initialize_runtime"
  /\ callee.fn = "intern_symbol" =>
       \/ act.fn = "initialize_runtime"
       \/ act.fn = "READ" /\ act.pc = "interned"
       \/ act.fn = "'" /\ act.pc = "read"
  /\ callee.fn = "call" =>
       \/ act.fn = "initialize_runtime" /\ act.pc = Steps + 1
       \/ act.fn = "READ" /\ act.pc = "macro"
       \/ act.fn = "(" /\ act.pc = "link"
       \/ act.fn = "'" /\ act.pc = "quote"
       \/ act.fn = "REPL" /\ act.pc = "read"
  /\ callee.fn \in Readers => act.fn = "call" /\ act.pc = "return"

ActsOK(xs, all, packs) ==
  /\ IsSeq(xs) /\ 1 <= Len(xs) /\ xs[1].fn = "initialize_runtime"
  /\ \A i \in 1 .. Len(xs) : ActOK(xs[i], all, packs)
  /\ \A i \in 1 .. Len(xs) - 1 : Waits(xs[i], xs[i + 1])

----------------------------------------------------------------------------
(* The start                                                               *)

Bound(p, name, all, packs) ==
  /\ p \in DOMAIN packs /\ Chars(name) \in DOMAIN packs[p].interned
  /\ LET functions == all[packs[p].global].functions
         sym       == packs[p].interned[Chars(name)]
     IN  /\ sym \in DOMAIN functions /\ functions[sym] \in DOMAIN all
         /\ all[functions[sym]] = Inherent(name)

(* What was done before instruction pc.                                    *)
Done(pc, all, packs) ==
  /\ DOMAIN packs = {InitializeRuntime[j].of : j \in {k \in 1 .. pc - 1 : Does(k, "package")}}
  /\ pc # 1 => Is(SystemReadtable, "readtable", all)
  /\ pc = 1 => DOMAIN all = {}
  /\ \A j \in 1 .. pc - 1 :
       Does(j, "bind function") =>
         Bound(InitializeRuntime[j].of, InitializeRuntime[j].name, all, packs)
  /\ Steps - 2 < pc =>
       LET macros == all[SystemReadtable].macros
       IN  \A c \in MacroCharacters : c \in DOMAIN macros /\ macros[c] \in DOMAIN all

(* The function that is to be bound is held, ...                           *)
Holds(act, all) ==
  \A j \in {act.pc, act.pc + 1} : Does(j, "bind function") =>
    \E f \in DOMAIN all : act.held = {f} /\ all[f] = Inherent(InitializeRuntime[j].name)

(* ... and its symbol the last that was interned.                          *)
InternsFor(act, callee) ==
  callee.fn = "intern_symbol" =>
    /\ Does(act.pc - 1, "intern")
    /\ callee.package = InitializeRuntime[act.pc - 1].of
    /\ callee.name = Chars(InitializeRuntime[act.pc - 1].name)

InternedFor(act, packs, val) ==
  Does(act.pc, "bind function") =>
    LET p    == InitializeRuntime[act.pc].of
        name == Chars(InitializeRuntime[act.pc].name)
    IN  name \in DOMAIN packs[p].interned /\ val = Object(packs[p].interned[name])

StartOK(xs, all, packs, val) ==
  /\ Done(xs[1].pc, all, packs) /\ Holds(xs[1], all)
  /\ Len(xs) = 1 => InternedFor(xs[1], packs, val)
  /\ Len(xs) = 2 => InternsFor(xs[1], xs[2])

----------------------------------------------------------------------------
(* The stacks                                                              *)

(* The list of the arguments that a call has evaluated, k of them: its     *)
(* conses are there since the call began.                                  *)
Evaluated(form, k, lo, hi, all) ==
  /\ k = 0 => form = Nil
  /\ k = 1 => \E h \in DOMAIN all :
       form = Object(h) /\ lo <= h /\ h < hi /\ all[h].kind = "cons" /\ all[h].cdr = Nil
  /\ k = 2 => \E h, t \in DOMAIN all :
       /\ form = Object(h) /\ h < hi /\ all[h].kind = "cons" /\ all[h].cdr = Object(t)
       /\ t < hi /\ all[t].kind = "cons" /\ all[t].cdr = Nil

(* A function that expects arguments gets them.                            *)
Suits(form, count, all) ==
  \E id \in DOMAIN all :
    form = Object(id) /\ (count > 0 \/ all[id] = Inherent("READ") \/ all[id] = Inherent("REPL"))

(* An activation begins at the levels lo of the form stack and the frames, *)
(* and at the object lo.conses; it has come to the levels hi.              *)
Levels == [forms : Nat, frames : Nat, conses : Nat]

CallLaid(act, lo, hi, forms, all) ==
  /\ act.fn_index = lo.forms /\ Suits(forms[lo.forms + 1], act.arg_count, all)
  /\ act.pc = "begin" => hi.forms = lo.forms + act.arg_count + 1 /\ hi.frames = lo.frames
  /\ act.pc # "begin" =>
       /\ hi.forms = lo.forms + act.arg_count + 2 /\ hi.frames = lo.frames + 1
       /\ Evaluated(forms[hi.forms], act.arg_i, lo.conses, hi.conses, all)

OpenParenLaid(act, lo, hi) ==
  /\ act.last = NoBuffer => hi.forms = lo.forms
  /\ act.last # NoBuffer =>
       /\ hi.forms = lo.forms + 1
       /\ act.cons \in Nat /\ lo.conses <= act.cons /\ act.cons < hi.conses

DoubleQuoteLaid(act, lo, hi, forms, all) ==
  /\ act.pc # "chars" => hi.forms = lo.forms
  /\ act.pc = "chars" =>
       /\ hi.forms = lo.forms + 1
       /\ \E s \in DOMAIN all : forms[hi.forms] = Object(s) /\ all[s].kind = "string"

SingleQuoteLaid(act, lo, hi, forms, all) ==
  /\ act.pc # "form" => hi.forms = lo.forms
  /\ act.pc = "form" =>
       /\ hi.forms = lo.forms + 1
       /\ \E q \in DOMAIN all : forms[hi.forms] = Object(q) /\ lo.conses <= q

ActLaid(act, lo, hi, forms, all) ==
  /\ act.fn = "initialize_runtime" =>
       hi.forms = lo.forms /\ lo.frames = 0 /\ hi.frames = IF act.pc < Steps THEN 0 ELSE 1
  /\ act.fn = "intern_symbol" => hi.forms = lo.forms /\ hi.frames = lo.frames
  /\ act.fn = "call" => CallLaid(act, lo, hi, forms, all) /\ 1 <= lo.frames
  /\ act.fn \in Readers => hi.frames = lo.frames /\ 1 <= lo.frames
  /\ act.fn \in {"READ", "REPL"} => hi.forms = lo.forms
  /\ act.fn = "(" => OpenParenLaid(act, lo, hi)
  /\ act.fn = "\"" => DoubleQuoteLaid(act, lo, hi, forms, all)
  /\ act.fn = "'" => SingleQuoteLaid(act, lo, hi, forms, all)

Laid(b, xs, forms, depth, all) ==
  LET n == Len(xs)
  IN  /\ b \in [0 .. n -> Levels] /\ b[0].forms = 0 /\ b[0].frames = 0
      /\ b[n].forms = Len(forms) /\ b[n].frames = depth /\ b[n].conses <= Size(all)
      /\ \A i \in 1 .. n : ActLaid(xs[i], b[i - 1], b[i], forms, all)
      /\ \A i, j \in 0 .. n : i <= j => b[i].forms <= b[j].forms /\ b[i].conses <= b[j].conses

FormsOK(forms, cap, all) ==
  /\ IsSeq(forms) /\ \A i \in 1 .. Len(forms) : FormOK(forms[i], all)
  /\ cap \in Nat /\ Len(forms) <= cap

FramesOK(envs, cap, lasts, all) ==
  /\ IsSeq(envs) /\ \A i \in 1 .. Len(envs) : Is(envs[i], "environment", all)
  /\ cap \in Nat /\ Len(envs) <= cap
  /\ IsSeq(lasts) /\ Len(lasts) = Len(envs)

(* QUOTE is what intern_symbol has returned.                               *)
ValueOK(val, xs, all) ==
  /\ FormOK(val, all)
  /\ xs[Len(xs)].fn = "'" /\ xs[Len(xs)].pc = "read" => \E id \in DOMAIN all : val = Object(id)

Inv ==
  /\ ended \in {"running", "end of input", "quit", "aborted", "looping", "undefined"}
  /\ ObjectsOK(objects, packages)
  /\ ActsOK(acts, objects, packages)
  /\ StartOK(acts, objects, packages, value)
  /\ \E b : Laid(b, acts, form_stack, Len(frame_stack), objects)
  /\ FormsOK(form_stack, form_cap, objects)
  /\ FramesOK(frame_stack, frame_cap, last_return_value, objects)
  /\ ValueOK(value, acts, objects)

----------------------------------------------------------------------------
(* What a step leaves of the activations below the running one             *)

LEMMA ActStaysOK ==
  ASSUME NEW act, NEW all, NEW new, NEW packs, NEW packs2, ActOK(act, all, packs),
         act.fn # "intern_symbol", Grows(all, new), MorePackages(packs, packs2)
  PROVE  ActOK(act, new, packs2)
<1>1. DOMAIN all \subseteq DOMAIN new /\ \A k, kind : Is(k, kind, all) => Is(k, kind, new)
  BY DEF Is, Grows, Lasts
<1>2. act.fn = "READ" => ReadOK(act, new)
  BY <1>1 DEF ActOK, ReadOK
<1>3. act.fn = "(" => OpenParenOK(act, new)
  BY <1>1 DEF ActOK, OpenParenOK
<1>4. act.fn = "'" => SingleQuoteOK(act, new)
  BY <1>1 DEF ActOK, SingleQuoteOK, FormOK
<1>5. act.fn = "REPL" => ReplOK(act, new)
  BY <1>1 DEF ActOK, ReplOK
<1> QED  BY <1>1, <1>2, <1>3, <1>4, <1>5 DEF ActOK

(* Two form stacks agree up to a level.                                    *)
Agree(forms, forms2, level) == \A i \in 1 .. level : forms2[i] = forms[i]

LEMMA EvaluatedStays ==
  ASSUME NEW form, NEW k, NEW lo, NEW hi, NEW all, NEW new, Grows(all, new),
         Settled(all, new, hi), Evaluated(form, k, lo, hi, all)
  PROVE  Evaluated(form, k, lo, hi, new)
<1>1. \A id \in DOMAIN all : id \in DOMAIN new /\ (all[id].kind = "cons" /\ id < hi => new[id] = all[id])
  BY DEF Grows, Settled
<1> QED  BY <1>1 DEF Evaluated

LEMMA SuitsStays ==
  ASSUME NEW form, NEW count, NEW all, NEW new, Grows(all, new), Suits(form, count, all)
  PROVE  Suits(form, count, new)
<1>1. PICK id \in DOMAIN all :
        /\ form = Object(id)
        /\ count > 0 \/ all[id] = Inherent("READ") \/ all[id] = Inherent("REPL")
  BY DEF Suits
<1>2. all[id] = Inherent("READ") \/ all[id] = Inherent("REPL") => all[id].kind = "function"
  BY DEF Inherent
<1>3. id \in DOMAIN new /\ (all[id].kind = "function" => new[id] = all[id])
  BY DEF Grows, Lasts
<1> QED  BY <1>1, <1>2, <1>3 DEF Suits

LEMMA ActStaysLaid ==
  ASSUME NEW act, NEW lo \in Levels, NEW hi \in Levels, NEW forms, NEW forms2, NEW all, NEW new,
         ActLaid(act, lo, hi, forms, all), lo.forms <= hi.forms, Agree(forms, forms2, hi.forms),
         act.fn = "call" => CallOK(act),
         Grows(all, new), Settled(all, new, hi.conses)
  PROVE  ActLaid(act, lo, hi, forms2, new)
<1>1. lo.forms \in Nat /\ hi.forms \in Nat
  BY DEF Levels
<1>2. ASSUME act.fn = "call"  PROVE CallLaid(act, lo, hi, forms2, new)
  <2>1. CallLaid(act, lo, hi, forms, all) /\ CallOK(act)
    BY <1>2 DEF ActLaid
  <2>2. lo.forms + 1 \in 1 .. hi.forms /\ hi.forms \in 1 .. hi.forms
    BY <1>1, <2>1 DEF CallLaid, CallOK
  <2>3. forms2[lo.forms + 1] = forms[lo.forms + 1] /\ forms2[hi.forms] = forms[hi.forms]
    BY <2>2 DEF Agree
  <2>4. Suits(forms2[lo.forms + 1], act.arg_count, new)
    BY <2>1, <2>3, SuitsStays DEF CallLaid
  <2>5. act.pc # "begin" => Evaluated(forms2[hi.forms], act.arg_i, lo.conses, hi.conses, new)
    BY <2>1, <2>3, EvaluatedStays DEF CallLaid
  <2> QED  BY <2>1, <2>4, <2>5 DEF CallLaid
<1>3. ASSUME act.fn = "\""  PROVE DoubleQuoteLaid(act, lo, hi, forms2, new)
  <2>1. DoubleQuoteLaid(act, lo, hi, forms, all)
    BY <1>3 DEF ActLaid
  <2>2. ASSUME act.pc = "chars"
        PROVE  \E s \in DOMAIN new : forms2[hi.forms] = Object(s) /\ new[s].kind = "string"
    <3>1. PICK s \in DOMAIN all : forms[hi.forms] = Object(s) /\ all[s].kind = "string"
      BY <2>1, <2>2 DEF DoubleQuoteLaid
    <3>2. hi.forms \in 1 .. hi.forms
      BY <1>1, <2>1, <2>2 DEF DoubleQuoteLaid
    <3>3. s \in DOMAIN new /\ new[s].kind = "string" /\ forms2[hi.forms] = forms[hi.forms]
      BY <3>1, <3>2 DEF Grows, Lasts, Agree
    <3> QED  BY <3>1, <3>3
  <2> QED  BY <2>1, <2>2 DEF DoubleQuoteLaid
<1>4. ASSUME act.fn = "'"  PROVE SingleQuoteLaid(act, lo, hi, forms2, new)
  <2>1. SingleQuoteLaid(act, lo, hi, forms, all)
    BY <1>4 DEF ActLaid
  <2>2. ASSUME act.pc = "form"
        PROVE  \E q \in DOMAIN new : forms2[hi.forms] = Object(q) /\ lo.conses <= q
    <3>1. PICK q \in DOMAIN all : forms[hi.forms] = Object(q) /\ lo.conses <= q
      BY <2>1, <2>2 DEF SingleQuoteLaid
    <3>2. hi.forms \in 1 .. hi.forms
      BY <1>1, <2>1, <2>2 DEF SingleQuoteLaid
    <3>3. q \in DOMAIN new /\ forms2[hi.forms] = forms[hi.forms]
      BY <3>1, <3>2 DEF Grows, Agree
    <3> QED  BY <3>1, <3>3
  <2> QED  BY <2>1, <2>2 DEF SingleQuoteLaid
<1> QED  BY <1>2, <1>3, <1>4 DEF ActLaid

LEMMA SettledBelow ==
  ASSUME NEW packs, HeapOK(objects, packs), NEW new, NEW below \in Nat, NEW less \in Nat, less <= below,
         Settled(objects, new, below)
  PROVE  Settled(objects, new, less)
<1>1. \A id \in DOMAIN objects : id \in Nat /\ (id < less => id < below)
  BY SizeIs
<1> QED  BY <1>1 DEF Settled

LEMMA LowerStay ==
  ASSUME HeapOK(objects, packages), ActsOK(acts, objects, packages), NEW b,
         Laid(b, acts, form_stack, Len(frame_stack), objects),
         NEW new, NEW packs2, NEW forms2, Grows(objects, new), MorePackages(packages, packs2),
         Settled(objects, new, b[Len(acts) - 1].conses),
         Agree(form_stack, forms2, b[Len(acts) - 1].forms)
  PROVE  \A i \in 1 .. Len(acts) - 1 :
           ActOK(acts[i], new, packs2) /\ ActLaid(acts[i], b[i - 1], b[i], forms2, new)
<1> SUFFICES ASSUME NEW i \in 1 .. Len(acts) - 1
             PROVE  ActOK(acts[i], new, packs2) /\ ActLaid(acts[i], b[i - 1], b[i], forms2, new)
  OBVIOUS
<1> DEFINE n == Len(acts)
<1>1. n \in Nat /\ i \in 1 .. n /\ i + 1 \in 1 .. n /\ i - 1 \in 0 .. n /\ i \in 0 .. n /\ n - 1 \in 0 .. n
      /\ i <= n - 1 /\ i - 1 <= i
  BY SeqIs DEF ActsOK
<1>2. ActOK(acts[i], objects, packages) /\ Waits(acts[i], acts[i + 1])
      /\ ActOK(acts[i + 1], objects, packages)
  BY <1>1 DEF ActsOK
<1>3. acts[i].fn # "intern_symbol"
  BY <1>2 DEF Waits, ActOK, Readers
<1>4. ActOK(acts[i], new, packs2)
  BY <1>2, <1>3, ActStaysOK
<1>5. /\ b[i - 1] \in Levels /\ b[i] \in Levels /\ b[n - 1] \in Levels
      /\ b[i - 1].forms <= b[i].forms /\ b[i].forms <= b[n - 1].forms
      /\ b[i].conses <= b[n - 1].conses
      /\ ActLaid(acts[i], b[i - 1], b[i], form_stack, objects)
  BY <1>1 DEF Laid
<1>6. /\ b[i].forms \in Nat /\ b[n - 1].forms \in Nat
      /\ b[i].conses \in Nat /\ b[n - 1].conses \in Nat
  BY <1>5 DEF Levels
<1>7. Agree(form_stack, forms2, b[i].forms)
  <2>1. \A k \in 1 .. b[i].forms : k \in 1 .. b[n - 1].forms
    BY <1>5, <1>6
  <2> QED  BY <2>1 DEF Agree
<1>8. Settled(objects, new, b[i].conses)
  BY <1>5, <1>6, SettledBelow
<1> QED  BY <1>2, <1>4, <1>5, <1>7, <1>8, ActStaysLaid DEF ActOK

(* What a step keeps below the running activation, and how it leaves that  *)
(* one and the one it calls.                                               *)
KeepsLower(b) ==
  /\ HeapGrows /\ Settled(objects, objects', b[Len(acts) - 1].conses)
  /\ Agree(form_stack, form_stack', b[Len(acts) - 1].forms)

(* A step leaves what is below the running activation as it is.            *)
Undisturbed ==
  \E b : Laid(b, acts, form_stack, Len(frame_stack), objects) /\ KeepsLower(b)

LaysOut(act, lo, hi) ==
  /\ lo \in Levels /\ hi \in Levels /\ lo.forms <= hi.forms /\ lo.conses <= hi.conses
  /\ ActOK(act, objects', packages') /\ ActLaid(act, lo, hi, form_stack', objects')

EndsAt(hi) ==
  /\ hi.forms = Len(form_stack') /\ hi.frames = Len(frame_stack')
  /\ hi.conses <= Size(objects')

(* The running activation goes on as act.                                  *)
LEMMA ReplacedLaid ==
  ASSUME Inv, NEW b, Laid(b, acts, form_stack, Len(frame_stack), objects), KeepsLower(b),
         NEW act, act.fn = Top.fn, acts' = Append(Below, act),
         NEW hi, LaysOut(act, b[Len(acts) - 1], hi), EndsAt(hi)
  PROVE  /\ ActsOK(acts', objects', packages')
         /\ \E c : Laid(c, acts', form_stack', Len(frame_stack'), objects')
         /\ Len(acts') = Len(acts) /\ acts'[Len(acts)] = act
         /\ \A i \in 1 .. Len(acts) - 1 : acts'[i] = acts[i]
<1> DEFINE n == Len(acts)
           c == [i \in 0 .. n |-> IF i = n THEN hi ELSE b[i]]
           new == acts'
<1>1. n \in Nat /\ 1 <= n /\ IsSeq(acts) /\ Top = acts[n]
  BY SeqIs DEF Inv, ActsOK, Top, Last
<1>2. IsSeq(Below) /\ Len(Below) = n - 1 /\ \A i \in 1 .. n - 1 : Below[i] = acts[i]
  BY <1>1, FrontIs DEF Below
<1>3. /\ IsSeq(new) /\ Len(new) = n /\ new[n] = act
      /\ \A i \in 1 .. n - 1 : new[i] = acts[i]
  <2>1. IsSeq(new) /\ Len(new) = n - 1 + 1 /\ new[n - 1 + 1] = act
        /\ \A i \in 1 .. n - 1 : new[i] = Below[i]
    BY <1>2, AppendIs
  <2> QED  BY <1>1, <1>2, <2>1
<1> HIDE DEF new
<1>4. \A i \in 1 .. n - 1 : /\ ActOK(acts[i], objects', packages')
                            /\ ActLaid(acts[i], b[i - 1], b[i], form_stack', objects')
  <2>1. Grows(objects, objects') /\ MorePackages(packages, packages')
    BY DEF KeepsLower, HeapGrows, Steady, FilesMore, MorePackages
  <2> QED  BY <2>1, LowerStay DEF Inv, ObjectsOK, KeepsLower
<1>5. ActsOK(new, objects', packages')
  <2>1. new[1].fn = "initialize_runtime"
    <3>1. acts[1].fn = "initialize_runtime"
      BY DEF Inv, ActsOK
    <3>2. CASE n = 1
      BY <1>1, <1>3, <3>1, <3>2
    <3>3. CASE n # 1
      <4> HIDE DEF n
      <4>1. 1 <= n - 1 /\ n - 1 \in Nat
        BY <1>1, <3>3
      <4> QED  BY <1>3, <3>1, <4>1
    <3> QED  BY <3>2, <3>3
  <2>2. \A i \in 1 .. n : ActOK(new[i], objects', packages')
    BY <1>1, <1>3, <1>4 DEF LaysOut
  <2>3. \A i \in 1 .. n - 1 : Waits(new[i], new[i + 1])
    <3> SUFFICES ASSUME NEW i \in 1 .. n - 1  PROVE Waits(new[i], new[i + 1])
      OBVIOUS
    <3>1. Waits(acts[i], acts[i + 1])
      BY DEF Inv, ActsOK
    <3>2. CASE i + 1 = n
      BY <1>1, <1>3, <3>1, <3>2 DEF Waits
    <3>3. CASE i + 1 # n
      <4>1. i + 1 \in 1 .. n - 1
        BY <1>1, <3>3
      <4> QED  BY <1>3, <3>1, <4>1
    <3> QED  BY <3>2, <3>3
  <2> QED  BY <1>1, <1>3, <2>1, <2>2, <2>3 DEF ActsOK
<1>6. Laid(c, new, form_stack', Len(frame_stack'), objects')
  <2>1. /\ b \in [0 .. n -> Levels] /\ b[0].forms = 0 /\ b[0].frames = 0
        /\ \A i, j \in 0 .. n : i <= j => b[i].forms <= b[j].forms /\ b[i].conses <= b[j].conses
    BY DEF Laid
  <2>2. /\ c \in [0 .. n -> Levels] /\ c[n] = hi /\ c[0] = b[0]
        /\ \A i \in 0 .. n - 1 : c[i] = b[i]
    BY <1>1, <2>1 DEF LaysOut
  <2> HIDE DEF c
  <2>3. \A i \in 1 .. n : ActLaid(new[i], c[i - 1], c[i], form_stack', objects')
    <3> SUFFICES ASSUME NEW i \in 1 .. n
                 PROVE  ActLaid(new[i], c[i - 1], c[i], form_stack', objects')
      OBVIOUS
    <3>1. i - 1 \in 0 .. n - 1
      BY <1>1
    <3>2. CASE i = n
      BY <1>3, <2>2, <3>1, <3>2 DEF LaysOut
    <3>3. CASE i # n
      <4>1. i \in 1 .. n - 1 /\ i \in 0 .. n - 1
        BY <1>1, <3>3
      <4> QED  BY <1>3, <1>4, <2>2, <3>1, <4>1
    <3> QED  BY <3>2, <3>3
  <2>4. ASSUME NEW i \in 0 .. n, NEW j \in 0 .. n, i <= j
        PROVE  c[i].forms <= c[j].forms /\ c[i].conses <= c[j].conses
    <3>1. CASE i = n
      <4>1. j = n
        BY <1>1, <2>4, <3>1
      <4>2. hi.forms \in Nat /\ hi.conses \in Nat
        BY DEF LaysOut, Levels
      <4> QED  BY <2>2, <3>1, <4>1, <4>2
    <3>2. CASE i # n /\ j = n
      <4>1. i \in 0 .. n - 1 /\ n - 1 \in 0 .. n /\ i <= n - 1
        BY <1>1, <3>2
      <4>2. b[i].forms <= b[n - 1].forms /\ b[i].conses <= b[n - 1].conses /\ b[i] \in Levels
        BY <2>1, <4>1
      <4>3. /\ b[n - 1].forms <= hi.forms /\ b[n - 1].conses <= hi.conses
            /\ b[n - 1] \in Levels /\ hi \in Levels
        BY DEF LaysOut
      <4>4. /\ b[i].forms \in Nat /\ b[n - 1].forms \in Nat /\ hi.forms \in Nat
            /\ b[i].conses \in Nat /\ b[n - 1].conses \in Nat /\ hi.conses \in Nat
        BY <4>2, <4>3 DEF Levels
      <4>5. b[i].forms <= hi.forms /\ b[i].conses <= hi.conses
        <5>1. \A x, y, z \in Nat : x <= y /\ y <= z => x <= z
          OBVIOUS
        <5>2. b[i].forms <= hi.forms
          BY <4>2, <4>3, <4>4, <5>1
        <5> QED  BY <4>2, <4>3, <4>4, <5>1, <5>2
      <4> QED  BY <2>2, <3>2, <4>1, <4>5
    <3>3. CASE i # n /\ j # n
      <4>1. i \in 0 .. n - 1 /\ j \in 0 .. n - 1
        BY <1>1, <3>3
      <4> QED  BY <2>1, <2>2, <2>4, <4>1
    <3> QED  BY <3>1, <3>2, <3>3
  <2> QED  BY <1>3, <2>1, <2>2, <2>3, <2>4 DEF Laid, EndsAt
<1> QED  BY <1>3, <1>5, <1>6 DEF new

(* Levels that rise, with one more on top of the first k.                  *)
Rising(b, n) ==
  /\ b \in [0 .. n -> Levels]
  /\ \A i, j \in 0 .. n : i <= j => b[i].forms <= b[j].forms /\ b[i].conses <= b[j].conses

LEMMA RisesOn ==
  ASSUME NEW n \in Nat, NEW k \in 0 .. n, NEW b, Rising(b, n), NEW hi \in Levels,
         b[k].forms <= hi.forms, b[k].conses <= hi.conses
  PROVE  Rising([i \in 0 .. k + 1 |-> IF i = k + 1 THEN hi ELSE b[i]], k + 1)
<1> DEFINE c == [i \in 0 .. k + 1 |-> IF i = k + 1 THEN hi ELSE b[i]]
<1>1. k \in Nat /\ \A i \in 0 .. k + 1 : i = k + 1 \/ (i \in 0 .. n /\ i <= k /\ i \in 0 .. k)
  OBVIOUS
<1>2. c \in [0 .. k + 1 -> Levels]
  BY <1>1 DEF Rising
<1>3. /\ c[k + 1] = hi /\ \A i \in 0 .. k + 1 : i # k + 1 => c[i] = b[i]
  BY <1>1
<1> HIDE DEF c
<1>4. ASSUME NEW i \in 0 .. k + 1, NEW j \in 0 .. k + 1, i <= j
      PROVE  c[i].forms <= c[j].forms /\ c[i].conses <= c[j].conses
  <2>1. CASE i = k + 1
    <3>1. j = k + 1
      BY <1>1, <1>4, <2>1
    <3>2. hi.forms \in Nat /\ hi.conses \in Nat
      BY DEF Levels
    <3> QED  BY <1>3, <2>1, <3>1, <3>2
  <2>2. CASE i # k + 1 /\ j = k + 1
    <3>1. b[i].forms <= b[k].forms /\ b[i].conses <= b[k].conses /\ b[i] \in Levels /\ b[k] \in Levels
      BY <1>1, <2>2 DEF Rising
    <3>2. /\ b[i].forms \in Nat /\ b[k].forms \in Nat /\ hi.forms \in Nat
          /\ b[i].conses \in Nat /\ b[k].conses \in Nat /\ hi.conses \in Nat
      BY <3>1 DEF Levels
    <3>3. b[i].forms <= hi.forms /\ b[i].conses <= hi.conses
      BY <3>1, <3>2
    <3> QED  BY <1>3, <2>2, <3>3
  <2>3. CASE i # k + 1 /\ j # k + 1
    BY <1>1, <1>3, <1>4, <2>3 DEF Rising
  <2> QED  BY <2>1, <2>2, <2>3
<1> QED  BY <1>2, <1>4 DEF Rising, c

(* The running activation waits as act for callee.                         *)
LEMMA CalledLaid ==
  ASSUME Inv, NEW b, Laid(b, acts, form_stack, Len(frame_stack), objects), KeepsLower(b),
         NEW act, NEW callee, act.fn = Top.fn, Waits(act, callee), acts' = Below \o <<act, callee>>,
         NEW mid, LaysOut(act, b[Len(acts) - 1], mid),
         NEW hi, LaysOut(callee, mid, hi), EndsAt(hi)
  PROVE  /\ ActsOK(acts', objects', packages')
         /\ \E c : Laid(c, acts', form_stack', Len(frame_stack'), objects')
         /\ Len(acts') = Len(acts) + 1 /\ acts'[Len(acts)] = act /\ acts'[Len(acts) + 1] = callee
         /\ \A i \in 1 .. Len(acts) - 1 : acts'[i] = acts[i]
<1> DEFINE n == Len(acts)
           k == n - 1
           d == [i \in 0 .. k + 1 |-> IF i = k + 1 THEN mid ELSE b[i]]
           c == [i \in 0 .. n + 1 |-> IF i = n + 1 THEN hi ELSE d[i]]
           new == acts'
<1>1. n \in Nat /\ 1 <= n /\ IsSeq(acts) /\ Top = acts[n]
  BY SeqIs DEF Inv, ActsOK, Top, Last
<1>2. IsSeq(Below) /\ Len(Below) = n - 1 /\ \A i \in 1 .. n - 1 : Below[i] = acts[i]
  BY <1>1, FrontIs DEF Below
<1>3. /\ IsSeq(new) /\ Len(new) = n + 1 /\ new[n] = act /\ new[n + 1] = callee
      /\ \A i \in 1 .. n - 1 : new[i] = acts[i]
  <2> DEFINE pair == <<act, callee>>
  <2>1. IsSeq(pair) /\ Len(pair) = 2 /\ pair[1] = act /\ pair[2] = callee
    BY PairIs
  <2> HIDE DEF pair
  <2>2. IsSeq(Below \o pair) /\ Len(Below \o pair) = Len(Below) + Len(pair)
        /\ \A i \in 1 .. Len(Below) + Len(pair) :
             (Below \o pair)[i] = IF i <= Len(Below) THEN Below[i] ELSE pair[i - Len(Below)]
    BY <1>2, <2>1, ConcatIs
  <2>3. new = Below \o pair
    BY DEF pair
  <2> HIDE DEF new, n
  <2>4. IsSeq(new) /\ Len(new) = n + 1 /\ Len(Below) + Len(pair) = n + 1 /\ Len(Below) = n - 1
    BY <1>1, <1>2, <2>1, <2>2, <2>3
  <2>5. \A i \in 1 .. n + 1 : new[i] = IF i <= n - 1 THEN Below[i] ELSE pair[i - (n - 1)]
    BY <2>2, <2>3, <2>4
  <2>6. \A i \in 1 .. n - 1 : new[i] = acts[i]
    <3>1. \A i \in 1 .. n - 1 : i \in 1 .. n + 1 /\ i <= n - 1
      BY <1>1
    <3> QED  BY <1>2, <2>5, <3>1
  <2>7. new[n] = pair[1] /\ new[n + 1] = pair[2]
    <3>1. n \in 1 .. n + 1 /\ n + 1 \in 1 .. n + 1 /\ ~(n <= n - 1) /\ ~(n + 1 <= n - 1)
          /\ n - (n - 1) = 1 /\ n + 1 - (n - 1) = 2
      BY <1>1
    <3>2. new[n] = pair[n - (n - 1)]
      BY <2>5, <3>1
    <3>3. new[n + 1] = pair[n + 1 - (n - 1)]
      BY <2>5, <3>1
    <3> QED  BY <3>1, <3>2, <3>3
  <2> QED  BY <2>1, <2>4, <2>6, <2>7
<1> HIDE DEF new
<1>4. \A i \in 1 .. n - 1 : /\ ActOK(acts[i], objects', packages')
                            /\ ActLaid(acts[i], b[i - 1], b[i], form_stack', objects')
  <2>1. Grows(objects, objects') /\ MorePackages(packages, packages')
    BY DEF KeepsLower, HeapGrows, Steady, FilesMore, MorePackages
  <2> QED  BY <2>1, LowerStay DEF Inv, ObjectsOK, KeepsLower
<1>5. ActsOK(new, objects', packages')
  <2>1. new[1].fn = "initialize_runtime"
    <3>1. acts[1].fn = "initialize_runtime"
      BY DEF Inv, ActsOK
    <3>2. CASE n = 1
      BY <1>1, <1>3, <3>1, <3>2
    <3>3. CASE n # 1
      <4> HIDE DEF n
      <4>1. 1 <= n - 1 /\ n - 1 \in Nat
        BY <1>1, <3>3
      <4> QED  BY <1>3, <3>1, <4>1
    <3> QED  BY <3>2, <3>3
  <2>2. \A i \in 1 .. n + 1 : i \in 1 .. n - 1 \/ i = n \/ i = n + 1
    BY <1>1
  <2>3. \A i \in 1 .. n + 1 : ActOK(new[i], objects', packages')
    BY <1>3, <1>4, <2>2 DEF LaysOut
  <2>4. \A i \in 1 .. n : Waits(new[i], new[i + 1])
    <3> SUFFICES ASSUME NEW i \in 1 .. n  PROVE Waits(new[i], new[i + 1])
      OBVIOUS
    <3>1. i \in 1 .. n - 1 => Waits(acts[i], acts[i + 1])
      BY DEF Inv, ActsOK
    <3>2. CASE i = n
      BY <1>3, <3>2
    <3>3. CASE i + 1 = n
      <4>1. i \in 1 .. n - 1
        BY <1>1, <3>3
      <4> QED  BY <1>1, <1>3, <3>1, <3>3, <4>1 DEF Waits
    <3>4. CASE i # n /\ i + 1 # n
      <4>1. i \in 1 .. n - 1 /\ i + 1 \in 1 .. n - 1
        BY <1>1, <3>4
      <4> QED  BY <1>3, <3>1, <4>1
    <3> QED  BY <3>2, <3>3, <3>4
  <2>5. n + 1 - 1 = n /\ 1 <= n + 1
    BY <1>1
  <2> QED  BY <1>3, <2>1, <2>3, <2>4, <2>5 DEF ActsOK
<1>6. Laid(c, new, form_stack', Len(frame_stack'), objects')
  <2>1. Rising(b, n) /\ b[0].forms = 0 /\ b[0].frames = 0 /\ k \in 0 .. n /\ k + 1 = n /\ n \in 0 .. n
    BY <1>1 DEF Laid, Rising
  <2>2. /\ mid \in Levels /\ b[k].forms <= mid.forms /\ b[k].conses <= mid.conses
        /\ hi \in Levels /\ mid.forms <= hi.forms /\ mid.conses <= hi.conses
    BY DEF LaysOut
  <2>3. Rising(d, k + 1)
    BY <1>1, <2>1, <2>2, RisesOn
  <2>4. d[n] = mid /\ \A i \in 0 .. k : d[i] = b[i]
    <3>1. \A i \in 0 .. k : i \in 0 .. k + 1 /\ i # k + 1
      BY <1>1
    <3> QED  BY <2>1, <3>1
  <2> HIDE DEF d
  <2>5. Rising(c, n + 1)
    BY <1>1, <2>1, <2>2, <2>3, <2>4, RisesOn
  <2>6. c[n + 1] = hi /\ \A i \in 0 .. n : c[i] = d[i]
    <3>1. \A i \in 0 .. n : i \in 0 .. n + 1 /\ i # n + 1
      BY <1>1
    <3>2. n + 1 \in 0 .. n + 1
      BY <1>1
    <3> QED  BY <3>1, <3>2
  <2> HIDE DEF c
  <2>7. /\ c[n] = mid /\ \A i \in 0 .. k : c[i] = b[i]
    <3>1. \A i \in 0 .. k : i \in 0 .. n
      BY <1>1
    <3> QED  BY <2>1, <2>4, <2>6, <3>1
  <2>8. \A i \in 1 .. n + 1 : ActLaid(new[i], c[i - 1], c[i], form_stack', objects')
    <3> SUFFICES ASSUME NEW i \in 1 .. n + 1
                 PROVE  ActLaid(new[i], c[i - 1], c[i], form_stack', objects')
      OBVIOUS
    <3>1. CASE i = n + 1
      <4>1. i - 1 = n
        BY <1>1, <3>1
      <4> QED  BY <1>3, <2>6, <2>7, <3>1, <4>1 DEF LaysOut
    <3>2. CASE i = n
      <4>1. i - 1 = k /\ k \in 0 .. k
        BY <1>1, <3>2
      <4> QED  BY <1>3, <2>7, <3>2, <4>1 DEF LaysOut
    <3>3. CASE i # n /\ i # n + 1
      <4>1. i \in 1 .. n - 1 /\ i \in 0 .. k /\ i - 1 \in 0 .. k
        BY <1>1, <3>3
      <4> QED  BY <1>3, <1>4, <2>7, <4>1
    <3> QED  BY <3>1, <3>2, <3>3
  <2>9. 0 \in 0 .. k
    BY <1>1
  <2> QED  BY <1>3, <2>1, <2>5, <2>6, <2>7, <2>8, <2>9 DEF Laid, Rising, EndsAt
<1> QED  BY <1>3, <1>5, <1>6 DEF new

(* The running activation returns.                                         *)
LEMMA ReturnedLaid ==
  ASSUME Inv, NEW b, Laid(b, acts, form_stack, Len(frame_stack), objects), KeepsLower(b),
         2 <= Len(acts), acts' = Below, EndsAt(b[Len(acts) - 1])
  PROVE  /\ ActsOK(acts', objects', packages')
         /\ \E c : Laid(c, acts', form_stack', Len(frame_stack'), objects')
         /\ Len(acts') = Len(acts) - 1
         /\ \A i \in 1 .. Len(acts) - 1 : acts'[i] = acts[i]
<1> DEFINE n == Len(acts)
           c == [i \in 0 .. n - 1 |-> b[i]]
           new == acts'
<1>1. n \in Nat /\ IsSeq(acts) /\ 2 <= n /\ n - 1 \in Nat /\ 1 <= n - 1 /\ n - 1 \in 0 .. n - 1
  <2>1. n \in Nat /\ IsSeq(acts) /\ 2 <= n
    BY SeqIs DEF Inv, ActsOK
  <2> HIDE DEF n
  <2> QED  BY <2>1
<1>2. IsSeq(new) /\ Len(new) = n - 1 /\ \A i \in 1 .. n - 1 : new[i] = acts[i]
  BY <1>1, FrontIs DEF Below
<1> HIDE DEF new
<1>3. \A i \in 1 .. n - 1 : /\ ActOK(acts[i], objects', packages')
                            /\ ActLaid(acts[i], b[i - 1], b[i], form_stack', objects')
  <2>1. Grows(objects, objects') /\ MorePackages(packages, packages')
    BY DEF KeepsLower, HeapGrows, Steady, FilesMore, MorePackages
  <2> QED  BY <2>1, LowerStay DEF Inv, ObjectsOK, KeepsLower
<1>4. ActsOK(new, objects', packages')
  <2>1. \A i \in 1 .. n - 1 - 1 : i \in 1 .. n - 1 /\ i + 1 \in 1 .. n - 1
    BY <1>1
  <2>2. acts[1].fn = "initialize_runtime" /\ \A i \in 1 .. n - 1 : Waits(acts[i], acts[i + 1])
    BY DEF Inv, ActsOK
  <2>3. 1 \in 1 .. n - 1
    BY <1>1
  <2> QED  BY <1>1, <1>2, <1>3, <2>1, <2>2, <2>3 DEF ActsOK
<1>5. Laid(c, new, form_stack', Len(frame_stack'), objects')
  <2>1. /\ b \in [0 .. n -> Levels] /\ b[0].forms = 0 /\ b[0].frames = 0
        /\ \A i, j \in 0 .. n : i <= j => b[i].forms <= b[j].forms /\ b[i].conses <= b[j].conses
    BY DEF Laid
  <2>2. \A i \in 0 .. n - 1 : i \in 0 .. n
    BY <1>1
  <2>3. /\ c \in [0 .. n - 1 -> Levels] /\ \A i \in 0 .. n - 1 : c[i] = b[i]
    BY <2>1, <2>2
  <2> HIDE DEF c
  <2>4. \A i \in 1 .. n - 1 : i \in 0 .. n - 1 /\ i - 1 \in 0 .. n - 1
    BY <1>1
  <2>5. 0 \in 0 .. n - 1
    BY <1>1
  <2>6. \A i \in 1 .. n - 1 : ActLaid(new[i], c[i - 1], c[i], form_stack', objects')
    BY <1>2, <1>3, <2>3, <2>4
  <2>7. \A i, j \in 0 .. n - 1 : i <= j => c[i].forms <= c[j].forms /\ c[i].conses <= c[j].conses
    BY <2>1, <2>2, <2>3
  <2> QED  BY <1>1, <1>2, <2>1, <2>3, <2>5, <2>6, <2>7 DEF Laid, EndsAt
<1> QED  BY <1>2, <1>4, <1>5 DEF new

----------------------------------------------------------------------------
(* What a step leaves of the start                                         *)

LEMMA OrderIs ==
  ASSUME InitializesInOrder
  PROVE  /\ Steps \in Nat /\ 3 < Steps /\ DOMAIN InitializeRuntime = 1 .. Steps
         /\ \A i : Does(i, "bind function") =>
              /\ i \in 1 .. Steps /\ Chars(InitializeRuntime[i].name) # NullLexeme
         /\ \A i : Does(i, "intern") => i \in 1 .. Steps
<1>1. Steps \in Nat /\ 3 < Steps /\ DOMAIN InitializeRuntime = 1 .. Steps
  BY DEF InitializesInOrder, Steps
<1>2. \A i \in 1 .. Steps : Does(i, "bind function") => Chars(InitializeRuntime[i].name) # NullLexeme
  BY DEF InitializesInOrder, Steps
<1> QED  BY <1>1, <1>2 DEF Does

LEMMA BoundStays ==
  ASSUME NEW p, NEW name, NEW all, NEW new, NEW packs, NEW packs2, Chars(name) # NullLexeme,
         Bound(p, name, all, packs), PackagesOK(all, packs), Steady(all, new), FilesMore(packs, packs2)
  PROVE  Bound(p, name, new, packs2)
<1> DEFINE functions == all[packs[p].global].functions
           sym       == packs[p].interned[Chars(name)]
<1>1. /\ p \in DOMAIN packs /\ Chars(name) \in DOMAIN packs[p].interned
      /\ sym \in DOMAIN functions /\ functions[sym] \in DOMAIN all
      /\ all[functions[sym]] = Inherent(name)
  BY DEF Bound
<1>2. /\ p \in DOMAIN packs2 /\ packs2[p].global = packs[p].global
      /\ Chars(name) \in DOMAIN packs2[p].interned /\ packs2[p].interned[Chars(name)] = sym
  BY <1>1 DEF FilesMore
<1>3. Is(packs[p].global, "environment", all)
  BY <1>1 DEF PackagesOK, PackageOK
<1>4. new[packs[p].global].functions = functions
  BY <1>3 DEF Is, Steady, Stays
<1>5. functions[sym] \in DOMAIN new /\ new[functions[sym]] = Inherent(name)
  BY <1>1 DEF Steady, Grows, Lasts, Inherent
<1> QED  BY <1>1, <1>2, <1>4, <1>5 DEF Bound

LEMMA DoneStays ==
  ASSUME InitializesInOrder, NEW pc, pc # 1, NEW all, NEW new, NEW packs, NEW packs2,
         Done(pc, all, packs), PackagesOK(all, packs), Steady(all, new), FilesMore(packs, packs2)
  PROVE  Done(pc, new, packs2)
<1>1. Is(SystemReadtable, "readtable", all)
  BY DEF Done
<1>2. Is(SystemReadtable, "readtable", new) /\ new[SystemReadtable] = all[SystemReadtable]
  BY <1>1 DEF Is, Steady, Stays, Grows
<1>3. ASSUME NEW j \in 1 .. pc - 1, Does(j, "bind function")
      PROVE  Bound(InitializeRuntime[j].of, InitializeRuntime[j].name, new, packs2)
  <2>1. Bound(InitializeRuntime[j].of, InitializeRuntime[j].name, all, packs)
    BY <1>3 DEF Done
  <2>2. Chars(InitializeRuntime[j].name) # NullLexeme
    BY <1>3, OrderIs
  <2> QED  BY <2>1, <2>2, BoundStays
<1>4. DOMAIN all \subseteq DOMAIN new
  BY DEF Steady, Grows
<1> QED  BY <1>2, <1>3, <1>4 DEF Done, FilesMore

LEMMA HoldsStays ==
  ASSUME NEW act, NEW all, NEW new, Holds(act, all), Grows(all, new)
  PROVE  Holds(act, new)
<1>1. \A f \in DOMAIN all : f \in DOMAIN new /\ (all[f].kind = "function" => new[f] = all[f])
  BY DEF Grows, Lasts
<1>2. \A name : Inherent(name).kind = "function"
  BY DEF Inherent
<1> HIDE DEF Holds
<1> SUFFICES ASSUME NEW j \in {act.pc, act.pc + 1}, Does(j, "bind function")
             PROVE  \E f \in DOMAIN new : act.held = {f} /\ new[f] = Inherent(InitializeRuntime[j].name)
  BY DEF Holds
<1>3. PICK f \in DOMAIN all : act.held = {f} /\ all[f] = Inherent(InitializeRuntime[j].name)
  BY DEF Holds
<1> QED  BY <1>1, <1>2, <1>3

(* Whoever runs, the start waits for it where it should.                   *)
LEMMA StartWaits ==
  ASSUME InitializesInOrder, Inv, Top.fn # "initialize_runtime"
  PROVE  /\ 2 <= Len(acts) /\ acts[1].pc # 1
         /\ (Top.fn = "intern_symbol" /\ Len(acts) = 2) \/ acts[1].pc = Steps + 1
         /\ 3 <= Len(acts) => acts[2].fn # "intern_symbol"
<1> DEFINE n == Len(acts)
<1>1. n \in Nat /\ 1 <= n /\ Top = acts[n] /\ acts[1].fn = "initialize_runtime"
  BY SeqIs DEF Inv, ActsOK, Top, Last
<1>2. n # 1
  BY <1>1
<1> HIDE DEF n
<1>3. 2 <= n /\ 1 \in 1 .. n - 1 /\ 2 \in 1 .. n /\ 1 + 1 = 2
  BY <1>1, <1>2
<1>4. Waits(acts[1], acts[2]) /\ ActOK(acts[2], objects, packages)
  BY <1>3 DEF Inv, ActsOK, n
<1>5. acts[2].fn = "intern_symbol" \/ (acts[2].fn = "call" /\ acts[1].pc = Steps + 1)
  BY <1>1, <1>4 DEF Waits, ActOK, Readers
<1>6. ASSUME 3 <= n  PROVE acts[2].fn # "intern_symbol"
  <2>1. 2 \in 1 .. n - 1 /\ 3 \in 1 .. n /\ 2 + 1 = 3
    BY <1>1, <1>6
  <2>2. Waits(acts[2], acts[3]) /\ ActOK(acts[3], objects, packages)
    BY <2>1 DEF Inv, ActsOK, n
  <2> QED  BY <2>2 DEF Waits, ActOK, Readers
<1>9. Steps + 1 # 1
  <2>1. Steps \in Nat /\ 3 < Steps
    BY OrderIs
  <2> HIDE DEF Steps
  <2> QED  BY <2>1
<1>7. CASE n = 2
  <2>1. Top = acts[2]
    BY <1>1, <1>7
  <2>2. InternsFor(acts[1], acts[2])
    BY <1>7 DEF Inv, StartOK, n
  <2>3. acts[2].fn = "intern_symbol" => acts[1].pc - 1 \in 1 .. Steps
    BY <2>2, OrderIs DEF InternsFor
  <2>4. acts[1].pc # 1
    <3>1. acts[2].fn = "intern_symbol" => acts[1].pc # 1
      BY <2>3
    <3> QED  BY <1>5, <1>9, <3>1
  <2> QED  BY <1>3, <1>5, <1>7, <2>1, <2>4 DEF n
<1>8. CASE n # 2
  <2>1. 3 <= n
    BY <1>3, <1>8, <1>1
  <2> QED  BY <1>3, <1>5, <1>6, <1>9, <2>1 DEF n
<1> QED  BY <1>7, <1>8

LEMMA StartStays ==
  ASSUME InitializesInOrder, Inv, Top.fn # "initialize_runtime", HeapGrows
  PROVE  Done(acts[1].pc, objects', packages') /\ Holds(acts[1], objects')
<1>1. acts[1].pc # 1
  BY StartWaits
<1>2. Done(acts[1].pc, objects, packages) /\ Holds(acts[1], objects)
  BY DEF Inv, StartOK
<1>3. Steady(objects, objects') /\ Grows(objects, objects') /\ FilesMore(packages, packages')
  BY DEF HeapGrows, Steady
<1> QED  BY <1>1, <1>2, <1>3, DoneStays, HoldsStays DEF Inv, ObjectsOK

----------------------------------------------------------------------------
(* How the invariant is kept by a step of a function that runs             *)

LEMMA BindsInOrder ==
  ASSUME InitializesInOrder, NEW i, Does(i, "bind function")
  PROVE  /\ Does(i - 1, "intern") /\ Does(i - 2, "function")
         /\ InitializeRuntime[i - 1].of = InitializeRuntime[i].of
         /\ InitializeRuntime[i - 1].name = InitializeRuntime[i].name
         /\ InitializeRuntime[i - 2].name = InitializeRuntime[i].name
         /\ InitializeRuntime[i].of # "USER"
<1>1. i \in 1 .. Steps
  BY OrderIs
<1> QED  BY <1>1 DEF InitializesInOrder, Of, Steps

StacksOK ==
  /\ FormsOK(form_stack, form_cap, objects)
  /\ FramesOK(frame_stack, frame_cap, last_return_value, objects)

LEMMA GoesOn ==
  ASSUME InitializesInOrder, Inv, Top.fn # "initialize_runtime",
         NEW b, Laid(b, acts, form_stack, Len(frame_stack), objects), KeepsLower(b),
         NEW act, act.fn = Top.fn, acts' = Append(Below, act),
         NEW hi, LaysOut(act, b[Len(acts) - 1], hi), EndsAt(hi),
         StacksOK', ended' = ended, FormOK(value', objects'),
         act.fn # "'" \/ act.pc # "read",
         act.fn = "intern_symbol" => act.package = Top.package /\ act.name = Top.name
  PROVE  Inv' /\ Undisturbed
<1>1. /\ ActsOK(acts', objects', packages')
      /\ \E c : Laid(c, acts', form_stack', Len(frame_stack'), objects')
      /\ Len(acts') = Len(acts) /\ acts'[Len(acts)] = act
      /\ \A i \in 1 .. Len(acts) - 1 : acts'[i] = acts[i]
  BY ReplacedLaid
<1>2. /\ 2 <= Len(acts) /\ Len(acts) \in Nat /\ 1 \in 1 .. Len(acts) - 1
      /\ Len(acts) = 2 => acts[2] = Top
  <2>1. 2 <= Len(acts) /\ Len(acts) \in Nat
    BY StartWaits, SeqIs DEF Inv, ActsOK
  <2> QED  BY <2>1 DEF Top, Last
<1>3. acts'[1] = acts[1]
  BY <1>1, <1>2
<1>4. Done(acts'[1].pc, objects', packages') /\ Holds(acts'[1], objects')
  BY <1>3, StartStays DEF KeepsLower
<1>5. ASSUME Len(acts') = 2  PROVE InternsFor(acts'[1], acts'[2])
  <2>1. acts'[2] = act /\ acts[2] = Top /\ InternsFor(acts[1], acts[2])
    BY <1>1, <1>2, <1>5 DEF Inv, StartOK
  <2> QED  BY <1>3, <2>1 DEF InternsFor
<1>6. StartOK(acts', objects', packages', value')
  BY <1>1, <1>2, <1>4, <1>5 DEF StartOK
<1>7. ValueOK(value', acts', objects')
  BY <1>1 DEF ValueOK
<1>8. ObjectsOK(objects', packages')
  BY DEF KeepsLower, HeapGrows
<1> QED  BY <1>1, <1>6, <1>7, <1>8 DEF Inv, StacksOK, Undisturbed

LEMMA CallsOn ==
  ASSUME InitializesInOrder, Inv, Top.fn # "initialize_runtime",
         NEW b, Laid(b, acts, form_stack, Len(frame_stack), objects), KeepsLower(b),
         NEW act, NEW callee, act.fn = Top.fn, Waits(act, callee), acts' = Below \o <<act, callee>>,
         NEW mid, LaysOut(act, b[Len(acts) - 1], mid),
         NEW hi, LaysOut(callee, mid, hi), EndsAt(hi),
         StacksOK', ended' = ended, FormOK(value', objects'),
         callee.fn # "'" \/ callee.pc # "read", act.fn # "intern_symbol"
  PROVE  Inv' /\ Undisturbed
<1>1. /\ ActsOK(acts', objects', packages')
      /\ \E c : Laid(c, acts', form_stack', Len(frame_stack'), objects')
      /\ Len(acts') = Len(acts) + 1 /\ acts'[Len(acts)] = act /\ acts'[Len(acts) + 1] = callee
      /\ \A i \in 1 .. Len(acts) - 1 : acts'[i] = acts[i]
  BY CalledLaid
<1>2. 2 <= Len(acts) /\ Len(acts) \in Nat /\ 1 \in 1 .. Len(acts) - 1
  <2>1. 2 <= Len(acts) /\ Len(acts) \in Nat
    BY StartWaits, SeqIs DEF Inv, ActsOK
  <2> QED  BY <2>1
<1>3. acts'[1] = acts[1]
  BY <1>1, <1>2
<1>4. Done(acts'[1].pc, objects', packages') /\ Holds(acts'[1], objects')
  BY <1>3, StartStays DEF KeepsLower
<1>5. StartOK(acts', objects', packages', value')
  BY <1>1, <1>2, <1>4 DEF StartOK
<1>6. ValueOK(value', acts', objects')
  BY <1>1 DEF ValueOK
<1>7. ObjectsOK(objects', packages')
  BY DEF KeepsLower, HeapGrows
<1> QED  BY <1>1, <1>5, <1>6, <1>7 DEF Inv, StacksOK, Undisturbed

(* intern_symbol returns the symbol that the package has under the name.   *)
LEMMA ReturnsTo ==
  ASSUME InitializesInOrder, Inv, Top.fn # "initialize_runtime",
         NEW b, Laid(b, acts, form_stack, Len(frame_stack), objects), KeepsLower(b),
         acts' = Below, EndsAt(b[Len(acts) - 1]),
         StacksOK', ended' = ended, FormOK(value', objects'),
         Top.fn = "intern_symbol" =>
           /\ Top.name \in DOMAIN packages'[Top.package].interned
           /\ value' = Object(packages'[Top.package].interned[Top.name])
  PROVE  Inv' /\ Undisturbed
<1>1. 2 <= Len(acts) /\ Len(acts) \in Nat /\ Top = acts[Len(acts)]
  BY StartWaits, SeqIs DEF Inv, ActsOK, Top, Last
<1>2. /\ ActsOK(acts', objects', packages')
      /\ \E c : Laid(c, acts', form_stack', Len(frame_stack'), objects')
      /\ Len(acts') = Len(acts) - 1
      /\ \A i \in 1 .. Len(acts) - 1 : acts'[i] = acts[i]
  BY <1>1, ReturnedLaid
<1> DEFINE n == Len(acts)
<1>3. 1 \in 1 .. n - 1 /\ n - 1 \in 1 .. n - 1 /\ n - 1 + 1 = n /\ n \in Nat
  BY <1>1
<1>11. Len(acts') = n - 1
  BY <1>2
<1>4. acts'[1] = acts[1] /\ acts'[n - 1] = acts[n - 1] /\ Waits(acts[n - 1], Top)
      /\ ActOK(acts[n], objects, packages)
  <2>1. Waits(acts[n - 1], acts[n - 1 + 1])
    BY <1>3 DEF Inv, ActsOK
  <2>2. n \in 1 .. n
    BY <1>1
  <2> QED  BY <1>1, <1>2, <1>3, <2>1, <2>2 DEF Inv, ActsOK
<1>5. Done(acts'[1].pc, objects', packages') /\ Holds(acts'[1], objects')
  BY <1>4, StartStays DEF KeepsLower
<1>6. ASSUME Len(acts') = 2  PROVE InternsFor(acts'[1], acts'[2])
  <2>1. n = 3 /\ 2 \in 1 .. n - 1
    <3>1. n - 1 = 2
      BY <1>6, <1>11
    <3> HIDE DEF n
    <3> QED  BY <1>3, <3>1
  <2>2. acts[2].fn # "intern_symbol" /\ acts'[2] = acts[2]
    BY <1>2, <2>1, StartWaits
  <2> QED  BY <2>2 DEF InternsFor
<1>7. ASSUME Len(acts') = 1  PROVE InternedFor(acts'[1], packages', value')
  <2>1. n = 2 /\ Top = acts[2]
    <3>1. n = 2
      <4>1. n - 1 = 1
        BY <1>7, <1>11
      <4> HIDE DEF n
      <4> QED  BY <1>3, <4>1
    <3> QED  BY <1>1, <3>1
  <2>2. SUFFICES ASSUME Does(acts[1].pc, "bind function")
                 PROVE  InternedFor(acts[1], packages', value')
    BY <1>4 DEF InternedFor
  <2>3. acts[1].pc \in 1 .. Steps
    BY <2>2, OrderIs
  <2>4. acts[1].pc # Steps + 1
    <3>1. Steps \in Nat
      BY OrderIs
    <3> HIDE DEF Steps
    <3> QED  BY <2>3, <3>1
  <2>5. Top.fn = "intern_symbol"
    BY <2>4, StartWaits
  <2>6. InternsFor(acts[1], Top)
    BY <2>1 DEF Inv, StartOK
  <2>7. /\ InitializeRuntime[acts[1].pc - 1].of = InitializeRuntime[acts[1].pc].of
        /\ InitializeRuntime[acts[1].pc - 1].name = InitializeRuntime[acts[1].pc].name
    BY <2>2, BindsInOrder
  <2> QED  BY <2>5, <2>6, <2>7 DEF InternsFor, InternedFor
<1>8. StartOK(acts', objects', packages', value')
  BY <1>5, <1>6, <1>7 DEF StartOK
<1>9. ValueOK(value', acts', objects')
  <2>1. SUFFICES ASSUME acts[n - 1].fn = "'", acts[n - 1].pc = "read"
                 PROVE  \E id \in DOMAIN objects' : value' = Object(id)
    BY <1>2, <1>4 DEF ValueOK
  <2>2. Top.fn = "intern_symbol"
    BY <1>1, <1>4, <2>1 DEF Waits, ActOK, Readers
  <2>3. value' = Object(packages'[Top.package].interned[Top.name])
    BY <2>2
  <2>4. packages'[Top.package].interned[Top.name] \in DOMAIN objects'
    BY <2>3 DEF FormOK, Object
  <2> QED  BY <2>3, <2>4
<1>10. ObjectsOK(objects', packages')
  BY DEF KeepsLower, HeapGrows
<1> QED  BY <1>2, <1>8, <1>9, <1>10 DEF Inv, StacksOK, Undisturbed

----------------------------------------------------------------------------
(* The steps by what they do to the heap and the stacks                    *)

LEMMA TopIs ==
  ASSUME Inv, NEW b, Laid(b, acts, form_stack, Len(frame_stack), objects)
  PROVE  /\ Len(acts) \in Nat /\ ActOK(Top, objects, packages)
         /\ b[Len(acts) - 1] \in Levels /\ b[Len(acts)] \in Levels
         /\ b[Len(acts) - 1].forms <= b[Len(acts)].forms
         /\ b[Len(acts) - 1].conses <= b[Len(acts)].conses
         /\ ActLaid(Top, b[Len(acts) - 1], b[Len(acts)], form_stack, objects)
         /\ b[Len(acts)].forms = Len(form_stack) /\ b[Len(acts)].frames = Len(frame_stack)
         /\ b[Len(acts)].conses <= Size(objects)
<1> DEFINE n == Len(acts)
<1>1. n \in Nat /\ 1 <= n /\ Top = acts[n]
  BY SeqIs DEF Inv, ActsOK, Top, Last
<1>2. n \in 1 .. n /\ n - 1 \in 0 .. n /\ n \in 0 .. n /\ n - 1 <= n
  BY <1>1
<1> QED  BY <1>1, <1>2 DEF Inv, ActsOK, Laid

LEMMA HeapStays ==
  ASSUME Inv, objects' = objects, packages' = packages
  PROVE  HeapGrows /\ \A below : Settled(objects, objects', below)
<1>1. ObjectsOK(objects', packages')
  BY DEF Inv
<1>2. Steady(objects, objects') /\ FilesMore(packages, packages')
  BY DEF Steady, Grows, Lasts, Stays, FilesMore
<1>3. Size(objects) <= Size(objects')
  <2>1. Size(objects) \in Nat
    BY SizeIs DEF Inv, ObjectsOK
  <2>2. Size(objects') = Size(objects)
    BY DEF Size
  <2> QED  BY <2>1, <2>2
<1> QED  BY <1>1, <1>2, <1>3 DEF HeapGrows, Settled

LEMMA FormsStay ==
  ASSUME FormsOK(form_stack, form_cap, objects), Grows(objects, objects'), UNCHANGED stack
  PROVE  FormsOK(form_stack', form_cap', objects')
BY DEF FormsOK, Grows, FormOK, stack

LEMMA FramesStay ==
  ASSUME FramesOK(frame_stack, frame_cap, last_return_value, objects), Grows(objects, objects'),
         UNCHANGED frames
  PROVE  FramesOK(frame_stack', frame_cap', last_return_value', objects')
BY DEF FramesOK, Grows, Lasts, Is, frames

LEMMA FormsPushed ==
  ASSUME FormsOK(form_stack, form_cap, objects), Grows(objects, objects'),
         NEW some, IsSeq(some), \A i \in 1 .. Len(some) : FormOK(some[i], objects'), Pushes(some)
  PROVE  /\ FormsOK(form_stack', form_cap', objects')
         /\ Len(form_stack') = Len(form_stack) + Len(some)
         /\ Agree(form_stack, form_stack', Len(form_stack))
         /\ \A i \in 1 .. Len(some) : form_stack'[Len(form_stack) + i] = some[i]
<1> DEFINE n == Len(form_stack)
           m == Len(some)
           new == form_stack'
<1>1. n \in Nat /\ m \in Nat /\ IsSeq(form_stack)
  BY SeqIs DEF FormsOK
<1>2. /\ IsSeq(new) /\ Len(new) = n + m
      /\ \A i \in 1 .. n + m : new[i] = IF i <= n THEN form_stack[i] ELSE some[i - n]
  BY <1>1, ConcatIs DEF Pushes
<1>3. form_cap' \in Nat /\ n + m <= form_cap'
  <2>1. n + m \in Nat /\ form_cap \in Nat
    BY <1>1 DEF FormsOK
  <2>2. form_cap' = Capacity(form_cap, n + m)
    BY DEF Pushes
  <2> QED  BY <2>1, <2>2, CapacityIs
<1>4. \A i \in 1 .. n : FormOK(form_stack[i], objects')
  BY DEF FormsOK, FormOK, Grows
<1> HIDE DEF n, m, new
<1>5. \A i \in 1 .. n : new[i] = form_stack[i]
  <2>1. \A i \in 1 .. n : i \in 1 .. n + m /\ i <= n
    BY <1>1
  <2> QED  BY <1>2, <2>1
<1>6. \A i \in 1 .. m : new[n + i] = some[i]
  <2> SUFFICES ASSUME NEW i \in 1 .. m  PROVE new[n + i] = some[i]
    OBVIOUS
  <2> DEFINE j == n + i
  <2>1. j \in 1 .. n + m /\ ~(j <= n) /\ j - n = i
    BY <1>1
  <2> HIDE DEF j
  <2>2. new[j] = some[j - n]
    BY <1>2, <2>1
  <2> QED  BY <2>1, <2>2 DEF j
<1>7. \A i \in 1 .. n + m : FormOK(new[i], objects')
  <2> SUFFICES ASSUME NEW i \in 1 .. n + m  PROVE FormOK(new[i], objects')
    OBVIOUS
  <2>1. CASE i <= n
    <3>1. i \in 1 .. n
      BY <1>1, <2>1
    <3> QED  BY <1>4, <1>5, <3>1
  <2>2. CASE ~(i <= n)
    <3>1. i - n \in 1 .. m
      BY <1>1, <2>2
    <3>2. new[i] = some[i - n]
      BY <1>2, <2>2
    <3> QED  BY <3>1, <3>2 DEF m
  <2> QED  BY <2>1, <2>2
<1> QED  BY <1>2, <1>3, <1>5, <1>6, <1>7 DEF FormsOK, Agree, n, m, new

LEMMA FormsPopped ==
  ASSUME FormsOK(form_stack, form_cap, objects), Grows(objects, objects'),
         NEW k \in Nat, k <= Len(form_stack), form_stack' = DropLast(form_stack, k),
         UNCHANGED form_cap
  PROVE  /\ FormsOK(form_stack', form_cap', objects')
         /\ Len(form_stack') = Len(form_stack) - k
         /\ Agree(form_stack, form_stack', Len(form_stack) - k)
<1> DEFINE n == Len(form_stack)
           new == form_stack'
<1>1. n \in Nat /\ IsSeq(form_stack) /\ form_cap \in Nat /\ n <= form_cap
  BY SeqIs DEF FormsOK
<1>2. IsSeq(new) /\ Len(new) = n - k /\ \A i \in 1 .. n - k : new[i] = form_stack[i]
  BY <1>1, DropLastIs
<1>3. \A i \in 1 .. n : FormOK(form_stack[i], objects')
  BY DEF FormsOK, FormOK, Grows
<1> HIDE DEF n, new
<1>4. \A i \in 1 .. n - k : i \in 1 .. n /\ FormOK(new[i], objects')
  BY <1>1, <1>2, <1>3
<1>5. n - k <= form_cap
  BY <1>1
<1> QED  BY <1>1, <1>2, <1>4, <1>5 DEF FormsOK, Agree, n, new

(* A step that changes variables of the running activation only.           *)
LEMMA JustGoesOn ==
  ASSUME InitializesInOrder, Inv, Top.fn \notin {"initialize_runtime", "intern_symbol"},
         UNCHANGED <<heap, image, stack, frames, value, ended>>,
         NEW b, Laid(b, acts, form_stack, Len(frame_stack), objects),
         NEW act, act.fn = Top.fn, acts' = Append(Below, act), ActOK(act, objects, packages),
         ActLaid(act, b[Len(acts) - 1], b[Len(acts)], form_stack, objects),
         act.fn # "'" \/ act.pc # "read"
  PROVE  Inv' /\ Undisturbed
<1> DEFINE lo == b[Len(acts) - 1]
           hi == b[Len(acts)]
<1>1. /\ objects' = objects /\ packages' = packages /\ form_stack' = form_stack
      /\ frame_stack' = frame_stack /\ value' = value /\ ended' = ended
  BY DEF heap, image, stack, frames
<1>2. HeapGrows /\ Settled(objects, objects', lo.conses)
  BY <1>1, HeapStays
<1>3. KeepsLower(b)
  BY <1>1, <1>2 DEF KeepsLower, Agree
<1>4. LaysOut(act, lo, hi) /\ EndsAt(hi)
  <2>1. /\ lo \in Levels /\ hi \in Levels /\ lo.forms <= hi.forms /\ lo.conses <= hi.conses
        /\ hi.forms = Len(form_stack) /\ hi.frames = Len(frame_stack)
        /\ hi.conses <= Size(objects)
    BY TopIs
  <2> HIDE DEF lo, hi
  <2>2. Len(form_stack') = Len(form_stack) /\ Len(frame_stack') = Len(frame_stack)
        /\ Size(objects') = Size(objects)
    BY <1>1
  <2>3. ActOK(act, objects', packages') /\ ActLaid(act, lo, hi, form_stack', objects')
    BY <1>1 DEF lo, hi
  <2> QED  BY <2>1, <2>2, <2>3 DEF LaysOut, EndsAt
<1>5. StacksOK' /\ FormOK(value', objects')
  BY <1>1 DEF StacksOK, Inv, stack, frames, ValueOK
<1> HIDE DEF lo, hi
<1> QED  BY <1>1, <1>3, <1>4, <1>5, GoesOn DEF lo, hi

(* A step that only calls a function which starts where this one is.       *)
LEMMA JustCalls ==
  ASSUME InitializesInOrder, Inv, Top.fn \notin {"initialize_runtime", "intern_symbol"},
         UNCHANGED <<heap, image, stack, frames, value, ended>>,
         NEW b, Laid(b, acts, form_stack, Len(frame_stack), objects),
         NEW act, NEW callee, act.fn = Top.fn, Waits(act, callee),
         acts' = Below \o <<act, callee>>, ActOK(act, objects, packages),
         ActLaid(act, b[Len(acts) - 1], b[Len(acts)], form_stack, objects),
         ActOK(callee, objects, packages),
         ActLaid(callee, b[Len(acts)], b[Len(acts)], form_stack, objects),
         callee.fn # "'" \/ callee.pc # "read"
  PROVE  Inv' /\ Undisturbed
<1> DEFINE lo == b[Len(acts) - 1]
           hi == b[Len(acts)]
<1>1. /\ objects' = objects /\ packages' = packages /\ form_stack' = form_stack
      /\ frame_stack' = frame_stack /\ value' = value /\ ended' = ended
  BY DEF heap, image, stack, frames
<1>2. HeapGrows /\ Settled(objects, objects', lo.conses)
  BY <1>1, HeapStays
<1>3. KeepsLower(b)
  BY <1>1, <1>2 DEF KeepsLower, Agree
<1>4. LaysOut(act, lo, hi) /\ LaysOut(callee, hi, hi) /\ EndsAt(hi)
  <2>1. /\ lo \in Levels /\ hi \in Levels /\ lo.forms <= hi.forms /\ lo.conses <= hi.conses
        /\ hi.forms = Len(form_stack) /\ hi.frames = Len(frame_stack)
        /\ hi.conses <= Size(objects)
    BY TopIs
  <2> HIDE DEF lo, hi
  <2>2. Len(form_stack') = Len(form_stack) /\ Len(frame_stack') = Len(frame_stack)
        /\ Size(objects') = Size(objects)
    BY <1>1
  <2>3. /\ ActOK(act, objects', packages') /\ ActLaid(act, lo, hi, form_stack', objects')
        /\ ActOK(callee, objects', packages') /\ ActLaid(callee, hi, hi, form_stack', objects')
    BY <1>1 DEF lo, hi
  <2>4. hi.forms <= hi.forms /\ hi.conses <= hi.conses
    BY <2>1 DEF Levels
  <2> QED  BY <2>1, <2>2, <2>3, <2>4 DEF LaysOut, EndsAt
<1>5. StacksOK' /\ FormOK(value', objects')
  BY <1>1 DEF StacksOK, Inv, stack, frames, ValueOK
<1> HIDE DEF lo, hi
<1> QED  BY <1>1, <1>3, <1>4, <1>5, CallsOn DEF lo, hi

(* A step that changes nothing of all this but how the program ended.      *)
LEMMA JustEnds ==
  ASSUME Inv, UNCHANGED <<heap, image, stack, frames, acts, value>>,
         ended' \in {"running", "end of input", "quit", "aborted", "looping", "undefined"}
  PROVE  Inv'
BY DEF Inv, heap, image, stack, frames

(* A step that allocates, and leaves the stacks alone.                     *)
LEMMA HeapRaises ==
  ASSUME InitializesInOrder, Inv, Top.fn \notin {"initialize_runtime", "intern_symbol"},
         UNCHANGED <<stack, frames, value, ended>>, HeapGrows,
         NEW b, Laid(b, acts, form_stack, Len(frame_stack), objects),
         Settled(objects, objects', b[Len(acts) - 1].conses),
         NEW act, act.fn = Top.fn, acts' = Append(Below, act), ActOK(act, objects', packages'),
         NEW new \in Levels, new.forms = b[Len(acts)].forms, new.frames = b[Len(acts)].frames,
         b[Len(acts)].conses <= new.conses, new.conses <= Size(objects'),
         ActLaid(act, b[Len(acts) - 1], new, form_stack, objects'),
         act.fn # "'" \/ act.pc # "read"
  PROVE  Inv' /\ Undisturbed
<1> DEFINE lo == b[Len(acts) - 1]
           hi == b[Len(acts)]
<1>1. /\ form_stack' = form_stack /\ frame_stack' = frame_stack
      /\ value' = value /\ ended' = ended
  BY DEF stack, frames
<1>2. KeepsLower(b)
  BY <1>1 DEF KeepsLower, Agree
<1>3. LaysOut(act, lo, new) /\ EndsAt(new)
  <2>1. /\ lo \in Levels /\ hi \in Levels /\ lo.forms <= hi.forms /\ lo.conses <= hi.conses
        /\ hi.forms = Len(form_stack) /\ hi.frames = Len(frame_stack)
    BY TopIs
  <2>2. ActOK(act, objects', packages') /\ ActLaid(act, lo, new, form_stack', objects')
        /\ new.forms = hi.forms /\ new.frames = hi.frames /\ hi.conses <= new.conses
    BY <1>1
  <2> HIDE DEF lo, hi
  <2>3. Len(form_stack') = Len(form_stack) /\ Len(frame_stack') = Len(frame_stack)
    BY <1>1
  <2>4. lo.conses <= new.conses
    <3>1. lo.conses \in Nat /\ hi.conses \in Nat /\ new.conses \in Nat
      BY <2>1 DEF Levels
    <3> QED  BY <2>1, <2>2, <3>1
  <2> QED  BY <2>1, <2>2, <2>3, <2>4 DEF LaysOut, EndsAt
<1>4. StacksOK' /\ FormOK(value', objects')
  <2>1. Grows(objects, objects')
    BY DEF HeapGrows, Steady
  <2>2. FormOK(value', objects')
    BY <1>1, <2>1 DEF FormOK, Grows, Inv, ValueOK
  <2> QED  BY <2>1, <2>2, FormsStay, FramesStay DEF StacksOK, Inv
<1> HIDE DEF lo, hi
<1> QED  BY <1>1, <1>2, <1>3, <1>4, GoesOn DEF lo, hi

LEMMA HeapGoesOn ==
  ASSUME InitializesInOrder, Inv, Top.fn \notin {"initialize_runtime", "intern_symbol"},
         UNCHANGED <<stack, frames, value, ended>>, HeapGrows,
         NEW b, Laid(b, acts, form_stack, Len(frame_stack), objects),
         Settled(objects, objects', b[Len(acts) - 1].conses),
         NEW act, act.fn = Top.fn, acts' = Append(Below, act), ActOK(act, objects', packages'),
         ActLaid(act, b[Len(acts) - 1], b[Len(acts)], form_stack, objects'),
         act.fn # "'" \/ act.pc # "read"
  PROVE  Inv' /\ Undisturbed
<1> DEFINE hi == b[Len(acts)]
<1>1. hi \in Levels /\ hi.conses <= Size(objects)
  BY TopIs
<1>2. Size(objects) \in Nat /\ Size(objects') \in Nat /\ Size(objects) <= Size(objects')
  BY SizeIs DEF Inv, ObjectsOK, HeapGrows
<1>3. hi.conses <= hi.conses /\ hi.conses <= Size(objects')
  <2>1. hi.conses \in Nat
    BY <1>1 DEF Levels
  <2> HIDE DEF hi
  <2> QED  BY <1>1, <1>2, <2>1
<1> QED  BY <1>1, <1>3, HeapRaises

(* A function is called from the reader or the REPL.                       *)
LEMMA PushedCall ==
  ASSUME NEW fn, NEW args, IsSeq(args), FormsOK(form_stack, form_cap, objects),
         Pushes(<<Object(fn)>> \o args), fn \in DOMAIN objects, objects' = objects,
         \A i \in 1 .. Len(args) : FormOK(args[i], objects)
  PROVE  /\ FormsOK(form_stack', form_cap', objects')
         /\ Len(form_stack') = Len(form_stack) + Len(args) + 1
         /\ Agree(form_stack, form_stack', Len(form_stack))
         /\ form_stack'[Len(form_stack) + 1] = Object(fn)
<1> DEFINE some == <<Object(fn)>> \o args
           n == Len(args)
           m == Len(form_stack)
<1>1. IsSeq(<<Object(fn)>>) /\ Len(<<Object(fn)>>) = 1 /\ <<Object(fn)>>[1] = Object(fn)
  BY SingleIs
<1>2. n \in Nat /\ m \in Nat
  BY SeqIs DEF FormsOK
<1>3. IsSeq(some) /\ Len(some) = 1 + n
      /\ \A i \in 1 .. 1 + n : some[i] = IF i <= 1 THEN <<Object(fn)>>[i] ELSE args[i - 1]
  BY <1>1, ConcatIs
<1>4. Pushes(some)
  OBVIOUS
<1> HIDE DEF some
<1>5. 1 \in 1 .. 1 + n /\ some[1] = Object(fn)
  <2>1. 1 \in 1 .. 1 + n
    BY <1>2
  <2> QED  BY <1>1, <1>3, <2>1
<1>6. \A i \in 1 .. Len(some) : FormOK(some[i], objects')
  <2> SUFFICES ASSUME NEW i \in 1 .. 1 + n  PROVE FormOK(some[i], objects')
    BY <1>3
  <2>1. CASE i = 1
    BY <1>5, <2>1 DEF FormOK, Object
  <2>2. CASE i # 1
    <3> HIDE DEF n
    <3>1. i - 1 \in 1 .. n /\ ~(i <= 1)
      BY <1>2, <2>2
    <3> QED  BY <1>3, <3>1 DEF n
  <2> QED  BY <2>1, <2>2
<1>7. Grows(objects, objects')
  BY DEF Grows, Lasts
<1>8. /\ FormsOK(form_stack', form_cap', objects')
      /\ Len(form_stack') = m + Len(some)
      /\ Agree(form_stack, form_stack', m)
      /\ \A i \in 1 .. Len(some) : form_stack'[m + i] = some[i]
  BY <1>3, <1>4, <1>6, <1>7, FormsPushed
<1>9. form_stack'[m + 1] = Object(fn)
  BY <1>3, <1>5, <1>8
<1>10. m + Len(some) = m + n + 1
  <2> HIDE DEF m, n
  <2> QED  BY <1>2, <1>3
<1> QED  BY <1>8, <1>9, <1>10

LEMMA FunctionCalled ==
  ASSUME InitializesInOrder, Inv, Top.fn \in Readers,
         NEW b, Laid(b, acts, form_stack, Len(frame_stack), objects),
         NEW caller, NEW fn, NEW args, CallsFunction(caller, fn, args),
         IsSeq(args), Len(args) \in 0 .. 2, \A i \in 1 .. Len(args) : FormOK(args[i], objects),
         Suits(Object(fn), Len(args), objects), caller.fn = Top.fn,
         Waits(caller, CallAct(Len(args))), ActOK(caller, objects, packages),
         ActLaid(caller, b[Len(acts) - 1], b[Len(acts)], form_stack, objects),
         UNCHANGED <<heap, image, frames, ended>>
  PROVE  Inv' /\ Undisturbed
<1> DEFINE lo == b[Len(acts) - 1]
           mid == b[Len(acts)]
           m == Len(form_stack)
           n == Len(args)
           hi == [forms |-> m + n + 1, frames |-> mid.frames, conses |-> mid.conses]
           callee == CallAct(n)
<1>1. /\ objects' = objects /\ packages' = packages /\ frame_stack' = frame_stack
      /\ value' = value /\ ended' = ended /\ acts' = Below \o <<caller, callee>>
      /\ UNCHANGED frames
  BY DEF heap, image, frames, CallsFunction, Calls
<1>2. fn \in DOMAIN objects
  BY DEF Suits, Object
<1>3. /\ FormsOK(form_stack', form_cap', objects') /\ Len(form_stack') = m + n + 1
      /\ Agree(form_stack, form_stack', m) /\ form_stack'[m + 1] = Object(fn)
  <2>1. FormsOK(form_stack, form_cap, objects) /\ Pushes(<<Object(fn)>> \o args)
    BY DEF Inv, CallsFunction
  <2> QED  BY <1>1, <1>2, <2>1, PushedCall
<1>4. /\ lo \in Levels /\ mid \in Levels /\ lo.forms <= mid.forms /\ lo.conses <= mid.conses
      /\ mid.forms = m /\ mid.frames = Len(frame_stack)
      /\ mid.conses <= Size(objects) /\ ActLaid(Top, lo, mid, form_stack, objects)
  BY TopIs
<1>5. m \in Nat /\ n \in 0 .. 2 /\ 1 <= mid.frames
  <2>1. m \in Nat
    BY SeqIs DEF Inv, FormsOK
  <2>2. 1 <= mid.frames
    BY <1>4 DEF ActLaid
  <2> QED  BY <2>1, <2>2
<1>6. callee = [fn |-> "call", pc |-> "begin", fn_index |-> m, arg_count |-> n,
                arg_i |-> 0, held |-> {}]
  BY DEF CallAct
<1>7. Suits(form_stack'[m + 1], n, objects')
  BY <1>1, <1>3
<1>8. Grows(objects, objects') /\ HeapGrows /\ \A below : Settled(objects, objects', below)
  BY <1>1, HeapStays DEF HeapGrows, Steady
<1>9. Waits(caller, callee) /\ ActLaid(caller, lo, mid, form_stack, objects)
      /\ ActOK(caller, objects', packages')
  BY <1>1
<1>10. ActLaid(caller, lo, mid, form_stack', objects')
  <2>1. caller.fn # "call"
    BY DEF Readers
  <2> HIDE DEF lo, mid, m
  <2> QED  BY <1>3, <1>4, <1>8, <1>9, <2>1, ActStaysLaid
<1>11. KeepsLower(b)
  <2>1. Agree(form_stack, form_stack', lo.forms)
    <3>1. lo.forms \in Nat /\ lo.forms <= m
      BY <1>4 DEF Levels
    <3> HIDE DEF lo, m
    <3>2. \A i \in 1 .. lo.forms : i \in 1 .. m
      BY <1>5, <3>1
    <3> QED  BY <1>3, <3>2 DEF Agree
  <2> QED  BY <1>8, <2>1 DEF KeepsLower
<1> HIDE DEF lo, mid, m, n, callee
<1>12. hi \in Levels /\ hi.forms = m + n + 1 /\ hi.frames = mid.frames /\ hi.conses = mid.conses
  BY <1>4, <1>5 DEF Levels
<1>13. mid.forms <= hi.forms /\ mid.conses <= hi.conses
  <2>1. mid.conses \in Nat
    BY <1>4 DEF Levels
  <2> QED  BY <1>4, <1>5, <1>12, <2>1
<1> HIDE DEF hi
<1>14. callee.fn = "call" /\ callee.pc = "begin" /\ callee.fn_index = m /\ callee.arg_count = n
       /\ callee.arg_i = 0 /\ callee.held = {}
       /\ callee = [fn |-> callee.fn, pc |-> callee.pc, fn_index |-> callee.fn_index,
                    arg_count |-> callee.arg_count, arg_i |-> callee.arg_i, held |-> callee.held]
  BY <1>6
<1>15. ActOK(callee, objects', packages')
  <2>1. CallOK(callee)
    BY <1>5, <1>14 DEF CallOK
  <2> QED  BY <1>14, <2>1 DEF ActOK, Readers
<1>16. ActLaid(callee, mid, hi, form_stack', objects')
  <2>1. CallLaid(callee, mid, hi, form_stack', objects')
    BY <1>4, <1>7, <1>12, <1>14 DEF CallLaid
  <2> QED  BY <1>5, <1>14, <2>1 DEF ActLaid, Readers
<1>17. LaysOut(caller, lo, mid) /\ LaysOut(callee, mid, hi) /\ EndsAt(hi)
  BY <1>1, <1>3, <1>4, <1>9, <1>10, <1>12, <1>13, <1>15, <1>16 DEF LaysOut, EndsAt
<1>18. StacksOK' /\ FormOK(value', objects')
  BY <1>1, <1>3, <1>8, FramesStay DEF StacksOK, Inv, ValueOK
<1>19. caller.fn # "intern_symbol" /\ Top.fn # "initialize_runtime"
  BY DEF Readers
<1> QED  BY <1>1, <1>9, <1>11, <1>14, <1>17, <1>18, <1>19, CallsOn DEF lo, mid

----------------------------------------------------------------------------
(* READ                                                                    *)

LEMMA ReadGoesOn ==
  ASSUME InitializesInOrder, Inv, Top.fn = "READ", Top.pc \notin {"gensym", "stream"},
         NEW act, acts' = Append(Below, act),
         act = [fn |-> "READ", pc |-> act.pc, file |-> act.file, stream |-> Top.stream,
                token |-> act.token, escaped |-> act.escaped, held |-> Top.held],
         UNCHANGED <<heap, image, stack, frames, value, ended>>
  PROVE  Inv' /\ Undisturbed
<1>1. PICK b : Laid(b, acts, form_stack, Len(frame_stack), objects)
  BY DEF Inv
<1> DEFINE lo == b[Len(acts) - 1]
           hi == b[Len(acts)]
<1>2. ActOK(Top, objects, packages) /\ ActLaid(Top, lo, hi, form_stack, objects)
  BY <1>1, TopIs
<1> HIDE DEF lo, hi
<1>3. act.fn = "READ" /\ act.stream = Top.stream /\ act.held = Top.held
  OBVIOUS
<1>4. ActOK(act, objects, packages)
  BY <1>2, <1>3 DEF ActOK, ReadOK, Readers
<1>5. ActLaid(act, lo, hi, form_stack, objects)
  BY <1>2, <1>3 DEF ActLaid, Readers
<1> QED  BY <1>1, <1>3, <1>4, <1>5, JustGoesOn DEF lo, hi

LEMMA ReadTokenKeeps ==
  ASSUME InitializesInOrder, Inv, ReadStartsToken \/ ReadStep8 \/ ReadEndsToken \/ ReadStep9
  PROVE  Inv' /\ Undisturbed
<1>1. Top.fn = "READ" /\ Top.pc \in {"step_1", "step_8", "step_9"}
  BY DEF ReadStartsToken, ReadStep8, ReadEndsToken, ReadStep9, Doing, In
<1>2. UNCHANGED <<heap, image, stack, frames, value, ended>>
  BY DEF ReadStartsToken, ReadStep8, ReadEndsToken, ReadStep9, Gathers, Goes, Becomes, session
<1>3. PICK pc, token, escaped, new :
        /\ acts' = Append(Below, new)
        /\ \/ new = [Top EXCEPT !.pc = pc]
           \/ new = [Top EXCEPT !.token = token, !.pc = pc]
           \/ new = [Top EXCEPT !.escaped = escaped, !.pc = pc]
  <2>1. CASE \E c : Gathers(<<Converted(c)>>, "step_8") \/ Gathers(<<Converted(c)>>, "step_9")
    BY <2>1 DEF Gathers, Becomes
  <2>2. CASE Becomes([Top EXCEPT !.escaped = TRUE, !.pc = "step_9"])
    BY <2>2 DEF Becomes
  <2>3. CASE Goes("step_10") \/ Goes("step_8")
    BY <2>3 DEF Goes, Becomes
  <2> QED  BY <2>1, <2>2, <2>3 DEF ReadStartsToken, ReadStep8, ReadEndsToken, ReadStep9
<1>4. Top = [fn |-> Top.fn, pc |-> Top.pc, file |-> Top.file, stream |-> Top.stream,
             token |-> Top.token, escaped |-> Top.escaped, held |-> Top.held]
  BY <1>1, TopIs DEF Inv, ActOK, ReadOK
<1>5. new = [fn |-> "READ", pc |-> new.pc, file |-> new.file, stream |-> Top.stream,
             token |-> new.token, escaped |-> new.escaped, held |-> Top.held]
  <2> DEFINE top == Top
  <2>1. top.fn = "READ" /\ top = [fn |-> top.fn, pc |-> top.pc, file |-> top.file, stream |-> top.stream,
                                  token |-> top.token, escaped |-> top.escaped, held |-> top.held]
    BY <1>1, <1>4
  <2>2. \/ new = [top EXCEPT !.pc = pc]
        \/ new = [top EXCEPT !.token = token, !.pc = pc]
        \/ new = [top EXCEPT !.escaped = escaped, !.pc = pc]
    BY <1>3
  <2> HIDE DEF top
  <2>3. new = [fn |-> "READ", pc |-> new.pc, file |-> new.file, stream |-> top.stream,
               token |-> new.token, escaped |-> new.escaped, held |-> top.held]
    BY <2>1, <2>2
  <2> QED  BY <2>3 DEF top
<1> QED  BY <1>1, <1>2, <1>3, <1>5, ReadGoesOn

(* Once functions are called, everything is installed.                     *)
LEMMA StartIsDone ==
  ASSUME InitializesInOrder, Inv, Top.fn \in {"call"} \cup Readers
  PROVE  /\ Done(Steps + 1, objects, packages)
         /\ \A p, name : Installed(p, name) => Bound(p, name, objects, packages)
         /\ "SYSTEM" \in DOMAIN packages /\ "COMMON-LISP" \in DOMAIN packages
<1>1. Top.fn \notin {"initialize_runtime", "intern_symbol"}
  BY DEF Readers
<1>2. acts[1].pc = Steps + 1
  BY <1>1, StartWaits
<1>3. Done(Steps + 1, objects, packages)
  BY <1>2 DEF Inv, StartOK
<1>4. ASSUME NEW p, NEW name, Installed(p, name)  PROVE Bound(p, name, objects, packages)
  <2>1. PICK i : /\ Does(i, "bind function") /\ InitializeRuntime[i].of = p
                 /\ InitializeRuntime[i].name = name
    BY <1>4 DEF Installed, Of
  <2>2. i \in 1 .. Steps /\ Steps \in Nat
    BY <2>1, OrderIs
  <2> DEFINE pc == Steps + 1
  <2>3. Done(pc, objects, packages)
    BY <1>3
  <2>4. i \in 1 .. pc - 1
    <3> HIDE DEF Steps
    <3> QED  BY <2>2
  <2> HIDE DEF pc
  <2>5. Bound(InitializeRuntime[i].of, InitializeRuntime[i].name, objects, packages)
    BY <2>1, <2>3, <2>4 DEF Done
  <2> QED  BY <2>1, <2>5
<1>5. Installed("SYSTEM", "REPL") /\ Installed("COMMON-LISP", "READ")
  BY DEF InitializesInOrder
<1> QED  BY <1>3, <1>4, <1>5 DEF Bound

LEMMA ReadGensymsKeeps ==
  ASSUME InitializesInOrder, Inv, ReadGensyms
  PROVE  Inv' /\ Undisturbed
<1>1. Top.fn = "READ" /\ Top.pc = "gensym" /\ Top.fn \in Readers
  BY DEF ReadGensyms, Doing, In, Readers
<1>2. PICK b : Laid(b, acts, form_stack, Len(frame_stack), objects)
  BY DEF Inv
<1>3. HeapGrows /\ Fresh \in DOMAIN objects' /\ \A below : Settled(objects, objects', below)
  <2>1. "SYSTEM" \in DOMAIN packages /\ ObjectsOK(objects, packages) /\ Gensyms("SYSTEM")
    BY <1>1, StartIsDone DEF Inv, ReadGensyms
  <2> QED  BY <2>1, GensymsGrow DEF Allocated, Settled
<1> DEFINE lo == b[Len(acts) - 1]
           hi == b[Len(acts)]
           act == [Top EXCEPT !.pc = "stream", !.held = {Fresh}]
<1>4. ActOK(Top, objects, packages) /\ ActLaid(Top, lo, hi, form_stack, objects)
  BY <1>2, TopIs
<1>5. act.fn = "READ" /\ act.pc = "stream" /\ act.held = {Fresh}
      /\ act = [fn |-> act.fn, pc |-> act.pc, file |-> act.file, stream |-> act.stream,
                token |-> act.token, escaped |-> act.escaped, held |-> act.held]
  <2>1. Top.fn = "READ" /\ Top = [fn |-> Top.fn, pc |-> Top.pc, file |-> Top.file, stream |-> Top.stream,
                                  token |-> Top.token, escaped |-> Top.escaped, held |-> Top.held]
    BY <1>1, <1>4 DEF ActOK, ReadOK
  <2>2. act = [Top EXCEPT !.pc = "stream", !.held = {Fresh}]
    OBVIOUS
  <2> HIDE DEF act
  <2>3. act = [fn |-> "READ", pc |-> "stream", file |-> Top.file, stream |-> Top.stream,
               token |-> Top.token, escaped |-> Top.escaped, held |-> {Fresh}]
    BY <2>1, <2>2
  <2> QED  BY <2>3
<1>6. acts' = Append(Below, act) /\ UNCHANGED <<stack, frames, value, ended>>
  BY DEF ReadGensyms, Becomes, session
<1> HIDE DEF act, lo, hi
<1>7. ActOK(act, objects', packages')
  BY <1>3, <1>5 DEF ActOK, ReadOK, Readers
<1>8. ActLaid(act, lo, hi, form_stack, objects')
  BY <1>1, <1>4, <1>5 DEF ActLaid, Readers
<1> QED  BY <1>1, <1>2, <1>3, <1>5, <1>6, <1>7, <1>8, HeapGoesOn DEF lo, hi

(* A stream is allocated and bound, or any other object that has no name   *)
(* and refers to nothing.                                                  *)
LEMMA BoundAllocation ==
  ASSUME Inv, NEW o, NEW env, NEW sym, NEW form,
         o = Stream(o.file) \/ o = String,
         Allocates(o, BoundTo(env, sym, form, objects)), packages' = packages
  PROVE  /\ HeapGrows /\ Allocated(o) /\ \A below : Settled(objects, objects', below)
         /\ \A id \in DOMAIN objects : objects'[id] = BoundTo(env, sym, form, objects)[id]
<1>1. ObjectsOK(objects, packages) /\ HeapOK(objects, packages)
  BY DEF Inv, ObjectsOK
<1> DEFINE others == BoundTo(env, sym, form, objects)
<1>2. /\ Altered(objects, others, Fresh, o)
      /\ \A id \in DOMAIN objects : objects[id].kind # "environment" => others[id] = objects[id]
  BY <1>1, BindingAlters
<1>3. o.kind \in {"stream", "string"} /\ ObjectOK(o, Fresh, objects, packages)
  <2>1. CASE o = Stream(o.file)
    <3>1. o.kind = "stream"
      BY <2>1 DEF Stream
    <3> QED  BY <2>1, <3>1 DEF ObjectOK, Stream
  <2>2. CASE o = String
    BY <2>2 DEF ObjectOK, String
  <2> QED  BY <2>1, <2>2
<1> HIDE DEF others
<1>4. Allocates(o, others)
  BY DEF others
<1>5. HeapGrows /\ Allocated(o) /\ \A id \in DOMAIN objects : objects'[id] = others[id]
  BY <1>1, <1>2, <1>3, <1>4, QuietAllocation
<1> QED  BY <1>2, <1>5 DEF Settled, others

LEMMA ReadAllocatesStreamKeeps ==
  ASSUME InitializesInOrder, Inv, ReadAllocatesStream
  PROVE  Inv' /\ Undisturbed
<1>1. Top.fn = "READ" /\ Top.pc = "stream" /\ Top.fn \in Readers
  BY DEF ReadAllocatesStream, Doing, In, Readers
<1>2. PICK b : Laid(b, acts, form_stack, Len(frame_stack), objects)
  BY DEF Inv
<1>3. HeapGrows /\ Fresh \in DOMAIN objects' /\ \A below : Settled(objects, objects', below)
  <2> DEFINE o == Stream(Top.file)
  <2>1. o = Stream(o.file) /\ packages' = packages
        /\ \E sym, form : Allocates(o, BoundTo(CurrentEnv, sym, form, objects))
    BY DEF ReadAllocatesStream, Stream, image
  <2> HIDE DEF o
  <2> QED  BY <2>1, BoundAllocation DEF Allocated
<1> DEFINE lo == b[Len(acts) - 1]
           hi == b[Len(acts)]
           act == [Top EXCEPT !.pc = "step_1", !.stream = Fresh, !.held = {Fresh}]
<1>4. ActOK(Top, objects, packages) /\ ActLaid(Top, lo, hi, form_stack, objects)
  BY <1>2, TopIs
<1>5. act.fn = "READ" /\ act.pc = "step_1" /\ act.held = {Fresh} /\ act.stream = Fresh
      /\ act = [fn |-> act.fn, pc |-> act.pc, file |-> act.file, stream |-> act.stream,
                token |-> act.token, escaped |-> act.escaped, held |-> act.held]
  <2>1. Top.fn = "READ" /\ Top = [fn |-> Top.fn, pc |-> Top.pc, file |-> Top.file, stream |-> Top.stream,
                                  token |-> Top.token, escaped |-> Top.escaped, held |-> Top.held]
    BY <1>1, <1>4 DEF ActOK, ReadOK
  <2>2. act = [Top EXCEPT !.pc = "step_1", !.stream = Fresh, !.held = {Fresh}]
    OBVIOUS
  <2> HIDE DEF act
  <2>3. act = [fn |-> "READ", pc |-> "step_1", file |-> Top.file, stream |-> Fresh,
               token |-> Top.token, escaped |-> Top.escaped, held |-> {Fresh}]
    BY <2>1, <2>2
  <2> QED  BY <2>3
<1>6. acts' = Append(Below, act) /\ UNCHANGED <<stack, frames, value, ended>>
  BY DEF ReadAllocatesStream, Becomes, session
<1> HIDE DEF act, lo, hi
<1>7. ActOK(act, objects', packages')
  BY <1>3, <1>5 DEF ActOK, ReadOK, Readers
<1>8. ActLaid(act, lo, hi, form_stack, objects')
  BY <1>1, <1>4, <1>5 DEF ActLaid, Readers
<1> QED  BY <1>1, <1>2, <1>3, <1>5, <1>6, <1>7, <1>8, HeapGoesOn DEF lo, hi

LEMMA ReadSkipsWhitespaceKeeps ==
  ASSUME Inv, ReadSkipsWhitespace \/ ReadFails \/ ReadCallsNothing
  PROVE  Inv'
<1>1. UNCHANGED <<heap, image, stack, frames, acts, value>>
  BY DEF ReadSkipsWhitespace, ReadFails, ReadCallsNothing, Ends
<1>2. ended' \in {"running", "end of input", "quit", "aborted", "looping", "undefined"}
  <2>1. CASE ReadSkipsWhitespace
    BY <2>1 DEF ReadSkipsWhitespace, session, Inv
  <2>2. CASE ReadFails \/ ReadCallsNothing
    BY <2>2 DEF ReadFails, ReadCallsNothing, Ends
  <2> QED  BY <2>1, <2>2
<1> QED  BY <1>1, <1>2, JustEnds

(* A function of the reader returns, which has pushed k forms.             *)
LEMMA ReaderReturns ==
  ASSUME InitializesInOrder, Inv, Top.fn \in Readers, acts' = Below, HeapGrows,
         NEW b, Laid(b, acts, form_stack, Len(frame_stack), objects),
         Settled(objects, objects', b[Len(acts) - 1].conses),
         NEW k \in Nat, b[Len(acts)].forms = b[Len(acts) - 1].forms + k,
         form_stack' = DropLast(form_stack, k) \/ (k = 0 /\ form_stack' = form_stack),
         UNCHANGED <<form_cap, frames, ended>>, FormOK(value', objects')
  PROVE  Inv' /\ Undisturbed
<1> DEFINE lo == b[Len(acts) - 1]
           hi == b[Len(acts)]
           m == Len(form_stack)
<1>1. /\ lo \in Levels /\ hi \in Levels /\ lo.conses <= hi.conses
      /\ hi.forms = m /\ hi.frames = Len(frame_stack)
      /\ hi.conses <= Size(objects) /\ ActLaid(Top, lo, hi, form_stack, objects)
  BY TopIs
<1>2. lo.forms + k = m /\ lo.forms \in Nat /\ m \in Nat
  BY <1>1 DEF Levels
<1>3. Grows(objects, objects') /\ FormsOK(form_stack, form_cap, objects) /\ UNCHANGED form_cap
  BY DEF HeapGrows, Steady, Inv
<1> HIDE DEF lo, hi, m
<1>4. k <= m /\ m - k = lo.forms
  BY <1>2
<1>5. /\ FormsOK(form_stack', form_cap', objects') /\ Len(form_stack') = lo.forms
      /\ Agree(form_stack, form_stack', lo.forms)
  <2>1. CASE form_stack' = DropLast(form_stack, k)
    BY <1>3, <1>4, <2>1, FormsPopped DEF m
  <2>2. CASE k = 0 /\ form_stack' = form_stack
    <3>1. Len(form_stack') = lo.forms
      BY <1>2, <2>2 DEF m
    <3>2. UNCHANGED stack
      BY <1>3, <2>2 DEF stack
    <3> QED  BY <1>3, <2>2, <3>1, <3>2, FormsStay DEF Agree
  <2> QED  BY <2>1, <2>2
<1>6. KeepsLower(b)
  BY <1>5 DEF KeepsLower, lo
<1>7. EndsAt(lo)
  <2>1. hi.frames = lo.frames
    BY <1>1 DEF ActLaid
  <2>2. Len(frame_stack') = Len(frame_stack)
    BY DEF frames
  <2>3. lo.conses <= Size(objects')
    <3>1. Size(objects) \in Nat /\ Size(objects') \in Nat /\ Size(objects) <= Size(objects')
      BY SizeIs DEF Inv, ObjectsOK, HeapGrows
    <3>2. hi.conses \in Nat /\ lo.conses \in Nat
      BY <1>1 DEF Levels
    <3> QED  BY <1>1, <3>1, <3>2
  <2> QED  BY <1>1, <1>5, <2>1, <2>2, <2>3 DEF EndsAt
<1>8. StacksOK'
  <2>1. UNCHANGED frames
    OBVIOUS
  <2> QED  BY <1>3, <1>5, <2>1, FramesStay DEF StacksOK, Inv
<1>9. Top.fn \notin {"initialize_runtime", "intern_symbol"} /\ ended' = ended
  BY DEF Readers
<1> QED  BY <1>6, <1>7, <1>8, <1>9, ReturnsTo DEF lo

LEMMA ReadReturnsKeeps ==
  ASSUME InitializesInOrder, Inv, ReadNumber \/ ReadReturns
  PROVE  Inv' /\ Undisturbed
<1>1. Top.fn = "READ" /\ Top.fn \in Readers
  BY DEF ReadNumber, ReadReturns, Doing, In, Readers
<1>2. PICK b : Laid(b, acts, form_stack, Len(frame_stack), objects)
  BY DEF Inv
<1>3. /\ objects' = objects /\ packages' = packages /\ form_stack' = form_stack
      /\ UNCHANGED <<form_cap, frames, ended>> /\ acts' = Below
  BY DEF ReadNumber, ReadReturns, Returns, heap, image, stack, session
<1>4. FormOK(value', objects')
  <2>1. CASE ReadNumber
    BY <2>1 DEF ReadNumber, Returns, FormOK, Fixnum
  <2>2. CASE ReadReturns
    BY <1>3, <2>2 DEF ReadReturns, Returns, Inv, ValueOK
  <2> QED  BY <2>1, <2>2
<1>5. HeapGrows /\ \A below : Settled(objects, objects', below)
  BY <1>3, HeapStays
<1> DEFINE lo == b[Len(acts) - 1]
           hi == b[Len(acts)]
<1>6. hi.forms = lo.forms + 0
  <2>1. hi.forms = lo.forms /\ lo.forms \in Nat
    BY <1>1, <1>2, TopIs DEF ActLaid, Levels
  <2> HIDE DEF lo, hi
  <2> QED  BY <2>1
<1> HIDE DEF lo, hi
<1>7. 0 \in Nat /\ (form_stack' = DropLast(form_stack, 0) \/ (0 = 0 /\ form_stack' = form_stack))
  BY <1>3
<1> QED  BY <1>1, <1>2, <1>3, <1>4, <1>5, <1>6, <1>7, ReaderReturns DEF lo, hi

(* A reader macro is called.                                               *)
LEMMA ReadCallsMacroKeeps ==
  ASSUME InitializesInOrder, Inv, ReadCallsMacro
  PROVE  Inv' /\ Undisturbed
<1>1. Top.fn = "READ" /\ Top.fn \in Readers /\ Top.pc = "step_1"
  BY DEF ReadCallsMacro, Doing, In, Readers
<1>2. PICK b : Laid(b, acts, form_stack, Len(frame_stack), objects)
  BY DEF Inv
<1> DEFINE lo == b[Len(acts) - 1]
           hi == b[Len(acts)]
           caller == [Top EXCEPT !.pc = "macro"]
           fn == objects[SystemReadtable].macros[NextChar]
           args == <<Object(Top.stream), Char(NextChar)>>
<1>3. CallsFunction(caller, fn, args) /\ UNCHANGED <<heap, image, frames, ended>>
  BY DEF ReadCallsMacro, session
<1>4. ActOK(Top, objects, packages) /\ ActLaid(Top, lo, hi, form_stack, objects)
  BY <1>2, TopIs
<1>5. IsSeq(args) /\ Len(args) = 2 /\ args[1] = Object(Top.stream) /\ args[2] = Char(NextChar)
  BY PairIs
<1>6. fn \in DOMAIN objects
  <2>1. NextChar \in MacroCharacters
    BY DEF ReadCallsMacro, IsMacro
  <2> DEFINE pc == Steps + 1
  <2>2. Steps - 2 < pc
    <3>1. Steps \in Nat
      BY OrderIs
    <3> HIDE DEF Steps
    <3> QED  BY <3>1
  <2>3. Done(pc, objects, packages)
    BY <1>1, StartIsDone
  <2> HIDE DEF pc
  <2> QED  BY <2>1, <2>2, <2>3 DEF Done
<1>7. caller = [fn |-> "READ", pc |-> "macro", file |-> Top.file, stream |-> Top.stream,
                token |-> Top.token, escaped |-> Top.escaped, held |-> Top.held]
  <2>1. Top.fn = "READ" /\ Top = [fn |-> Top.fn, pc |-> Top.pc, file |-> Top.file, stream |-> Top.stream,
                                  token |-> Top.token, escaped |-> Top.escaped, held |-> Top.held]
    BY <1>1, <1>4 DEF ActOK, ReadOK
  <2>2. caller = [Top EXCEPT !.pc = "macro"]
    OBVIOUS
  <2> HIDE DEF caller
  <2> QED  BY <2>1, <2>2
<1> HIDE DEF caller, fn, args, lo, hi
<1>8. caller.fn = "READ" /\ caller.pc = "macro" /\ caller.held = Top.held /\ caller.stream = Top.stream
      /\ caller = [fn |-> caller.fn, pc |-> caller.pc, file |-> caller.file, stream |-> caller.stream,
                   token |-> caller.token, escaped |-> caller.escaped, held |-> caller.held]
  BY <1>7
<1>9. ActOK(caller, objects, packages)
  BY <1>1, <1>4, <1>8 DEF ActOK, ReadOK, Readers
<1>10. ActLaid(caller, lo, hi, form_stack, objects)
  BY <1>1, <1>4, <1>8 DEF ActLaid, Readers
<1>11. Waits(caller, CallAct(Len(args)))
  BY <1>8 DEF Waits, CallAct, Readers
<1>12. Suits(Object(fn), Len(args), objects)
  BY <1>5, <1>6 DEF Suits
<1>13. \A i \in 1 .. Len(args) : FormOK(args[i], objects)
  <2>1. Top.stream \in DOMAIN objects
    BY <1>1, <1>4 DEF ActOK, ReadOK
  <2>2. FormOK(args[1], objects) /\ FormOK(args[2], objects)
    BY <1>5, <2>1 DEF FormOK, Object, Char
  <2> QED  BY <1>5, <2>2
<1>14. Len(args) \in 0 .. 2
  BY <1>5
<1> QED  BY <1>1, <1>2, <1>3, <1>5, <1>8, <1>9, <1>10, <1>11, <1>12, <1>13, <1>14, FunctionCalled
         DEF lo, hi

(* Whatever runs but the start has an environment.                         *)
LEMMA CurrentEnvIs ==
  ASSUME Inv, Top.fn \in {"call"} \cup Readers
  PROVE  /\ Is(CurrentEnv, "environment", objects)
         /\ objects[CurrentEnv].package \in DOMAIN packages
         /\ 1 <= Len(frame_stack) /\ Len(frame_stack) \in Nat
<1>1. PICK b : Laid(b, acts, form_stack, Len(frame_stack), objects)
  BY DEF Inv
<1> DEFINE lo == b[Len(acts) - 1]
           hi == b[Len(acts)]
           m == Len(frame_stack)
<1>2. /\ lo \in Levels /\ hi \in Levels /\ hi.frames = m
      /\ ActLaid(Top, lo, hi, form_stack, objects)
  BY <1>1, TopIs
<1> HIDE DEF lo, hi, m
<1>3. lo.frames \in Nat /\ 1 <= lo.frames /\ (hi.frames = lo.frames \/ hi.frames = lo.frames + 1)
  BY <1>2 DEF ActLaid, CallLaid, Levels
<1>4. m \in Nat /\ 1 <= m
  BY <1>2, <1>3
<1>5. m \in 1 .. m
  BY <1>4
<1>6. Is(CurrentEnv, "environment", objects)
  BY <1>4, <1>5 DEF Inv, FramesOK, CurrentEnv, Last, m
<1>7. EnvironmentOK(objects[CurrentEnv], CurrentEnv, objects, packages)
  <2>1. CurrentEnv \in DOMAIN objects /\ objects[CurrentEnv].kind = "environment"
    BY <1>6 DEF Is
  <2>2. ObjectOK(objects[CurrentEnv], CurrentEnv, objects, packages)
    BY <2>1 DEF Inv, ObjectsOK, HeapOK
  <2> QED  BY <2>1, <2>2 DEF ObjectOK
<1> QED  BY <1>4, <1>6, <1>7 DEF EnvironmentOK, m

LEMMA ReadSymbolKeeps ==
  ASSUME InitializesInOrder, Inv, ReadSymbol
  PROVE  Inv' /\ Undisturbed
<1>1. Top.fn = "READ" /\ Top.fn \in Readers /\ Top.pc = "step_10"
  BY DEF ReadSymbol, Doing, In, Readers
<1>2. PICK b : Laid(b, acts, form_stack, Len(frame_stack), objects)
  BY DEF Inv
<1> DEFINE lo == b[Len(acts) - 1]
           hi == b[Len(acts)]
           caller == [Top EXCEPT !.pc = "interned"]
           p == objects[CurrentEnv].package
           callee == InternAct(p, Top.token)
<1>3. UNCHANGED <<heap, image, stack, frames, value, ended>> /\ acts' = Below \o <<caller, callee>>
  BY DEF ReadSymbol, session, Calls
<1>4. ActOK(Top, objects, packages) /\ ActLaid(Top, lo, hi, form_stack, objects)
  BY <1>2, TopIs
<1>5. p \in DOMAIN packages
  BY <1>1, CurrentEnvIs
<1>6. caller = [fn |-> "READ", pc |-> "interned", file |-> Top.file, stream |-> Top.stream,
                token |-> Top.token, escaped |-> Top.escaped, held |-> Top.held]
  <2>1. Top.fn = "READ" /\ Top = [fn |-> Top.fn, pc |-> Top.pc, file |-> Top.file, stream |-> Top.stream,
                                  token |-> Top.token, escaped |-> Top.escaped, held |-> Top.held]
    BY <1>1, <1>4 DEF ActOK, ReadOK
  <2>2. caller = [Top EXCEPT !.pc = "interned"]
    OBVIOUS
  <2> HIDE DEF caller
  <2> QED  BY <2>1, <2>2
<1> HIDE DEF caller, lo, hi, p
<1>7. callee.fn = "intern_symbol" /\ ActOK(callee, objects, packages)
  <2>1. callee = [fn |-> "intern_symbol", pc |-> "find", package |-> p, name |-> Top.token, held |-> {}]
    BY DEF InternAct
  <2> HIDE DEF callee
  <2>2. /\ callee.fn = "intern_symbol" /\ callee.pc = "find" /\ callee.package = p /\ callee.held = {}
        /\ callee = [fn |-> callee.fn, pc |-> callee.pc, package |-> callee.package,
                     name |-> callee.name, held |-> callee.held]
    BY <2>1
  <2>3. InternOK(callee, objects, packages)
    BY <1>5, <2>2 DEF InternOK
  <2> QED  BY <2>2, <2>3 DEF ActOK, Readers
<1> HIDE DEF callee
<1>8. caller.fn = "READ" /\ caller.pc = "interned" /\ caller.held = Top.held /\ caller.stream = Top.stream
      /\ caller = [fn |-> caller.fn, pc |-> caller.pc, file |-> caller.file, stream |-> caller.stream,
                   token |-> caller.token, escaped |-> caller.escaped, held |-> caller.held]
  BY <1>6
<1>9. ActOK(caller, objects, packages)
  BY <1>1, <1>4, <1>8 DEF ActOK, ReadOK, Readers
<1>10. ActLaid(caller, lo, hi, form_stack, objects)
  BY <1>1, <1>4, <1>8 DEF ActLaid, Readers
<1>11. ActLaid(callee, hi, hi, form_stack, objects)
  BY <1>7 DEF ActLaid, Readers
<1>12. Waits(caller, callee)
  BY <1>7, <1>8 DEF Waits, Readers
<1>13. Top.fn \notin {"initialize_runtime", "intern_symbol"} /\ caller.fn = Top.fn /\ callee.fn # "'"
  BY <1>1, <1>7, <1>8
<1> QED  BY <1>2, <1>3, <1>7, <1>9, <1>10, <1>11, <1>12, <1>13, JustCalls DEF lo, hi

----------------------------------------------------------------------------
(* interpret_function_call                                                 *)

(* An activation that has pushed nothing yet.                              *)
Begins(act) ==
  /\ act.fn \in Readers
  /\ act.fn = "(" => act.last = NoBuffer
  /\ act.fn = "\"" => act.pc # "chars"
  /\ act.fn = "'" => act.pc \notin {"read", "form"}

(* The call has its arguments and invokes the function.                    *)
LEMMA Invoked ==
  ASSUME InitializesInOrder, Inv, NEW name, NEW act, Invokes(name, act),
         ActOK(act, objects, packages), Begins(act)
  PROVE  Inv' /\ Undisturbed
<1>1. Top.fn = "call" /\ Top.pc = "arguments"
  BY DEF Invokes, Doing, In
<1>2. PICK b : Laid(b, acts, form_stack, Len(frame_stack), objects)
  BY DEF Inv
<1> DEFINE lo == b[Len(acts) - 1]
           hi == b[Len(acts)]
           caller == [Top EXCEPT !.pc = "return"]
<1>3. UNCHANGED <<heap, image, stack, frames, value, ended>> /\ acts' = Below \o <<caller, act>>
  BY DEF Invokes, session, Calls
<1>4. /\ ActOK(Top, objects, packages) /\ ActLaid(Top, lo, hi, form_stack, objects)
      /\ lo \in Levels /\ hi \in Levels
  BY <1>2, TopIs
<1>5. caller = [fn |-> "call", pc |-> "return", fn_index |-> Top.fn_index,
                arg_count |-> Top.arg_count, arg_i |-> Top.arg_i, held |-> Top.held]
  <2>1. Top.fn = "call" /\ Top = [fn |-> Top.fn, pc |-> Top.pc, fn_index |-> Top.fn_index,
                                  arg_count |-> Top.arg_count, arg_i |-> Top.arg_i, held |-> Top.held]
    BY <1>1, <1>4 DEF ActOK, CallOK
  <2>2. caller = [Top EXCEPT !.pc = "return"]
    OBVIOUS
  <2> HIDE DEF caller
  <2> QED  BY <2>1, <2>2
<1> HIDE DEF caller, lo, hi
<1>6. /\ caller.fn = "call" /\ caller.pc = "return" /\ caller.fn_index = Top.fn_index
      /\ caller.arg_count = Top.arg_count /\ caller.arg_i = Top.arg_i /\ caller.held = Top.held
      /\ caller = [fn |-> caller.fn, pc |-> caller.pc, fn_index |-> caller.fn_index,
                   arg_count |-> caller.arg_count, arg_i |-> caller.arg_i, held |-> caller.held]
  BY <1>5
<1>7. ActOK(caller, objects, packages)
  BY <1>1, <1>4, <1>6 DEF ActOK, CallOK, Readers
<1>8. ActLaid(caller, lo, hi, form_stack, objects) /\ 1 <= lo.frames /\ hi.frames = lo.frames + 1
  BY <1>1, <1>4, <1>6 DEF ActLaid, CallLaid, Readers
<1>9. 1 <= hi.frames
  <2>1. lo.frames \in Nat /\ hi.frames \in Nat
    BY <1>4 DEF Levels
  <2> QED  BY <1>8, <2>1
<1>10. ActLaid(act, hi, hi, form_stack, objects)
  BY <1>9 DEF Begins, ActLaid, Readers, OpenParenLaid, DoubleQuoteLaid, SingleQuoteLaid
<1>11. Waits(caller, act)
  BY <1>6 DEF Begins, Waits, Readers
<1>12. Top.fn \notin {"initialize_runtime", "intern_symbol"} /\ caller.fn = Top.fn
  BY <1>1, <1>6
<1>13. act.fn # "'" \/ act.pc # "read"
  BY DEF Begins
<1> QED  BY <1>2, <1>3, <1>7, <1>8, <1>10, <1>11, <1>12, <1>13, JustCalls DEF lo, hi

(* A function that expects an argument finds a form in the list.           *)
LEMMA FirstArgumentIs ==
  ASSUME InitializesInOrder, Inv, Doing("call", "arguments"), Top.arg_i = Top.arg_count,
         NEW name, name \notin {"READ", "REPL"},
         objects[form_stack[Top.fn_index + 1][2]].name = name
  PROVE  FormOK(FirstArgument, objects)
<1>1. Top.fn = "call" /\ Top.pc = "arguments"
  BY DEF Doing, In
<1>2. PICK b : Laid(b, acts, form_stack, Len(frame_stack), objects)
  BY DEF Inv
<1> DEFINE lo == b[Len(acts) - 1]
           hi == b[Len(acts)]
<1>3. /\ ActOK(Top, objects, packages) /\ ActLaid(Top, lo, hi, form_stack, objects)
      /\ lo \in Levels /\ hi \in Levels
  BY <1>2, TopIs
<1> HIDE DEF lo, hi
<1>4. CallLaid(Top, lo, hi, form_stack, objects) /\ CallOK(Top)
  BY <1>1, <1>3 DEF ActLaid, ActOK
<1>5. Suits(form_stack[Top.fn_index + 1], Top.arg_count, objects) /\ Top.fn_index = lo.forms
      /\ hi.forms = lo.forms + Top.arg_count + 2
      /\ Evaluated(form_stack[hi.forms], Top.arg_i, lo.conses, hi.conses, objects)
  BY <1>1, <1>4 DEF CallLaid
<1>6. Top.arg_count \in {1, 2}
  <2>1. PICK id \in DOMAIN objects :
          /\ form_stack[Top.fn_index + 1] = Object(id)
          /\ Top.arg_count > 0 \/ objects[id] = Inherent("READ") \/ objects[id] = Inherent("REPL")
    BY <1>5 DEF Suits
  <2>2. objects[id].name = name
    BY <2>1 DEF Object
  <2>3. Top.arg_count > 0
    BY <2>1, <2>2 DEF Inherent
  <2> QED  BY <1>4, <2>3 DEF CallOK
<1>7. EvaledOffset(Top) + 1 = hi.forms
  BY <1>3, <1>5, <1>6 DEF EvaledOffset, Levels
<1>8. PICK h \in DOMAIN objects : form_stack[hi.forms] = Object(h) /\ objects[h].kind = "cons"
  BY <1>5, <1>6 DEF Evaluated
<1>9. FormOK(objects[h].car, objects)
  <2>1. ObjectOK(objects[h], h, objects, packages)
    BY DEF Inv, ObjectsOK, HeapOK
  <2> QED  BY <1>8, <2>1 DEF ObjectOK, ConsOK
<1> QED  BY <1>7, <1>8, <1>9 DEF FirstArgument, Object

LEMMA StartsKeep ==
  ASSUME InitializesInOrder, Inv,
         ReadStarts \/ OpenParenStarts \/ DoubleQuoteStarts \/ SingleQuoteStarts \/ ReplStarts
  PROVE  Inv' /\ Undisturbed
<1>1. CASE ReadStarts
  <2>1. PICK file : Invokes("READ", ReadAct(file))
    BY <1>1 DEF ReadStarts
  <2> DEFINE act == ReadAct(file)
  <2>2. act.fn = "READ" /\ act.pc = "gensym" /\ act.held = {}
        /\ act = [fn |-> act.fn, pc |-> act.pc, file |-> act.file, stream |-> act.stream,
                  token |-> act.token, escaped |-> act.escaped, held |-> act.held]
    BY DEF ReadAct
  <2>3. Invokes("READ", act)
    BY <2>1
  <2> HIDE DEF act
  <2>4. ActOK(act, objects, packages) /\ Begins(act)
    BY <2>2 DEF ActOK, ReadOK, Readers, Begins
  <2> QED  BY <2>2, <2>3, <2>4, Invoked
<1>2. CASE OpenParenStarts
  <2>1. PICK file : Invokes("READ-OPEN-PAREN", OpenParenAct(file))
    BY <1>2 DEF OpenParenStarts
  <2> DEFINE act == OpenParenAct(file)
  <2>2. act.fn = "(" /\ act.pc = "scan" /\ act.held = {} /\ act.last = NoBuffer
        /\ act = [fn |-> act.fn, pc |-> act.pc, file |-> act.file, depth |-> act.depth,
                  chars |-> act.chars, temp |-> act.temp, stream |-> act.stream,
                  last |-> act.last, cons |-> act.cons, held |-> act.held]
    BY DEF OpenParenAct
  <2>3. Invokes("READ-OPEN-PAREN", act)
    BY <2>1
  <2> HIDE DEF act
  <2>4. ActOK(act, objects, packages) /\ Begins(act)
    BY <2>2 DEF ActOK, OpenParenOK, Readers, Begins
  <2> QED  BY <2>2, <2>3, <2>4, Invoked
<1>3. CASE DoubleQuoteStarts
  <2>1. PICK file : Invokes("READ-DOUBLE-QUOTE", DoubleQuoteAct(file))
    BY <1>3 DEF DoubleQuoteStarts
  <2> DEFINE act == DoubleQuoteAct(file)
  <2>2. act.fn = "\"" /\ act.pc = "scan" /\ act.held = {}
        /\ act = [fn |-> act.fn, pc |-> act.pc, file |-> act.file, chars |-> act.chars,
                  escaped |-> act.escaped, held |-> act.held]
    BY DEF DoubleQuoteAct
  <2>3. Invokes("READ-DOUBLE-QUOTE", act)
    BY <2>1
  <2> HIDE DEF act
  <2>4. ActOK(act, objects, packages) /\ Begins(act)
    BY <2>2 DEF ActOK, DoubleQuoteOK, Readers, Begins
  <2> QED  BY <2>2, <2>3, <2>4, Invoked
<1>4. CASE SingleQuoteStarts
  <2> DEFINE act == SingleQuoteAct(FirstArgument)
  <2>1. Invokes("READ-SINGLE-QUOTE", act)
    BY <1>4 DEF SingleQuoteStarts
  <2>2. act.fn = "'" /\ act.pc = "intern" /\ act.held = Ids({FirstArgument})
        /\ act.stream = FirstArgument
        /\ act = [fn |-> act.fn, pc |-> act.pc, stream |-> act.stream, held |-> act.held]
    BY DEF SingleQuoteAct
  <2>3. FormOK(FirstArgument, objects)
    <3>1. /\ Doing("call", "arguments") /\ Top.arg_i = Top.arg_count
          /\ objects[form_stack[Top.fn_index + 1][2]].name = "READ-SINGLE-QUOTE"
      BY <2>1 DEF Invokes
    <3> DEFINE name == "READ-SINGLE-QUOTE"
    <3>2. name \notin {"READ", "REPL"} /\ objects[form_stack[Top.fn_index + 1][2]].name = name
      BY <3>1
    <3> HIDE DEF name
    <3> QED  BY <3>1, <3>2, FirstArgumentIs
  <2> HIDE DEF act
  <2>4. act.held \subseteq DOMAIN objects
    BY <2>2, <2>3 DEF Ids, FormOK
  <2>5. ActOK(act, objects, packages) /\ Begins(act)
    BY <2>2, <2>3, <2>4 DEF ActOK, SingleQuoteOK, Readers, Begins
  <2> QED  BY <2>1, <2>2, <2>5, Invoked
<1>5. CASE ReplStarts
  <2> DEFINE act == ReplAct
  <2>1. Invokes("REPL", act)
    BY <1>5 DEF ReplStarts
  <2>2. act.fn = "REPL" /\ act.pc = "gensym" /\ act.held = {}
        /\ act = [fn |-> act.fn, pc |-> act.pc, string |-> act.string, held |-> act.held]
    BY DEF ReplAct
  <2> HIDE DEF act
  <2>4. ActOK(act, objects, packages) /\ Begins(act)
    BY <2>2 DEF ActOK, ReplOK, Readers, Begins
  <2> QED  BY <2>1, <2>2, <2>4, Invoked
<1> QED  BY <1>1, <1>2, <1>3, <1>4, <1>5

(* A function that is given by its value at the next argument, as long as  *)
(* there is one, exists where the arguments come to an end.                *)
ComesToAnEnd(S, V, K, m, nx, step, start) ==
  /\ K \in Nat /\ m \in [S -> 0 .. K] /\ \A x \in S : nx[x] \in S => m[nx[x]] < m[x]
  /\ start \in [S -> V] /\ \A x \in S, v \in V : step[x][v] \in V

LEMMA RecursionIs ==
  ASSUME NEW S, NEW V, NEW K, NEW m, NEW nx, NEW step, NEW start,
         ComesToAnEnd(S, V, K, m, nx, step, start)
  PROVE  \E f \in [S -> V] :
           \A x \in S : f[x] = IF nx[x] \in S THEN step[x][f[nx[x]]] ELSE start[x]
<1>0. /\ K \in Nat /\ m \in [S -> 0 .. K] /\ \A x \in S : nx[x] \in S => m[nx[x]] < m[x]
      /\ start \in [S -> V] /\ \A x \in S, v \in V : step[x][v] \in V
  BY DEF ComesToAnEnd
<1> DEFINE Part(k) == {x \in S : m[x] < k}
           Fits(f, k) == /\ f \in [Part(k) -> V]
                         /\ \A x \in Part(k) :
                              f[x] = IF nx[x] \in S THEN step[x][f[nx[x]]] ELSE start[x]
           Lacks == {k \in Nat : ~\E f : Fits(f, k)}
<1>1. ASSUME Lacks # {}  PROVE FALSE
  <2>1. Lacks \subseteq Nat
    OBVIOUS
  <2>2. PICK k \in Lacks : \A y \in Lacks : k <= y
    <3> HIDE DEF Lacks
    <3> QED  BY <1>1, <2>1, LeastIs
  <2>3. k \in Nat
    BY <2>1, <2>2
  <2>4. CASE k = 0
    <3>1. Part(k) = {}
      BY <1>0, <2>4
    <3> DEFINE f == [x \in Part(k) |-> start[x]]
    <3>2. Fits(f, k)
      BY <1>0, <3>1
    <3> QED  BY <2>2, <3>2
  <2>5. CASE k # 0
    <3>1. k - 1 \in Nat /\ k - 1 < k
      BY <2>3, <2>5
    <3>2. k - 1 \notin Lacks
      <4> HIDE DEF Lacks
      <4> QED  BY <2>2, <2>3, <3>1
    <3>3. PICK f : Fits(f, k - 1)
      BY <3>1, <3>2
    <3>4. ASSUME NEW x \in Part(k)
          PROVE  x \in S /\ (nx[x] \in S => nx[x] \in Part(k - 1) /\ nx[x] \in Part(k))
      <4>1. x \in S /\ m[x] \in 0 .. K /\ m[x] < k
        BY <1>0
      <4>2. ASSUME nx[x] \in S  PROVE m[nx[x]] < k - 1 /\ m[nx[x]] < k
        <5>1. m[nx[x]] \in 0 .. K /\ m[nx[x]] < m[x]
          BY <1>0, <4>1, <4>2
        <5> QED  BY <1>0, <2>3, <4>1, <5>1
      <4> QED  BY <4>1, <4>2
    <3>5. \A x \in Part(k - 1) : x \in Part(k)
      <4> SUFFICES ASSUME NEW x \in S, m[x] < k - 1  PROVE m[x] < k
        OBVIOUS
      <4>1. m[x] \in 0 .. K
        BY <1>0
      <4> QED  BY <1>0, <2>3, <4>1
    <3> DEFINE g == [x \in Part(k) |-> IF nx[x] \in S THEN step[x][f[nx[x]]] ELSE start[x]]
    <3> HIDE DEF Part
    <3>6. g \in [Part(k) -> V]
      BY <1>0, <3>3, <3>4
    <3>7. \A x \in Part(k - 1) : g[x] = f[x]
      BY <3>3, <3>5
    <3>8. \A x \in Part(k) : g[x] = IF nx[x] \in S THEN step[x][g[nx[x]]] ELSE start[x]
      BY <3>4, <3>7
    <3>9. Fits(g, k)
      BY <3>6, <3>8
    <3> QED  BY <2>2, <3>9
  <2> QED  BY <2>4, <2>5
<1>2. PICK f : Fits(f, K + 1)
  <2>1. K + 1 \in Nat
    BY <1>0
  <2> QED  BY <1>1, <2>1
<1>3. Part(K + 1) = S
  <2> SUFFICES ASSUME NEW x \in S  PROVE m[x] < K + 1
    OBVIOUS
  <2>1. m[x] \in 0 .. K
    BY <1>0
  <2> QED  BY <1>0, <2>1
<1> QED  BY <1>2, <1>3

LEMMA ConsesIs ==
  ASSUME HeapOK(objects, packages), NEW h \in DOMAIN objects, objects[h].kind = "cons"
  PROVE  Conses(Object(h)) =
           <<h>> \o IF objects[h].cdr = Nil THEN <<>> ELSE Conses(objects[h].cdr)
<1> DEFINE S == {c \in DOMAIN objects : objects[c].kind = "cons"}
           V == Seq(S)
           K == Size(objects)
           m == [x \in S |-> K - x]
           nx == [x \in S |-> IF objects[x].cdr = Nil THEN Null ELSE objects[x].cdr[2]]
           step == [x \in S |-> [v \in V |-> <<x>> \o v]]
           start == [x \in S |-> <<x>> \o <<>>]
           R(from) == [id \in S |->
                         <<id>> \o IF objects[id].cdr = Nil THEN <<>> ELSE from[objects[id].cdr[2]]]
           from == CHOOSE from : from = R(from)
<1>1. K \in Nat /\ DOMAIN objects = 0 .. K - 1
  BY SizeIs
<1>2. ASSUME NEW x \in S
      PROVE  /\ x \in 0 .. K - 1
             /\ objects[x].cdr = Nil \/ (objects[x].cdr[2] \in S /\ objects[x].cdr = Object(objects[x].cdr[2])
                                         /\ x < objects[x].cdr[2] /\ objects[x].cdr # Nil)
  <2>1. ConsOK(objects[x], x, objects)
    BY DEF HeapOK, ObjectOK
  <2> QED  BY <1>1, <2>1 DEF ConsOK, Object, Nil
<1>3. \A x \in S : <<x>> \in V /\ \A v \in V : <<x>> \o v \in V
  OBVIOUS
<1> HIDE DEF K
<1>4. \E f \in [S -> V] : \A x \in S : f[x] = IF nx[x] \in S THEN step[x][f[nx[x]]] ELSE start[x]
  <2>1. m \in [S -> 0 .. K]
    BY <1>1, <1>2
  <2>2. start \in [S -> V]
    BY <1>3
  <2>3. ASSUME NEW x \in S, nx[x] \in S  PROVE m[nx[x]] < m[x]
    <3>1. x \in 0 .. K - 1 /\ nx[x] \in 0 .. K - 1
      BY <1>2, <2>3
    <3>2. x < nx[x]
      <4>1. Null \notin S
        BY <1>2 DEF Null
      <4> QED  BY <1>2, <2>3, <4>1
    <3>3. m[nx[x]] = K - nx[x] /\ m[x] = K - x
      BY <2>3
    <3> HIDE DEF m, nx
    <3> QED  BY <1>1, <3>1, <3>2, <3>3
  <2>4. \A x \in S, v \in V : step[x][v] \in V
    BY <1>3
  <2> HIDE DEF S, V, m, nx, step, start
  <2>5. ComesToAnEnd(S, V, K, m, nx, step, start)
    BY <1>1, <2>1, <2>2, <2>3, <2>4 DEF ComesToAnEnd
  <2> QED  BY <2>5, RecursionIs
<1>5. \E f : f = R(f)
  <2>1. PICK f \in [S -> V] : \A x \in S : f[x] = IF nx[x] \in S THEN step[x][f[nx[x]]] ELSE start[x]
    BY <1>4
  <2>2. ASSUME NEW x \in S
        PROVE  f[x] = <<x>> \o IF objects[x].cdr = Nil THEN <<>> ELSE f[objects[x].cdr[2]]
    <3>1. CASE objects[x].cdr = Nil
      <4>1. nx[x] \notin S
        BY <1>2, <3>1 DEF Null
      <4> QED  BY <2>1, <3>1, <4>1
    <3>2. CASE objects[x].cdr # Nil
      <4>1. nx[x] = objects[x].cdr[2] /\ nx[x] \in S
        BY <1>2, <3>2
      <4>2. f[nx[x]] \in V
        BY <2>1, <4>1
      <4> QED  BY <2>1, <3>2, <4>1, <4>2
    <3> QED  BY <3>1, <3>2
  <2>3. f = [x \in S |-> f[x]]
    OBVIOUS
  <2> HIDE DEF S, V
  <2> QED  BY <2>2, <2>3
<1>6. from = R(from)
  BY <1>5
<1>7. \A form : Conses(form) = IF form = Nil THEN <<>> ELSE from[form[2]]
  BY DEF Conses
<1> HIDE DEF from
<1>8. h \in S
  OBVIOUS
<1>9. from[h] = <<h>> \o IF objects[h].cdr = Nil THEN <<>> ELSE from[objects[h].cdr[2]]
  BY <1>6, <1>8
<1>10. Conses(Object(h)) = from[h]
  BY <1>7 DEF Object, Nil
<1>11. Conses(objects[h].cdr) = IF objects[h].cdr = Nil THEN <<>> ELSE from[objects[h].cdr[2]]
  BY <1>7
<1> QED  BY <1>9, <1>10, <1>11

LEMMA CallBeginsKeeps ==
  ASSUME InitializesInOrder, Inv, CallBegins
  PROVE  Inv' /\ Undisturbed
<1>1. Top.fn = "call" /\ Top.pc = "begin" /\ Top.fn \in {"call"} \cup Readers
  BY DEF CallBegins, Doing, In
<1>2. PICK b : Laid(b, acts, form_stack, Len(frame_stack), objects)
  BY DEF Inv
<1> DEFINE lo == b[Len(acts) - 1]
           hi == b[Len(acts)]
           m == Len(form_stack)
           d == Len(frame_stack)
           act == [Top EXCEPT !.pc = "arguments", !.held = Ids({form_stack[Top.fn_index + 1]})]
           new == [forms |-> hi.forms + 1, frames |-> hi.frames + 1, conses |-> hi.conses]
           o == Environment(CurrentEnv, objects[CurrentEnv].package)
<1>3. /\ Allocates(o, objects) /\ Pushes(<<Nil>>) /\ acts' = Append(Below, act)
      /\ frame_stack' = Append(frame_stack, Fresh) /\ frame_cap' = Capacity(frame_cap, d + 1)
      /\ last_return_value' = Append(last_return_value, Nil)
      /\ packages' = packages /\ value' = value /\ ended' = ended
  BY DEF CallBegins, Becomes, image, session
<1>4. /\ ActOK(Top, objects, packages) /\ ActLaid(Top, lo, hi, form_stack, objects)
      /\ lo \in Levels /\ hi \in Levels /\ hi.forms = m /\ hi.frames = d
      /\ lo.forms <= hi.forms /\ lo.conses <= hi.conses /\ hi.conses <= Size(objects)
  BY <1>2, TopIs
<1>5. /\ Is(CurrentEnv, "environment", objects) /\ objects[CurrentEnv].package \in DOMAIN packages
      /\ d \in Nat /\ m \in Nat
  BY <1>1, CurrentEnvIs, SeqIs DEF Inv, FormsOK
<1>6. HeapGrows /\ Allocated(o) /\ \A below : Settled(objects, objects', below)
  <2>1. ObjectsOK(objects, packages) /\ HeapOK(objects, packages)
    BY DEF Inv, ObjectsOK
  <2>2. o.kind = "environment" /\ o.parent = CurrentEnv /\ o.package = objects[CurrentEnv].package
        /\ o = [kind |-> "environment", parent |-> o.parent, package |-> o.package,
                values |-> o.values, functions |-> o.functions]
    BY DEF Environment
  <2> HIDE DEF o
  <2>3. CurrentEnv < Fresh
    <3>1. Fresh \in Nat /\ DOMAIN objects = 0 .. Fresh - 1
      BY <2>1, SizeIs DEF Size, Fresh
    <3> HIDE DEF Fresh
    <3>2. CurrentEnv \in 0 .. Fresh - 1
      BY <1>5, <3>1 DEF Is
    <3> QED  BY <3>1, <3>2
  <2>4. ObjectOK(o, Fresh, objects, packages)
    BY <1>5, <2>2, <2>3 DEF ObjectOK, EnvironmentOK
  <2>5. Altered(objects, objects, Fresh, o)
    BY NothingAltered
  <2>6. Allocates(o, objects)
    BY <1>3 DEF o
  <2>7. /\ HeapGrows /\ Allocated(o) /\ \A id \in DOMAIN objects : objects'[id] = objects[id]
    BY <1>3, <2>1, <2>2, <2>4, <2>5, <2>6, QuietAllocation
  <2> QED  BY <2>7 DEF Settled
<1>7. Grows(objects, objects')
  BY <1>6 DEF HeapGrows, Steady
<1>8. /\ FormsOK(form_stack', form_cap', objects') /\ Len(form_stack') = m + 1
      /\ Agree(form_stack, form_stack', m) /\ form_stack'[m + 1] = Nil
  <2> DEFINE some == <<Nil>>
  <2>1. IsSeq(some) /\ Len(some) = 1 /\ some[1] = Nil
    BY SingleIs
  <2>2. Pushes(some)
    BY <1>3
  <2> HIDE DEF some
  <2>3. \A i \in 1 .. Len(some) : FormOK(some[i], objects')
    BY <2>1 DEF FormOK, Nil
  <2>4. FormsOK(form_stack, form_cap, objects)
    BY DEF Inv
  <2>5. /\ FormsOK(form_stack', form_cap', objects') /\ Len(form_stack') = m + Len(some)
        /\ Agree(form_stack, form_stack', m)
        /\ \A i \in 1 .. Len(some) : form_stack'[m + i] = some[i]
    BY <1>7, <2>1, <2>2, <2>3, <2>4, FormsPushed
  <2> QED  BY <2>1, <2>5
<1>9. FramesOK(frame_stack', frame_cap', last_return_value', objects')
  <2>1. /\ FramesOK(frame_stack, frame_cap, last_return_value, objects)
        /\ IsSeq(frame_stack) /\ IsSeq(last_return_value) /\ Len(last_return_value) = d
        /\ frame_cap \in Nat
    BY DEF Inv, FramesOK
  <2>2. /\ IsSeq(frame_stack') /\ Len(frame_stack') = d + 1 /\ frame_stack'[d + 1] = Fresh
        /\ \A i \in 1 .. d : frame_stack'[i] = frame_stack[i]
    BY <1>3, <2>1, AppendIs
  <2>3. IsSeq(last_return_value') /\ Len(last_return_value') = d + 1
    BY <1>3, <2>1, AppendIs
  <2>4. frame_cap' \in Nat /\ d + 1 <= frame_cap'
    BY <1>3, <1>5, <2>1, CapacityIs
  <2>5. \A i \in 1 .. d : Is(frame_stack[i], "environment", objects')
    BY <1>7, <2>1 DEF FramesOK, Is, Grows, Lasts
  <2>6. Is(Fresh, "environment", objects')
    BY <1>6 DEF Allocated, Environment, Is
  <2> HIDE DEF d
  <2>7. \A i \in 1 .. d + 1 : i \in 1 .. d \/ i = d + 1
    BY <1>5
  <2>8. \A i \in 1 .. d + 1 : Is(frame_stack'[i], "environment", objects')
    BY <2>2, <2>5, <2>6, <2>7
  <2> QED  BY <2>2, <2>3, <2>4, <2>8 DEF FramesOK
<1> HIDE DEF lo, hi, m, d
<1>10. CallLaid(Top, lo, hi, form_stack, objects) /\ CallOK(Top) /\ 1 <= lo.frames
  BY <1>1, <1>4 DEF ActLaid, ActOK
<1>11. /\ Top.fn_index = lo.forms /\ Suits(form_stack[lo.forms + 1], Top.arg_count, objects)
       /\ hi.forms = lo.forms + Top.arg_count + 1 /\ hi.frames = lo.frames
       /\ Top.arg_count \in 0 .. 2 /\ Top.arg_i = 0
  BY <1>1, <1>10 DEF CallLaid, CallOK
<1>12. /\ lo.forms \in Nat /\ lo.frames \in Nat /\ lo.conses \in Nat
       /\ hi.forms \in Nat /\ hi.frames \in Nat /\ hi.conses \in Nat
  BY <1>4 DEF Levels
<1> DEFINE held == Ids({form_stack[Top.fn_index + 1]})
<1>13. held \subseteq DOMAIN objects'
  <2>1. PICK id \in DOMAIN objects : form_stack[Top.fn_index + 1] = Object(id)
    BY <1>11 DEF Suits
  <2>2. held = {id}
    BY <2>1 DEF Ids, Object
  <2> QED  BY <1>7, <2>1, <2>2 DEF Grows
<1>14. act = [fn |-> "call", pc |-> "arguments", fn_index |-> Top.fn_index,
              arg_count |-> Top.arg_count, arg_i |-> Top.arg_i, held |-> held]
  <2>1. Top.fn = "call" /\ Top = [fn |-> Top.fn, pc |-> Top.pc, fn_index |-> Top.fn_index,
                                  arg_count |-> Top.arg_count, arg_i |-> Top.arg_i, held |-> Top.held]
    BY <1>1, <1>10 DEF CallOK
  <2>2. act = [Top EXCEPT !.pc = "arguments", !.held = held]
    OBVIOUS
  <2> HIDE DEF act, held
  <2> QED  BY <2>1, <2>2
<1> HIDE DEF act, held
<1>15. /\ act.fn = "call" /\ act.pc = "arguments" /\ act.fn_index = Top.fn_index
       /\ act.arg_count = Top.arg_count /\ act.arg_i = Top.arg_i /\ act.held = held
       /\ act = [fn |-> act.fn, pc |-> act.pc, fn_index |-> act.fn_index,
                 arg_count |-> act.arg_count, arg_i |-> act.arg_i, held |-> act.held]
  BY <1>14
<1>16. ActOK(act, objects', packages')
  BY <1>10, <1>13, <1>15 DEF ActOK, CallOK, Readers
<1>17. new \in Levels /\ new.forms = hi.forms + 1 /\ new.frames = hi.frames + 1 /\ new.conses = hi.conses
  BY <1>12 DEF Levels
<1> HIDE DEF new
<1>18. ActLaid(act, lo, new, form_stack', objects')
  <2>1. form_stack'[lo.forms + 1] = form_stack[lo.forms + 1]
    <3>1. lo.forms + 1 \in 1 .. m
      BY <1>4, <1>11, <1>12
    <3> QED  BY <1>8, <3>1 DEF Agree
  <2>2. Suits(form_stack'[lo.forms + 1], act.arg_count, objects')
    BY <1>7, <1>11, <1>15, <2>1, SuitsStays
  <2>3. new.forms = lo.forms + act.arg_count + 2 /\ new.frames = lo.frames + 1
    BY <1>11, <1>12, <1>15, <1>17
  <2>4. Evaluated(form_stack'[new.forms], act.arg_i, lo.conses, new.conses, objects')
    BY <1>4, <1>8, <1>11, <1>15, <1>17 DEF Evaluated
  <2>5. CallLaid(act, lo, new, form_stack', objects')
    BY <1>11, <1>15, <2>2, <2>3, <2>4 DEF CallLaid
  <2> QED  BY <1>10, <1>15, <2>5 DEF ActLaid, Readers
<1>19. LaysOut(act, lo, new)
  <2>1. lo.forms <= new.forms /\ lo.conses <= new.conses
    BY <1>4, <1>12, <1>17
  <2> QED  BY <1>4, <1>16, <1>17, <1>18, <2>1 DEF LaysOut
<1>20. EndsAt(new)
  <2>1. Len(frame_stack') = d + 1
    <3>1. IsSeq(frame_stack)
      BY DEF Inv, FramesOK
    <3> QED  BY <1>3, <3>1, AppendIs DEF d
  <2>2. Size(objects) \in Nat /\ Size(objects') \in Nat /\ Size(objects) <= Size(objects')
    BY <1>6, SizeIs DEF Inv, ObjectsOK, HeapGrows
  <2>3. new.conses <= Size(objects')
    BY <1>4, <1>12, <1>17, <2>2
  <2> QED  BY <1>4, <1>8, <1>17, <2>1, <2>3 DEF EndsAt
<1>21. KeepsLower(b)
  <2>1. \A i \in 1 .. lo.forms : i \in 1 .. m
    BY <1>4, <1>5, <1>12
  <2> QED  BY <1>6, <1>8, <2>1 DEF KeepsLower, Agree, lo
<1>22. FormOK(value', objects')
  BY <1>3, <1>7 DEF FormOK, Grows, Inv, ValueOK
<1>23. StacksOK'
  BY <1>8, <1>9 DEF StacksOK
<1> QED  BY <1>1, <1>2, <1>3, <1>15, <1>19, <1>20, <1>21, <1>22, <1>23, GoesOn DEF lo

LEMMA CallReturnsKeeps ==
  ASSUME InitializesInOrder, Inv, CallReturns
  PROVE  Inv' /\ Undisturbed
<1>1. Top.fn = "call" /\ Top.pc = "return" /\ Top.fn \in {"call"} \cup Readers
  BY DEF CallReturns, Doing, In
<1>2. PICK b : Laid(b, acts, form_stack, Len(frame_stack), objects)
  BY DEF Inv
<1> DEFINE lo == b[Len(acts) - 1]
           hi == b[Len(acts)]
           m == Len(form_stack)
           d == Len(frame_stack)
           n == d - 1
           k == Top.arg_count + 2
<1>3. /\ objects' = objects /\ packages' = packages /\ acts' = Below /\ value' = value /\ ended' = ended
      /\ UNCHANGED form_cap /\ form_stack' = DropLast(form_stack, k)
      /\ frame_stack' = SubSeq(frame_stack, 1, n) /\ frame_cap' = frame_cap
      /\ last_return_value' = [SubSeq(last_return_value, 1, n) EXCEPT ![n] = value]
  BY DEF CallReturns, Returns, heap, image, session
<1>4. /\ ActOK(Top, objects, packages) /\ ActLaid(Top, lo, hi, form_stack, objects)
      /\ lo \in Levels /\ hi \in Levels /\ hi.forms = m /\ hi.frames = d
      /\ lo.conses <= hi.conses /\ hi.conses <= Size(objects)
  BY <1>2, TopIs
<1>5. d \in Nat /\ 1 <= d /\ m \in Nat
  BY <1>1, CurrentEnvIs, SeqIs DEF Inv, FormsOK
<1>6. HeapGrows /\ Grows(objects, objects') /\ \A below : Settled(objects, objects', below)
  BY <1>3, HeapStays DEF HeapGrows, Steady
<1> HIDE DEF lo, hi, m, d
<1>7. hi.forms = lo.forms + Top.arg_count + 2 /\ hi.frames = lo.frames + 1 /\ Top.arg_count \in 0 .. 2
  BY <1>1, <1>4 DEF ActLaid, ActOK, CallLaid, CallOK
<1>8. /\ lo.forms \in Nat /\ lo.frames \in Nat /\ lo.conses \in Nat /\ hi.conses \in Nat
  BY <1>4 DEF Levels
<1>9. k \in Nat /\ k <= m /\ m - k = lo.forms /\ n = lo.frames /\ n \in Nat /\ n <= d
  BY <1>4, <1>5, <1>7, <1>8
<1> HIDE DEF k, n
<1>10. /\ FormsOK(form_stack', form_cap', objects') /\ Len(form_stack') = lo.forms
       /\ Agree(form_stack, form_stack', lo.forms)
  <2>1. FormsOK(form_stack, form_cap, objects)
    BY DEF Inv
  <2> QED  BY <1>3, <1>6, <1>9, <2>1, FormsPopped DEF m
<1>11. FramesOK(frame_stack', frame_cap', last_return_value', objects') /\ Len(frame_stack') = n
  <2>1. /\ IsSeq(frame_stack) /\ IsSeq(last_return_value) /\ Len(last_return_value) = d
        /\ frame_cap \in Nat /\ d <= frame_cap
        /\ \A i \in 1 .. d : Is(frame_stack[i], "environment", objects)
    BY DEF Inv, FramesOK, d
  <2>2. n \in Int /\ n <= Len(frame_stack) /\ n <= Len(last_return_value)
    BY <1>9, <2>1 DEF d
  <2>3. /\ IsSeq(frame_stack') /\ Len(frame_stack') = n
        /\ \A i \in 1 .. n : frame_stack'[i] = frame_stack[i]
    <3>1. (IF 1 <= n THEN n ELSE 0) = n
      BY <1>9
    <3> QED  BY <1>3, <2>1, <2>2, <3>1, SubSeqIs
  <2>4. IsSeq(last_return_value') /\ Len(last_return_value') = n
    <3> DEFINE kept == SubSeq(last_return_value, 1, n)
    <3>1. IsSeq(kept) /\ Len(kept) = n
      <4>1. (IF 1 <= n THEN n ELSE 0) = n
        BY <1>9
      <4> QED  BY <2>1, <2>2, <4>1, SubSeqIs
    <3>2. last_return_value' = [kept EXCEPT ![n] = value]
      BY <1>3
    <3> HIDE DEF kept
    <3> QED  BY <3>1, <3>2, ExceptIs
  <2>5. n <= frame_cap /\ \A i \in 1 .. n : i \in 1 .. d
    BY <1>5, <1>9, <2>1
  <2> QED  BY <1>3, <2>1, <2>3, <2>4, <2>5 DEF FramesOK
<1>12. KeepsLower(b)
  BY <1>6, <1>10 DEF KeepsLower, lo
<1>13. EndsAt(lo)
  <2>1. Size(objects) \in Nat /\ Size(objects') = Size(objects)
    BY <1>3, SizeIs DEF Inv, ObjectsOK, Size
  <2>2. lo.conses <= Size(objects')
    BY <1>4, <1>8, <2>1
  <2> QED  BY <1>9, <1>10, <1>11, <2>2 DEF EndsAt
<1>14. StacksOK' /\ FormOK(value', objects')
  BY <1>3, <1>10, <1>11 DEF StacksOK, Inv, ValueOK
<1>15. Top.fn \notin {"initialize_runtime", "intern_symbol"}
  BY <1>1
<1> QED  BY <1>2, <1>3, <1>12, <1>13, <1>14, <1>15, ReturnsTo DEF lo

LEMMA OneConsIs ==
  ASSUME HeapOK(objects, packages), NEW h \in DOMAIN objects, objects[h].kind = "cons",
         NEW rest, rest = (IF objects[h].cdr = Nil THEN <<>> ELSE Conses(objects[h].cdr)), IsSeq(rest)
  PROVE  /\ IsSeq(Conses(Object(h))) /\ Len(Conses(Object(h))) = 1 + Len(rest)
         /\ Conses(Object(h))[1] = h
<1>1. Conses(Object(h)) = <<h>> \o rest
  BY ConsesIs
<1>2. IsSeq(<<h>>) /\ Len(<<h>>) = 1 /\ <<h>>[1] = h
  BY SingleIs
<1> DEFINE one == <<h>>
<1>3. IsSeq(one) /\ Len(one) = 1 /\ one[1] = h
  BY <1>2
<1> HIDE DEF one
<1>4. /\ IsSeq(one \o rest) /\ Len(one \o rest) = 1 + Len(rest)
      /\ \A i \in 1 .. 1 + Len(rest) : (one \o rest)[i] = IF i <= 1 THEN one[i] ELSE rest[i - 1]
  <2>1. /\ IsSeq(one \o rest) /\ Len(one \o rest) = Len(one) + Len(rest)
        /\ \A i \in 1 .. Len(one) + Len(rest) :
             (one \o rest)[i] = IF i <= Len(one) THEN one[i] ELSE rest[i - Len(one)]
    BY <1>3, ConcatIs
  <2>2. Len(one) = 1
    BY <1>3
  <2> QED  BY <2>1, <2>2
<1>5. (one \o rest)[1] = h
  <2>1. Len(rest) \in Nat
    BY SeqIs
  <2> DEFINE r == Len(rest)
  <2>2. 1 \in 1 .. 1 + r
    BY <2>1
  <2> HIDE DEF r
  <2> QED  BY <1>3, <1>4, <2>2 DEF r
<1> QED  BY <1>1, <1>4, <1>5 DEF one

(* The list has as many conses as arguments were evaluated.                *)
LEMMA EvaluatedIs ==
  ASSUME HeapOK(objects, packages), NEW form, NEW k \in 0 .. 2, NEW lo, NEW hi,
         Evaluated(form, k, lo, hi, objects)
  PROVE  /\ Len(Conses(form)) = k
         /\ k = 0 => Conses(form) = <<>>
         /\ k = 1 => Conses(form) # <<>> /\ form = Object(Last(Conses(form)))
<1>1. IsSeq(<<>>) /\ Len(<<>>) = 0
  BY EmptySeq, LenProperties DEF IsSeq
<1>2. Conses(Nil) = <<>>
  BY DEF Conses
<1>3. CASE k = 0
  BY <1>1, <1>2, <1>3 DEF Evaluated
<1>4. ASSUME NEW h \in DOMAIN objects, objects[h].kind = "cons", objects[h].cdr = Nil
      PROVE  /\ IsSeq(Conses(Object(h))) /\ Len(Conses(Object(h))) = 1 /\ Conses(Object(h))[1] = h
  <2> DEFINE rest == <<>>
  <2>1. IsSeq(rest) /\ Len(rest) = 0 /\ rest = (IF objects[h].cdr = Nil THEN <<>> ELSE Conses(objects[h].cdr))
    BY <1>1, <1>4
  <2> HIDE DEF rest
  <2>2. /\ IsSeq(Conses(Object(h))) /\ Len(Conses(Object(h))) = 1 + Len(rest)
        /\ Conses(Object(h))[1] = h
    BY <1>4, <2>1, OneConsIs
  <2> QED  BY <2>1, <2>2
<1>5. CASE k = 1
  <2>1. PICK h \in DOMAIN objects : form = Object(h) /\ objects[h].kind = "cons" /\ objects[h].cdr = Nil
    BY <1>5 DEF Evaluated
  <2> DEFINE some == Conses(form)
  <2>2. IsSeq(some) /\ Len(some) = 1 /\ some[1] = h
    BY <1>4, <2>1
  <2> HIDE DEF some
  <2>3. Last(some) = h
    BY <2>2 DEF Last
  <2>4. some # <<>>
    <3>1. Len(some) # Len(<<>>)
      BY <1>1, <2>2
    <3> QED  BY <3>1
  <2> QED  BY <1>5, <2>1, <2>2, <2>3, <2>4 DEF some
<1>6. CASE k = 2
  <2>1. PICK h \in DOMAIN objects, t \in DOMAIN objects :
          /\ form = Object(h) /\ objects[h].kind = "cons" /\ objects[h].cdr = Object(t)
          /\ objects[t].kind = "cons" /\ objects[t].cdr = Nil
    BY <1>6 DEF Evaluated
  <2>2. Object(t) # Nil
    BY DEF Object, Nil
  <2> DEFINE rest == Conses(Object(t))
  <2>3. IsSeq(rest) /\ Len(rest) = 1
    BY <1>4, <2>1
  <2>4. rest = (IF objects[h].cdr = Nil THEN <<>> ELSE Conses(objects[h].cdr))
    BY <2>1, <2>2
  <2> HIDE DEF rest
  <2>5. Len(Conses(Object(h))) = 1 + Len(rest)
    BY <2>1, <2>3, <2>4, OneConsIs
  <2> QED  BY <1>6, <2>1, <2>3, <2>5
<1> QED  BY <1>3, <1>5, <1>6

(* What a cons with a form is when it is allocated.                        *)
LEMMA ConsIsOK ==
  ASSUME Inv, NEW car, FormOK(car, objects)
  PROVE  /\ ConsCell(car, Nil).kind = "cons" /\ ConsCell(car, Nil).cdr = Nil
         /\ ObjectOK(ConsCell(car, Nil), Fresh, objects, packages)
<1> DEFINE o == ConsCell(car, Nil)
<1>1. o = [kind |-> "cons", car |-> o.car, cdr |-> o.cdr] /\ o.kind = "cons"
      /\ o.cdr = Nil /\ o.car = car
  BY DEF ConsCell
<1> HIDE DEF o
<1>2. ObjectOK(o, Fresh, objects, packages)
  BY <1>1 DEF ObjectOK, ConsOK
<1> QED  BY <1>1, <1>2 DEF o

(* A cons is allocated, ...                                                *)
LEMMA ConsAllocated ==
  ASSUME Inv, NEW car, FormOK(car, objects), packages' = packages,
         Allocates(ConsCell(car, Nil), objects)
  PROVE  /\ HeapGrows /\ Allocated(ConsCell(car, Nil)) /\ \A below : Settled(objects, objects', below)
         /\ \A id \in DOMAIN objects : objects'[id] = objects[id]
<1> DEFINE o == ConsCell(car, Nil)
<1>1. o.kind = "cons" /\ ObjectOK(o, Fresh, objects, packages)
  BY ConsIsOK
<1> HIDE DEF o
<1>2. ObjectsOK(objects, packages) /\ Altered(objects, objects, Fresh, o) /\ Allocates(o, objects)
  BY NothingAltered DEF Inv, o
<1>3. HeapGrows /\ Allocated(o) /\ \A id \in DOMAIN objects : objects'[id] = objects[id]
  BY <1>1, <1>2, QuietAllocation
<1> QED  BY <1>3 DEF Settled, o

(* ... and linked to an older one.                                         *)
LEMMA ConsLinked ==
  ASSUME Inv, NEW car, FormOK(car, objects), packages' = packages, NEW c,
         Allocates(ConsCell(car, Nil), [objects EXCEPT ![c].cdr = Object(Fresh)])
  PROVE  /\ HeapGrows /\ Allocated(ConsCell(car, Nil))
         /\ \A below : ~(c < below) => Settled(objects, objects', below)
         /\ Is(c, "cons", objects) => objects'[c] = ConsCell(objects[c].car, Object(Fresh))
         /\ \A id \in DOMAIN objects :
              id # c \/ objects[id].kind # "cons" => objects'[id] = objects[id]
<1> DEFINE o == ConsCell(car, Nil)
           others == Linked(c, Fresh, objects)
<1>1. o.kind = "cons" /\ ObjectOK(o, Fresh, objects, packages)
  BY ConsIsOK
<1>2. Allocates(o, others)
  BY DEF Linked
<1> HIDE DEF o
<1>3. ObjectsOK(objects, packages) /\ HeapOK(objects, packages)
  BY DEF Inv, ObjectsOK
<1>4. Altered(objects, others, Fresh, o)
  BY <1>1, <1>3, LinkingAlters
<1>5. /\ \A id \in DOMAIN objects :
           id # c \/ objects[id].kind # "cons" => others[id] = objects[id]
      /\ Is(c, "cons", objects) => others[c] = ConsCell(objects[c].car, Object(Fresh))
  BY <1>1, <1>3, <1>4, LinkingAlters
<1> HIDE DEF others
<1>6. HeapGrows /\ Allocated(o) /\ \A id \in DOMAIN objects : objects'[id] = others[id]
  BY <1>1, <1>2, <1>3, <1>4, QuietAllocation
<1>7. Is(c, "cons", objects) => objects'[c] = ConsCell(objects[c].car, Object(Fresh))
  BY <1>5, <1>6 DEF Is
<1> QED  BY <1>5, <1>6, <1>7 DEF Settled, o

LEMMA CallTakesArgKeeps ==
  ASSUME InitializesInOrder, Inv, CallTakesArg
  PROVE  Inv' /\ Undisturbed
<1>1. Top.fn = "call" /\ Top.pc = "arguments" /\ Top.fn \in {"call"} \cup Readers
  BY DEF CallTakesArg, Doing, In
<1>2. PICK b : Laid(b, acts, form_stack, Len(frame_stack), objects)
  BY DEF Inv
<1> DEFINE lo == b[Len(acts) - 1]
           hi == b[Len(acts)]
           m == Len(form_stack)
           k == Top.arg_i
           act == [Top EXCEPT !.arg_i = k + 1]
           new == [forms |-> hi.forms, frames |-> hi.frames, conses |-> Fresh + 1]
           arg == form_stack[Top.fn_index + 2 + Top.arg_i]
           evaled == EvaledOffset(Top) + 1
           before == Conses(form_stack[evaled])
<1>3. /\ last_return_value' = [last_return_value EXCEPT ![Len(last_return_value)] = arg]
      /\ \/ /\ before = <<>> /\ form_stack' = [form_stack EXCEPT ![evaled] = Object(Fresh)]
            /\ Allocates(ConsCell(arg, Nil), objects)
         \/ /\ before # <<>> /\ form_stack' = form_stack
            /\ Allocates(ConsCell(arg, Nil), [objects EXCEPT ![Last(before)].cdr = Object(Fresh)])
      /\ form_cap' = Capacity(form_cap, m + 1) /\ acts' = Append(Below, act)
      /\ frame_stack' = frame_stack /\ frame_cap' = frame_cap
      /\ packages' = packages /\ value' = value /\ ended' = ended /\ k < Top.arg_count
  BY DEF CallTakesArg, Becomes, SetLastReturn, image, session
<1>4. /\ ActOK(Top, objects, packages) /\ ActLaid(Top, lo, hi, form_stack, objects)
      /\ lo \in Levels /\ hi \in Levels /\ hi.forms = m /\ hi.frames = Len(frame_stack)
      /\ lo.forms <= hi.forms /\ lo.conses <= hi.conses /\ hi.conses <= Size(objects)
  BY <1>2, TopIs
<1>5. m \in Nat /\ FormsOK(form_stack, form_cap, objects) /\ HeapOK(objects, packages)
      /\ IsSeq(form_stack)
  BY SeqIs DEF Inv, FormsOK, ObjectsOK
<1> HIDE DEF lo, hi, m
<1>6. CallLaid(Top, lo, hi, form_stack, objects) /\ CallOK(Top) /\ 1 <= lo.frames
  BY <1>1, <1>4 DEF ActLaid, ActOK
<1>7. /\ Top.fn_index = lo.forms /\ Suits(form_stack[lo.forms + 1], Top.arg_count, objects)
      /\ hi.forms = lo.forms + Top.arg_count + 2 /\ hi.frames = lo.frames + 1
      /\ Evaluated(form_stack[hi.forms], k, lo.conses, hi.conses, objects)
      /\ Top.arg_count \in 0 .. 2 /\ k \in 0 .. Top.arg_count
  BY <1>1, <1>6 DEF CallLaid, CallOK
<1> HIDE DEF k
<1>8. /\ lo.forms \in Nat /\ lo.frames \in Nat /\ lo.conses \in Nat
      /\ hi.forms \in Nat /\ hi.frames \in Nat /\ hi.conses \in Nat
  BY <1>4 DEF Levels
<1>9. k \in {0, 1} /\ k \in 0 .. 2 /\ k + 1 \in 0 .. Top.arg_count
  BY <1>3, <1>7
<1>10. evaled = m /\ m \in 1 .. m /\ lo.forms + 1 < m
  BY <1>4, <1>7, <1>8 DEF EvaledOffset
<1>11. FormOK(arg, objects)
  <2> DEFINE j == Top.fn_index + 2 + k
  <2>1. j \in 1 .. m
    <3> DEFINE x == lo.forms
               c == Top.arg_count
    <3>1. x \in Nat /\ Top.fn_index = x /\ m = x + c + 2 /\ c \in 0 .. 2 /\ k \in 0 .. c /\ k < c
      BY <1>3, <1>4, <1>7, <1>8
    <3> HIDE DEF x, c
    <3> QED  BY <3>1
  <2>2. arg = form_stack[j]
    BY DEF k
  <2> HIDE DEF j, arg
  <2> QED  BY <1>5, <2>1, <2>2 DEF FormsOK, m
<1>12. /\ k = 0 => before = <<>>
       /\ k = 1 => before # <<>> /\ form_stack[m] = Object(Last(before))
  <2>1. Evaluated(form_stack[m], k, lo.conses, hi.conses, objects) /\ before = Conses(form_stack[m])
    BY <1>4, <1>7, <1>10
  <2> HIDE DEF before
  <2> QED  BY <1>5, <1>9, <2>1, EvaluatedIs
<1> HIDE DEF arg, before, evaled
<1>13. Fresh \in Nat /\ Fresh = Size(objects)
  BY <1>5, SizeIs DEF Fresh, Size
<1> DEFINE next == k + 1
           top  == Fresh + 1
<1>next. (k = 0 => next = 1) /\ (k = 1 => next = 2)
  OBVIOUS
<1>top. top \in Nat /\ Fresh < top
  <2> HIDE DEF Fresh
  <2> QED  BY <1>13
<1> HIDE DEF next, top
(* What the step leaves is the same with and without arguments before.     *)
<1> DEFINE Extends ==
      /\ HeapGrows /\ Allocated(ConsCell(arg, Nil)) /\ Settled(objects, objects', lo.conses)
      /\ FormsOK(form_stack', form_cap', objects') /\ Len(form_stack') = m
      /\ Agree(form_stack, form_stack', lo.forms + 1)
      /\ Evaluated(form_stack'[m], next, lo.conses, top, objects')
<1>14. form_cap' \in Nat /\ m <= form_cap'
  <2>1. m + 1 \in Nat /\ form_cap \in Nat
    BY <1>5 DEF FormsOK
  <2>2. form_cap' \in Nat /\ m + 1 <= form_cap'
    BY <1>3, <2>1, CapacityIs
  <2> QED  BY <1>5, <2>2
<1>15. ASSUME k = 0  PROVE Extends
  <2>1. form_stack' = [form_stack EXCEPT ![m] = Object(Fresh)] /\ Allocates(ConsCell(arg, Nil), objects)
    BY <1>3, <1>10, <1>12, <1>15
  <2>2. HeapGrows /\ Allocated(ConsCell(arg, Nil)) /\ Settled(objects, objects', lo.conses)
    BY <1>3, <1>11, <2>1, ConsAllocated
  <2>3. Grows(objects, objects')
    BY <2>2 DEF HeapGrows, Steady
  <2>4. Fresh \in DOMAIN objects' /\ objects'[Fresh].kind = "cons" /\ objects'[Fresh].cdr = Nil
    BY <2>2 DEF Allocated, ConsCell
  <2> DEFINE x == Object(Fresh)
  <2> HIDE DEF x
  <2>5. /\ IsSeq(form_stack') /\ Len(form_stack') = m /\ form_stack'[m] = x
        /\ \A i \in 1 .. m : i # m => form_stack'[i] = form_stack[i]
    <3>1. form_stack' = [form_stack EXCEPT ![m] = x]
      BY <2>1 DEF x
    <3>2. IsSeq(form_stack') /\ Len(form_stack') = m
      BY <1>5, <3>1, ExceptIs DEF m
    <3>3. DOMAIN form_stack = 1 .. m
      BY <1>5, SeqIs DEF m
    <3> QED  BY <1>10, <3>1, <3>2, <3>3
  <2>6. FormsOK(form_stack', form_cap', objects')
    <3>1. \A i \in 1 .. m : FormOK(form_stack'[i], objects')
      <4>1. \A i \in 1 .. m : FormOK(form_stack[i], objects')
        BY <1>5, <2>3 DEF FormsOK, FormOK, Grows, m
      <4>2. FormOK(x, objects')
        BY <2>4 DEF FormOK, x, Object
      <4> QED  BY <2>5, <4>1, <4>2
    <3> QED  BY <1>14, <2>5, <3>1 DEF FormsOK
  <2>7. Agree(form_stack, form_stack', lo.forms + 1)
    <3>1. \A i \in 1 .. lo.forms + 1 : i \in 1 .. m /\ i # m
      BY <1>8, <1>10
    <3> QED  BY <2>5, <3>1 DEF Agree
  <2>8. lo.conses <= Fresh /\ next = 1
    <3> HIDE DEF Fresh
    <3> QED  BY <1>4, <1>8, <1>13, <1>15, <1>next
  <2>9. Evaluated(form_stack'[m], next, lo.conses, top, objects')
    BY <1>top, <2>4, <2>5, <2>8 DEF Evaluated, x
  <2> QED  BY <2>2, <2>5, <2>6, <2>7, <2>9
<1>16. ASSUME k = 1  PROVE Extends
  <2>1. PICK h \in DOMAIN objects :
          /\ form_stack[m] = Object(h) /\ lo.conses <= h /\ h < hi.conses
          /\ objects[h].kind = "cons" /\ objects[h].cdr = Nil
    BY <1>4, <1>7, <1>16 DEF Evaluated
  <2>2. form_stack' = form_stack
        /\ Allocates(ConsCell(arg, Nil), [objects EXCEPT ![h].cdr = Object(Fresh)])
    <3>1. Last(before) = h
      BY <1>12, <1>16, <2>1 DEF Object
    <3> QED  BY <1>3, <1>12, <1>16, <3>1
  <2>3. ~(h < lo.conses) /\ h < top
    <3>1. h \in Nat
      BY <1>5, SizeIs
    <3> HIDE DEF Fresh
    <3> QED  BY <1>4, <1>8, <1>13, <1>top, <2>1, <3>1
  <2>4. Is(h, "cons", objects)
    BY <2>1 DEF Is
  <2>5. /\ HeapGrows /\ Allocated(ConsCell(arg, Nil)) /\ Settled(objects, objects', lo.conses)
        /\ objects'[h] = ConsCell(objects[h].car, Object(Fresh))
    BY <1>3, <1>11, <2>2, <2>3, <2>4, ConsLinked
  <2>6. Grows(objects, objects')
    BY <2>5 DEF HeapGrows, Steady
  <2>7. Fresh \in DOMAIN objects' /\ objects'[Fresh].kind = "cons" /\ objects'[Fresh].cdr = Nil
    BY <2>5 DEF Allocated, ConsCell
  <2>8. h \in DOMAIN objects' /\ objects'[h].kind = "cons" /\ objects'[h].cdr = Object(Fresh)
    BY <2>5, <2>6 DEF Grows, ConsCell
  <2>9. FormsOK(form_stack', form_cap', objects')
    <3>1. \A i \in 1 .. m : FormOK(form_stack[i], objects')
      BY <1>5, <2>6 DEF FormsOK, FormOK, Grows, m
    <3> QED  BY <1>5, <1>14, <2>2, <3>1 DEF FormsOK, m
  <2>10. Evaluated(form_stack'[m], next, lo.conses, top, objects')
    <3> DEFINE f == Fresh
    <3>1. f \in DOMAIN objects' /\ f < top /\ objects'[f].kind = "cons" /\ objects'[f].cdr = Nil
          /\ objects'[h].cdr = Object(f)
      BY <1>top, <2>7, <2>8
    <3>2. next = 2 /\ form_stack'[m] = Object(h)
      BY <1>16, <1>next, <2>1, <2>2
    <3> HIDE DEF f
    <3> QED  BY <2>3, <2>8, <3>1, <3>2 DEF Evaluated
  <2>11. Agree(form_stack, form_stack', lo.forms + 1) /\ Len(form_stack') = m
    BY <2>2 DEF Agree, m
  <2> QED  BY <2>5, <2>9, <2>10, <2>11
<1>17. Extends
  BY <1>9, <1>15, <1>16
<1>18. Grows(objects, objects')
  BY <1>17 DEF HeapGrows, Steady
<1>19. act = [fn |-> "call", pc |-> "arguments", fn_index |-> Top.fn_index,
              arg_count |-> Top.arg_count, arg_i |-> next, held |-> Top.held]
  <2>1. /\ Top.fn = "call" /\ Top.pc = "arguments"
        /\ Top = [fn |-> Top.fn, pc |-> Top.pc, fn_index |-> Top.fn_index,
                  arg_count |-> Top.arg_count, arg_i |-> Top.arg_i, held |-> Top.held]
    BY <1>1, <1>6 DEF CallOK
  <2>2. act = [Top EXCEPT !.arg_i = next]
    BY DEF next
  <2> HIDE DEF act
  <2> QED  BY <2>1, <2>2
<1> HIDE DEF act
<1>20. /\ act.fn = "call" /\ act.pc = "arguments" /\ act.fn_index = Top.fn_index
       /\ act.arg_count = Top.arg_count /\ act.arg_i = next /\ act.held = Top.held
       /\ act = [fn |-> act.fn, pc |-> act.pc, fn_index |-> act.fn_index,
                 arg_count |-> act.arg_count, arg_i |-> act.arg_i, held |-> act.held]
  BY <1>19
<1>21. ActOK(act, objects', packages')
  <2>1. act.held \subseteq DOMAIN objects'
    BY <1>4, <1>18, <1>20 DEF ActOK, Grows
  <2>2. CallOK(act)
    BY <1>6, <1>9, <1>20 DEF CallOK, next
  <2> QED  BY <1>20, <2>1, <2>2 DEF ActOK, Readers
<1>22. new \in Levels /\ new.forms = hi.forms /\ new.frames = hi.frames /\ new.conses = top
  BY <1>8, <1>top DEF Levels, top
<1> HIDE DEF new
<1>23. ActLaid(act, lo, new, form_stack', objects')
  <2>1. form_stack'[lo.forms + 1] = form_stack[lo.forms + 1]
    <3>1. lo.forms + 1 \in 1 .. lo.forms + 1
      BY <1>8
    <3> QED  BY <1>17, <3>1 DEF Agree
  <2>2. Suits(form_stack'[lo.forms + 1], act.arg_count, objects')
    BY <1>7, <1>18, <1>20, <2>1, SuitsStays
  <2>3. Evaluated(form_stack'[new.forms], act.arg_i, lo.conses, new.conses, objects')
    BY <1>4, <1>17, <1>20, <1>22
  <2>4. CallLaid(act, lo, new, form_stack', objects')
    BY <1>7, <1>20, <1>22, <2>2, <2>3 DEF CallLaid
  <2> QED  BY <1>6, <1>20, <2>4 DEF ActLaid, Readers
<1>24. Size(objects') = top
  BY <1>17 DEF Allocated, top
<1>25. LaysOut(act, lo, new) /\ EndsAt(new)
  <2>1. lo.forms <= new.forms /\ lo.conses <= new.conses /\ new.conses <= Size(objects')
    <3> HIDE DEF Fresh
    <3> QED  BY <1>4, <1>8, <1>13, <1>22, <1>24, <1>top
  <2> QED  BY <1>3, <1>4, <1>17, <1>21, <1>22, <1>23, <2>1 DEF LaysOut, EndsAt
<1>26. KeepsLower(b)
  <2>1. \A i \in 1 .. lo.forms : i \in 1 .. lo.forms + 1
    BY <1>8
  <2> QED  BY <1>17, <2>1 DEF KeepsLower, Agree, lo
<1>27. FormOK(value', objects')
  BY <1>3, <1>18 DEF FormOK, Grows, Inv, ValueOK
<1>28. StacksOK'
  <2>1. FramesOK(frame_stack', frame_cap', last_return_value', objects')
    <3>1. FramesOK(frame_stack, frame_cap, last_return_value, objects)
      BY DEF Inv
    <3> DEFINE n == Len(last_return_value)
    <3>2. last_return_value' = [last_return_value EXCEPT ![n] = arg]
      BY <1>3
    <3> HIDE DEF n
    <3>3. IsSeq(last_return_value') /\ Len(last_return_value') = Len(last_return_value)
      BY <3>1, <3>2, ExceptIs DEF FramesOK
    <3> QED  BY <1>3, <1>18, <3>1, <3>3 DEF FramesOK, Is, Grows, Lasts
  <2> QED  BY <1>17, <2>1 DEF StacksOK
<1>29. Top.fn # "initialize_runtime" /\ act.fn = Top.fn /\ act.fn # "'" /\ act.fn # "intern_symbol"
  BY <1>1, <1>20
<1> QED  BY <1>2, <1>3, <1>25, <1>26, <1>27, <1>28, <1>29, GoesOn DEF lo

(* symbol_function finds what the start has bound to a name.               *)
LEMMA FunctionIs ==
  ASSUME ObjectsOK(objects, packages), NEW p, NEW name, Bound(p, name, objects, packages), p # "USER"
  PROVE  /\ FunctionNamed(p, name) \in DOMAIN objects
         /\ objects[FunctionNamed(p, name)] = Inherent(name)
<1> DEFINE g   == packages[p].global
           sym == packages[p].interned[Chars(name)]
           S   == Environments(objects)
           K   == Size(objects)
           nx  == [x \in S |-> IF objects[x].package # p THEN g
                               ELSE IF sym \in DOMAIN objects[x].functions THEN Null
                               ELSE objects[x].parent]
           start == [x \in S |-> IF sym \in DOMAIN objects[x].functions
                                 THEN objects[x].functions[sym] ELSE Null]
           V    == {start[x] : x \in S}
           step == [x \in S |-> [v \in V |-> v]]
           m    == [x \in S |-> IF objects[x].package = p THEN x ELSE K]
           R(f) == [x \in S |->
                      IF objects[x].package # p THEN f[g]
                      ELSE IF sym \in DOMAIN objects[x].functions THEN objects[x].functions[sym]
                      ELSE IF objects[x].parent = Null THEN Null ELSE f[objects[x].parent]]
           nearest == CHOOSE f : f = R(f)
<1>1. K \in Nat /\ DOMAIN objects = 0 .. K - 1
  BY SizeIs DEF ObjectsOK
<1>2. /\ g \in S /\ objects[g].package = p
      /\ sym \in DOMAIN objects[g].functions /\ objects[g].functions[sym] \in DOMAIN objects
      /\ objects[objects[g].functions[sym]] = Inherent(name)
  BY DEF Bound, ObjectsOK, PackagesOK, PackageOK, Is, Environments
<1>3. objects[sym].package = p
  BY DEF Bound, ObjectsOK, PackagesOK, PackageOK, InternedOK
<1>4. ASSUME NEW x \in S
      PROVE  /\ x \in 0 .. K - 1
             /\ objects[x].parent = Null \/ (/\ objects[x].parent \in S /\ objects[x].parent < x
                                             /\ objects[objects[x].parent].package = objects[x].package)
  <2>1. x \in DOMAIN objects /\ objects[x].kind = "environment"
    BY DEF Environments
  <2>2. EnvironmentOK(objects[x], x, objects, packages)
    BY <2>1 DEF ObjectsOK, HeapOK, ObjectOK
  <2> QED  BY <1>1, <2>1, <2>2 DEF EnvironmentOK, Is, Environments
<1> HIDE DEF K, S, g, sym
<1>5. Null \notin S
  BY <1>1, <1>4 DEF Null
<1>6. \E f \in [S -> V] : \A x \in S : f[x] = IF nx[x] \in S THEN step[x][f[nx[x]]] ELSE start[x]
  <2>1. m \in [S -> 0 .. K]
    <3>1. \A x \in S : x \in 0 .. K
      BY <1>1, <1>4
    <3>2. K \in 0 .. K
      BY <1>1
    <3> QED  BY <3>1, <3>2
  <2>2. start \in [S -> V]
    OBVIOUS
  <2>3. ASSUME NEW x \in S, nx[x] \in S  PROVE m[nx[x]] < m[x]
    <3>1. x \in 0 .. K - 1 /\ nx[x] \in 0 .. K - 1
      BY <1>4, <2>3
    <3>2. CASE objects[x].package # p
      <4>1. nx[x] = g
        BY <3>2
      <4>2. m[nx[x]] = g /\ m[x] = K
        BY <1>2, <3>2, <4>1
      <4> HIDE DEF m, nx
      <4> QED  BY <1>1, <3>1, <4>1, <4>2
    <3>3. CASE objects[x].package = p
      <4>1. nx[x] = objects[x].parent /\ nx[x] # Null
        BY <1>5, <2>3, <3>3
      <4>2. nx[x] < x /\ objects[nx[x]].package = p
        BY <1>4, <3>3, <4>1
      <4>3. m[nx[x]] = nx[x] /\ m[x] = x
        BY <2>3, <3>3, <4>2
      <4> QED  BY <4>2, <4>3
    <3> QED  BY <3>2, <3>3
  <2>4. \A x \in S, v \in V : step[x][v] \in V
    OBVIOUS
  <2> HIDE DEF V, m, nx, step, start
  <2>5. ComesToAnEnd(S, V, K, m, nx, step, start)
    BY <1>1, <2>1, <2>2, <2>3, <2>4 DEF ComesToAnEnd
  <2> QED  BY <2>5, RecursionIs
<1>7. \E f : f = R(f)
  <2>1. PICK f \in [S -> V] : \A x \in S : f[x] = IF nx[x] \in S THEN step[x][f[nx[x]]] ELSE start[x]
    BY <1>6
  <2>2. ASSUME NEW x \in S  PROVE f[x] = R(f)[x]
    <3>1. CASE objects[x].package # p
      <4>1. nx[x] = g /\ f[g] \in V
        BY <1>2, <2>1, <3>1
      <4>2. step[x][f[g]] = f[g]
        BY <4>1
      <4> QED  BY <1>2, <2>1, <3>1, <4>1, <4>2
    <3>2. CASE objects[x].package = p /\ sym \in DOMAIN objects[x].functions
      <4>1. nx[x] = Null
        BY <3>2
      <4> QED  BY <1>5, <2>1, <3>2, <4>1
    <3>3. CASE objects[x].package = p /\ sym \notin DOMAIN objects[x].functions
      <4>1. nx[x] = objects[x].parent
        BY <3>3
      <4>2. CASE objects[x].parent = Null
        BY <1>5, <2>1, <3>3, <4>1, <4>2
      <4>3. CASE objects[x].parent # Null
        <5>1. nx[x] \in S /\ f[nx[x]] \in V
          BY <1>4, <2>1, <4>1, <4>3
        <5>2. step[x][f[nx[x]]] = f[nx[x]]
          BY <5>1
        <5> QED  BY <2>1, <3>3, <4>1, <4>3, <5>1, <5>2
      <4> QED  BY <4>2, <4>3
    <3> QED  BY <3>1, <3>2, <3>3
  <2>3. f = [x \in S |-> f[x]]
    OBVIOUS
  <2>4. R(f) = [x \in S |-> R(f)[x]]
    OBVIOUS
  <2> HIDE DEF R
  <2> QED  BY <2>2, <2>3, <2>4
<1>8. nearest = R(nearest)
  <2> HIDE DEF R
  <2> QED  BY <1>7
<1>9. SymbolFunction(g, sym) = nearest[g]
  BY <1>3 DEF SymbolFunction, g, S
<1> HIDE DEF nearest
<1>10. nearest[g] = objects[g].functions[sym]
  BY <1>2, <1>8
<1>11. FunctionNamed(p, name) = SymbolFunction(g, sym)
  BY DEF FunctionNamed, g, sym
<1> QED  BY <1>2, <1>9, <1>10, <1>11

LEMMA SuitedFunction ==
  ASSUME InitializesInOrder, Inv, Top.fn \in Readers, NEW count, NEW p, NEW name,
         <<p, name>> \in {<<"SYSTEM", "REPL">>, <<"COMMON-LISP", "READ">>}
  PROVE  Suits(Object(FunctionNamed(p, name)), count, objects)
<1>1. p # "USER" /\ name \in {"READ", "REPL"} /\ Installed(p, name)
  BY DEF InitializesInOrder
<1>2. Bound(p, name, objects, packages) /\ ObjectsOK(objects, packages)
  BY <1>1, StartIsDone DEF Inv
<1> DEFINE fn == FunctionNamed(p, name)
<1>3. fn \in DOMAIN objects /\ objects[fn] = Inherent(name)
  BY <1>1, <1>2, FunctionIs
<1> HIDE DEF fn
<1>4. Suits(Object(fn), count, objects)
  BY <1>1, <1>3 DEF Suits
<1> QED  BY <1>4 DEF fn

(* What it takes to be an activation of a reader macro, or of the loop.    *)
LEMMA OpenParenIs ==
  ASSUME NEW act, act.fn = "(", NEW all, NEW packs, NEW lo, NEW hi, NEW forms
  PROVE  /\ act.fn \in Readers /\ act.fn # "'"
         /\ ActOK(act, all, packs) <=> act.held \subseteq DOMAIN all /\ OpenParenOK(act, all)
         /\ ActLaid(act, lo, hi, forms, all) <=>
              hi.frames = lo.frames /\ 1 <= lo.frames /\ OpenParenLaid(act, lo, hi)
BY DEF ActOK, ActLaid, Readers

ReadsString(act) == act.fn = "\""

LEMMA DoubleQuoteIs ==
  ASSUME NEW act, ReadsString(act), NEW all, NEW packs, NEW lo, NEW hi, NEW forms
  PROVE  /\ act.fn \in Readers /\ act.fn # "'"
         /\ act.fn \notin {"initialize_runtime", "intern_symbol"}
         /\ ActOK(act, all, packs) <=> act.held \subseteq DOMAIN all /\ DoubleQuoteOK(act)
         /\ ActLaid(act, lo, hi, forms, all) <=>
              hi.frames = lo.frames /\ 1 <= lo.frames /\ DoubleQuoteLaid(act, lo, hi, forms, all)
BY DEF ActOK, ActLaid, Readers, ReadsString

LEMMA SingleQuoteIs ==
  ASSUME NEW act, act.fn = "'", NEW all, NEW packs, NEW lo, NEW hi, NEW forms
  PROVE  /\ act.fn \in Readers
         /\ ActOK(act, all, packs) <=> act.held \subseteq DOMAIN all /\ SingleQuoteOK(act, all)
         /\ ActLaid(act, lo, hi, forms, all) <=>
              hi.frames = lo.frames /\ 1 <= lo.frames /\ SingleQuoteLaid(act, lo, hi, forms, all)
BY DEF ActOK, ActLaid, Readers

LEMMA ReplIs ==
  ASSUME NEW act, act.fn = "REPL", NEW all, NEW packs, NEW lo, NEW hi, NEW forms
  PROVE  /\ act.fn \in Readers /\ act.fn # "'"
         /\ ActOK(act, all, packs) <=> act.held \subseteq DOMAIN all /\ ReplOK(act, all)
         /\ ActLaid(act, lo, hi, forms, all) <=>
              hi.frames = lo.frames /\ 1 <= lo.frames /\ hi.forms = lo.forms
BY DEF ActOK, ActLaid, Readers

(* The list reader goes on without touching its list.                      *)
LEMMA OpenParenGoesOn ==
  ASSUME InitializesInOrder, Inv, Top.fn = "(", NEW act, acts' = Append(Below, act),
         act = [fn |-> "(", pc |-> act.pc, file |-> act.file, depth |-> act.depth,
                chars |-> act.chars, temp |-> act.temp, stream |-> act.stream,
                last |-> Top.last, cons |-> Top.cons, held |-> act.held],
         act.held \subseteq DOMAIN objects',
         act.pc \notin {"scan", "gensym", "stream"} => act.stream \in DOMAIN objects',
         HeapGrows, \A below : Settled(objects, objects', below),
         UNCHANGED <<stack, frames, value, ended>>
  PROVE  Inv' /\ Undisturbed
<1>1. PICK b : Laid(b, acts, form_stack, Len(frame_stack), objects)
  BY DEF Inv
<1> DEFINE lo == b[Len(acts) - 1]
           hi == b[Len(acts)]
<1>2. ActLaid(Top, lo, hi, form_stack, objects)
  BY <1>1, TopIs
<1> HIDE DEF lo, hi
<1>3. act.fn = "(" /\ act.last = Top.last /\ act.cons = Top.cons
      /\ act = [fn |-> act.fn, pc |-> act.pc, file |-> act.file, depth |-> act.depth,
                chars |-> act.chars, temp |-> act.temp, stream |-> act.stream,
                last |-> act.last, cons |-> act.cons, held |-> act.held]
  OBVIOUS
<1>4. ActOK(act, objects', packages')
  BY <1>3, OpenParenIs DEF OpenParenOK
<1>5. ActLaid(act, lo, hi, form_stack, objects')
  <2>1. hi.frames = lo.frames /\ 1 <= lo.frames /\ OpenParenLaid(Top, lo, hi)
    BY <1>2, OpenParenIs
  <2>2. OpenParenLaid(act, lo, hi)
    BY <1>3, <2>1 DEF OpenParenLaid
  <2> QED  BY <1>3, <2>1, <2>2, OpenParenIs
<1>6. Top.fn \notin {"initialize_runtime", "intern_symbol"} /\ act.fn = Top.fn
      /\ (act.fn # "'" \/ act.pc # "read")
  BY <1>3
<1> QED  BY <1>1, <1>4, <1>5, <1>6, HeapGoesOn DEF lo, hi

LEMMA OpenParenFillsKeeps ==
  ASSUME InitializesInOrder, Inv, OpenParenScans \/ OpenParenCopies
  PROVE  Inv' /\ Undisturbed
<1>1. Top.fn = "(" /\ Top.pc = "scan"
  BY DEF OpenParenScans, OpenParenCopies, Doing, In
<1>2. /\ UNCHANGED <<stack, frames, value, ended>>
      /\ objects' = objects /\ packages' = packages
  BY DEF OpenParenScans, OpenParenCopies, Becomes, session, heap, image
<1>3. HeapGrows /\ \A below : Settled(objects, objects', below)
  BY <1>2, HeapStays
<1>4. PICK b : Laid(b, acts, form_stack, Len(frame_stack), objects)
  BY DEF Inv
<1>5. Top.held \subseteq DOMAIN objects /\ OpenParenOK(Top, objects)
  BY <1>1, <1>4, TopIs, OpenParenIs
<1>6. Top = [fn |-> Top.fn, pc |-> Top.pc, file |-> Top.file, depth |-> Top.depth,
             chars |-> Top.chars, temp |-> Top.temp, stream |-> Top.stream,
             last |-> Top.last, cons |-> Top.cons, held |-> Top.held]
  BY <1>5 DEF OpenParenOK
<1>7. CASE OpenParenScans
  <2> DEFINE d == DepthAfter(NextChar)
             chars == Append(Top.chars, NextChar)
             act == [Top EXCEPT !.depth = d, !.chars = chars]
  <2>1. acts' = Append(Below, act)
    BY <1>7 DEF OpenParenScans, Becomes
  <2>2. act = [Top EXCEPT !.depth = d, !.chars = chars]
    OBVIOUS
  <2> HIDE DEF act, d, chars
  <2>3. act = [fn |-> "(", pc |-> "scan", file |-> Top.file, depth |-> d, chars |-> chars,
               temp |-> Top.temp, stream |-> Top.stream, last |-> Top.last, cons |-> Top.cons,
               held |-> Top.held]
    BY <1>1, <1>6, <2>2
  <2>4. act.pc = "scan" /\ act.held = Top.held
        /\ act = [fn |-> "(", pc |-> act.pc, file |-> act.file, depth |-> act.depth,
                  chars |-> act.chars, temp |-> act.temp, stream |-> act.stream,
                  last |-> Top.last, cons |-> Top.cons, held |-> act.held]
    BY <2>3
  <2> QED  BY <1>1, <1>2, <1>3, <1>5, <2>1, <2>4, OpenParenGoesOn
<1>8. CASE OpenParenCopies
  <2> DEFINE temp == Cardinality(DOMAIN files)
             act == [Top EXCEPT !.pc = "gensym", !.temp = temp]
  <2>1. acts' = Append(Below, act)
    BY <1>8 DEF OpenParenCopies, Becomes
  <2>2. act = [Top EXCEPT !.pc = "gensym", !.temp = temp]
    OBVIOUS
  <2> HIDE DEF act, temp
  <2>3. act = [fn |-> "(", pc |-> "gensym", file |-> Top.file, depth |-> Top.depth, chars |-> Top.chars,
               temp |-> temp, stream |-> Top.stream, last |-> Top.last, cons |-> Top.cons,
               held |-> Top.held]
    BY <1>1, <1>6, <2>2
  <2>4. act.pc = "gensym" /\ act.held = Top.held
        /\ act = [fn |-> "(", pc |-> act.pc, file |-> act.file, depth |-> act.depth,
                  chars |-> act.chars, temp |-> act.temp, stream |-> act.stream,
                  last |-> Top.last, cons |-> Top.cons, held |-> act.held]
    BY <2>3
  <2> QED  BY <1>1, <1>2, <1>3, <1>5, <2>1, <2>4, OpenParenGoesOn
<1> QED  BY <1>7, <1>8

LEMMA OpenParenBindsKeeps ==
  ASSUME InitializesInOrder, Inv, OpenParenGensyms \/ OpenParenAllocatesStream
  PROVE  Inv' /\ Undisturbed
<1>1. Top.fn = "("
  BY DEF OpenParenGensyms, OpenParenAllocatesStream, Doing, In
<1>2. UNCHANGED <<stack, frames, value, ended>>
  BY DEF OpenParenGensyms, OpenParenAllocatesStream, Becomes, session
<1>3. Top.fn \in Readers
  BY <1>1, OpenParenIs
<1>4. PICK b : Laid(b, acts, form_stack, Len(frame_stack), objects)
  BY DEF Inv
<1>5. OpenParenOK(Top, objects)
  BY <1>1, <1>4, TopIs, OpenParenIs
<1>6. Top = [fn |-> Top.fn, pc |-> Top.pc, file |-> Top.file, depth |-> Top.depth,
             chars |-> Top.chars, temp |-> Top.temp, stream |-> Top.stream,
             last |-> Top.last, cons |-> Top.cons, held |-> Top.held]
  BY <1>5 DEF OpenParenOK
<1>7. CASE OpenParenGensyms
  <2>1. HeapGrows /\ Fresh \in DOMAIN objects' /\ \A below : Settled(objects, objects', below)
    <3>1. "SYSTEM" \in DOMAIN packages /\ ObjectsOK(objects, packages) /\ Gensyms("SYSTEM")
      BY <1>3, <1>7, StartIsDone DEF Inv, OpenParenGensyms
    <3> QED  BY <3>1, GensymsGrow DEF Allocated, Settled
  <2> DEFINE held == {Fresh}
             act == [Top EXCEPT !.pc = "stream", !.held = held]
  <2>2. acts' = Append(Below, act)
    BY <1>7 DEF OpenParenGensyms, Becomes
  <2>3. act = [Top EXCEPT !.pc = "stream", !.held = held] /\ held \subseteq DOMAIN objects'
    BY <2>1
  <2> HIDE DEF act, held
  <2>4. act = [fn |-> "(", pc |-> "stream", file |-> Top.file, depth |-> Top.depth, chars |-> Top.chars,
               temp |-> Top.temp, stream |-> Top.stream, last |-> Top.last, cons |-> Top.cons,
               held |-> held]
    BY <1>1, <1>6, <2>3
  <2>5. act.pc = "stream" /\ act.held = held
        /\ act = [fn |-> "(", pc |-> act.pc, file |-> act.file, depth |-> act.depth,
                  chars |-> act.chars, temp |-> act.temp, stream |-> act.stream,
                  last |-> Top.last, cons |-> Top.cons, held |-> act.held]
    BY <2>4
  <2> QED  BY <1>1, <1>2, <2>1, <2>2, <2>3, <2>5, OpenParenGoesOn
<1>8. CASE OpenParenAllocatesStream
  <2>1. HeapGrows /\ Fresh \in DOMAIN objects' /\ \A below : Settled(objects, objects', below)
    <3> DEFINE o == Stream(Top.temp)
    <3>1. o = Stream(o.file) /\ packages' = packages
          /\ \E sym, form : Allocates(o, BoundTo(CurrentEnv, sym, form, objects))
      BY <1>8 DEF OpenParenAllocatesStream, Stream, image
    <3> HIDE DEF o
    <3> QED  BY <3>1, BoundAllocation DEF Allocated
  <2> DEFINE held == {Fresh}
             act == [Top EXCEPT !.pc = "element", !.stream = Fresh, !.held = held]
  <2>2. acts' = Append(Below, act)
    BY <1>8 DEF OpenParenAllocatesStream, Becomes
  <2>3. act = [Top EXCEPT !.pc = "element", !.stream = Fresh, !.held = held] /\ held \subseteq DOMAIN objects'
    BY <2>1
  <2> HIDE DEF act, held
  <2>4. act = [fn |-> "(", pc |-> "element", file |-> Top.file, depth |-> Top.depth, chars |-> Top.chars,
               temp |-> Top.temp, stream |-> Fresh, last |-> Top.last, cons |-> Top.cons,
               held |-> held]
    BY <1>1, <1>6, <2>3
  <2>5. act.stream = Fresh /\ act.held = held
        /\ act = [fn |-> "(", pc |-> act.pc, file |-> act.file, depth |-> act.depth,
                  chars |-> act.chars, temp |-> act.temp, stream |-> act.stream,
                  last |-> Top.last, cons |-> Top.cons, held |-> act.held]
    BY <2>4
  <2> QED  BY <1>1, <1>2, <2>1, <2>2, <2>3, <2>5, OpenParenGoesOn
<1> QED  BY <1>7, <1>8

LEMMA OpenParenReadsKeeps ==
  ASSUME InitializesInOrder, Inv, OpenParenReads
  PROVE  Inv' /\ Undisturbed
<1>1. Top.fn = "(" /\ Top.pc = "element"
  BY DEF OpenParenReads, Doing, In
<1>2. PICK b : Laid(b, acts, form_stack, Len(frame_stack), objects)
  BY DEF Inv
<1> DEFINE lo == b[Len(acts) - 1]
           hi == b[Len(acts)]
           caller == [Top EXCEPT !.pc = "link"]
           fn == FunctionNamed("COMMON-LISP", "READ")
           args == <<Object(Top.stream)>>
<1>3. CallsFunction(caller, fn, args) /\ UNCHANGED <<heap, image, frames, ended>>
  BY DEF OpenParenReads, session
<1>4. Top.fn \in Readers
  BY <1>1, OpenParenIs
<1>5. Suits(Object(fn), Len(args), objects)
  BY <1>4, SuitedFunction
<1>6. IsSeq(args) /\ Len(args) = 1 /\ args[1] = Object(Top.stream)
  BY SingleIs
<1>7. /\ hi.frames = lo.frames /\ 1 <= lo.frames /\ OpenParenLaid(Top, lo, hi)
      /\ Top.held \subseteq DOMAIN objects /\ OpenParenOK(Top, objects)
  <2>1. ActOK(Top, objects, packages) /\ ActLaid(Top, lo, hi, form_stack, objects)
    BY <1>2, TopIs
  <2> HIDE DEF lo, hi
  <2> QED  BY <1>1, <2>1, OpenParenIs
<1>8. Top = [fn |-> Top.fn, pc |-> Top.pc, file |-> Top.file, depth |-> Top.depth,
             chars |-> Top.chars, temp |-> Top.temp, stream |-> Top.stream,
             last |-> Top.last, cons |-> Top.cons, held |-> Top.held]
  BY <1>7 DEF OpenParenOK
<1>9. caller = [Top EXCEPT !.pc = "link"]
  OBVIOUS
<1> HIDE DEF caller, fn, args, lo, hi
<1>10. caller = [fn |-> "(", pc |-> "link", file |-> Top.file, depth |-> Top.depth,
                 chars |-> Top.chars, temp |-> Top.temp, stream |-> Top.stream,
                 last |-> Top.last, cons |-> Top.cons, held |-> Top.held]
  BY <1>1, <1>8, <1>9
<1>11. /\ caller.fn = "(" /\ caller.pc = "link" /\ caller.held = Top.held
       /\ caller.stream = Top.stream /\ caller.last = Top.last /\ caller.cons = Top.cons
       /\ caller = [fn |-> caller.fn, pc |-> caller.pc, file |-> caller.file, depth |-> caller.depth,
                    chars |-> caller.chars, temp |-> caller.temp, stream |-> caller.stream,
                    last |-> caller.last, cons |-> caller.cons, held |-> caller.held]
  BY <1>10
<1>12. Top.stream \in DOMAIN objects
  BY <1>1, <1>7 DEF OpenParenOK
<1>13. ActOK(caller, objects, packages)
  BY <1>7, <1>11, <1>12, OpenParenIs DEF OpenParenOK
<1>14. ActLaid(caller, lo, hi, form_stack, objects)
  <2>1. OpenParenLaid(caller, lo, hi)
    BY <1>7, <1>11 DEF OpenParenLaid
  <2> QED  BY <1>7, <1>11, <2>1, OpenParenIs
<1>15. Waits(caller, CallAct(Len(args)))
  BY <1>11 DEF Waits, CallAct, Readers
<1>16. \A i \in 1 .. Len(args) : FormOK(args[i], objects)
  <2>1. FormOK(args[1], objects)
    BY <1>6, <1>12 DEF FormOK, Object
  <2> QED  BY <1>6, <2>1
<1>17. Len(args) \in 0 .. 2 /\ caller.fn = Top.fn
  BY <1>1, <1>6, <1>11
<1> QED  BY <1>2, <1>3, <1>4, <1>5, <1>6, <1>13, <1>14, <1>15, <1>16, <1>17, FunctionCalled
         DEF lo, hi

(* A new object is pushed onto the form stack.                             *)
LEMMA ObjectPushed ==
  ASSUME InitializesInOrder, Inv, Top.fn \in Readers,
         NEW b, Laid(b, acts, form_stack, Len(frame_stack), objects),
         HeapGrows, NEW o, Allocated(o), \A below : Settled(objects, objects', below),
         Pushes(<<Object(Fresh)>>), UNCHANGED <<frames, value, ended>>,
         NEW act, act.fn = Top.fn, acts' = Append(Below, act), ActOK(act, objects', packages'),
         act.fn # "'" \/ act.pc # "read",
         \A new \in Levels :
           /\ new.forms = b[Len(acts)].forms + 1 /\ new.frames = b[Len(acts)].frames
           /\ new.conses = Size(objects') /\ form_stack'[new.forms] = Object(Fresh)
           => ActLaid(act, b[Len(acts) - 1], new, form_stack', objects')
  PROVE  Inv' /\ Undisturbed
<1> DEFINE lo == b[Len(acts) - 1]
           hi == b[Len(acts)]
           m == Len(form_stack)
           top == Size(objects')
           new == [forms |-> hi.forms + 1, frames |-> hi.frames, conses |-> top]
<1>1. /\ lo \in Levels /\ hi \in Levels /\ hi.forms = m /\ hi.frames = Len(frame_stack)
      /\ lo.forms <= hi.forms /\ lo.conses <= hi.conses /\ hi.conses <= Size(objects)
  BY TopIs
<1>2. Grows(objects, objects')
  BY DEF HeapGrows, Steady
<1>3. /\ FormsOK(form_stack', form_cap', objects') /\ Len(form_stack') = m + 1
      /\ Agree(form_stack, form_stack', m) /\ form_stack'[m + 1] = Object(Fresh)
  <2> DEFINE some == <<Object(Fresh)>>
  <2>1. IsSeq(some) /\ Len(some) = 1 /\ some[1] = Object(Fresh)
    BY SingleIs
  <2>2. Pushes(some)
    OBVIOUS
  <2> HIDE DEF some
  <2>3. \A i \in 1 .. Len(some) : FormOK(some[i], objects')
    <3>1. FormOK(some[1], objects')
      BY <2>1 DEF FormOK, Object, Allocated
    <3> QED  BY <2>1, <3>1
  <2>4. FormsOK(form_stack, form_cap, objects)
    BY DEF Inv
  <2>5. /\ FormsOK(form_stack', form_cap', objects') /\ Len(form_stack') = m + Len(some)
        /\ Agree(form_stack, form_stack', m)
        /\ \A i \in 1 .. Len(some) : form_stack'[m + i] = some[i]
    BY <1>2, <2>1, <2>2, <2>3, <2>4, FormsPushed
  <2> QED  BY <2>1, <2>5
<1>4. m \in Nat
  BY SeqIs DEF Inv, FormsOK
<1>5. \A x \in Levels : /\ x.forms = hi.forms + 1 /\ x.frames = hi.frames
                        /\ x.conses = top /\ form_stack'[x.forms] = Object(Fresh)
                        => ActLaid(act, lo, x, form_stack', objects')
  OBVIOUS
<1>15. Size(objects) \in Nat /\ top \in Nat /\ Size(objects) <= top
  BY SizeIs DEF Inv, ObjectsOK, HeapGrows
<1> HIDE DEF lo, hi, m, top
<1>6. /\ lo.forms \in Nat /\ lo.conses \in Nat
      /\ hi.forms \in Nat /\ hi.frames \in Nat /\ hi.conses \in Nat
  BY <1>1 DEF Levels
<1>7. new \in Levels /\ new.forms = hi.forms + 1 /\ new.frames = hi.frames /\ new.conses = top
  BY <1>6, <1>15 DEF Levels
<1> HIDE DEF new
<1>8. ActLaid(act, lo, new, form_stack', objects')
  BY <1>1, <1>3, <1>5, <1>7
<1>9. LaysOut(act, lo, new)
  <2>1. lo.forms <= new.forms /\ lo.conses <= new.conses
    BY <1>1, <1>6, <1>7, <1>15
  <2> QED  BY <1>1, <1>7, <1>8, <2>1 DEF LaysOut
<1>10. EndsAt(new)
  <2>2. new.conses <= Size(objects')
    BY <1>7, <1>15 DEF top
  <2>3. Len(frame_stack') = Len(frame_stack)
    BY DEF frames
  <2> QED  BY <1>1, <1>3, <1>7, <2>2, <2>3 DEF EndsAt
<1>11. KeepsLower(b)
  <2>1. \A i \in 1 .. lo.forms : i \in 1 .. m
    BY <1>1, <1>4, <1>6
  <2> QED  BY <1>3, <2>1 DEF KeepsLower, Agree, lo
<1>12. FormOK(value', objects')
  BY <1>2 DEF FormOK, Grows, Inv, ValueOK
<1>13. StacksOK'
  <2>1. UNCHANGED frames
    OBVIOUS
  <2> QED  BY <1>2, <1>3, <2>1, FramesStay DEF StacksOK, Inv
<1>14. Top.fn \notin {"initialize_runtime", "intern_symbol"} /\ ended' = ended
  BY DEF Readers
<1> QED  BY <1>9, <1>10, <1>11, <1>12, <1>13, <1>14, GoesOn DEF lo

LEMMA OpenParenBeginsListKeeps ==
  ASSUME InitializesInOrder, Inv, OpenParenBeginsList
  PROVE  Inv' /\ Undisturbed
<1>1. Top.fn = "(" /\ Top.pc = "link" /\ Top.last = NoBuffer
  BY DEF OpenParenBeginsList, Doing, In
<1>2. PICK b : Laid(b, acts, form_stack, Len(frame_stack), objects)
  BY DEF Inv
<1> DEFINE lo == b[Len(acts) - 1]
           hi == b[Len(acts)]
           o  == ConsCell(value, Nil)
           cap == form_cap'
           act == [Top EXCEPT !.pc = "element", !.last = cap, !.cons = Fresh,
                              !.held = {Top.stream, Fresh}]
<1>3. /\ Allocates(o, objects) /\ Pushes(<<Object(Fresh)>>) /\ acts' = Append(Below, act)
      /\ UNCHANGED <<frames, value, ended>> /\ packages' = packages
  BY DEF OpenParenBeginsList, Links, Becomes, session, image
<1>4. HeapGrows /\ Allocated(o) /\ \A below : Settled(objects, objects', below)
  BY <1>3, ConsAllocated DEF Inv, ValueOK
<1>5. Top.fn \in Readers
  BY <1>1, OpenParenIs
<1>6. /\ hi.frames = lo.frames /\ 1 <= lo.frames /\ OpenParenLaid(Top, lo, hi)
      /\ Top.held \subseteq DOMAIN objects /\ OpenParenOK(Top, objects)
      /\ lo.conses <= hi.conses /\ hi.conses <= Size(objects) /\ lo \in Levels /\ hi \in Levels
  <2>1. ActOK(Top, objects, packages) /\ ActLaid(Top, lo, hi, form_stack, objects)
        /\ lo.conses <= hi.conses /\ hi.conses <= Size(objects) /\ lo \in Levels /\ hi \in Levels
    BY <1>2, TopIs
  <2> HIDE DEF lo, hi
  <2> QED  BY <1>1, <2>1, OpenParenIs
<1>7. Top = [fn |-> Top.fn, pc |-> Top.pc, file |-> Top.file, depth |-> Top.depth,
             chars |-> Top.chars, temp |-> Top.temp, stream |-> Top.stream,
             last |-> Top.last, cons |-> Top.cons, held |-> Top.held]
  BY <1>6 DEF OpenParenOK
<1>8. act = [Top EXCEPT !.pc = "element", !.last = cap, !.cons = Fresh,
                       !.held = {Top.stream, Fresh}]
  OBVIOUS
<1> HIDE DEF act, lo, hi, cap, o
<1>9. act = [fn |-> "(", pc |-> "element", file |-> Top.file, depth |-> Top.depth,
             chars |-> Top.chars, temp |-> Top.temp, stream |-> Top.stream,
             last |-> cap, cons |-> Fresh, held |-> {Top.stream, Fresh}]
  BY <1>1, <1>7, <1>8
<1>10. /\ act.fn = "(" /\ act.pc = "element" /\ act.held = {Top.stream, Fresh}
       /\ act.stream = Top.stream /\ act.last = cap /\ act.cons = Fresh
       /\ act = [fn |-> act.fn, pc |-> act.pc, file |-> act.file, depth |-> act.depth,
                 chars |-> act.chars, temp |-> act.temp, stream |-> act.stream,
                 last |-> act.last, cons |-> act.cons, held |-> act.held]
  BY <1>9
<1>11. DOMAIN objects \subseteq DOMAIN objects' /\ Fresh \in DOMAIN objects'
  BY <1>4 DEF Allocated
<1>12. ActOK(act, objects', packages')
  <2>1. Top.stream \in DOMAIN objects'
    BY <1>1, <1>6, <1>11 DEF OpenParenOK
  <2>2. OpenParenOK(act, objects')
    BY <1>10, <2>1 DEF OpenParenOK
  <2> QED  BY <1>10, <1>11, <2>1, <2>2, OpenParenIs
<1>13. cap # NoBuffer
  <2>1. FormsOK(form_stack, form_cap, objects)
    BY DEF Inv
  <2>2. Len(form_stack) \in Nat /\ Len(<<Object(Fresh)>>) = 1 /\ form_cap \in Nat
    BY <2>1, SeqIs, SingleIs DEF FormsOK
  <2>3. cap = Capacity(form_cap, Len(form_stack) + 1)
    BY <1>3, <2>2 DEF Pushes, cap
  <2> DEFINE need == Len(form_stack) + 1
  <2>4. need \in Nat /\ 1 <= need
    BY <2>2
  <2>5. cap \in Nat /\ need <= cap
    <3> HIDE DEF need
    <3>1. cap = Capacity(form_cap, need)
      BY <2>3 DEF need
    <3> QED  BY <2>2, <2>4, <3>1, CapacityIs
  <2> HIDE DEF need
  <2> QED  BY <2>4, <2>5 DEF NoBuffer
<1>14. Fresh \in Nat /\ lo.conses <= Fresh /\ Size(objects') = Fresh + 1
  <2>1. Fresh \in Nat /\ Fresh = Size(objects) /\ Size(objects') = Fresh + 1
    BY <1>4 DEF Allocated
  <2>2. lo.conses \in Nat /\ hi.conses \in Nat
    BY <1>6 DEF Levels
  <2> HIDE DEF Fresh
  <2> QED  BY <1>6, <2>1, <2>2
<1>15. ASSUME NEW new \in Levels, new.forms = hi.forms + 1, new.frames = hi.frames,
              new.conses = Size(objects')
       PROVE  ActLaid(act, lo, new, form_stack', objects')
  <2>1. hi.forms = lo.forms
    BY <1>1, <1>6 DEF OpenParenLaid
  <2>2. OpenParenLaid(act, lo, new)
    <3>1. Fresh < new.conses
      <4> HIDE DEF Fresh
      <4> QED  BY <1>14, <1>15
    <3> HIDE DEF Fresh
    <3> QED  BY <1>10, <1>13, <1>14, <1>15, <2>1, <3>1 DEF OpenParenLaid
  <2> QED  BY <1>6, <1>10, <1>15, <2>2, OpenParenIs
<1>16. act.fn = Top.fn /\ act.fn # "'"
  BY <1>1, <1>10
<1> QED  BY <1>2, <1>3, <1>4, <1>5, <1>12, <1>15, <1>16, ObjectPushed DEF lo, hi

LEMMA OpenParenExtendsListKeeps ==
  ASSUME InitializesInOrder, Inv, OpenParenExtendsList
  PROVE  Inv' /\ Undisturbed
<1>1. Top.fn = "(" /\ Top.pc = "link" /\ Top.last # NoBuffer
  BY DEF OpenParenExtendsList, Doing, In
<1>2. PICK b : Laid(b, acts, form_stack, Len(frame_stack), objects)
  BY DEF Inv
<1> DEFINE lo == b[Len(acts) - 1]
           hi == b[Len(acts)]
           o  == ConsCell(value, Nil)
           act == [Top EXCEPT !.pc = "element", !.last = InCons, !.cons = Fresh,
                              !.held = {Top.stream, Fresh}]
           c == Top.cons
<1>3. /\ Allocates(o, [objects EXCEPT ![c].cdr = Object(Fresh)]) /\ acts' = Append(Below, act)
      /\ UNCHANGED <<stack, frames, value, ended>> /\ packages' = packages
  BY DEF OpenParenExtendsList, Links, Becomes, session, image
<1>4. /\ hi.frames = lo.frames /\ 1 <= lo.frames /\ OpenParenLaid(Top, lo, hi)
      /\ Top.held \subseteq DOMAIN objects /\ OpenParenOK(Top, objects)
      /\ lo.conses <= hi.conses /\ hi.conses <= Size(objects) /\ lo \in Levels /\ hi \in Levels
  <2>1. ActOK(Top, objects, packages) /\ ActLaid(Top, lo, hi, form_stack, objects)
        /\ lo.conses <= hi.conses /\ hi.conses <= Size(objects) /\ lo \in Levels /\ hi \in Levels
    BY <1>2, TopIs
  <2> HIDE DEF lo, hi
  <2> QED  BY <1>1, <2>1, OpenParenIs
<1>5. hi.forms = lo.forms + 1 /\ c \in Nat /\ lo.conses <= c
  BY <1>1, <1>4 DEF OpenParenLaid
<1>6. HeapGrows /\ Allocated(o) /\ Settled(objects, objects', lo.conses)
  <2>1. lo.conses \in Nat
    BY <1>4 DEF Levels
  <2> HIDE DEF c, lo
  <2>2. ~(c < lo.conses)
    BY <1>5, <2>1
  <2>3. FormOK(value, objects)
    BY DEF Inv, ValueOK
  <2> QED  BY <1>3, <2>2, <2>3, ConsLinked
<1>7. Top = [fn |-> Top.fn, pc |-> Top.pc, file |-> Top.file, depth |-> Top.depth,
             chars |-> Top.chars, temp |-> Top.temp, stream |-> Top.stream,
             last |-> Top.last, cons |-> Top.cons, held |-> Top.held]
  BY <1>4 DEF OpenParenOK
<1>8. act = [Top EXCEPT !.pc = "element", !.last = InCons, !.cons = Fresh,
                       !.held = {Top.stream, Fresh}]
  OBVIOUS
<1> HIDE DEF act, lo, hi, o
<1>9. act = [fn |-> "(", pc |-> "element", file |-> Top.file, depth |-> Top.depth,
             chars |-> Top.chars, temp |-> Top.temp, stream |-> Top.stream,
             last |-> InCons, cons |-> Fresh, held |-> {Top.stream, Fresh}]
  BY <1>1, <1>7, <1>8
<1>10. /\ act.fn = "(" /\ act.pc = "element" /\ act.held = {Top.stream, Fresh}
       /\ act.stream = Top.stream /\ act.last = InCons /\ act.cons = Fresh
       /\ act = [fn |-> act.fn, pc |-> act.pc, file |-> act.file, depth |-> act.depth,
                 chars |-> act.chars, temp |-> act.temp, stream |-> act.stream,
                 last |-> act.last, cons |-> act.cons, held |-> act.held]
  BY <1>9
<1>11. DOMAIN objects \subseteq DOMAIN objects' /\ Fresh \in DOMAIN objects'
  BY <1>6 DEF Allocated
<1>12. ActOK(act, objects', packages')
  <2>1. Top.stream \in DOMAIN objects'
    BY <1>1, <1>4, <1>11 DEF OpenParenOK
  <2>2. OpenParenOK(act, objects')
    BY <1>10, <2>1 DEF OpenParenOK
  <2> QED  BY <1>10, <1>11, <2>1, <2>2, OpenParenIs
<1> DEFINE top == Size(objects')
           new == [forms |-> hi.forms, frames |-> hi.frames, conses |-> top]
<1>13. Fresh \in Nat /\ lo.conses <= Fresh /\ top \in Nat /\ Fresh < top /\ hi.conses <= top
  <2>1. Fresh \in Nat /\ Fresh = Size(objects) /\ top = Fresh + 1
    BY <1>6 DEF Allocated
  <2>2. lo.conses \in Nat /\ hi.conses \in Nat
    BY <1>4 DEF Levels
  <2> HIDE DEF Fresh, top
  <2> QED  BY <1>4, <2>1, <2>2
<1> HIDE DEF top
<1>16. new \in Levels /\ new.forms = hi.forms /\ new.frames = hi.frames /\ new.conses = top
  BY <1>4, <1>13 DEF Levels
<1>17. top <= top
  BY <1>13
<1> HIDE DEF new
<1>14. ActLaid(act, lo, new, form_stack, objects')
  <2>1. OpenParenLaid(act, lo, new)
    <3> HIDE DEF Fresh
    <3> QED  BY <1>5, <1>10, <1>13, <1>16 DEF OpenParenLaid, InCons, NoBuffer
  <2> QED  BY <1>4, <1>10, <1>16, <2>1, OpenParenIs
<1>15. act.fn = Top.fn /\ act.fn # "'" /\ Top.fn \notin {"initialize_runtime", "intern_symbol"}
  BY <1>1, <1>10
<1> QED  BY <1>2, <1>3, <1>6, <1>12, <1>13, <1>14, <1>15, <1>16, <1>17, HeapRaises DEF lo, hi, top

LEMMA OpenParenReturnsKeeps ==
  ASSUME InitializesInOrder, Inv, OpenParenReturns
  PROVE  Inv' /\ Undisturbed
<1>1. Top.fn = "("
  BY DEF OpenParenReturns, Doing, In
<1>2. PICK b : Laid(b, acts, form_stack, Len(frame_stack), objects)
  BY DEF Inv
<1> DEFINE lo == b[Len(acts) - 1]
           hi == b[Len(acts)]
           k  == IF Top.last = NoBuffer THEN 0 ELSE 1
<1>3. /\ objects' = objects /\ packages' = packages /\ acts' = Below
      /\ UNCHANGED <<form_cap, frames, ended>>
      /\ \/ Top.last = NoBuffer /\ value' = Nil /\ form_stack' = form_stack
         \/ Top.last # NoBuffer /\ value' = Last(form_stack) /\ form_stack' = DropLast(form_stack, 1)
  BY DEF OpenParenReturns, Returns, heap, image, session
<1>4. HeapGrows /\ \A below : Settled(objects, objects', below)
  BY <1>3, HeapStays
<1>5. Top.fn \in Readers
  BY <1>1, OpenParenIs
<1>6. OpenParenLaid(Top, lo, hi) /\ lo \in Levels /\ hi.forms = Len(form_stack)
  <2>1. ActLaid(Top, lo, hi, form_stack, objects) /\ lo \in Levels /\ hi.forms = Len(form_stack)
    BY <1>2, TopIs
  <2> HIDE DEF lo, hi
  <2> QED  BY <1>1, <2>1, OpenParenIs
<1> HIDE DEF lo, hi
<1>7. k \in Nat /\ hi.forms = lo.forms + k /\ lo.forms \in Nat
  BY <1>6 DEF OpenParenLaid, Levels
<1>8. form_stack' = DropLast(form_stack, k) \/ (k = 0 /\ form_stack' = form_stack)
  BY <1>3
<1>9. FormOK(value', objects')
  <2>1. CASE Top.last = NoBuffer
    BY <1>3, <2>1 DEF FormOK, Nil
  <2>2. CASE Top.last # NoBuffer
    <3>1. FormsOK(form_stack, form_cap, objects)
      BY DEF Inv
    <3> DEFINE m == Len(form_stack)
    <3>2. m \in 1 .. m
      BY <1>6, <1>7, <2>2
    <3>3. value' = form_stack[m]
      BY <1>3, <2>2 DEF Last
    <3> QED  BY <1>3, <3>1, <3>2, <3>3 DEF FormsOK
  <2> QED  BY <2>1, <2>2
<1> HIDE DEF k
<1> QED  BY <1>2, <1>3, <1>4, <1>5, <1>7, <1>8, <1>9, ReaderReturns DEF lo, hi

LEMMA OpenParenEndsKeeps ==
  ASSUME Inv, OpenParenLoses \/ OpenParenLoops \/ CloseParenAborts \/ DoubleQuoteLoops \/ ReplQuits
  PROVE  Inv'
<1>1. UNCHANGED <<heap, image, stack, frames, acts, value>>
      /\ ended' \in {"running", "end of input", "quit", "aborted", "looping", "undefined"}
  BY DEF OpenParenLoses, OpenParenLoops, CloseParenAborts, DoubleQuoteLoops, ReplQuits, Ends
<1> QED  BY <1>1, JustEnds

LEMMA DoubleQuoteStepIs ==
  ASSUME DoubleQuoteScans \/ DoubleQuoteAllocatesString \/ DoubleQuoteReturns
  PROVE  /\ ReadsString(Top)
         /\ DoubleQuoteScans => Top.pc = "scan"
         /\ DoubleQuoteAllocatesString => Top.pc = "string"
         /\ DoubleQuoteReturns => Top.pc = "chars"
BY DEF DoubleQuoteScans, DoubleQuoteAllocatesString, DoubleQuoteReturns, Doing, In, ReadsString

LEMMA DoubleQuoteActIs ==
  ASSUME NEW act, ReadsString(Top),
         act = [fn |-> Top.fn, pc |-> act.pc, file |-> Top.file, chars |-> act.chars,
                escaped |-> act.escaped, held |-> act.held]
  PROVE  ReadsString(act) /\ DoubleQuoteOK(act) /\ act.fn = Top.fn
<1>1. act.fn = Top.fn /\ act.file = Top.file
  OBVIOUS
<1> QED  BY <1>1 DEF ReadsString, DoubleQuoteOK

(* A character of a string is read: what the activation becomes.           *)
LEMMA DoubleQuoteScansTo ==
  ASSUME DoubleQuoteScans
  PROVE  \E chars, escaped, pc :
           /\ acts' = Append(Below, [Top EXCEPT !.chars = chars, !.escaped = escaped, !.pc = pc])
              \/ acts' = Append(Below, [Top EXCEPT !.chars = chars, !.escaped = escaped])
              \/ acts' = Append(Below, [Top EXCEPT !.chars = chars])
              \/ acts' = Append(Below, [Top EXCEPT !.escaped = escaped])
              \/ acts' = Append(Below, [Top EXCEPT !.pc = pc])
           /\ pc = "string" /\ value' = value
BY DEF DoubleQuoteScans, Becomes, Goes

LEMMA DoubleQuoteBecomes ==
  ASSUME DoubleQuoteScans, DoubleQuoteOK(Top)
  PROVE  \E act : /\ acts' = Append(Below, act) /\ act.pc \in {"scan", "string"} /\ act.held = Top.held
                  /\ act = [fn |-> Top.fn, pc |-> act.pc, file |-> Top.file, chars |-> act.chars,
                            escaped |-> act.escaped, held |-> act.held]
<1>1. Top.pc = "scan"
  BY DoubleQuoteStepIs
<1>2. Top = [fn |-> Top.fn, pc |-> Top.pc, file |-> Top.file, chars |-> Top.chars,
             escaped |-> Top.escaped, held |-> Top.held]
  BY DEF DoubleQuoteOK
<1>3. PICK chars, escaped, pc :
        /\ acts' = Append(Below, [Top EXCEPT !.chars = chars, !.escaped = escaped, !.pc = pc])
           \/ acts' = Append(Below, [Top EXCEPT !.chars = chars, !.escaped = escaped])
           \/ acts' = Append(Below, [Top EXCEPT !.chars = chars])
           \/ acts' = Append(Below, [Top EXCEPT !.escaped = escaped])
           \/ acts' = Append(Below, [Top EXCEPT !.pc = pc])
        /\ pc = "string"
  BY DoubleQuoteScansTo
<1>4. PICK act : /\ acts' = Append(Below, act)
                 /\ \/ act = [Top EXCEPT !.chars = chars, !.escaped = escaped, !.pc = pc]
                    \/ act = [Top EXCEPT !.chars = chars, !.escaped = escaped]
                    \/ act = [Top EXCEPT !.chars = chars]
                    \/ act = [Top EXCEPT !.escaped = escaped]
                    \/ act = [Top EXCEPT !.pc = pc]
  BY <1>3
<1>5. PICK chars2, escaped2, pc2 :
        act = [fn |-> Top.fn, pc |-> pc2, file |-> Top.file, chars |-> chars2,
               escaped |-> escaped2, held |-> Top.held] /\ pc2 \in {"scan", "string"}
  <2>1. CASE act = [Top EXCEPT !.chars = chars, !.escaped = escaped, !.pc = pc]
    <3>1. act = [fn |-> Top.fn, pc |-> pc, file |-> Top.file, chars |-> chars,
                 escaped |-> escaped, held |-> Top.held]
      BY <1>2, <2>1
    <3> QED  BY <1>3, <3>1
  <2>2. CASE act = [Top EXCEPT !.chars = chars, !.escaped = escaped]
    <3>1. act = [fn |-> Top.fn, pc |-> Top.pc, file |-> Top.file, chars |-> chars,
                 escaped |-> escaped, held |-> Top.held]
      BY <1>2, <2>2
    <3> QED  BY <1>1, <3>1
  <2>3. CASE act = [Top EXCEPT !.chars = chars]
    <3>1. act = [fn |-> Top.fn, pc |-> Top.pc, file |-> Top.file, chars |-> chars,
                 escaped |-> Top.escaped, held |-> Top.held]
      BY <1>2, <2>3
    <3> QED  BY <1>1, <3>1
  <2>4. CASE act = [Top EXCEPT !.escaped = escaped]
    <3>1. act = [fn |-> Top.fn, pc |-> Top.pc, file |-> Top.file, chars |-> Top.chars,
                 escaped |-> escaped, held |-> Top.held]
      BY <1>2, <2>4
    <3> QED  BY <1>1, <3>1
  <2>5. CASE act = [Top EXCEPT !.pc = pc]
    <3>1. act = [fn |-> Top.fn, pc |-> pc, file |-> Top.file, chars |-> Top.chars,
                 escaped |-> Top.escaped, held |-> Top.held]
      BY <1>2, <2>5
    <3> QED  BY <1>3, <3>1
  <2> QED  BY <1>4, <2>1, <2>2, <2>3, <2>4, <2>5
<1>6. act.pc = pc2 /\ act.chars = chars2 /\ act.escaped = escaped2 /\ act.held = Top.held
  BY <1>5
<1> QED  BY <1>4, <1>5, <1>6

LEMMA DoubleQuoteScansKeeps ==
  ASSUME InitializesInOrder, Inv, DoubleQuoteScans
  PROVE  Inv' /\ Undisturbed
<1>1. ReadsString(Top) /\ Top.pc = "scan"
  BY DoubleQuoteStepIs
<1>2. PICK b : Laid(b, acts, form_stack, Len(frame_stack), objects)
  BY DEF Inv
<1> DEFINE lo == b[Len(acts) - 1]
           hi == b[Len(acts)]
<1>3. UNCHANGED <<heap, image, stack, frames, value, ended>>
  BY DoubleQuoteScansTo DEF DoubleQuoteScans, session
<1>4. /\ hi.frames = lo.frames /\ 1 <= lo.frames /\ DoubleQuoteLaid(Top, lo, hi, form_stack, objects)
      /\ Top.held \subseteq DOMAIN objects /\ DoubleQuoteOK(Top)
  <2>1. ActOK(Top, objects, packages) /\ ActLaid(Top, lo, hi, form_stack, objects)
    BY <1>2, TopIs
  <2> HIDE DEF lo, hi
  <2> QED  BY <1>1, <2>1, DoubleQuoteIs
<1>5. Top = [fn |-> Top.fn, pc |-> Top.pc, file |-> Top.file, chars |-> Top.chars,
             escaped |-> Top.escaped, held |-> Top.held]
  BY <1>4 DEF DoubleQuoteOK
<1>6. PICK act : /\ acts' = Append(Below, act) /\ act.pc \in {"scan", "string"} /\ act.held = Top.held
                 /\ act = [fn |-> Top.fn, pc |-> act.pc, file |-> Top.file, chars |-> act.chars,
                           escaped |-> act.escaped, held |-> act.held]
  BY <1>4, DoubleQuoteBecomes
<1>7. ReadsString(act) /\ DoubleQuoteOK(act) /\ act.fn = Top.fn
  BY <1>1, <1>6, DoubleQuoteActIs
<1> HIDE DEF lo, hi
<1>8. ActOK(act, objects, packages)
  BY <1>4, <1>6, <1>7, DoubleQuoteIs
<1>9. ActLaid(act, lo, hi, form_stack, objects)
  <2>1. act.pc # "chars" /\ Top.pc # "chars"
    BY <1>1, <1>6
  <2>2. DoubleQuoteLaid(act, lo, hi, form_stack, objects)
    BY <1>4, <2>1 DEF DoubleQuoteLaid
  <2> QED  BY <1>4, <1>7, <2>2, DoubleQuoteIs
<1>10. act.fn # "'" /\ Top.fn \notin {"initialize_runtime", "intern_symbol"}
  BY <1>1, <1>7, DoubleQuoteIs
<1> QED  BY <1>2, <1>3, <1>6, <1>7, <1>8, <1>9, <1>10, JustGoesOn DEF lo, hi

LEMMA DoubleQuoteAllocatesStringKeeps ==
  ASSUME InitializesInOrder, Inv, DoubleQuoteAllocatesString
  PROVE  Inv' /\ Undisturbed
<1>1. ReadsString(Top) /\ Top.pc = "string"
  BY DoubleQuoteStepIs
<1>2. PICK b : Laid(b, acts, form_stack, Len(frame_stack), objects)
  BY DEF Inv
<1> DEFINE lo == b[Len(acts) - 1]
           hi == b[Len(acts)]
           o  == String
           held == {Fresh}
           act == [Top EXCEPT !.pc = "chars", !.held = held]
<1>3. /\ Allocates(o, objects) /\ Pushes(<<Object(Fresh)>>) /\ acts' = Append(Below, act)
      /\ UNCHANGED <<frames, value, ended>> /\ packages' = packages
  BY DEF DoubleQuoteAllocatesString, Becomes, session, image
<1>4. HeapGrows /\ Allocated(o) /\ \A below : Settled(objects, objects', below)
  <2>1. o.kind = "string" /\ ObjectOK(o, Fresh, objects, packages)
    BY DEF ObjectOK, String
  <2> HIDE DEF o
  <2>2. ObjectsOK(objects, packages) /\ Altered(objects, objects, Fresh, o)
    BY NothingAltered DEF Inv
  <2>3. HeapGrows /\ Allocated(o) /\ \A id \in DOMAIN objects : objects'[id] = objects[id]
    BY <1>3, <2>1, <2>2, QuietAllocation
  <2> QED  BY <2>3 DEF Settled
<1>5. /\ hi.frames = lo.frames /\ 1 <= lo.frames /\ DoubleQuoteLaid(Top, lo, hi, form_stack, objects)
      /\ DoubleQuoteOK(Top)
  <2>1. ActOK(Top, objects, packages) /\ ActLaid(Top, lo, hi, form_stack, objects)
    BY <1>2, TopIs
  <2> HIDE DEF lo, hi
  <2> QED  BY <1>1, <2>1, DoubleQuoteIs
<1>6. Top = [fn |-> Top.fn, pc |-> Top.pc, file |-> Top.file, chars |-> Top.chars,
             escaped |-> Top.escaped, held |-> Top.held]
  BY <1>5 DEF DoubleQuoteOK
<1>7. act = [Top EXCEPT !.pc = "chars", !.held = held]
  OBVIOUS
<1>8. held \subseteq DOMAIN objects' /\ Fresh \in DOMAIN objects' /\ objects'[Fresh].kind = "string"
  BY <1>4 DEF Allocated, String
<1> HIDE DEF act, lo, hi, o, held
<1>9. act = [fn |-> Top.fn, pc |-> "chars", file |-> Top.file, chars |-> Top.chars,
             escaped |-> Top.escaped, held |-> held]
  BY <1>6, <1>7
<1>10. /\ act.pc = "chars" /\ act.held = held
       /\ act = [fn |-> Top.fn, pc |-> act.pc, file |-> Top.file, chars |-> act.chars,
                 escaped |-> act.escaped, held |-> act.held]
  BY <1>9
<1>11. ReadsString(act) /\ DoubleQuoteOK(act) /\ act.fn = Top.fn
  BY <1>1, <1>10, DoubleQuoteActIs
<1>12. ActOK(act, objects', packages')
  BY <1>8, <1>10, <1>11, DoubleQuoteIs
<1>13. ASSUME NEW new \in Levels, new.forms = hi.forms + 1, new.frames = hi.frames,
              form_stack'[new.forms] = Object(Fresh)
       PROVE  ActLaid(act, lo, new, form_stack', objects')
  <2>1. hi.forms = lo.forms
    BY <1>1, <1>5 DEF DoubleQuoteLaid
  <2>2. DoubleQuoteLaid(act, lo, new, form_stack', objects')
    BY <1>8, <1>10, <1>13, <2>1 DEF DoubleQuoteLaid
  <2> QED  BY <1>5, <1>11, <1>13, <2>2, DoubleQuoteIs
<1>14. act.fn # "'" /\ Top.fn \in Readers
  BY <1>1, <1>11, DoubleQuoteIs
<1> QED  BY <1>2, <1>3, <1>4, <1>11, <1>12, <1>13, <1>14, ObjectPushed DEF lo, hi

(* A string gets its text, which is allocated after it.                    *)
LEMMA TextAllocated ==
  ASSUME Inv, NEW s, Is(s, "string", objects), NEW o, o.kind = "chars",
         o = [kind |-> "chars", chars |-> o.chars],
         Allocates(o, [objects EXCEPT ![s].lexeme = Fresh]), packages' = packages
  PROVE  /\ HeapGrows /\ Allocated(o) /\ \A below : Settled(objects, objects', below)
         /\ \A id \in DOMAIN objects : id # s => objects'[id] = objects[id]
         /\ objects'[s].kind = "string" /\ objects'[s].lexeme = Fresh
<1> DEFINE others == [objects EXCEPT ![s].lexeme = Fresh]
<1>1. ObjectsOK(objects, packages) /\ HeapOK(objects, packages)
  BY DEF Inv, ObjectsOK
<1>2. /\ Altered(objects, others, Fresh, o)
      /\ \A id \in DOMAIN objects : objects[id].kind # "string" => others[id] = objects[id]
  BY <1>1, TextAlters
<1>3. ObjectOK(o, Fresh, objects, packages) /\ Allocates(o, others)
  BY DEF ObjectOK
<1>5. /\ \A id \in DOMAIN objects : id # s => others[id] = objects[id]
      /\ others[s].kind = "string" /\ others[s].lexeme = Fresh
  <2> DEFINE q == objects[s]
  <2>1. s \in DOMAIN objects /\ q.kind = "string"
    BY DEF Is
  <2>2. q = [kind |-> "string", lexeme |-> q.lexeme]
    BY <1>1, <2>1 DEF HeapOK, ObjectOK
  <2>3. others[s] = [q EXCEPT !.lexeme = Fresh]
    BY <2>1
  <2> HIDE DEF q
  <2>4. [q EXCEPT !.lexeme = Fresh] = [kind |-> "string", lexeme |-> Fresh]
    BY <2>2
  <2> QED  BY <2>3, <2>4
<1> HIDE DEF others
<1>4. HeapGrows /\ Allocated(o) /\ \A id \in DOMAIN objects : objects'[id] = others[id]
  BY <1>1, <1>2, <1>3, QuietAllocation
<1> QED  BY <1>2, <1>4, <1>5 DEF Settled, Is

LEMMA DoubleQuoteReturnsKeeps ==
  ASSUME InitializesInOrder, Inv, DoubleQuoteReturns
  PROVE  Inv' /\ Undisturbed
<1>1. ReadsString(Top) /\ Top.pc = "chars"
  BY DoubleQuoteStepIs
<1>2. PICK b : Laid(b, acts, form_stack, Len(frame_stack), objects)
  BY DEF Inv
<1> DEFINE lo == b[Len(acts) - 1]
           hi == b[Len(acts)]
           o  == Text(UpToNul(Top.chars))
           str == Last(form_stack)
<1>3. /\ Allocates(o, [objects EXCEPT ![str[2]].lexeme = Fresh])
      /\ acts' = Below /\ value' = str /\ form_stack' = DropLast(form_stack, 1)
      /\ UNCHANGED <<form_cap, frames, ended>> /\ packages' = packages
  BY DEF DoubleQuoteReturns, Returns, session, image
<1>4. /\ DoubleQuoteLaid(Top, lo, hi, form_stack, objects) /\ Top.fn \in Readers
      /\ hi.forms = Len(form_stack)
  <2>1. ActLaid(Top, lo, hi, form_stack, objects) /\ hi.forms = Len(form_stack)
    BY <1>2, TopIs
  <2> HIDE DEF lo, hi
  <2> QED  BY <1>1, <2>1, DoubleQuoteIs
<1>5. PICK s \in DOMAIN objects :
        hi.forms = lo.forms + 1 /\ form_stack[hi.forms] = Object(s) /\ objects[s].kind = "string"
  BY <1>1, <1>4 DEF DoubleQuoteLaid
<1>6. str = Object(s) /\ str[2] = s
  BY <1>4, <1>5 DEF Last, Object
<1>7. o.kind = "chars" /\ o = [kind |-> "chars", chars |-> o.chars]
  BY DEF Text
<1> HIDE DEF lo, hi, o, str
<1>8. HeapGrows /\ Allocated(o) /\ \A below : Settled(objects, objects', below)
  BY <1>3, <1>5, <1>6, <1>7, TextAllocated DEF Is
<1>9. FormOK(value', objects')
  BY <1>3, <1>5, <1>6, <1>8 DEF FormOK, Object, Allocated
<1> QED  BY <1>2, <1>3, <1>4, <1>5, <1>8, <1>9, ReaderReturns DEF lo, hi

LEMMA SingleQuoteInternsKeeps ==
  ASSUME InitializesInOrder, Inv, SingleQuoteInterns
  PROVE  Inv' /\ Undisturbed
<1>1. Top.fn = "'" /\ Top.pc = "intern"
  BY DEF SingleQuoteInterns, Doing, In
<1>2. PICK b : Laid(b, acts, form_stack, Len(frame_stack), objects)
  BY DEF Inv
<1> DEFINE lo == b[Len(acts) - 1]
           hi == b[Len(acts)]
           act == [Top EXCEPT !.pc = "read"]
           callee == InternAct("COMMON-LISP", Chars("QUOTE"))
<1>3. UNCHANGED <<heap, image, stack, frames, value, ended>> /\ acts' = Below \o <<act, callee>>
  BY DEF SingleQuoteInterns, Calls, session
<1>4. /\ hi.frames = lo.frames /\ 1 <= lo.frames /\ SingleQuoteLaid(Top, lo, hi, form_stack, objects)
      /\ Top.held \subseteq DOMAIN objects /\ SingleQuoteOK(Top, objects) /\ Top.fn \in Readers
  <2>1. ActOK(Top, objects, packages) /\ ActLaid(Top, lo, hi, form_stack, objects)
    BY <1>2, TopIs
  <2> HIDE DEF lo, hi
  <2> QED  BY <1>1, <2>1, SingleQuoteIs
<1>5. Top = [fn |-> Top.fn, pc |-> Top.pc, stream |-> Top.stream, held |-> Top.held]
  BY <1>4 DEF SingleQuoteOK
<1>6. act = [Top EXCEPT !.pc = "read"]
  OBVIOUS
<1>7. callee.fn = "intern_symbol" /\ callee.held = {} /\ callee.pc = "find"
      /\ callee.package = "COMMON-LISP"
      /\ callee = [fn |-> callee.fn, pc |-> callee.pc, package |-> callee.package,
                   name |-> callee.name, held |-> callee.held]
  BY DEF InternAct
<1> HIDE DEF act, callee, lo, hi
<1>8. act = [fn |-> "'", pc |-> "read", stream |-> Top.stream, held |-> Top.held]
  BY <1>1, <1>5, <1>6
<1>9. act.fn = "'" /\ act.pc = "read" /\ act.stream = Top.stream /\ act.held = Top.held
      /\ act = [fn |-> act.fn, pc |-> act.pc, stream |-> act.stream, held |-> act.held]
  BY <1>8
<1>10. ActOK(act, objects, packages)
  <2>1. SingleQuoteOK(act, objects)
    BY <1>4, <1>9 DEF SingleQuoteOK
  <2> QED  BY <1>4, <1>9, <2>1, SingleQuoteIs
<1>11. ActLaid(act, lo, hi, form_stack, objects)
  <2>1. SingleQuoteLaid(act, lo, hi, form_stack, objects)
    BY <1>1, <1>4, <1>9 DEF SingleQuoteLaid
  <2> QED  BY <1>4, <1>9, <2>1, SingleQuoteIs
<1>12. ActOK(callee, objects, packages)
  <2>1. "COMMON-LISP" \in DOMAIN packages
    BY <1>4, StartIsDone
  <2> QED  BY <1>7, <2>1 DEF ActOK, InternOK, Readers
<1>13. ActLaid(callee, hi, hi, form_stack, objects)
  BY <1>7 DEF ActLaid, Readers
<1>14. Waits(act, callee)
  BY <1>7, <1>9 DEF Waits, Readers
<1>15. act.fn = Top.fn /\ callee.fn # "'" /\ Top.fn \notin {"initialize_runtime", "intern_symbol"}
  BY <1>1, <1>7, <1>9
<1> QED  BY <1>2, <1>3, <1>10, <1>11, <1>12, <1>13, <1>14, <1>15, JustCalls DEF lo, hi

LEMMA SingleQuoteReadsKeeps ==
  ASSUME InitializesInOrder, Inv, SingleQuoteReads
  PROVE  Inv' /\ Undisturbed
<1>1. Top.fn = "'" /\ Top.pc = "read"
  BY DEF SingleQuoteReads, Doing, In
<1>2. PICK b : Laid(b, acts, form_stack, Len(frame_stack), objects)
  BY DEF Inv
<1> DEFINE lo == b[Len(acts) - 1]
           hi == b[Len(acts)]
           held == Ids({value})
           caller == [Top EXCEPT !.pc = "quote", !.held = held]
           fn == FunctionNamed("COMMON-LISP", "READ")
           args == <<Top.stream>>
<1>3. CallsFunction(caller, fn, args) /\ UNCHANGED <<heap, image, frames, ended>>
  BY DEF SingleQuoteReads, session
<1>4. /\ hi.frames = lo.frames /\ 1 <= lo.frames /\ SingleQuoteLaid(Top, lo, hi, form_stack, objects)
      /\ SingleQuoteOK(Top, objects) /\ Top.fn \in Readers
  <2>1. ActOK(Top, objects, packages) /\ ActLaid(Top, lo, hi, form_stack, objects)
    BY <1>2, TopIs
  <2> HIDE DEF lo, hi
  <2> QED  BY <1>1, <2>1, SingleQuoteIs
<1>5. Suits(Object(fn), Len(args), objects)
  BY <1>4, SuitedFunction
<1>6. IsSeq(args) /\ Len(args) = 1 /\ args[1] = Top.stream
  BY SingleIs
<1>7. held \subseteq DOMAIN objects /\ held # {}
  <2>1. acts[Len(acts)].fn = "'" /\ acts[Len(acts)].pc = "read"
    BY <1>1 DEF Top, Last
  <2>2. PICK id \in DOMAIN objects : value = Object(id)
    BY <2>1 DEF Inv, ValueOK
  <2>3. held = {id}
    BY <2>2 DEF Ids, Object
  <2> QED  BY <2>3
<1>8. Top = [fn |-> Top.fn, pc |-> Top.pc, stream |-> Top.stream, held |-> Top.held]
  BY <1>4 DEF SingleQuoteOK
<1>9. caller = [Top EXCEPT !.pc = "quote", !.held = held]
  OBVIOUS
<1> HIDE DEF caller, fn, args, lo, hi, held
<1>10. caller = [fn |-> "'", pc |-> "quote", stream |-> Top.stream, held |-> held]
  BY <1>1, <1>8, <1>9
<1>11. caller.fn = "'" /\ caller.pc = "quote" /\ caller.stream = Top.stream /\ caller.held = held
       /\ caller = [fn |-> caller.fn, pc |-> caller.pc, stream |-> caller.stream, held |-> caller.held]
  BY <1>10
<1>12. ActOK(caller, objects, packages)
  <2>1. SingleQuoteOK(caller, objects)
    BY <1>4, <1>7, <1>11 DEF SingleQuoteOK
  <2> QED  BY <1>7, <1>11, <2>1, SingleQuoteIs
<1>13. ActLaid(caller, lo, hi, form_stack, objects)
  <2>1. SingleQuoteLaid(caller, lo, hi, form_stack, objects)
    BY <1>1, <1>4, <1>11 DEF SingleQuoteLaid
  <2> QED  BY <1>4, <1>11, <2>1, SingleQuoteIs
<1>14. Waits(caller, CallAct(Len(args)))
  BY <1>11 DEF Waits, CallAct, Readers
<1>15. \A i \in 1 .. Len(args) : FormOK(args[i], objects)
  <2>1. FormOK(args[1], objects)
    BY <1>4, <1>6 DEF SingleQuoteOK
  <2> QED  BY <1>6, <2>1
<1>16. Len(args) \in 0 .. 2 /\ caller.fn = Top.fn
  BY <1>1, <1>6, <1>11
<1> QED  BY <1>2, <1>3, <1>4, <1>5, <1>6, <1>12, <1>13, <1>14, <1>15, <1>16, FunctionCalled
         DEF lo, hi

LEMMA SingleQuoteIsLaid ==
  ASSUME NEW act, act.fn = "'", NEW all, NEW packs, NEW lo, NEW hi, NEW forms,
         ActOK(act, all, packs), ActLaid(act, lo, hi, forms, all)
  PROVE  /\ act.fn \in Readers /\ act.held \subseteq DOMAIN all /\ SingleQuoteOK(act, all)
         /\ hi.frames = lo.frames /\ 1 <= lo.frames /\ SingleQuoteLaid(act, lo, hi, forms, all)
BY DEF ActOK, ActLaid, Readers

LEMMA SingleQuoteBeginsKeeps ==
  ASSUME InitializesInOrder, Inv, SingleQuoteBegins
  PROVE  Inv' /\ Undisturbed
<1>1. Top.fn = "'" /\ Top.pc = "quote"
  BY DEF SingleQuoteBegins, Doing, In
<1>2. PICK b : Laid(b, acts, form_stack, Len(frame_stack), objects)
  BY DEF Inv
<1> DEFINE lo == b[Len(acts) - 1]
           hi == b[Len(acts)]
           quote == CHOOSE s \in Top.held : TRUE
           car == Object(quote)
           o == ConsCell(car, Nil)
           held == {Fresh}
           act == [Top EXCEPT !.pc = "form", !.held = held]
<1>3. /\ Allocates(o, objects) /\ Pushes(<<Object(Fresh)>>) /\ acts' = Append(Below, act)
      /\ UNCHANGED <<frames, value, ended>> /\ packages' = packages
  BY DEF SingleQuoteBegins, Becomes, session, image
<1>4. /\ ActOK(Top, objects, packages) /\ ActLaid(Top, lo, hi, form_stack, objects)
      /\ lo.conses <= hi.conses /\ hi.conses <= Size(objects) /\ lo \in Levels /\ hi \in Levels
  BY <1>2, TopIs
<1>quote. /\ Top.fn \in Readers /\ Top.held \subseteq DOMAIN objects /\ SingleQuoteOK(Top, objects)
          /\ hi.frames = lo.frames /\ 1 <= lo.frames /\ SingleQuoteLaid(Top, lo, hi, form_stack, objects)
  <2> HIDE DEF lo, hi, quote, o, held, act
  <2> QED  BY <1>1, <1>4, SingleQuoteIsLaid
<1>5. FormOK(car, objects)
  <2>1. quote \in Top.held
    BY <1>1, <1>4, <1>quote DEF SingleQuoteOK
  <2> HIDE DEF quote
  <2> QED  BY <1>4, <1>quote, <2>1 DEF FormOK, Object
<1>6. Top = [fn |-> Top.fn, pc |-> Top.pc, stream |-> Top.stream, held |-> Top.held]
  BY <1>4, <1>quote DEF SingleQuoteOK
<1>7. act = [Top EXCEPT !.pc = "form", !.held = held]
  OBVIOUS
<1> HIDE DEF car, act, lo, hi
<1>8. HeapGrows /\ Allocated(o) /\ \A below : Settled(objects, objects', below)
  BY <1>3, <1>5, ConsAllocated
<1>9. held \subseteq DOMAIN objects' /\ Fresh \in DOMAIN objects' /\ DOMAIN objects \subseteq DOMAIN objects'
  BY <1>8 DEF Allocated
<1> HIDE DEF held, o
<1>10. act = [fn |-> "'", pc |-> "form", stream |-> Top.stream, held |-> held]
  BY <1>1, <1>6, <1>7
<1>11. act.fn = "'" /\ act.pc = "form" /\ act.stream = Top.stream /\ act.held = held
       /\ act = [fn |-> act.fn, pc |-> act.pc, stream |-> act.stream, held |-> act.held]
  BY <1>10
<1>12. ActOK(act, objects', packages')
  <2>1. SingleQuoteOK(act, objects')
    BY <1>4, <1>quote, <1>9, <1>11 DEF SingleQuoteOK, FormOK
  <2> QED  BY <1>9, <1>11, <2>1, SingleQuoteIs
<1>13. Fresh \in Nat /\ lo.conses <= Fresh
  <2>1. Fresh \in Nat /\ Fresh = Size(objects)
    BY <1>8 DEF Allocated
  <2>2. lo.conses \in Nat /\ hi.conses \in Nat
    BY <1>4, <1>quote DEF Levels
  <2> HIDE DEF Fresh
  <2> QED  BY <1>4, <1>quote, <2>1, <2>2
<1>14. ASSUME NEW new \in Levels, new.forms = hi.forms + 1, new.frames = hi.frames,
              form_stack'[new.forms] = Object(Fresh)
       PROVE  ActLaid(act, lo, new, form_stack', objects')
  <2>1. hi.forms = lo.forms
    BY <1>1, <1>4, <1>quote DEF SingleQuoteLaid
  <2>2. SingleQuoteLaid(act, lo, new, form_stack', objects')
    BY <1>9, <1>11, <1>13, <1>14, <2>1 DEF SingleQuoteLaid
  <2> QED  BY <1>4, <1>quote, <1>11, <1>14, <2>2, SingleQuoteIs
<1>15. act.fn = Top.fn /\ act.pc # "read"
  BY <1>1, <1>11
<1> QED  BY <1>2, <1>3, <1>4, <1>quote, <1>8, <1>12, <1>14, <1>15, ObjectPushed DEF lo, hi

LEMMA SingleQuoteReturnsKeeps ==
  ASSUME InitializesInOrder, Inv, SingleQuoteReturns
  PROVE  Inv' /\ Undisturbed
<1>1. Top.fn = "'" /\ Top.pc = "form"
  BY DEF SingleQuoteReturns, Doing, In
<1>2. PICK b : Laid(b, acts, form_stack, Len(frame_stack), objects)
  BY DEF Inv
<1> DEFINE lo == b[Len(acts) - 1]
           hi == b[Len(acts)]
           quoted == Last(form_stack)
           c == quoted[2]
<1>3. /\ Allocates(ConsCell(value, Nil), [objects EXCEPT ![c].cdr = Object(Fresh)])
      /\ acts' = Below /\ value' = quoted /\ form_stack' = DropLast(form_stack, 1)
      /\ UNCHANGED <<form_cap, frames, ended>> /\ packages' = packages
  BY DEF SingleQuoteReturns, Returns, session, image
<1>4. /\ SingleQuoteLaid(Top, lo, hi, form_stack, objects) /\ Top.fn \in Readers
      /\ hi.forms = Len(form_stack) /\ lo \in Levels
  <2>1. ActLaid(Top, lo, hi, form_stack, objects) /\ hi.forms = Len(form_stack) /\ lo \in Levels
    BY <1>2, TopIs
  <2> HIDE DEF lo, hi
  <2> QED  BY <1>1, <2>1, SingleQuoteIs
<1>5. PICK q \in DOMAIN objects :
        hi.forms = lo.forms + 1 /\ form_stack[hi.forms] = Object(q) /\ lo.conses <= q
  BY <1>1, <1>4 DEF SingleQuoteLaid
<1>6. quoted = Object(q) /\ c = q
  BY <1>4, <1>5 DEF Last, Object
<1> HIDE DEF lo, hi, quoted, c
<1>7. ~(c < lo.conses)
  <2>1. lo.conses \in Nat
    BY <1>4 DEF Levels
  <2>2. Size(objects) \in Nat /\ DOMAIN objects = 0 .. Size(objects) - 1
    BY SizeIs DEF Inv, ObjectsOK
  <2>3. q \in Nat
    BY <1>5, <2>2
  <2> QED  BY <1>5, <1>6, <2>1, <2>3
<1>8. FormOK(value, objects)
  BY DEF Inv, ValueOK
<1>9. HeapGrows /\ Allocated(ConsCell(value, Nil)) /\ Settled(objects, objects', lo.conses)
  BY <1>3, <1>7, <1>8, ConsLinked
<1>10. FormOK(value', objects')
  BY <1>3, <1>5, <1>6, <1>9 DEF FormOK, Object, Allocated
<1> QED  BY <1>2, <1>3, <1>4, <1>5, <1>9, <1>10, ReaderReturns DEF lo, hi

LEMMA ReplStaysLaid ==
  ASSUME NEW act, act.fn = "REPL", NEW other, other.fn = "REPL", NEW lo, NEW hi, NEW forms,
         NEW all, NEW new, ActLaid(other, lo, hi, forms, all)
  PROVE  ActLaid(act, lo, hi, forms, new)
BY DEF ActLaid, Readers

(* What the loop keeps in its variables, once it goes on.                  *)
LEMMA ReplGoesOn ==
  ASSUME InitializesInOrder, Inv, Top.fn = "REPL", NEW act, acts' = Append(Below, act),
         act = [fn |-> "REPL", pc |-> act.pc, string |-> act.string, held |-> act.held],
         act.held \subseteq DOMAIN objects',
         act.pc = "chars" => Is(act.string, "string", objects'),
         HeapGrows, \A below : Settled(objects, objects', below),
         UNCHANGED <<stack, frames, value, ended>>
  PROVE  Inv' /\ Undisturbed
<1>1. PICK b : Laid(b, acts, form_stack, Len(frame_stack), objects)
  BY DEF Inv
<1> DEFINE lo == b[Len(acts) - 1]
           hi == b[Len(acts)]
<1>2. ActLaid(Top, lo, hi, form_stack, objects)
  BY <1>1, TopIs
<1> HIDE DEF lo, hi
<1>3. act.fn = "REPL" /\ act = [fn |-> act.fn, pc |-> act.pc, string |-> act.string, held |-> act.held]
  OBVIOUS
<1>4. ActOK(act, objects', packages')
  BY <1>3, ReplIs DEF ReplOK
<1>5. ActLaid(act, lo, hi, form_stack, objects')
  BY <1>2, <1>3, ReplStaysLaid
<1>6. Top.fn \notin {"initialize_runtime", "intern_symbol"} /\ act.fn = Top.fn
      /\ (act.fn # "'" \/ act.pc # "read")
  BY <1>3
<1> QED  BY <1>1, <1>4, <1>5, <1>6, HeapGoesOn DEF lo, hi

LEMMA ReplTopIs ==
  ASSUME Inv, Top.fn = "REPL"
  PROVE  /\ Top = [fn |-> "REPL", pc |-> Top.pc, string |-> Top.string, held |-> Top.held]
         /\ Top.held \subseteq DOMAIN objects /\ Top.fn \in Readers
         /\ Top.pc = "chars" => Is(Top.string, "string", objects)
<1>1. PICK b : Laid(b, acts, form_stack, Len(frame_stack), objects)
  BY DEF Inv
<1>2. ActOK(Top, objects, packages)
  BY <1>1, TopIs
<1> QED  BY <1>2, ReplIs DEF ReplOK

LEMMA ReplBindsKeeps ==
  ASSUME InitializesInOrder, Inv, ReplGensyms \/ ReplAllocatesString
  PROVE  Inv' /\ Undisturbed
<1>1. Top.fn = "REPL"
  BY DEF ReplGensyms, ReplAllocatesString, Doing, In
<1>2. UNCHANGED <<stack, frames, value, ended>>
  BY DEF ReplGensyms, ReplAllocatesString, Becomes, session
<1>top. Top = [fn |-> Top.fn, pc |-> Top.pc, string |-> Top.string, held |-> Top.held]
  <2>1. Top = [fn |-> "REPL", pc |-> Top.pc, string |-> Top.string, held |-> Top.held]
    BY <1>1, ReplTopIs
  <2> QED  BY <1>1, <2>1
<1>3. Top.fn \in Readers
  BY <1>1, ReplTopIs
<1>4. CASE ReplGensyms
  <2>1. HeapGrows /\ Fresh \in DOMAIN objects' /\ \A below : Settled(objects, objects', below)
    <3>1. "SYSTEM" \in DOMAIN packages /\ ObjectsOK(objects, packages) /\ Gensyms("SYSTEM")
      BY <1>3, <1>4, StartIsDone DEF Inv, ReplGensyms
    <3> QED  BY <3>1, GensymsGrow DEF Allocated, Settled
  <2> DEFINE held == {Fresh}
             act == [Top EXCEPT !.pc = "string", !.held = held]
  <2>2. acts' = Append(Below, act)
    BY <1>4 DEF ReplGensyms, Becomes
  <2>3. act = [Top EXCEPT !.pc = "string", !.held = held]
    OBVIOUS
  <2>held. held \subseteq DOMAIN objects'
    BY <2>1
  <2> HIDE DEF act, held
  <2>4. act = [fn |-> "REPL", pc |-> "string", string |-> Top.string, held |-> held]
    BY <1>1, <1>top, <2>3
  <2>5. act.pc = "string" /\ act.held = held
        /\ act = [fn |-> "REPL", pc |-> act.pc, string |-> act.string, held |-> act.held]
    BY <2>4
  <2> QED  BY <1>1, <1>2, <2>1, <2>2, <2>held, <2>5, ReplGoesOn
<1>5. CASE ReplAllocatesString
  <2>1. /\ HeapGrows /\ Fresh \in DOMAIN objects' /\ Is(Fresh, "string", objects')
        /\ \A below : Settled(objects, objects', below)
    <3>1. packages' = packages /\ \E sym, form : Allocates(String, BoundTo(CurrentEnv, sym, form, objects))
      BY <1>5 DEF ReplAllocatesString, image
    <3>2. HeapGrows /\ Allocated(String) /\ \A below : Settled(objects, objects', below)
      BY <3>1, BoundAllocation
    <3> QED  BY <3>2 DEF Allocated, Is, String
  <2> DEFINE held == {Fresh}
             act == [Top EXCEPT !.pc = "chars", !.string = Fresh, !.held = held]
  <2>2. acts' = Append(Below, act)
    BY <1>5 DEF ReplAllocatesString, Becomes
  <2>3. act = [Top EXCEPT !.pc = "chars", !.string = Fresh, !.held = held]
    OBVIOUS
  <2>held. held \subseteq DOMAIN objects'
    BY <2>1
  <2> HIDE DEF act, held
  <2>4. act = [fn |-> "REPL", pc |-> "chars", string |-> Fresh, held |-> held]
    BY <1>1, <1>top, <2>3
  <2>5. act.string = Fresh /\ act.held = held
        /\ act = [fn |-> "REPL", pc |-> act.pc, string |-> act.string, held |-> act.held]
    BY <2>4
  <2> QED  BY <1>1, <1>2, <2>1, <2>2, <2>held, <2>5, ReplGoesOn
<1> QED  BY <1>4, <1>5

LEMMA ReplAllocatesCharsKeeps ==
  ASSUME InitializesInOrder, Inv, ReplAllocatesChars
  PROVE  Inv' /\ Undisturbed
<1> DEFINE o == Text(Chars("~A~%"))
<1>1. Top.fn = "REPL" /\ Top.pc = "chars"
  BY DEF ReplAllocatesChars, Doing, In
<1>2. UNCHANGED <<stack, frames, value, ended>> /\ packages' = packages
      /\ Allocates(o, [objects EXCEPT ![Top.string].lexeme = Fresh])
  BY DEF ReplAllocatesChars, Goes, Becomes, session, image
<1>3. /\ Top = [fn |-> "REPL", pc |-> Top.pc, string |-> Top.string, held |-> Top.held]
      /\ Top.held \subseteq DOMAIN objects /\ Is(Top.string, "string", objects)
  BY <1>1, ReplTopIs
<1>4. o.kind = "chars" /\ o = [kind |-> "chars", chars |-> o.chars]
  BY DEF Text
<1> DEFINE act == [Top EXCEPT !.pc = "prompt"]
<1>5. acts' = Append(Below, act)
  BY DEF ReplAllocatesChars, Goes, Becomes
<1>6. act = [Top EXCEPT !.pc = "prompt"]
  OBVIOUS
<1> HIDE DEF o, act
<1>7. HeapGrows /\ Allocated(o) /\ \A below : Settled(objects, objects', below)
  BY <1>2, <1>3, <1>4, TextAllocated
<1>8. act = [fn |-> "REPL", pc |-> "prompt", string |-> Top.string, held |-> Top.held]
  BY <1>3, <1>6
<1>9. act.pc = "prompt" /\ act.held = Top.held
      /\ act = [fn |-> "REPL", pc |-> act.pc, string |-> act.string, held |-> act.held]
  BY <1>8
<1>10. act.held \subseteq DOMAIN objects'
  BY <1>3, <1>7, <1>9 DEF Allocated
<1> QED  BY <1>1, <1>2, <1>5, <1>7, <1>9, <1>10, ReplGoesOn

LEMMA UserTypesKeeps ==
  ASSUME Inv, UserTypes
  PROVE  Inv'
<1>1. UNCHANGED <<heap, image, stack, frames, acts, value, ended>>
  BY DEF UserTypes, session
<1> QED  BY <1>1, JustEnds DEF Inv

LEMMA ReplReadsKeeps ==
  ASSUME InitializesInOrder, Inv, ReplReads
  PROVE  Inv' /\ Undisturbed
<1>1. Top.fn = "REPL" /\ Top.pc = "prompt"
  BY DEF ReplReads, Doing, In
<1>2. PICK b : Laid(b, acts, form_stack, Len(frame_stack), objects)
  BY DEF Inv
<1> DEFINE lo == b[Len(acts) - 1]
           hi == b[Len(acts)]
           caller == [Top EXCEPT !.pc = "read"]
           fn == FunctionNamed("COMMON-LISP", "READ")
           args == << >>
<1>3. CallsFunction(caller, fn, args) /\ UNCHANGED <<heap, image, frames, ended>>
  BY DEF ReplReads, session
<1>4. /\ Top.fn \in Readers /\ Top.held \subseteq DOMAIN objects
      /\ Top = [fn |-> "REPL", pc |-> Top.pc, string |-> Top.string, held |-> Top.held]
  BY <1>1, ReplTopIs
<1>5. Suits(Object(fn), Len(args), objects)
  BY <1>4, SuitedFunction
<1>6. IsSeq(args) /\ Len(args) = 0
  BY EmptySeq DEF IsSeq
<1>7. ActLaid(Top, lo, hi, form_stack, objects)
  BY <1>2, TopIs
<1>8. caller = [Top EXCEPT !.pc = "read"]
  OBVIOUS
<1> HIDE DEF caller, fn, args, lo, hi
<1>9. caller = [fn |-> "REPL", pc |-> "read", string |-> Top.string, held |-> Top.held]
  BY <1>4, <1>8
<1>10. caller.fn = "REPL" /\ caller.pc = "read" /\ caller.held = Top.held
       /\ caller = [fn |-> caller.fn, pc |-> caller.pc, string |-> caller.string, held |-> caller.held]
  BY <1>9
<1>11. ActOK(caller, objects, packages)
  BY <1>4, <1>10, ReplIs DEF ReplOK
<1>12. ActLaid(caller, lo, hi, form_stack, objects)
  BY <1>1, <1>7, <1>10, ReplStaysLaid
<1>13. Waits(caller, CallAct(Len(args)))
  BY <1>10 DEF Waits, CallAct, Readers
<1>14. Len(args) \in 0 .. 2 /\ \A i \in 1 .. Len(args) : FormOK(args[i], objects)
  BY <1>6
<1> QED  BY <1>1, <1>2, <1>3, <1>4, <1>5, <1>6, <1>10, <1>11, <1>12, <1>13, <1>14, FunctionCalled
         DEF lo, hi

(* Only the last return changes, of the frame that is there.               *)
LEMMA ReplFormatsKeeps ==
  ASSUME InitializesInOrder, Inv, ReplFormats
  PROVE  Inv' /\ Undisturbed
<1>1. Top.fn = "REPL" /\ Top.pc = "read"
  BY DEF ReplFormats, Doing, In
<1>2. PICK b : Laid(b, acts, form_stack, Len(frame_stack), objects)
  BY DEF Inv
<1> DEFINE lo == b[Len(acts) - 1]
           hi == b[Len(acts)]
           n == Len(last_return_value)
           act == [Top EXCEPT !.pc = "prompt"]
<1>3. /\ acts' = Append(Below, act) /\ value' = Nil
      /\ last_return_value' = [last_return_value EXCEPT ![n] = Nil]
      /\ UNCHANGED <<stack, frame_stack, frame_cap, ended>>
      /\ objects' = objects /\ packages' = packages
  BY DEF ReplFormats, SetLastReturn, heap, image
<1>4. /\ Top.held \subseteq DOMAIN objects
      /\ Top = [fn |-> "REPL", pc |-> Top.pc, string |-> Top.string, held |-> Top.held]
  BY <1>1, ReplTopIs
<1>5. /\ lo \in Levels /\ hi \in Levels /\ lo.forms <= hi.forms /\ lo.conses <= hi.conses
      /\ ActLaid(Top, lo, hi, form_stack, objects)
      /\ hi.forms = Len(form_stack) /\ hi.frames = Len(frame_stack) /\ hi.conses <= Size(objects)
  BY <1>2, TopIs
<1>6. act = [Top EXCEPT !.pc = "prompt"]
  OBVIOUS
<1> HIDE DEF act, lo, hi, n
<1>7. act = [fn |-> "REPL", pc |-> "prompt", string |-> Top.string, held |-> Top.held]
  BY <1>4, <1>6
<1>8. act.fn = "REPL" /\ act.pc = "prompt" /\ act.held = Top.held
      /\ act = [fn |-> act.fn, pc |-> act.pc, string |-> act.string, held |-> act.held]
  BY <1>7
<1>9. HeapGrows /\ \A below : Settled(objects, objects', below)
  BY <1>3, HeapStays
<1>10. LaysOut(act, lo, hi)
  <2>1. ActOK(act, objects, packages)
    BY <1>4, <1>8, ReplIs DEF ReplOK
  <2>2. ActLaid(act, lo, hi, form_stack, objects)
    BY <1>1, <1>5, <1>8, ReplStaysLaid
  <2> QED  BY <1>3, <1>5, <2>1, <2>2 DEF LaysOut, stack
<1>11. EndsAt(hi) /\ KeepsLower(b)
  BY <1>3, <1>5, <1>9 DEF EndsAt, KeepsLower, Agree, stack
<1>12. StacksOK'
  <2>1. IsSeq(last_return_value') /\ Len(last_return_value') = Len(last_return_value)
    BY <1>3, ExceptIs DEF Inv, FramesOK
  <2> QED  BY <1>3, <2>1 DEF StacksOK, Inv, FormsOK, FramesOK, stack
<1>13. FormOK(value', objects')
  BY <1>3 DEF FormOK, Nil
<1> QED  BY <1>1, <1>2, <1>3, <1>8, <1>10, <1>11, <1>12, <1>13, GoesOn DEF lo, hi

----------------------------------------------------------------------------
(* intern_symbol                                                           *)

LEMMA InternIs ==
  ASSUME Inv, Top.fn = "intern_symbol",
         NEW b, Laid(b, acts, form_stack, Len(frame_stack), objects)
  PROVE  /\ Top.held \subseteq DOMAIN objects /\ InternOK(Top, objects, packages)
         /\ b[Len(acts)].forms = b[Len(acts) - 1].forms
         /\ b[Len(acts)].frames = b[Len(acts) - 1].frames
<1> DEFINE lo == b[Len(acts) - 1]
           hi == b[Len(acts)]
<1>1. ActOK(Top, objects, packages) /\ ActLaid(Top, lo, hi, form_stack, objects)
  BY TopIs
<1> HIDE DEF lo, hi
<1>2. /\ Top.held \subseteq DOMAIN objects /\ InternOK(Top, objects, packages)
      /\ hi.forms = lo.forms /\ hi.frames = lo.frames
  BY <1>1 DEF ActOK, ActLaid
<1> QED  BY <1>2 DEF lo, hi

(* The symbol that intern_symbol returns is in the package by then.        *)
LEMMA InternReturns ==
  ASSUME InitializesInOrder, Inv, Top.fn = "intern_symbol",
         NEW b, Laid(b, acts, form_stack, Len(frame_stack), objects),
         HeapGrows, \A below : Settled(objects, objects', below),
         acts' = Below, UNCHANGED <<stack, frames, ended>>,
         Top.name \in DOMAIN packages'[Top.package].interned,
         value' = Object(packages'[Top.package].interned[Top.name]),
         Top.package \in DOMAIN packages'
  PROVE  Inv' /\ Undisturbed
<1> DEFINE lo == b[Len(acts) - 1]
           hi == b[Len(acts)]
           sym == packages'[Top.package].interned[Top.name]
<1>1. /\ lo.forms = Len(form_stack) /\ lo.frames = Len(frame_stack) /\ lo.conses <= Size(objects)
      /\ lo.conses \in Nat
  <2>1. /\ hi.forms = lo.forms /\ hi.frames = lo.frames
        /\ hi.forms = Len(form_stack) /\ hi.frames = Len(frame_stack)
        /\ hi.conses <= Size(objects) /\ lo.conses <= hi.conses /\ lo \in Levels /\ hi \in Levels
    BY InternIs, TopIs
  <2> HIDE DEF lo, hi
  <2>2. Size(objects) \in Nat
    BY SizeIs DEF Inv, ObjectsOK
  <2>3. lo.conses \in Nat /\ hi.conses \in Nat
    BY <2>1 DEF Levels
  <2> QED  BY <2>1, <2>2, <2>3
<1>2. EndsAt(lo)
  <2>1. Size(objects) \in Nat /\ Size(objects') \in Nat
    BY SizeIs DEF Inv, ObjectsOK, HeapGrows
  <2> HIDE DEF lo
  <2>2. lo.conses <= Size(objects')
    BY <1>1, <2>1 DEF HeapGrows
  <2> QED  BY <1>1, <2>2 DEF EndsAt, stack, frames
<1>3. KeepsLower(b)
  BY DEF KeepsLower, Agree, stack
<1>4. StacksOK'
  <2>1. Grows(objects, objects')
    BY DEF HeapGrows, Steady
  <2> QED  BY <2>1, FormsStay, FramesStay DEF StacksOK, Inv
<1>5. FormOK(value', objects')
  <2>1. PackageOK(packages'[Top.package], Top.package, objects')
    BY DEF HeapGrows, ObjectsOK, PackagesOK
  <2>2. InternedOK(Top.name, sym, Top.package, objects')
    BY <2>1 DEF PackageOK
  <2> QED  BY <2>2 DEF InternedOK, Is, FormOK, Object
<1> QED  BY <1>2, <1>3, <1>4, <1>5, ReturnsTo DEF lo

LEMMA InternFindsKeeps ==
  ASSUME InitializesInOrder, Inv, InternFinds, ended' = ended
  PROVE  Inv' /\ Undisturbed
<1>1. /\ Top.fn = "intern_symbol" /\ acts' = Below /\ UNCHANGED <<stack, frames>>
      /\ objects' = objects /\ packages' = packages
      /\ Top.name \in DOMAIN packages[Top.package].interned
      /\ value' = Object(packages[Top.package].interned[Top.name])
  BY DEF InternFinds, In, Returns, heap, image
<1>2. PICK b : Laid(b, acts, form_stack, Len(frame_stack), objects)
  BY DEF Inv
<1>3. HeapGrows /\ \A below : Settled(objects, objects', below)
  BY <1>1, HeapStays
<1>4. Top.package \in DOMAIN packages
  BY <1>1, <1>2, InternIs DEF InternOK
<1> QED  BY <1>1, <1>2, <1>3, <1>4, InternReturns

LEMMA InternAllocatesSymbolKeeps ==
  ASSUME InitializesInOrder, Inv, InternAllocatesSymbol, ended' = ended
  PROVE  Inv' /\ Undisturbed
<1> DEFINE o == Symbol(Top.package, 0)
           held == {Fresh}
           act == [Top EXCEPT !.pc = "name", !.held = held]
<1>1. /\ Top.fn = "intern_symbol" /\ acts' = Append(Below, act)
      /\ UNCHANGED <<stack, frames, value>> /\ packages' = packages
      /\ Top.name \notin DOMAIN packages[Top.package].interned
      /\ Allocates(o, objects)
  BY DEF InternAllocatesSymbol, In, Becomes, image
<1>2. PICK b : Laid(b, acts, form_stack, Len(frame_stack), objects)
  BY DEF Inv
<1> DEFINE lo == b[Len(acts) - 1]
           hi == b[Len(acts)]
<1>3. InternOK(Top, objects, packages) /\ hi.forms = lo.forms /\ hi.frames = lo.frames
  BY <1>1, <1>2, InternIs
<1>4. /\ lo \in Levels /\ hi \in Levels /\ lo.forms <= hi.forms /\ lo.conses <= hi.conses
      /\ hi.forms = Len(form_stack) /\ hi.frames = Len(frame_stack) /\ hi.conses <= Size(objects)
  BY <1>2, TopIs
<1>5. /\ Top = [fn |-> Top.fn, pc |-> Top.pc, package |-> Top.package, name |-> Top.name,
                held |-> Top.held]
      /\ Top.package \in DOMAIN packages
  BY <1>3 DEF InternOK
<1>6. /\ o.kind = "symbol" /\ o.lexeme = Null /\ o.package = Top.package
      /\ o = [kind |-> "symbol", lexeme |-> o.lexeme, package |-> o.package, id |-> o.id]
  BY DEF Symbol
<1>7. act = [Top EXCEPT !.pc = "name", !.held = held]
  OBVIOUS
<1> HIDE DEF o, act, lo, hi
<1>8. /\ HeapGrows /\ Allocated(o) /\ \A below : Settled(objects, objects', below)
  <2>1. ObjectOK(o, Fresh, objects, packages)
    BY <1>5, <1>6 DEF ObjectOK, SymbolOK
  <2>2. Altered(objects, objects, Fresh, o)
    BY NothingAltered
  <2>3. /\ HeapGrows /\ Allocated(o)
        /\ \A id \in DOMAIN objects : objects'[id] = objects[id]
    BY <1>1, <1>6, <2>1, <2>2, QuietAllocation DEF Inv
  <2> QED  BY <2>3 DEF Settled
<1>9. Fresh \in DOMAIN objects' /\ objects'[Fresh] = o
  BY <1>8 DEF Allocated
<1>10. held = {Fresh} /\ held \subseteq DOMAIN objects'
  BY <1>9
<1> HIDE DEF held
<1>11. act = [fn |-> "intern_symbol", pc |-> "name", package |-> Top.package, name |-> Top.name,
              held |-> held]
  BY <1>1, <1>5, <1>7
<1>12. /\ act.fn = "intern_symbol" /\ act.package = Top.package /\ act.name = Top.name /\ act.held = held
       /\ act = [fn |-> act.fn, pc |-> act.pc, package |-> act.package, name |-> act.name,
                 held |-> act.held]
  BY <1>11
<1>13. InternOK(act, objects', packages')
  BY <1>1, <1>5, <1>6, <1>9, <1>10, <1>12 DEF InternOK
<1>14. LaysOut(act, lo, hi)
  <2>1. ActOK(act, objects', packages')
    BY <1>10, <1>12, <1>13 DEF ActOK, Readers
  <2>2. ActLaid(act, lo, hi, form_stack', objects')
    BY <1>3, <1>12 DEF ActLaid, Readers
  <2> QED  BY <1>4, <2>1, <2>2 DEF LaysOut
<1>15. EndsAt(hi) /\ KeepsLower(b)
  <2>1. Size(objects) \in Nat /\ Size(objects') \in Nat /\ hi.conses \in Nat
    BY <1>4, <1>8, SizeIs DEF Inv, ObjectsOK, HeapGrows, Levels
  <2>2. hi.conses <= Size(objects')
    BY <1>4, <1>8, <2>1 DEF HeapGrows
  <2> QED  BY <1>1, <1>4, <1>8, <2>2 DEF EndsAt, KeepsLower, Agree, stack, frames
<1>16. StacksOK' /\ FormOK(value', objects')
  <2>1. Grows(objects, objects')
    BY <1>8 DEF HeapGrows, Steady
  <2>2. FormOK(value, objects)
    BY DEF Inv, ValueOK
  <2> QED  BY <1>1, <2>1, <2>2, FormsStay, FramesStay DEF StacksOK, Inv, FormOK, Grows
<1> QED  BY <1>1, <1>2, <1>12, <1>14, <1>15, <1>16, GoesOn DEF lo, hi

LEMMA InternAllocatesNameKeeps ==
  ASSUME InitializesInOrder, Inv, InternAllocatesName, ended' = ended
  PROVE  Inv' /\ Undisturbed
<1> DEFINE sym == CHOOSE s \in Top.held : TRUE
<1>1. /\ Top.fn = "intern_symbol" /\ Top.pc = "name" /\ acts' = Below /\ UNCHANGED <<stack, frames>>
      /\ packages' = Interned(Top.package, Top.name, sym, packages)
      /\ Allocates(Text(Top.name), [objects EXCEPT ![sym].lexeme = Fresh])
      /\ value' = Object(sym)
  BY DEF InternAllocatesName, In, Returns
<1>2. PICK b : Laid(b, acts, form_stack, Len(frame_stack), objects)
  BY DEF Inv
<1>3. InternOK(Top, objects, packages)
  BY <1>1, <1>2, InternIs
<1>4. /\ Top.package \in DOMAIN packages /\ Top.name \notin DOMAIN packages[Top.package].interned
      /\ sym \in DOMAIN objects /\ objects[sym].kind = "symbol" /\ objects[sym].lexeme = Null
      /\ objects[sym].package = Top.package
  <2>1. PICK s \in DOMAIN objects :
            /\ Top.held = {s} /\ objects[s].kind = "symbol"
            /\ objects[s].lexeme = Null /\ objects[s].package = Top.package
    BY <1>1, <1>3 DEF InternOK
  <2>2. sym = s
    BY <2>1
  <2> QED  BY <1>1, <1>3, <2>1, <2>2 DEF InternOK
<1> HIDE DEF sym
<1>5. /\ HeapGrows /\ \A id \in DOMAIN objects : id # sym => objects'[id] = objects[id]
      /\ packages'[Top.package].interned[Top.name] = sym
      /\ Top.name \in DOMAIN packages'[Top.package].interned
  <2> DEFINE p == Top.package
             name == Top.name
  <2>1. /\ p \in DOMAIN packages /\ name \notin DOMAIN packages[p].interned
        /\ objects[sym].package = p /\ ObjectsOK(objects, packages)
        /\ packages' = Interned(p, name, sym, packages)
        /\ Allocates(Text(name), [objects EXCEPT ![sym].lexeme = Fresh])
    BY <1>1, <1>4 DEF Inv
  <2> HIDE DEF p, name
  <2>2. /\ HeapGrows /\ \A id \in DOMAIN objects : id # sym => objects'[id] = objects[id]
        /\ packages'[p].interned[name] = sym /\ name \in DOMAIN packages'[p].interned
    BY <1>4, <2>1, NamingGrows
  <2> QED  BY <2>2 DEF p, name
<1>6. \A below : Settled(objects, objects', below)
  BY <1>4, <1>5 DEF Settled
<1>7. Top.package \in DOMAIN packages'
  BY <1>4, <1>5 DEF HeapGrows, FilesMore
<1> QED  BY <1>1, <1>2, <1>5, <1>6, <1>7, InternReturns

----------------------------------------------------------------------------
(* The start: initialize_runtime, alone                                    *)

LEMMA BootIs ==
  ASSUME InitializesInOrder, Inv, Top.fn = "initialize_runtime"
  PROVE  /\ Len(acts) = 1 /\ IsSeq(Below) /\ Len(Below) = 0
         /\ Top = [fn |-> "initialize_runtime", pc |-> Top.pc, held |-> Top.held]
         /\ Top.pc \in 1 .. Steps + 1 /\ Top.held \subseteq DOMAIN objects
         /\ Done(Top.pc, objects, packages) /\ Holds(Top, objects)
         /\ InternedFor(Top, packages, value)
         /\ Len(form_stack) = 0 /\ Len(frame_stack) = IF Top.pc < Steps THEN 0 ELSE 1
<1> DEFINE n == Len(acts)
<1>1. n \in Nat /\ 1 <= n /\ Top = acts[n] /\ IsSeq(acts)
  BY SeqIs DEF Inv, ActsOK, Top, Last
<1>2. n = 1
  <2>1. SUFFICES ASSUME n # 1  PROVE FALSE
    OBVIOUS
  <2> HIDE DEF n
  <2>2. n - 1 \in 1 .. n - 1 /\ n - 1 + 1 = n
    BY <1>1, <2>1
  <2>3. Waits(acts[n - 1], acts[n])
    BY <2>2 DEF Inv, ActsOK, n
  <2> QED  BY <1>1, <2>3 DEF Waits
<1>3. IsSeq(Below) /\ Len(Below) = 0
  <2>1. acts # << >>
    BY <1>2, EmptySeq
  <2> QED  BY <1>1, <1>2, <2>1, FrontIs DEF Below
<1>4. PICK b : Laid(b, acts, form_stack, Len(frame_stack), objects)
  BY DEF Inv
<1>5. ActOK(Top, objects, packages) /\ ActLaid(Top, b[0], b[1], form_stack, objects)
      /\ b[1].forms = Len(form_stack) /\ b[1].frames = Len(frame_stack) /\ b[0].forms = 0
  BY <1>2, <1>4, TopIs DEF Laid
<1>6. BootOK(Top) /\ Top.held \subseteq DOMAIN objects
      /\ b[1].forms = b[0].forms /\ b[1].frames = IF Top.pc < Steps THEN 0 ELSE 1
  <2> HIDE DEF Steps
  <2> QED  BY <1>5 DEF ActOK, ActLaid
<1>7. StartOK(acts, objects, packages, value) /\ Top = acts[1]
  BY <1>1, <1>2 DEF Inv
<1> QED  BY <1>2, <1>3, <1>5, <1>6, <1>7 DEF BootOK, StartOK

LEMMA BootLaid ==
  ASSUME InitializesInOrder, NEW act, act.fn = "initialize_runtime", NEW pc, act.pc = pc, pc \in 1 .. Steps + 1,
         NEW lo, NEW hi, hi.forms = lo.forms, lo.frames = 0,
         hi.frames = (IF pc < Steps THEN 0 ELSE 1), NEW forms, NEW all
  PROVE  ActLaid(act, lo, hi, forms, all)
<1> HIDE DEF Steps
<1> QED  BY DEF ActLaid, Readers

LEMMA AppendedFirst ==
  ASSUME NEW s, NEW x, IsSeq(s), Len(s) = 0
  PROVE  IsSeq(Append(s, x)) /\ Len(Append(s, x)) = 1 /\ Append(s, x)[1] = x
<1>1. Len(Append(s, x)) = Len(s) + 1 /\ Append(s, x)[Len(s) + 1] = x /\ IsSeq(Append(s, x))
  BY AppendIs
<1>2. Len(s) + 1 = 1
  OBVIOUS
<1> QED  BY <1>1, <1>2

(* An instruction is done, and the next one begins.                        *)
LEMMA BootGoesOn ==
  ASSUME InitializesInOrder, Inv, Top.fn = "initialize_runtime", Top.pc <= Steps,
         NEW act, acts' = Append(Below, act), NEW pc, pc = Top.pc + 1,
         act = [fn |-> "initialize_runtime", pc |-> pc, held |-> act.held],
         act.held \subseteq DOMAIN objects', ObjectsOK(objects', packages'),
         Done(pc, objects', packages'), Holds(act, objects'), InternedFor(act, packages', value'),
         Grows(objects, objects'), UNCHANGED <<stack, ended>>,
         FramesOK(frame_stack', frame_cap', last_return_value', objects'),
         Len(frame_stack') = (IF pc < Steps THEN 0 ELSE 1), FormOK(value', objects')
  PROVE  Inv'
<1>1. /\ IsSeq(Below) /\ Len(Below) = 0 /\ Top.pc \in 1 .. Steps + 1 /\ Len(form_stack) = 0
  BY BootIs
<1>2. act.fn = "initialize_runtime" /\ act.pc = pc /\ act = [fn |-> act.fn, pc |-> act.pc, held |-> act.held]
  OBVIOUS
<1>3. IsSeq(acts') /\ Len(acts') = 1 /\ acts'[1] = act
  BY <1>1, AppendedFirst
<1>4. Steps \in Nat
  BY OrderIs
<1>5. pc \in 1 .. Steps + 1
  <2> HIDE DEF Steps
  <2> QED  BY <1>1, <1>4
<1>6. ActsOK(acts', objects', packages')
  <2>1. ActOK(act, objects', packages')
    BY <1>2, <1>5 DEF ActOK, BootOK, Readers
  <2>2. \A i \in 1 .. Len(acts') - 1 : FALSE
    BY <1>3
  <2> QED  BY <1>2, <1>3, <2>1, <2>2 DEF ActsOK
<1>7. StartOK(acts', objects', packages', value')
  BY <1>2, <1>3 DEF StartOK
<1>8. \E c : Laid(c, acts', form_stack', Len(frame_stack'), objects')
  <2> DEFINE depth == Len(frame_stack')
             level(k) == [forms |-> 0, frames |-> k, conses |-> 0]
             c == [i \in 0 .. 1 |-> IF i = 0 THEN level(0) ELSE level(depth)]
  <2>1. depth \in Nat
    <3> HIDE DEF Steps
    <3> QED  OBVIOUS
  <2> HIDE DEF depth
  <2>2. c \in [0 .. 1 -> Levels] /\ c[0] = level(0) /\ c[1] = level(depth)
    BY <2>1 DEF Levels
  <2> HIDE DEF c
  <2>3. /\ c[0].forms = 0 /\ c[1].forms = 0 /\ c[0].frames = 0 /\ c[1].frames = depth
        /\ c[0].conses = 0 /\ c[1].conses = 0
    BY <2>2
  <2>4. ActLaid(act, c[0], c[1], form_stack', objects')
    BY <1>2, <1>5, <2>3, BootLaid DEF depth
  <2>5. Size(objects') \in Nat
    BY SizeIs DEF ObjectsOK
  <2>6. Len(form_stack') = 0
    BY <1>1 DEF stack
  <2>7. \A i \in 1 .. 1 : ActLaid(acts'[i], c[i - 1], c[i], form_stack', objects')
    BY <1>3, <2>4
  <2>8. \A i, j \in 0 .. 1 : i <= j => c[i].forms <= c[j].forms /\ c[i].conses <= c[j].conses
    <3>1. \A i \in 0 .. 1 : c[i].forms = 0 /\ c[i].conses = 0
      BY <2>3
    <3> QED  BY <3>1
  <2>9. Laid(c, acts', form_stack', depth, objects')
    BY <1>3, <2>2, <2>3, <2>5, <2>6, <2>7, <2>8 DEF Laid
  <2> QED  BY <2>9 DEF depth
<1>9. FormsOK(form_stack', form_cap', objects')
  BY FormsStay DEF Inv
<1>10. ValueOK(value', acts', objects')
  BY <1>2, <1>3 DEF ValueOK
<1> QED  BY <1>6, <1>7, <1>8, <1>9, <1>10 DEF Inv

(* An instruction calls, and goes on when the function returns.            *)
LEMMA BootCalls ==
  ASSUME InitializesInOrder, Inv, Top.fn = "initialize_runtime", Top.pc <= Steps,
         NEW act, NEW callee, acts' = Below \o <<act, callee>>, NEW pc, pc = Top.pc + 1,
         act = [fn |-> "initialize_runtime", pc |-> pc, held |-> Top.held],
         UNCHANGED <<heap, image, frames, value, ended>>,
         Done(pc, objects, packages), Holds(act, objects), InternsFor(act, callee),
         Waits(act, callee), ActOK(callee, objects, packages), callee.fn # "'",
         FormsOK(form_stack', form_cap', objects),
         NEW lo, NEW hi, lo = [forms |-> 0, frames |-> Len(frame_stack), conses |-> 0],
         hi = [forms |-> Len(form_stack'), frames |-> Len(frame_stack), conses |-> 0],
         Len(frame_stack) = (IF pc < Steps THEN 0 ELSE 1),
         ActLaid(callee, lo, hi, form_stack', objects)
  PROVE  Inv'
<1>1. /\ IsSeq(Below) /\ Len(Below) = 0 /\ Top.pc \in 1 .. Steps + 1 /\ Len(form_stack) = 0
      /\ Top.held \subseteq DOMAIN objects
  BY BootIs
<1>2. act.fn = "initialize_runtime" /\ act.pc = pc /\ act.held = Top.held
      /\ act = [fn |-> act.fn, pc |-> act.pc, held |-> act.held]
  OBVIOUS
<1>3. IsSeq(acts') /\ Len(acts') = 2 /\ acts'[1] = act /\ acts'[2] = callee
  BY <1>1, PairIs, ConcatIs
<1>4. Steps \in Nat
  BY OrderIs
<1>5. pc \in 1 .. Steps + 1
  <2> HIDE DEF Steps
  <2> QED  BY <1>1, <1>4
<1>6. objects' = objects /\ packages' = packages /\ frame_stack' = frame_stack
  BY DEF heap, image, frames
<1>7. ActsOK(acts', objects', packages')
  <2>1. ActOK(act, objects, packages)
    BY <1>1, <1>2, <1>5 DEF ActOK, BootOK, Readers
  <2>2. \A i \in 1 .. Len(acts') : ActOK(acts'[i], objects, packages)
    BY <1>3, <2>1
  <2>3. \A i \in 1 .. Len(acts') - 1 : Waits(acts'[i], acts'[i + 1])
    BY <1>3
  <2>4. IsSeq(acts') /\ 1 <= Len(acts') /\ acts'[1].fn = "initialize_runtime"
    BY <1>2, <1>3
  <2>5. ActsOK(acts', objects, packages)
    BY <2>2, <2>3, <2>4 DEF ActsOK
  <2> QED  BY <1>6, <2>5
<1>8. StartOK(acts', objects', packages', value')
  BY <1>2, <1>3, <1>6 DEF StartOK
<1>9. \E c : Laid(c, acts', form_stack', Len(frame_stack'), objects')
  <2> DEFINE depth == Len(frame_stack)
             forms == Len(form_stack')
             c == [i \in 0 .. 2 |-> IF i = 0 THEN [forms |-> 0, frames |-> 0, conses |-> 0]
                                    ELSE IF i = 1 THEN lo ELSE hi]
  <2>1. depth \in Nat /\ forms \in Nat
    <3> HIDE DEF Steps
    <3> QED  BY SeqIs DEF FormsOK
  <2>2. lo = [forms |-> 0, frames |-> depth, conses |-> 0]
        /\ hi = [forms |-> forms, frames |-> depth, conses |-> 0]
    OBVIOUS
  <2>3. /\ DOMAIN c = 0 .. 2 /\ c = [i \in 0 .. 2 |-> c[i]]
        /\ c[0] = [forms |-> 0, frames |-> 0, conses |-> 0] /\ c[1] = lo /\ c[2] = hi
    OBVIOUS
  <2> HIDE DEF c, depth, forms
  <2>4. lo \in Levels /\ hi \in Levels /\ c[0] \in Levels
    BY <2>1, <2>2, <2>3 DEF Levels
  <2>5. c \in [0 .. 2 -> Levels]
    <3>1. \A i \in 0 .. 2 : i = 0 \/ i = 1 \/ i = 2
      OBVIOUS
    <3>2. \A i \in 0 .. 2 : c[i] \in Levels
      BY <2>3, <2>4, <3>1
    <3> QED  BY <2>3, <3>2
  <2>6. /\ c[0].forms = 0 /\ c[1].forms = 0 /\ c[2].forms = forms
        /\ c[0].frames = 0 /\ c[1].frames = depth /\ c[2].frames = depth
        /\ c[0].conses = 0 /\ c[1].conses = 0 /\ c[2].conses = 0
    BY <2>2, <2>3
  <2>7. ActLaid(act, c[0], c[1], form_stack', objects)
    BY <1>2, <1>5, <2>6, BootLaid DEF depth
  <2>8. Size(objects') \in Nat
    BY <1>6, SizeIs DEF Inv, ObjectsOK
  <2>9. \A i \in 1 .. 2 : ActLaid(acts'[i], c[i - 1], c[i], form_stack', objects')
    <3>1. \A i \in 1 .. 2 : i = 1 \/ i = 2
      OBVIOUS
    <3> QED  BY <1>3, <1>6, <2>3, <2>7, <3>1
  <2>10. \A i, j \in 0 .. 2 : i <= j => c[i].forms <= c[j].forms /\ c[i].conses <= c[j].conses
    <3>1. \A i \in 0 .. 2 : i = 0 \/ i = 1 \/ i = 2
      OBVIOUS
    <3> QED  BY <2>1, <2>6, <3>1
  <2>11. Laid(c, acts', form_stack', depth, objects')
    <3> DEFINE xs == acts'
    <3>1. Len(xs) = 2 /\ \A i \in 1 .. 2 : ActLaid(xs[i], c[i - 1], c[i], form_stack', objects')
      BY <1>3, <2>9
    <3>2. forms = Len(form_stack')
      BY DEF forms
    <3> HIDE DEF xs
    <3>3. Laid(c, xs, form_stack', depth, objects')
      BY <2>5, <2>6, <2>8, <2>10, <3>1, <3>2 DEF Laid
    <3> QED  BY <3>3 DEF xs
  <2> QED  BY <1>6, <2>11 DEF depth
<1>10. FramesOK(frame_stack', frame_cap', last_return_value', objects')
  BY <1>6 DEF Inv, frames
<1>11. ValueOK(value', acts', objects')
  BY <1>3, <1>6 DEF Inv, ValueOK
<1> QED  BY <1>6, <1>7, <1>8, <1>9, <1>10, <1>11 DEF Inv

LEMMA BootDoes ==
  ASSUME InitializesInOrder, Inv, NEW do, At(do)
  PROVE  /\ Top.fn = "initialize_runtime" /\ Does(Top.pc, do) /\ InitializeRuntime[Top.pc].do = do
         /\ Top.pc \in 1 .. Steps /\ Top.pc \in Nat /\ Steps \in Nat /\ Top.pc + 1 # 1
<1>1. Top.fn = "initialize_runtime" /\ Top.pc <= Steps /\ InitializeRuntime[Top.pc].do = do
  BY DEF At, Steps
<1>2. Top.pc \in 1 .. Steps + 1 /\ Steps \in Nat /\ DOMAIN InitializeRuntime = 1 .. Steps
  BY <1>1, BootIs, OrderIs
<1> HIDE DEF Steps
<1>3. Top.pc \in 1 .. Steps /\ Top.pc \in Nat /\ Top.pc + 1 # 1
  BY <1>1, <1>2
<1> QED  BY <1>1, <1>2, <1>3 DEF Does

(* A step does one thing.                                                  *)
LEMMA DoesOne ==
  ASSUME NEW i, NEW do, NEW other, Does(i, do), Does(i, other)
  PROVE  do = other
BY DEF Does

(* Before a symbol is bound to a function come the two steps that make     *)
(* them, so after any other step nothing is held.                          *)
LEMMA NothingHeld ==
  ASSUME InitializesInOrder, NEW i \in Nat, NEW do, Does(i, do), do # "intern", do # "function",
         NEW act, act.pc = i + 1, NEW all, NEW packs, NEW val
  PROVE  Holds(act, all) /\ InternedFor(act, packs, val)
<1>1. ~Does(i + 1, "bind function")
  <2> DEFINE k == i + 1
  <2>1. k - 1 = i
    OBVIOUS
  <2> HIDE DEF k
  <2>2. Does(k, "bind function") => Does(k - 1, "intern")
    BY BindsInOrder
  <2>3. ~Does(k, "bind function")
    BY <2>1, <2>2, DoesOne
  <2> QED  BY <2>3 DEF k
<1>2. ~Does(i + 1 + 1, "bind function")
  <2> DEFINE k == i + 1 + 1
  <2>1. k - 2 = i
    OBVIOUS
  <2> HIDE DEF k
  <2>2. Does(k, "bind function") => Does(k - 2, "function")
    BY BindsInOrder
  <2>3. ~Does(k, "bind function")
    BY <2>1, <2>2, DoesOne
  <2> QED  BY <2>3 DEF k
<1> QED  BY <1>1, <1>2 DEF Holds, InternedFor

LEMMA BindsOnce ==
  ASSUME InitializesInOrder, NEW i, NEW j, Does(i, "bind function"), Does(j, "bind function"),
         InitializeRuntime[i].of = InitializeRuntime[j].of,
         Chars(InitializeRuntime[i].name) = Chars(InitializeRuntime[j].name)
  PROVE  i = j
<1>1. i \in 1 .. Steps /\ j \in 1 .. Steps
  BY OrderIs
<1> QED  BY <1>1 DEF InitializesInOrder, Of, Steps

LEMMA StepsSoFar ==
  ASSUME InitializesInOrder, NEW pc \in 1 .. Steps
  PROVE  pc + 1 # 1 /\ 1 .. (pc + 1) - 1 = (1 .. pc - 1) \cup {pc} /\ pc \notin 1 .. pc - 1
<1>1. Steps \in Nat
  BY OrderIs
<1> HIDE DEF Steps
<1> QED  BY <1>1

(* What is done once one more step is.                                     *)
LEMMA DoneNext ==
  ASSUME InitializesInOrder, NEW pc \in 1 .. Steps, NEW all, NEW new, NEW packs, NEW packs2,
         Done(pc, all, packs),
         \A p, name : Chars(name) # NullLexeme /\ Bound(p, name, all, packs) =>
           \/ /\ Does(pc, "bind function") /\ InitializeRuntime[pc].of = p
              /\ Chars(InitializeRuntime[pc].name) = Chars(name)
           \/ Bound(p, name, new, packs2),
         DOMAIN packs2 =
           DOMAIN packs \cup IF Does(pc, "package") THEN {InitializeRuntime[pc].of} ELSE {},
         Is(SystemReadtable, "readtable", new),
         Does(pc, "bind function") =>
           Bound(InitializeRuntime[pc].of, InitializeRuntime[pc].name, new, packs2),
         Steps - 2 < pc + 1 =>
           LET macros == new[SystemReadtable].macros
           IN  \A c \in MacroCharacters : c \in DOMAIN macros /\ macros[c] \in DOMAIN new
  PROVE  Done(pc + 1, new, packs2)
<1>2. pc + 1 # 1 /\ 1 .. (pc + 1) - 1 = (1 .. pc - 1) \cup {pc} /\ pc \notin 1 .. pc - 1
  BY StepsSoFar
<1>3. DOMAIN packs2 =
        {InitializeRuntime[j].of : j \in {k \in 1 .. (pc + 1) - 1 : Does(k, "package")}}
  <2>1. DOMAIN packs = {InitializeRuntime[j].of : j \in {k \in 1 .. pc - 1 : Does(k, "package")}}
    BY DEF Done
  <2>2. {k \in 1 .. (pc + 1) - 1 : Does(k, "package")} =
          {k \in 1 .. pc - 1 : Does(k, "package")} \cup IF Does(pc, "package") THEN {pc} ELSE {}
    BY <1>2
  <2> QED  BY <2>1, <2>2
<1>4. ASSUME NEW j \in 1 .. (pc + 1) - 1, Does(j, "bind function")
      PROVE  Bound(InitializeRuntime[j].of, InitializeRuntime[j].name, new, packs2)
  <2>1. CASE j = pc
    BY <1>4, <2>1
  <2>2. CASE j # pc
    <3> DEFINE p == InitializeRuntime[j].of
               name == InitializeRuntime[j].name
    <3>1. j \in 1 .. pc - 1
      BY <1>2, <2>2
    <3>2. Bound(p, name, all, packs) /\ Chars(name) # NullLexeme
      BY <1>4, <3>1, OrderIs DEF Done
    <3>3. ~(Does(pc, "bind function") /\ InitializeRuntime[pc].of = p
            /\ Chars(InitializeRuntime[pc].name) = Chars(name))
      BY <1>4, <2>2, BindsOnce
    <3> QED  BY <3>2, <3>3
  <2> QED  BY <2>1, <2>2
<1>5. /\ pc + 1 # 1 => Is(SystemReadtable, "readtable", new)
      /\ pc + 1 = 1 => DOMAIN new = {}
  BY <1>2
<1> DEFINE n == pc + 1
<1>6. DOMAIN packs2 = {InitializeRuntime[j].of : j \in {k \in 1 .. n - 1 : Does(k, "package")}}
  BY <1>3
<1>9. (n # 1 => Is(SystemReadtable, "readtable", new)) /\ (n = 1 => DOMAIN new = {})
  BY <1>5
<1>10. \A j \in 1 .. n - 1 :
         Does(j, "bind function") =>
           Bound(InitializeRuntime[j].of, InitializeRuntime[j].name, new, packs2)
  BY <1>4
<1>7. Steps - 2 < n =>
        LET macros == new[SystemReadtable].macros
        IN  \A c \in MacroCharacters : c \in DOMAIN macros /\ macros[c] \in DOMAIN new
  OBVIOUS
<1> HIDE DEF Steps, n
<1>8. Done(n, new, packs2)
  BY <1>6, <1>7, <1>9, <1>10 DEF Done
<1> QED  BY <1>8 DEF n

LEMMA PastAlready ==
  ASSUME NEW n \in Nat, NEW k \in Nat, k # n - 2
  PROVE  n - 2 < k + 1 => n - 2 < k
OBVIOUS

LEMMA DoneGrows ==
  ASSUME InitializesInOrder, Inv, HeapGrows, NEW do, At(do),
         do \notin {"readtable", "package", "bind function", "list packages"}
  PROVE  Done(Top.pc + 1, objects', packages')
<1> DEFINE pc == Top.pc
<1>1. /\ Top.fn = "initialize_runtime" /\ Does(pc, do) /\ pc \in 1 .. Steps /\ pc \in Nat /\ Steps \in Nat
  BY BootDoes
<1>2. Done(pc, objects, packages)
  BY <1>1, BootIs
<1>3. Steady(objects, objects') /\ Grows(objects, objects') /\ FilesMore(packages, packages')
  BY DEF HeapGrows, Steady
<1> HIDE DEF pc
<1>4. ~Does(pc, "readtable") /\ ~Does(pc, "package") /\ ~Does(pc, "bind function")
      /\ ~Does(pc, "list packages")
  BY <1>1, DoesOne
<1>5. pc # 1 /\ pc # Steps - 2
  <2>1. \A i \in 1 .. Steps : (Does(i, "readtable") <=> i = 1) /\ (Does(i, "list packages") <=> i = Steps - 2)
    BY DEF InitializesInOrder, Steps
  <2> HIDE DEF Steps
  <2> QED  BY <1>1, <1>4, <2>1
<1>6. Is(SystemReadtable, "readtable", objects) /\ Is(SystemReadtable, "readtable", objects')
      /\ objects'[SystemReadtable] = objects[SystemReadtable]
  <2>1. Is(SystemReadtable, "readtable", objects)
    BY <1>2, <1>5 DEF Done
  <2> QED  BY <1>3, <2>1 DEF Is, Grows, Lasts, Steady, Stays
<1>7. \A p, name : Chars(name) # NullLexeme /\ Bound(p, name, objects, packages) =>
        Bound(p, name, objects', packages')
  BY <1>3, BoundStays DEF Inv, ObjectsOK
<1>8. Steps - 2 < pc + 1 => Steps - 2 < pc
  <2>1. pc \in Nat /\ Steps \in Nat /\ pc # Steps - 2
    BY <1>1, <1>5
  <2> QED  BY <2>1, PastAlready
<1>9. Steps - 2 < pc + 1 =>
        LET macros == objects'[SystemReadtable].macros
        IN  \A c \in MacroCharacters : c \in DOMAIN macros /\ macros[c] \in DOMAIN objects'
  <2> HIDE DEF Steps
  <2> QED  BY <1>2, <1>3, <1>6, <1>8 DEF Done, Grows
<1>10. DOMAIN packages' =
         DOMAIN packages \cup IF Does(pc, "package") THEN {InitializeRuntime[pc].of} ELSE {}
  BY <1>3, <1>4 DEF FilesMore
<1>11. Done(pc + 1, objects', packages')
  BY <1>1, <1>2, <1>4, <1>6, <1>7, <1>9, <1>10, DoneNext
<1> QED  BY <1>11 DEF pc

(* Instructions that leave the frames as they are.                         *)
LEMMA BootStepsOn ==
  ASSUME InitializesInOrder, Inv, NEW do, At(do), do \notin {"interpreter", "repl"},
         NEW held, held \subseteq DOMAIN objects', ObjectsOK(objects', packages'),
         Grows(objects, objects'),
         acts' = Append(Below, [fn |-> "initialize_runtime", pc |-> Top.pc + 1, held |-> held]),
         Done(Top.pc + 1, objects', packages'),
         Holds([fn |-> "initialize_runtime", pc |-> Top.pc + 1, held |-> held], objects'),
         InternedFor([fn |-> "initialize_runtime", pc |-> Top.pc + 1, held |-> held], packages', value),
         UNCHANGED <<stack, frames, value, ended>>
  PROVE  Inv'
<1> DEFINE pc == Top.pc + 1
           act == [fn |-> "initialize_runtime", pc |-> pc, held |-> held]
<1>1. /\ Top.fn = "initialize_runtime" /\ Top.pc \in 1 .. Steps /\ Steps \in Nat /\ Does(Top.pc, do)
  BY BootDoes
<1>2. Len(frame_stack) = IF Top.pc < Steps THEN 0 ELSE 1
  BY <1>1, BootIs
<1>3. Top.pc # Steps - 1 /\ Top.pc # Steps
  <2>1. \A i \in 1 .. Steps :
           (Does(i, "interpreter") <=> i = Steps - 1) /\ (Does(i, "repl") <=> i = Steps)
    BY DEF InitializesInOrder, Steps
  <2>2. ~Does(Top.pc, "interpreter") /\ ~Does(Top.pc, "repl")
    BY <1>1, DoesOne
  <2> HIDE DEF Steps
  <2> QED  BY <1>1, <2>1, <2>2
<1>4. Len(frame_stack') = (IF pc < Steps THEN 0 ELSE 1) /\ Top.pc <= Steps
  <2>1. frame_stack' = frame_stack
    BY DEF frames
  <2> HIDE DEF Steps
  <2> QED  BY <1>1, <1>2, <1>3, <2>1
<1>5. FramesOK(frame_stack', frame_cap', last_return_value', objects')
  BY FramesStay DEF Inv
<1>6. FormOK(value', objects')
  BY DEF Inv, ValueOK, FormOK, Grows
<1>7. act = [fn |-> "initialize_runtime", pc |-> pc, held |-> act.held] /\ act.held = held
  OBVIOUS
<1>8. /\ acts' = Append(Below, act) /\ Done(pc, objects', packages') /\ Holds(act, objects')
      /\ InternedFor(act, packages', value') /\ pc = Top.pc + 1
  OBVIOUS
<1> HIDE DEF act, pc
<1> QED  BY <1>1, <1>4, <1>5, <1>6, <1>7, <1>8, BootGoesOn

LEMMA BootBecomes ==
  ASSUME InitializesInOrder, Inv, Top.fn = "initialize_runtime"
  PROVE  /\ ThenNext = [fn |-> "initialize_runtime", pc |-> Top.pc + 1, held |-> Top.held]
         /\ \A held : [ThenNext EXCEPT !.held = held] =
                        [fn |-> "initialize_runtime", pc |-> Top.pc + 1, held |-> held]
<1>1. Top = [fn |-> "initialize_runtime", pc |-> Top.pc, held |-> Top.held]
  BY BootIs
<1>2. ThenNext = [fn |-> "initialize_runtime", pc |-> Top.pc + 1, held |-> Top.held]
  BY <1>1 DEF ThenNext
<1> QED  BY <1>2

LEMMA BootReadtableKeeps ==
  ASSUME InitializesInOrder, Inv, BootReadtable, ended' = ended
  PROVE  Inv'
<1> DEFINE act == [fn |-> "initialize_runtime", pc |-> Top.pc + 1, held |-> Top.held]
<1>1. /\ At("readtable") /\ Allocates(Readtable, objects) /\ packages' = packages
      /\ acts' = Append(Below, ThenNext) /\ UNCHANGED <<stack, frames, value>>
  BY DEF BootReadtable, Becomes, image
<1>2. /\ Top.fn = "initialize_runtime" /\ Does(Top.pc, "readtable") /\ Top.pc \in 1 .. Steps
      /\ Top.pc \in Nat /\ Steps \in Nat
  BY <1>1, BootDoes
<1>3. acts' = Append(Below, act) /\ Top.held \subseteq DOMAIN objects
  BY <1>1, <1>2, BootBecomes, BootIs
<1>4. Done(Top.pc, objects, packages)
  BY <1>2, BootIs
<1>5. Top.pc = 1 /\ Steps > 3
  BY <1>2, OrderIs DEF InitializesInOrder, Steps
<1>6. HeapGrows /\ Allocated(Readtable)
  <2>1. ObjectOK(Readtable, Fresh, objects, packages) /\ Readtable.kind # "symbol"
    BY DEF ObjectOK, Readtable
  <2>2. Altered(objects, objects, Fresh, Readtable)
    BY NothingAltered
  <2> QED  BY <1>1, <2>1, <2>2, QuietAllocation DEF Inv
<1>7. Is(SystemReadtable, "readtable", objects')
  <2>1. DOMAIN objects = {}
    BY <1>4, <1>5 DEF Done
  <2>2. Fresh = 0
    BY <2>1, FS_EmptySet DEF Fresh
  <2> QED  BY <1>6, <2>2 DEF Allocated, Is, SystemReadtable, Readtable
<1>8. Done(Top.pc + 1, objects', packages')
  <2> DEFINE pc == Top.pc
  <2>1. \A p, name : ~Bound(p, name, objects, packages)
    <3>1. DOMAIN packages = {}
      BY <1>4, <1>5 DEF Done
    <3> QED  BY <3>1 DEF Bound
  <2>2. ~Does(pc, "package") /\ ~Does(pc, "bind function")
    BY <1>2, DoesOne
  <2>3. ~(Steps - 2 < pc + 1)
    <3> HIDE DEF Steps
    <3> QED  BY <1>2, <1>5
  <2>4. pc \in 1 .. Steps /\ Done(pc, objects, packages)
    BY <1>2, <1>4
  <2> HIDE DEF pc, Steps
  <2>5. DOMAIN packages' =
          DOMAIN packages \cup IF Does(pc, "package") THEN {InitializeRuntime[pc].of} ELSE {}
    BY <1>1, <2>2
  <2>6. Done(pc + 1, objects', packages')
    BY <1>7, <2>1, <2>2, <2>3, <2>4, <2>5, DoneNext
  <2> QED  BY <2>6 DEF pc
<1>9. Holds(act, objects') /\ InternedFor(act, packages', value)
  <2>1. act.pc = Top.pc + 1
    OBVIOUS
  <2> HIDE DEF act
  <2> QED  BY <1>2, <2>1, NothingHeld
<1>10. /\ Top.held \subseteq DOMAIN objects' /\ ObjectsOK(objects', packages')
       /\ Grows(objects, objects')
  BY <1>3, <1>6 DEF Allocated, HeapGrows, Steady
<1> QED  BY <1>1, <1>3, <1>8, <1>9, <1>10, BootStepsOn

(* What is allocated or interned at the start takes nothing from what is   *)
(* held.                                                                   *)
LEMMA BootFunctionKeeps ==
  ASSUME InitializesInOrder, Inv, BootFunction, ended' = ended
  PROVE  Inv'
<1> DEFINE o == Inherent(Instruction.name)
           held == {Fresh}
           act == [fn |-> "initialize_runtime", pc |-> Top.pc + 1, held |-> held]
<1>1. /\ At("function") /\ Allocates(o, objects) /\ packages' = packages
      /\ acts' = Append(Below, [ThenNext EXCEPT !.held = held]) /\ UNCHANGED <<stack, frames, value>>
  BY DEF BootFunction, Becomes, image
<1>2. /\ Top.fn = "initialize_runtime" /\ Does(Top.pc, "function") /\ Top.pc \in Nat
  BY <1>1, BootDoes
<1>3. acts' = Append(Below, act)
  BY <1>1, <1>2, BootBecomes
<1>4. HeapGrows /\ Allocated(o)
  <2>1. o.kind = "function" /\ o = [kind |-> "function", name |-> o.name]
    BY DEF Inherent
  <2> HIDE DEF o
  <2>2. ObjectOK(o, Fresh, objects, packages)
    BY <2>1 DEF ObjectOK
  <2>3. Altered(objects, objects, Fresh, o)
    BY NothingAltered
  <2> QED  BY <1>1, <2>1, <2>2, <2>3, QuietAllocation DEF Inv
<1>5. Done(Top.pc + 1, objects', packages')
  BY <1>1, <1>4, DoneGrows
<1>6. /\ held \subseteq DOMAIN objects' /\ objects'[Fresh] = o /\ Fresh \in DOMAIN objects'
      /\ ObjectsOK(objects', packages') /\ Grows(objects, objects')
  BY <1>4 DEF Allocated, HeapGrows, Steady
<1>7. Holds(act, objects') /\ InternedFor(act, packages', value)
  <2> DEFINE i == Top.pc
             next == i + 1
             then == i + 1 + 1
  <2>1. i \in Nat /\ next - 1 = i /\ then - 2 = i /\ then = next + 1
    BY <1>2
  <2>2. act.pc = next /\ act.held = {Fresh}
    OBVIOUS
  <2>3. o = Inherent(InitializeRuntime[i].name)
    BY DEF Instruction
  <2> HIDE DEF i, next, then, act, o
  <2>4. ~Does(next, "bind function")
    <3>1. Does(next, "bind function") => Does(next - 1, "intern")
      BY BindsInOrder
    <3> QED  BY <1>2, <2>1, <3>1, DoesOne DEF i
  <2>5. Does(then, "bind function") => InitializeRuntime[then].name = InitializeRuntime[i].name
    <3>1. Does(then, "bind function") => InitializeRuntime[then - 2].name = InitializeRuntime[then].name
      BY BindsInOrder
    <3> QED  BY <2>1, <3>1
  <2> QED  BY <1>6, <2>1, <2>2, <2>3, <2>4, <2>5 DEF Holds, InternedFor
<1> HIDE DEF held
<1> QED  BY <1>1, <1>3, <1>5, <1>6, <1>7, BootStepsOn

(* An alteration alone.                                                    *)
LEMMA AlterationKeeps ==
  ASSUME NEW all, NEW new, NEW packs, NEW n, NEW o, ObjectsOK(all, packs),
         Altered(all, new, n, o), o.kind # "cons"
  PROVE  /\ ObjectsOK(new, packs) /\ Quiet(all, new) /\ DOMAIN new = DOMAIN all
<1>1. DOMAIN new = DOMAIN all /\ HeapOK(all, packs)
  BY DEF Altered, ObjectsOK
<1>2. \A id \in DOMAIN all : /\ Lasts(all[id], new[id]) /\ Stays(all[id], new[id])
                             /\ all[id].kind = "symbol" => new[id] = all[id]
  BY <1>1, AlteredIsQuiet DEF HeapOK, Altered
<1>3. Quiet(all, new) /\ Grows(all, new)
  BY <1>1, <1>2 DEF Quiet, Steady, Grows
<1>4. ASSUME NEW id \in DOMAIN all  PROVE ObjectOK(new[id], id, new, packs)
  <2> DEFINE p == all[id]
             q == new[id]
  <2>1. ObjectOK(p, id, new, packs)
    <3>1. MorePackages(packs, packs)
      BY DEF MorePackages
    <3> QED  BY <1>1, <1>3, <3>1, ObjectStaysOK DEF HeapOK
  <2>2. Alters(p, q, n, o)
    BY DEF Altered
  <2> HIDE DEF p, q
  <2>3. CASE q = p
    BY <2>1, <2>3 DEF q
  <2>4. CASE p.kind = "environment" /\
               q = [kind |-> "environment", parent |-> p.parent, package |-> p.package,
                    values |-> q.values, functions |-> p.functions]
    <3>1. q.kind = "environment" /\ q.parent = p.parent /\ q.package = p.package /\ q.functions = p.functions
      BY <2>4
    <3>2. EnvironmentOK(p, id, new, packs)
      BY <2>1, <2>4 DEF ObjectOK
    <3>3. EnvironmentOK(q, id, new, packs)
      BY <2>4, <3>1, <3>2 DEF EnvironmentOK
    <3> QED  BY <3>1, <3>3 DEF ObjectOK, q
  <2>5. CASE p.kind = "string" /\ q = [kind |-> "string", lexeme |-> q.lexeme]
    <3>1. q.kind = "string"
      BY <2>5
    <3> QED  BY <2>5, <3>1 DEF ObjectOK, q
  <2> QED  BY <2>2, <2>3, <2>4, <2>5 DEF Alters
<1>5. HeapOK(new, packs)
  BY <1>1, <1>4 DEF HeapOK
<1>6. PackagesOK(new, packs)
  BY <1>1, <1>3, PackageStaysOK DEF ObjectsOK, PackagesOK
<1>7. NamesOK(new, packs)
  BY <1>1, <1>2, <1>3, NamesStayOK DEF ObjectsOK
<1> QED  BY <1>1, <1>3, <1>5, <1>6, <1>7 DEF ObjectsOK

LEMMA BootBindConstantsKeeps ==
  ASSUME InitializesInOrder, Inv, BootBindConstants, ended' = ended
  PROVE  Inv'
<1> DEFINE act == [fn |-> "initialize_runtime", pc |-> Top.pc + 1, held |-> Top.held]
           p == packages[Instruction.of]
           once == BoundTo(p.global, p.interned[Chars("NIL")], Nil, objects)
<1>1. /\ At("bind constants") /\ packages' = packages
      /\ objects' = BoundTo(p.global, p.interned[Chars("T")], T, once)
      /\ acts' = Append(Below, ThenNext) /\ UNCHANGED <<stack, frames, value>>
  BY DEF BootBindConstants, Becomes, image
<1> HIDE DEF p
<1>2. /\ Top.fn = "initialize_runtime" /\ Does(Top.pc, "bind constants") /\ Top.pc \in Nat
  BY <1>1, BootDoes
<1>3. acts' = Append(Below, act) /\ Top.held \subseteq DOMAIN objects
  BY <1>1, <1>2, BootBecomes, BootIs
<1>4. String.kind # "cons"
  BY DEF String
<1>5. ObjectsOK(once, packages) /\ Quiet(objects, once) /\ DOMAIN once = DOMAIN objects
  <2>1. Altered(objects, once, 0, String) /\ ObjectsOK(objects, packages)
    BY BindingAlters DEF Inv, ObjectsOK
  <2> HIDE DEF once
  <2> QED  BY <1>4, <2>1, AlterationKeeps
<1> HIDE DEF once
<1>6. ObjectsOK(objects', packages) /\ Quiet(once, objects') /\ DOMAIN objects' = DOMAIN once
  <2>1. Altered(once, objects', 0, String)
    BY <1>1, <1>5, BindingAlters DEF ObjectsOK
  <2> QED  BY <1>4, <1>5, <2>1, AlterationKeeps
<1>7. Steady(objects, objects')
  <2>1. Steady(objects, once) /\ Steady(once, objects')
    BY <1>5, <1>6 DEF Quiet
  <2>2. ASSUME NEW id \in DOMAIN objects
        PROVE  Lasts(objects[id], objects'[id]) /\ Stays(objects[id], objects'[id])
    <3>1. /\ Lasts(objects[id], once[id]) /\ Stays(objects[id], once[id])
          /\ Lasts(once[id], objects'[id]) /\ Stays(once[id], objects'[id])
      BY <1>5, <2>1 DEF Steady, Grows
    <3> QED  BY <3>1 DEF Lasts, Stays
  <2> QED  BY <1>5, <1>6, <2>2 DEF Steady, Grows
<1>8. HeapGrows
  <2>1. Size(objects) \in Nat
    BY SizeIs DEF Inv, ObjectsOK
  <2>2. Size(objects) <= Size(objects')
    BY <1>5, <1>6, <2>1 DEF Size
  <2> QED  BY <1>1, <1>6, <1>7, <2>2 DEF HeapGrows, FilesMore
<1>9. Done(Top.pc + 1, objects', packages')
  BY <1>1, <1>8, DoneGrows
<1>10. Holds(act, objects') /\ InternedFor(act, packages', value)
  <2>1. act.pc = Top.pc + 1
    OBVIOUS
  <2> HIDE DEF act
  <2> QED  BY <1>2, <2>1, NothingHeld
<1>11. /\ Top.held \subseteq DOMAIN objects' /\ ObjectsOK(objects', packages')
       /\ Grows(objects, objects')
  BY <1>3, <1>5, <1>6, <1>8 DEF HeapGrows, Steady
<1> QED  BY <1>1, <1>3, <1>9, <1>10, <1>11, BootStepsOn

LEMMA BootInternKeeps ==
  ASSUME InitializesInOrder, Inv, BootIntern, ended' = ended
  PROVE  Inv'
<1> DEFINE pc == Top.pc + 1
           act == [fn |-> "initialize_runtime", pc |-> pc, held |-> Top.held]
           callee == InternAct(Instruction.of, Chars(Instruction.name))
           lo == [forms |-> 0, frames |-> Len(frame_stack), conses |-> 0]
           hi == [forms |-> Len(form_stack'), frames |-> Len(frame_stack), conses |-> 0]
<1>1. /\ At("intern") /\ acts' = Below \o <<ThenNext, callee>>
      /\ UNCHANGED <<heap, image, stack, frames, value>>
  BY DEF BootIntern, Calls
<1>2. /\ Top.fn = "initialize_runtime" /\ Does(Top.pc, "intern") /\ Top.pc \in 1 .. Steps
      /\ Top.pc \in Nat /\ Steps \in Nat
  BY <1>1, BootDoes
<1>3. acts' = Below \o <<act, callee>> /\ Len(form_stack) = 0 /\ Holds(Top, objects)
      /\ Done(Top.pc, objects, packages) /\ Len(frame_stack) = IF Top.pc < Steps THEN 0 ELSE 1
  BY <1>1, <1>2, BootBecomes, BootIs
<1>4. Done(pc, objects, packages)
  <2>1. HeapGrows /\ objects' = objects /\ packages' = packages
    BY <1>1, HeapStays DEF heap, image
  <2> QED  BY <1>1, <2>1, DoneGrows
<1>5. Holds(act, objects)
  <2> DEFINE i == Top.pc
             then == pc + 1
  <2>1. i \in Nat /\ then - 2 = i /\ pc = i + 1
    BY <1>2
  <2>2. act.pc = pc /\ act.held = Top.held
    OBVIOUS
  <2> HIDE DEF i, pc, then, act
  <2>3. ~Does(then, "bind function")
    <3>1. Does(then, "bind function") => Does(then - 2, "function")
      BY BindsInOrder
    <3> QED  BY <1>2, <2>1, <3>1, DoesOne DEF i
  <2> QED  BY <1>3, <2>1, <2>2, <2>3 DEF Holds, i, then
<1>6. Instruction.of \in DOMAIN packages
  <2> DEFINE i == Top.pc
  <2>1. PICK j \in 1 .. i - 1 : Does(j, "package") /\ Of(j, InitializeRuntime[i].of)
    BY <1>2 DEF InitializesInOrder, Steps
  <2>2. DOMAIN packages = {InitializeRuntime[m].of : m \in {k \in 1 .. i - 1 : Does(k, "package")}}
    BY <1>3 DEF Done
  <2> QED  BY <2>1, <2>2 DEF Of, Instruction
<1>7. /\ callee.fn = "intern_symbol" /\ callee.package = Instruction.of /\ callee.pc = "find"
      /\ callee.name = Chars(Instruction.name) /\ callee.held = {}
      /\ callee = [fn |-> callee.fn, pc |-> callee.pc, package |-> callee.package,
                   name |-> callee.name, held |-> callee.held]
  BY DEF InternAct
<1>8. act.fn = "initialize_runtime" /\ act.pc = pc /\ pc - 1 = Top.pc
  BY <1>2
<1>9. Len(frame_stack) = IF pc < Steps THEN 0 ELSE 1
  <2>1. Top.pc # Steps - 1 /\ Top.pc # Steps
    <3>1. \A i \in 1 .. Steps :
             (Does(i, "interpreter") <=> i = Steps - 1) /\ (Does(i, "repl") <=> i = Steps)
      BY DEF InitializesInOrder, Steps
    <3>2. ~Does(Top.pc, "interpreter") /\ ~Does(Top.pc, "repl")
      BY <1>2, DoesOne
    <3> HIDE DEF Steps
    <3> QED  BY <1>2, <3>1, <3>2
  <2> HIDE DEF Steps
  <2> QED  BY <1>2, <1>3, <2>1
<1> HIDE DEF act, callee, pc
<1>10. InternsFor(act, callee) /\ Waits(act, callee)
  BY <1>2, <1>7, <1>8 DEF InternsFor, Waits, Instruction, Readers
<1>11. ActOK(callee, objects, packages)
  BY <1>6, <1>7 DEF ActOK, InternOK, Readers
<1>12. FormsOK(form_stack', form_cap', objects)
  BY <1>1 DEF Inv, stack
<1>13. ActLaid(callee, lo, hi, form_stack', objects)
  <2>1. hi.forms = lo.forms /\ hi.frames = lo.frames
    BY <1>1, <1>3 DEF stack
  <2> HIDE DEF lo, hi
  <2> QED  BY <1>7, <2>1 DEF ActLaid, Readers
<1>14. Top.pc <= Steps /\ pc = Top.pc + 1 /\ callee.fn # "'"
       /\ act = [fn |-> "initialize_runtime", pc |-> pc, held |-> Top.held]
  <2>1. Top.pc <= Steps
    <3> HIDE DEF Steps
    <3> QED  BY <1>2
  <2> QED  BY <1>7, <2>1 DEF pc, act
<1>15. UNCHANGED <<heap, image, frames, value, ended>>
  BY <1>1
<1> QED  BY <1>2, <1>3, <1>4, <1>5, <1>9, <1>10, <1>11, <1>12, <1>13, <1>14, <1>15, BootCalls

LEMMA ReadtableThere ==
  ASSUME InitializesInOrder, Inv, NEW do, At(do), do # "readtable"
  PROVE  Is(SystemReadtable, "readtable", objects)
<1>1. Top.fn = "initialize_runtime" /\ Does(Top.pc, do) /\ Top.pc \in 1 .. Steps
  BY BootDoes
<1>2. Done(Top.pc, objects, packages)
  BY <1>1, BootIs
<1>3. \A i \in 1 .. Steps : Does(i, "readtable") <=> i = 1
  BY DEF InitializesInOrder, Steps
<1>4. ~Does(Top.pc, "readtable")
  BY <1>1, DoesOne
<1> HIDE DEF Steps
<1>5. Top.pc # 1
  BY <1>1, <1>3, <1>4
<1> QED  BY <1>2, <1>5 DEF Done

LEMMA BeforeThree ==
  ASSUME NEW n \in Nat, NEW i \in 1 .. n, i # n - 2, i # n - 1, i # n
  PROVE  i < n - 2 /\ ~(n - 2 < i + 1)
OBVIOUS

(* The packages come before the last three instructions.                   *)
LEMMA PackageIsEarly ==
  ASSUME InitializesInOrder, NEW i \in 1 .. Steps, NEW do, Does(i, do),
         do \notin {"list packages", "interpreter", "repl"}
  PROVE  i < Steps - 2 /\ ~(Steps - 2 < i + 1)
<1>1. /\ Does(i, "list packages") <=> i = Steps - 2
      /\ Does(i, "interpreter") <=> i = Steps - 1
      /\ Does(i, "repl") <=> i = Steps
  BY DEF InitializesInOrder, Steps
<1>2. ~Does(i, "list packages") /\ ~Does(i, "interpreter") /\ ~Does(i, "repl")
  BY DoesOne
<1>3. Steps \in Nat
  BY OrderIs
<1>4. i # Steps - 2 /\ i # Steps - 1 /\ i # Steps
  BY <1>1, <1>2
<1> HIDE DEF Steps
<1> QED  BY <1>3, <1>4, BeforeThree

(* A package is new when its instruction comes.                            *)
LEMMA NewPackage ==
  ASSUME InitializesInOrder, NEW i \in 1 .. Steps, Does(i, "package"),
         NEW all, NEW packs, Done(i, all, packs)
  PROVE  InitializeRuntime[i].of \notin DOMAIN packs
<1> DEFINE p == InitializeRuntime[i].of
<1>1. SUFFICES ASSUME p \in DOMAIN packs  PROVE FALSE
  OBVIOUS
<1>2. DOMAIN packs = {InitializeRuntime[m].of : m \in {k \in 1 .. i - 1 : Does(k, "package")}}
  BY DEF Done
<1>3. PICK m \in 1 .. i - 1 : Does(m, "package") /\ InitializeRuntime[m].of = p
  BY <1>1, <1>2
<1>4. m \in 1 .. Steps /\ m # i
  <2>1. Steps \in Nat
    BY OrderIs
  <2> HIDE DEF Steps
  <2> QED  BY <2>1
<1>5. m = i
  BY <1>3, <1>4 DEF InitializesInOrder, Of, Steps
<1> QED  BY <1>4, <1>5

LEMMA BootPackageKeeps ==
  ASSUME InitializesInOrder, Inv, BootPackage, ended' = ended
  PROVE  Inv'
<1> DEFINE act == [fn |-> "initialize_runtime", pc |-> Top.pc + 1, held |-> Top.held]
           p == Instruction.of
           o == Environment(Null, p)
           new == [global |-> Fresh, interned |-> << >>, exported |-> <<>>]
<1>1. /\ At("package") /\ Allocates(o, objects) /\ packages' = Inserted(packages, p, new)
      /\ acts' = Append(Below, ThenNext) /\ UNCHANGED <<stack, frames, value>>
  BY DEF BootPackage, Becomes
<1>2. /\ Top.fn = "initialize_runtime" /\ Does(Top.pc, "package") /\ Top.pc \in 1 .. Steps
      /\ Top.pc \in Nat /\ Steps \in Nat
  BY <1>1, BootDoes
<1>3. acts' = Append(Below, act) /\ Top.held \subseteq DOMAIN objects
  BY <1>1, <1>2, BootBecomes, BootIs
<1>4. Done(Top.pc, objects, packages) /\ Is(SystemReadtable, "readtable", objects)
  BY <1>1, <1>2, BootIs, ReadtableThere
<1>5. p \notin DOMAIN packages
  BY <1>2, <1>4, NewPackage DEF Instruction
<1>6. /\ DOMAIN packages' = DOMAIN packages \cup {p} /\ packages'[p] = new
      /\ \A q \in DOMAIN packages : packages'[q] = packages[q]
  <2> HIDE DEF new, p
  <2> QED  BY <1>1, <1>5 DEF Inserted
<1>7. /\ o.kind = "environment" /\ o.parent = Null /\ o.package = p
      /\ o = [kind |-> "environment", parent |-> o.parent, package |-> o.package,
              values |-> o.values, functions |-> o.functions]
  BY DEF Environment
<1>8. /\ new.global = Fresh /\ DOMAIN new.interned = {} /\ new.exported = <<>>
      /\ new = [global |-> new.global, interned |-> new.interned, exported |-> new.exported]
  OBVIOUS
<1>exported. IsSeq(new.exported) /\ Len(new.exported) = 0
  BY <1>8, EmptySeq DEF IsSeq
<1> HIDE DEF o, new, p
<1>9. HeapOK(objects, packages) /\ PackagesOK(objects, packages) /\ NamesOK(objects, packages)
  BY DEF Inv, ObjectsOK
<1>10. Altered(objects, objects, Fresh, o)
  BY NothingAltered
<1>11. /\ Added(objects', objects, Fresh, o) /\ Fresh \notin DOMAIN objects
       /\ DOMAIN objects' = DOMAIN objects \cup {Fresh} /\ objects'[Fresh] = o
       /\ \A id \in DOMAIN objects : objects'[id] = objects[id]
  BY <1>1, <1>9, AllocationAdds
<1>12. Quiet(objects, objects') /\ Grows(objects, objects')
  BY <1>9, <1>10, <1>11, AdditionIsQuiet DEF Quiet, Steady
<1>13. HeapOK(objects', packages')
  <2>1. MorePackages(packages, packages')
    BY <1>6 DEF MorePackages
  <2>2. ObjectOK(o, Fresh, objects, packages')
    BY <1>6, <1>7 DEF ObjectOK, EnvironmentOK
  <2> QED  BY <1>9, <1>10, <1>11, <2>1, <2>2, AdditionKeepsHeap
<1>14. PackagesOK(objects', packages')
  <2>1. \A q \in DOMAIN packages : PackageOK(packages'[q], q, objects')
    BY <1>6, <1>9, <1>12, PackageStaysOK DEF PackagesOK
  <2>2. PackageOK(new, p, objects')
    <3>1. Is(new.global, "environment", objects') /\ objects'[new.global].package = p
          /\ objects'[new.global].parent = Null
      BY <1>7, <1>8, <1>11 DEF Is
    <3> QED  BY <1>8, <1>exported, <3>1 DEF PackageOK
  <2> QED  BY <1>6, <2>1, <2>2 DEF PackagesOK
<1>15. NamesOK(objects', packages')
  <2>1. \A id \in DOMAIN objects' \ DOMAIN objects :
          objects'[id].kind = "symbol" => objects'[id].lexeme = Null
    BY <1>7, <1>11
  <2>2. \A q \in DOMAIN packages : DOMAIN packages[q].interned \subseteq DOMAIN packages'[q].interned
    BY <1>6
  <2> QED  BY <1>9, <1>11, <1>12, <2>1, <2>2, NamesStayOK
<1>16. Is(SystemReadtable, "readtable", objects')
  BY <1>4, <1>12 DEF Is, Grows, Lasts
<1>17. \A q, name : Bound(q, name, objects, packages) => Bound(q, name, objects', packages')
  <2>1. ASSUME NEW q, NEW name, Bound(q, name, objects, packages)
        PROVE  Bound(q, name, objects', packages')
    <3>1. q \in DOMAIN packages /\ packages'[q] = packages[q] /\ packages[q].global \in DOMAIN objects
      BY <1>6, <1>9, <2>1 DEF Bound, PackagesOK, PackageOK, Is
    <3>2. objects'[packages[q].global] = objects[packages[q].global]
      BY <1>11, <3>1
    <3> QED  BY <1>6, <1>11, <2>1, <3>1, <3>2 DEF Bound
  <2> QED  BY <2>1
<1>18. Done(Top.pc + 1, objects', packages')
  <2> DEFINE pc == Top.pc
  <2>1. ~Does(pc, "bind function") /\ Does(pc, "package") /\ InitializeRuntime[pc].of = p
    BY <1>2, DoesOne DEF p, Instruction
  <2>2. pc \in 1 .. Steps /\ Done(pc, objects, packages)
    BY <1>2, <1>4
  <2> HIDE DEF pc
  <2>3. ~(Steps - 2 < pc + 1)
    BY <2>1, <2>2, PackageIsEarly
  <2>4. DOMAIN packages' =
          DOMAIN packages \cup IF Does(pc, "package") THEN {InitializeRuntime[pc].of} ELSE {}
    BY <1>6, <2>1
  <2> HIDE DEF Steps
  <2>5. Done(pc + 1, objects', packages')
    BY <1>16, <1>17, <2>1, <2>2, <2>3, <2>4, DoneNext
  <2> QED  BY <2>5 DEF pc
<1>19. Holds(act, objects') /\ InternedFor(act, packages', value)
  <2>1. act.pc = Top.pc + 1
    OBVIOUS
  <2> HIDE DEF act
  <2> QED  BY <1>2, <2>1, NothingHeld
<1>20. Top.held \subseteq DOMAIN objects' /\ ObjectsOK(objects', packages')
  BY <1>3, <1>11, <1>13, <1>14, <1>15 DEF ObjectsOK
<1> QED  BY <1>1, <1>3, <1>12, <1>18, <1>19, <1>20, BootStepsOn

LEMMA PackageThere ==
  ASSUME InitializesInOrder, NEW i \in 1 .. Steps, Does(i, "intern"), NEW k \in Nat, i < k,
         NEW all, NEW packs, Done(k, all, packs)
  PROVE  InitializeRuntime[i].of \in DOMAIN packs
<1>1. PICK j \in 1 .. i - 1 : Does(j, "package") /\ Of(j, InitializeRuntime[i].of)
  BY DEF InitializesInOrder, Steps
<1>2. j \in 1 .. k - 1
  <2>1. Steps \in Nat
    BY OrderIs
  <2> HIDE DEF Steps
  <2> QED  BY <1>1, <2>1
<1>3. DOMAIN packs = {InitializeRuntime[m].of : m \in {h \in 1 .. k - 1 : Does(h, "package")}}
  BY DEF Done
<1> QED  BY <1>1, <1>2, <1>3 DEF Of

(* An environment gets a function for a symbol.                            *)
LEMMA FunctionSet ==
  ASSUME NEW packs, HeapOK(objects, packs), NEW g, Is(g, "environment", objects), NEW sym, NEW fn,
         objects' = [objects EXCEPT ![g].functions = Inserted(@, sym, fn)]
  PROVE  /\ DOMAIN objects' = DOMAIN objects /\ \A id \in DOMAIN objects : id # g => objects'[id] = objects[id]
         /\ objects'[g].kind = "environment"
         /\ objects'[g].functions = Inserted(objects[g].functions, sym, fn)
         /\ HeapOK(objects', packs) /\ Grows(objects, objects')
<1> DEFINE o == objects[g]
           F == Inserted(o.functions, sym, fn)
           p == [o EXCEPT !.functions = F]
<1>1. /\ DOMAIN objects' = DOMAIN objects /\ objects'[g] = p
      /\ \A id \in DOMAIN objects : id # g => objects'[id] = objects[id]
  BY DEF Is
<1>2. EnvironmentOK(o, g, objects, packs) /\ o.kind = "environment"
  BY DEF HeapOK, ObjectOK, Is
<1>3. o = [kind |-> "environment", parent |-> o.parent, package |-> o.package,
           values |-> o.values, functions |-> o.functions]
  BY <1>2 DEF EnvironmentOK
<1>4. p = [o EXCEPT !.functions = F]
  OBVIOUS
<1> HIDE DEF o, p, F
<1>5. p = [kind |-> "environment", parent |-> o.parent, package |-> o.package,
           values |-> o.values, functions |-> F]
  BY <1>3, <1>4
<1>6. /\ p.kind = "environment" /\ p.parent = o.parent /\ p.package = o.package /\ p.functions = F
      /\ p = [kind |-> "environment", parent |-> p.parent, package |-> p.package,
              values |-> p.values, functions |-> p.functions]
  BY <1>5
<1>7. Lasts(o, p)
  BY <1>2, <1>6 DEF Lasts
<1>8. Grows(objects, objects')
  <2>1. \A id \in DOMAIN objects : Lasts(objects[id], objects'[id])
    BY <1>1, <1>7 DEF Lasts, o
  <2> QED  BY <1>1, <2>1 DEF Grows
<1>9. HeapOK(objects', packs)
  <2>1. MorePackages(packs, packs)
    BY DEF MorePackages
  <2>2. \A id \in DOMAIN objects : ObjectOK(objects[id], id, objects', packs)
    BY <1>8, <2>1, ObjectStaysOK DEF HeapOK
  <2>3. ObjectOK(p, g, objects', packs)
    <3>1. ObjectOK(o, g, objects', packs)
      BY <2>2 DEF o, Is
    <3>2. EnvironmentOK(o, g, objects', packs)
      BY <1>2, <3>1 DEF ObjectOK
    <3>3. EnvironmentOK(p, g, objects', packs)
      BY <1>6, <3>2 DEF EnvironmentOK
    <3> QED  BY <1>6, <3>3 DEF ObjectOK
  <2>4. \A id \in DOMAIN objects' : ObjectOK(objects'[id], id, objects', packs)
    BY <1>1, <2>2, <2>3
  <2> QED  BY <1>1, <2>4 DEF HeapOK
<1> QED  BY <1>1, <1>6, <1>8, <1>9 DEF o, F

LEMMA BootBindFunctionKeeps ==
  ASSUME InitializesInOrder, Inv, BootBindFunction, ended' = ended
  PROVE  Inv'
<1> DEFINE held == {}
           act == [fn |-> "initialize_runtime", pc |-> Top.pc + 1, held |-> held]
           p == Instruction.of
           name == Instruction.name
           g == packages[p].global
           sym == value[2]
           f == CHOOSE h \in Top.held : TRUE
<1>1. /\ At("bind function")
      /\ objects' = [objects EXCEPT ![g].functions = Inserted(@, sym, f)]
      /\ \/ packages' = [packages EXCEPT ![p].exported = Append(@, sym)]
         \/ packages' = packages
      /\ acts' = Append(Below, [ThenNext EXCEPT !.held = {}]) /\ UNCHANGED <<stack, frames, value>>
  BY DEF BootBindFunction, Becomes
<1>2. /\ Top.fn = "initialize_runtime" /\ Does(Top.pc, "bind function") /\ Top.pc \in 1 .. Steps
      /\ Top.pc \in Nat /\ Steps \in Nat
  BY <1>1, BootDoes
<1>3. acts' = Append(Below, act)
  BY <1>1, <1>2, BootBecomes
<1>4. /\ Done(Top.pc, objects, packages) /\ Holds(Top, objects) /\ InternedFor(Top, packages, value)
      /\ Is(SystemReadtable, "readtable", objects)
  BY <1>1, <1>2, BootIs, ReadtableThere
<1>5. p \in DOMAIN packages /\ p # "USER"
  <2> DEFINE i == Top.pc - 1
  <2>1. i < Top.pc
    <3> DEFINE pc == Top.pc
    <3>1. pc \in Nat
      BY <1>2
    <3> HIDE DEF pc
    <3>2. pc - 1 < pc
      BY <3>1
    <3> QED  BY <3>2 DEF pc
  <2>2. Does(i, "intern") /\ InitializeRuntime[i].of = p /\ p # "USER"
    BY <1>2, BindsInOrder DEF Instruction
  <2>3. i \in 1 .. Steps
    BY <2>2, OrderIs
  <2> HIDE DEF i, p, Steps
  <2> QED  BY <1>2, <1>4, <2>1, <2>2, <2>3, PackageThere
<1>6. f \in DOMAIN objects /\ objects[f] = Inherent(name)
  <2>1. PICK h \in DOMAIN objects : Top.held = {h} /\ objects[h] = Inherent(name)
    BY <1>2, <1>4 DEF Holds, Instruction
  <2> QED  BY <2>1
<1>7. Chars(name) \in DOMAIN packages[p].interned /\ sym = packages[p].interned[Chars(name)]
  <2> DEFINE s == packages[p].interned[Chars(name)]
  <2>1. Chars(name) \in DOMAIN packages[p].interned /\ value = Object(s)
    BY <1>2, <1>4 DEF InternedFor, Instruction
  <2> HIDE DEF p, name
  <2>2. value[2] = s
    BY <2>1 DEF Object
  <2> QED  BY <2>1, <2>2
<1>8. /\ InitializeRuntime[Top.pc].of = p /\ InitializeRuntime[Top.pc].name = name
      /\ Chars(name) # NullLexeme
  BY <1>2, OrderIs DEF Instruction
<1> HIDE DEF p, name, sym, f
<1>9. HeapOK(objects, packages) /\ PackagesOK(objects, packages) /\ NamesOK(objects, packages)
  BY DEF Inv, ObjectsOK
<1>10. PackageOK(packages[p], p, objects)
  BY <1>5, <1>9 DEF PackagesOK
<1>11. Is(g, "environment", objects) /\ objects[g].package = p /\ InternedOK(Chars(name), sym, p, objects)
  BY <1>7, <1>10 DEF PackageOK
<1> HIDE DEF g
<1>12. /\ DOMAIN objects' = DOMAIN objects /\ \A id \in DOMAIN objects : id # g => objects'[id] = objects[id]
       /\ objects'[g].kind = "environment"
       /\ objects'[g].functions = Inserted(objects[g].functions, sym, f)
       /\ HeapOK(objects', packages) /\ Grows(objects, objects')
  BY <1>1, <1>9, <1>11, FunctionSet
<1>13. /\ DOMAIN packages' = DOMAIN packages
       /\ \A q \in DOMAIN packages :
            packages'[q].global = packages[q].global /\ packages'[q].interned = packages[q].interned
       /\ PackagesOK(objects', packages')
  <2>1. \A q \in DOMAIN packages : PackageOK(packages[q], q, objects')
    BY <1>9, <1>12, PackageStaysOK DEF PackagesOK
  <2>2. CASE packages' = packages
    BY <2>1, <2>2 DEF PackagesOK
  <2>3. CASE packages' = [packages EXCEPT ![p].exported = Append(@, sym)]
    <3> DEFINE old == packages[p]
               more == Append(old.exported, sym)
               new == [old EXCEPT !.exported = more]
    <3>1. /\ DOMAIN packages' = DOMAIN packages /\ packages'[p] = new
          /\ \A q \in DOMAIN packages : q # p => packages'[q] = packages[q]
      BY <1>5, <2>3
    <3>2. old = [global |-> old.global, interned |-> old.interned, exported |-> old.exported]
          /\ PackageOK(old, p, objects')
      BY <1>5, <2>1 DEF PackageOK
    <3>3. new = [old EXCEPT !.exported = more]
      OBVIOUS
    <3>4. IsSeq(old.exported) /\ \A i \in 1 .. Len(old.exported) : Is(old.exported[i], "symbol", objects')
      BY <3>2 DEF PackageOK
    <3>5. Is(sym, "symbol", objects')
      BY <1>11, <1>12 DEF InternedOK, Is, Grows, Lasts
    <3>6. IsSeq(more) /\ \A i \in 1 .. Len(more) : Is(more[i], "symbol", objects')
      <4> DEFINE xs == old.exported
                 n == Len(xs)
      <4>1. IsSeq(xs) /\ n \in Nat
        BY <3>4, SeqIs
      <4>2. /\ IsSeq(more) /\ Len(more) = n + 1 /\ more[n + 1] = sym
            /\ \A i \in 1 .. n : more[i] = xs[i]
        BY <4>1, AppendIs
      <4>3. \A i \in 1 .. n : Is(xs[i], "symbol", objects')
        BY <3>4
      <4> HIDE DEF xs, n, more
      <4>4. \A i \in 1 .. Len(more) : i \in 1 .. n \/ i = n + 1
        BY <4>1, <4>2
      <4> QED  BY <3>5, <4>2, <4>3, <4>4
    <3> HIDE DEF old, more, new
    <3>7. /\ new.global = old.global /\ new.interned = old.interned /\ new.exported = more
          /\ new = [global |-> new.global, interned |-> new.interned, exported |-> new.exported]
      BY <3>2, <3>3
    <3>8. PackageOK(new, p, objects')
      BY <3>2, <3>6, <3>7 DEF PackageOK
    <3> QED  BY <2>1, <3>1, <3>7, <3>8 DEF PackagesOK, old
  <2> QED  BY <1>1, <2>2, <2>3
<1>14. HeapOK(objects', packages')
  <2>1. MorePackages(packages, packages') /\ Grows(objects', objects')
    BY <1>13 DEF MorePackages, Grows, Lasts
  <2>2. \A id \in DOMAIN objects' : ObjectOK(objects'[id], id, objects', packages')
    BY <1>12, <2>1, ObjectStaysOK DEF HeapOK
  <2> QED  BY <1>12, <2>2 DEF HeapOK
<1>15. NamesOK(objects', packages')
  <2>1. \A id \in DOMAIN objects : objects[id].kind = "symbol" => objects'[id] = objects[id]
    BY <1>11, <1>12 DEF Is
  <2>2. \A id \in DOMAIN objects' \ DOMAIN objects : objects'[id].kind = "symbol" => objects'[id].lexeme = Null
    BY <1>12
  <2>3. \A q \in DOMAIN packages : DOMAIN packages[q].interned \subseteq DOMAIN packages'[q].interned
    BY <1>13
  <2> QED  BY <1>9, <1>12, <2>1, <2>2, <2>3, NamesStayOK
<1>16. Is(SystemReadtable, "readtable", objects')
  BY <1>4, <1>12 DEF Is, Grows, Lasts
<1>17. Bound(p, name, objects', packages')
  <2>1. /\ packages'[p].global = g /\ packages'[p].interned[Chars(name)] = sym /\ p \in DOMAIN packages'
        /\ Chars(name) \in DOMAIN packages'[p].interned
    BY <1>5, <1>7, <1>13 DEF g
  <2>2. sym \in DOMAIN objects'[g].functions /\ objects'[g].functions[sym] = f
    BY <1>12 DEF Inserted
  <2>3. f \in DOMAIN objects' /\ objects'[f] = Inherent(name)
    BY <1>6, <1>12 DEF Grows, Lasts, Inherent
  <2> QED  BY <2>1, <2>2, <2>3 DEF Bound
<1>18. ASSUME NEW q, NEW other, Chars(other) # NullLexeme, Bound(q, other, objects, packages),
              ~(q = p /\ Chars(name) = Chars(other))
       PROVE  Bound(q, other, objects', packages')
  <2> DEFINE h == packages[q].global
             s == packages[q].interned[Chars(other)]
             was == objects[h].functions
             is == objects'[h].functions
  <2>1. /\ q \in DOMAIN packages /\ Chars(other) \in DOMAIN packages[q].interned
        /\ s \in DOMAIN was /\ was[s] \in DOMAIN objects /\ objects[was[s]] = Inherent(other)
    BY <1>18 DEF Bound
  <2>2. /\ Is(h, "environment", objects) /\ objects[h].package = q
        /\ InternedOK(Chars(other), s, q, objects)
    <3>1. PackageOK(packages[q], q, objects)
      BY <1>9, <2>1 DEF PackagesOK
    <3> QED  BY <2>1, <3>1 DEF PackageOK
  <2>3. /\ q \in DOMAIN packages' /\ packages'[q].global = h
        /\ packages'[q].interned = packages[q].interned
    BY <1>13, <2>1
  <2> HIDE DEF h, s, was, is
  <2>4. s \in DOMAIN is /\ is[s] = was[s]
    <3>1. CASE h = g
      <4>1. q = p
        BY <1>11, <2>2, <3>1
      <4>2. Chars(other) # Chars(name)
        BY <1>18, <4>1
      <4>3. s # sym
        BY <1>8, <1>11, <1>18, <2>2, <4>2 DEF InternedOK
      <4> QED  BY <1>12, <2>1, <3>1, <4>3 DEF Inserted, is, was
    <3>2. CASE h # g
      BY <1>12, <2>1, <2>2, <3>2 DEF is, was, Is
    <3> QED  BY <3>1, <3>2
  <2>5. was[s] \in DOMAIN objects' /\ objects'[was[s]] = Inherent(other)
    BY <1>12, <2>1 DEF Grows, Lasts, Inherent
  <2> QED  BY <2>1, <2>3, <2>4, <2>5 DEF Bound, h, s, is
<1>19. Done(Top.pc + 1, objects', packages')
  <2> DEFINE pc == Top.pc
  <2>1. ~Does(pc, "package") /\ Does(pc, "bind function")
    BY <1>2, DoesOne
  <2>2. pc \in 1 .. Steps /\ Done(pc, objects, packages) /\ InitializeRuntime[pc].of = p
        /\ InitializeRuntime[pc].name = name
    BY <1>2, <1>4, <1>8
  <2> HIDE DEF pc
  <2>3. ~(Steps - 2 < pc + 1)
    BY <2>1, <2>2, PackageIsEarly
  <2>4. DOMAIN packages' =
          DOMAIN packages \cup IF Does(pc, "package") THEN {InitializeRuntime[pc].of} ELSE {}
    BY <1>13, <2>1
  <2>5. \A q, other : Chars(other) # NullLexeme /\ Bound(q, other, objects, packages) =>
          \/ /\ Does(pc, "bind function") /\ InitializeRuntime[pc].of = q
             /\ Chars(InitializeRuntime[pc].name) = Chars(other)
          \/ Bound(q, other, objects', packages')
    BY <1>18, <2>1, <2>2
  <2>6. Bound(InitializeRuntime[pc].of, InitializeRuntime[pc].name, objects', packages')
    BY <1>17, <2>2
  <2> HIDE DEF Steps
  <2>7. Done(pc + 1, objects', packages')
    BY <1>16, <2>2, <2>3, <2>4, <2>5, <2>6, DoneNext
  <2> QED  BY <2>7 DEF pc
<1>20. Holds(act, objects') /\ InternedFor(act, packages', value)
  <2>1. act.pc = Top.pc + 1
    OBVIOUS
  <2> HIDE DEF act
  <2> QED  BY <1>2, <2>1, NothingHeld
<1>21. held \subseteq DOMAIN objects' /\ ObjectsOK(objects', packages') /\ Grows(objects, objects')
  BY <1>12, <1>13, <1>14, <1>15 DEF ObjectsOK
<1> HIDE DEF held
<1> QED  BY <1>1, <1>3, <1>19, <1>20, <1>21, BootStepsOn


(* The readtable gets the macro characters.                                *)
LEMMA MacrosSet ==
  ASSUME NEW packs, HeapOK(objects, packs), NEW t, Is(t, "readtable", objects), NEW macros,
         objects' = [objects EXCEPT ![t].macros = macros]
  PROVE  /\ DOMAIN objects' = DOMAIN objects /\ \A id \in DOMAIN objects : id # t => objects'[id] = objects[id]
         /\ Is(t, "readtable", objects') /\ objects'[t].macros = macros
         /\ HeapOK(objects', packs) /\ Grows(objects, objects')
<1> DEFINE o == objects[t]
           p == [o EXCEPT !.macros = macros]
<1>1. /\ DOMAIN objects' = DOMAIN objects /\ objects'[t] = p
      /\ \A id \in DOMAIN objects : id # t => objects'[id] = objects[id]
  BY DEF Is
<1>2. o.kind = "readtable" /\ o = [kind |-> "readtable", macros |-> o.macros]
  BY DEF HeapOK, ObjectOK, Is
<1>3. p = [o EXCEPT !.macros = macros]
  OBVIOUS
<1> HIDE DEF o, p
<1>4. p = [kind |-> "readtable", macros |-> macros]
  BY <1>2, <1>3
<1>5. p.kind = "readtable" /\ p.macros = macros /\ p = [kind |-> "readtable", macros |-> p.macros]
  BY <1>4
<1>6. Grows(objects, objects')
  <2>1. Lasts(o, p)
    BY <1>2, <1>5 DEF Lasts
  <2>2. \A id \in DOMAIN objects : Lasts(objects[id], objects'[id])
    BY <1>1, <2>1 DEF Lasts, o
  <2> QED  BY <1>1, <2>2 DEF Grows
<1>7. HeapOK(objects', packs)
  <2>1. MorePackages(packs, packs)
    BY DEF MorePackages
  <2>2. \A id \in DOMAIN objects : ObjectOK(objects[id], id, objects', packs)
    BY <1>6, <2>1, ObjectStaysOK DEF HeapOK
  <2>3. ObjectOK(p, t, objects', packs)
    BY <1>5 DEF ObjectOK
  <2>4. \A id \in DOMAIN objects' : ObjectOK(objects'[id], id, objects', packs)
    BY <1>1, <2>2, <2>3
  <2> QED  BY <1>1, <2>4 DEF HeapOK
<1> QED  BY <1>1, <1>5, <1>6, <1>7 DEF Is

(* What a package imports it has under the names of the symbols.           *)
LEMMA ImportedIs ==
  ASSUME NEW all, NEW packs, NEW package, PackageOK(package, "USER", all),
         NEW exported, \A sym \in exported : Is(sym, "symbol", all), all = objects
  PROVE  LET new == [package EXCEPT !.interned = Imported(exported, @)]
         IN  /\ PackageOK(new, "USER", all) /\ new.global = package.global
             /\ DOMAIN package.interned \subseteq DOMAIN new.interned
<1> DEFINE names == {Name(sym) : sym \in exported}
           interned == Imported(exported, package.interned)
           new == [package EXCEPT !.interned = Imported(exported, @)]
<1>1. /\ DOMAIN interned = DOMAIN package.interned \cup names
      /\ \A name \in DOMAIN interned :
           interned[name] = IF name \in names THEN CHOOSE sym \in exported : Name(sym) = name
                            ELSE package.interned[name]
  BY DEF Imported
<1>2. package = [global |-> package.global, interned |-> package.interned, exported |-> package.exported]
  BY DEF PackageOK
<1>3. ASSUME NEW name \in DOMAIN interned  PROVE InternedOK(name, interned[name], "USER", all)
  <2>1. CASE name \in names
    <3>1. interned[name] \in exported /\ Name(interned[name]) = name
      BY <1>1, <2>1
    <3> HIDE DEF interned
    <3> QED  BY <3>1 DEF Name, InternedOK
  <2>2. CASE name \notin names
    BY <1>1, <2>2 DEF PackageOK
  <2> QED  BY <2>1, <2>2
<1>4. new = [package EXCEPT !.interned = interned]
  OBVIOUS
<1> DEFINE g == package.global
           e == package.exported
<1> HIDE DEF interned, names, new
<1>5. new = [global |-> g, interned |-> interned, exported |-> e]
  BY <1>2, <1>4
<1> HIDE DEF g, e
<1>6. /\ new.global = g /\ new.interned = interned /\ new.exported = e
      /\ new = [global |-> new.global, interned |-> new.interned, exported |-> new.exported]
  BY <1>5
<1>7. PackageOK(new, "USER", all) /\ new.global = package.global
      /\ DOMAIN package.interned \subseteq DOMAIN new.interned
  BY <1>1, <1>3, <1>6 DEF PackageOK, g, e
<1> QED  BY <1>7 DEF new

(* A function that was installed is bound.                                 *)
LEMMA InstalledBound ==
  ASSUME InitializesInOrder, NEW p, NEW name, Installed(p, name), NEW pc \in Nat, Steps - 2 <= pc,
         NEW all, NEW packs, Done(pc, all, packs)
  PROVE  Bound(p, name, all, packs) /\ p # "USER"
<1>1. PICK i \in DOMAIN InitializeRuntime :
        Does(i, "bind function") /\ Of(i, p) /\ InitializeRuntime[i].name = name
  BY DEF Installed
<1>2. i \in 1 .. Steps /\ Steps \in Nat
  BY <1>1, OrderIs
<1>3. i < Steps - 2
  BY <1>1, <1>2, PackageIsEarly
<1>4. i \in 1 .. pc - 1
  <2> HIDE DEF Steps
  <2> QED  BY <1>2, <1>3
<1>5. InitializeRuntime[i].of # "USER" /\ InitializeRuntime[i].of = p
  BY <1>1, BindsInOrder DEF Of
<1> QED  BY <1>1, <1>4, <1>5 DEF Done


LEMMA UserThere ==
  ASSUME InitializesInOrder, NEW pc \in Nat, Steps - 2 <= pc, NEW all, NEW packs, Done(pc, all, packs)
  PROVE  "USER" \in DOMAIN packs
<1>1. PICK i \in 1 .. Steps : Does(i, "package") /\ InitializeRuntime[i].of = "USER"
  BY DEF InitializesInOrder, Of, Steps
<1>2. i < Steps - 2 /\ Steps \in Nat
  BY <1>1, PackageIsEarly, OrderIs
<1>3. i \in 1 .. pc - 1
  <2> HIDE DEF Steps
  <2> QED  BY <1>2
<1>4. DOMAIN packs = {InitializeRuntime[j].of : j \in {k \in 1 .. pc - 1 : Does(k, "package")}}
  BY DEF Done
<1> QED  BY <1>1, <1>3, <1>4

LEMMA BootListPackagesKeeps ==
  ASSUME InitializesInOrder, Inv, BootListPackages, ended' = ended
  PROVE  Inv'
<1> DEFINE act == [fn |-> "initialize_runtime", pc |-> Top.pc + 1, held |-> Top.held]
           exported == ToSet(packages["COMMON-LISP"].exported)
           user == packages["USER"]
           new == [user EXCEPT !.interned = Imported(exported, @)]
           macros == [c \in MacroCharacters |-> FunctionNamed("SYSTEM", ReaderMacros[c])]
<1>1. /\ At("list packages") /\ packages' = [packages EXCEPT !["USER"] = new]
      /\ objects' = [objects EXCEPT ![SystemReadtable].macros = macros]
      /\ acts' = Append(Below, ThenNext) /\ UNCHANGED <<stack, frames, value>>
  BY DEF BootListPackages, Becomes
<1>2. /\ Top.fn = "initialize_runtime" /\ Does(Top.pc, "list packages") /\ Top.pc \in 1 .. Steps
      /\ Top.pc \in Nat /\ Steps \in Nat
  BY <1>1, BootDoes
<1>3. acts' = Append(Below, act) /\ Top.held \subseteq DOMAIN objects
  BY <1>1, <1>2, BootBecomes, BootIs
<1>4. Done(Top.pc, objects, packages) /\ Is(SystemReadtable, "readtable", objects)
  BY <1>1, <1>2, BootIs, ReadtableThere
<1>5. Top.pc = Steps - 2
  BY <1>2 DEF InitializesInOrder, Steps
<1>late. Steps - 2 <= Top.pc
  <2> DEFINE pc == Top.pc
  <2>1. pc = Steps - 2 /\ pc \in Nat /\ Steps \in Nat
    BY <1>2, <1>5
  <2> HIDE DEF pc, Steps
  <2>2. Steps - 2 <= pc
    BY <2>1
  <2> QED  BY <2>2 DEF pc
<1>6. \A p, name : Installed(p, name) => Bound(p, name, objects, packages) /\ p # "USER"
  BY <1>2, <1>4, <1>late, InstalledBound
<1>7. "COMMON-LISP" \in DOMAIN packages
  <2>1. Installed("COMMON-LISP", "READ")
    BY DEF InitializesInOrder
  <2> QED  BY <1>6, <2>1 DEF Bound
<1>8. "USER" \in DOMAIN packages
  BY <1>2, <1>4, <1>late, UserThere
<1>9. HeapOK(objects, packages) /\ PackagesOK(objects, packages) /\ NamesOK(objects, packages)
  BY DEF Inv, ObjectsOK
<1>10. \A sym \in exported : Is(sym, "symbol", objects)
  <2> DEFINE xs == packages["COMMON-LISP"].exported
  <2>1. IsSeq(xs) /\ \A i \in 1 .. Len(xs) : Is(xs[i], "symbol", objects)
    BY <1>7, <1>9 DEF PackagesOK, PackageOK
  <2>2. DOMAIN xs = 1 .. Len(xs)
    BY <2>1, SeqIs
  <2> HIDE DEF xs
  <2>3. \A sym \in ToSet(xs) : Is(sym, "symbol", objects)
    BY <2>1, <2>2 DEF ToSet
  <2> QED  BY <2>3 DEF xs
<1>11. /\ PackageOK(user, "USER", objects) /\ PackageOK(new, "USER", objects)
       /\ new.global = user.global /\ DOMAIN user.interned \subseteq DOMAIN new.interned
  <2>1. PackageOK(user, "USER", objects)
    BY <1>8, <1>9 DEF PackagesOK
  <2> HIDE DEF exported, user
  <2> QED  BY <1>10, <2>1, ImportedIs
<1>12. /\ DOMAIN packages' = DOMAIN packages /\ packages'["USER"] = new
       /\ \A q \in DOMAIN packages : q # "USER" => packages'[q] = packages[q]
  BY <1>1, <1>8
<1> HIDE DEF exported, new
<1>13. \A c \in MacroCharacters : c \in DOMAIN macros /\ macros[c] \in DOMAIN objects
  <2>1. ASSUME NEW c \in MacroCharacters  PROVE FunctionNamed("SYSTEM", ReaderMacros[c]) \in DOMAIN objects
    <3>1. Installed("SYSTEM", ReaderMacros[c])
      BY DEF InitializesInOrder
    <3>2. Bound("SYSTEM", ReaderMacros[c], objects, packages)
      BY <1>6, <3>1
    <3> QED  BY <3>2, FunctionIs DEF Inv
  <2> QED  BY <2>1
<1> HIDE DEF macros
<1>14. /\ DOMAIN objects' = DOMAIN objects
       /\ \A id \in DOMAIN objects : id # SystemReadtable => objects'[id] = objects[id]
       /\ Is(SystemReadtable, "readtable", objects') /\ objects'[SystemReadtable].macros = macros
       /\ HeapOK(objects', packages) /\ Grows(objects, objects')
  BY <1>1, <1>4, <1>9, MacrosSet
<1>15. PackagesOK(objects', packages')
  <2>1. \A q \in DOMAIN packages : PackageOK(packages[q], q, objects')
    BY <1>9, <1>14, PackageStaysOK DEF PackagesOK
  <2>2. PackageOK(new, "USER", objects')
    BY <1>9, <1>11, <1>14, PackageStaysOK
  <2> QED  BY <1>12, <2>1, <2>2 DEF PackagesOK
<1>16. HeapOK(objects', packages')
  <2>1. MorePackages(packages, packages') /\ Grows(objects', objects')
    BY <1>12 DEF MorePackages, Grows, Lasts
  <2>2. \A id \in DOMAIN objects' : ObjectOK(objects'[id], id, objects', packages')
    BY <1>14, <2>1, ObjectStaysOK DEF HeapOK
  <2> QED  BY <1>14, <2>2 DEF HeapOK
<1>17. NamesOK(objects', packages')
  <2>1. \A id \in DOMAIN objects : objects[id].kind = "symbol" => objects'[id] = objects[id]
    BY <1>4, <1>14 DEF Is
  <2>2. \A id \in DOMAIN objects' \ DOMAIN objects : objects'[id].kind = "symbol" => objects'[id].lexeme = Null
    BY <1>14
  <2>3. \A q \in DOMAIN packages : DOMAIN packages[q].interned \subseteq DOMAIN packages'[q].interned
    BY <1>11, <1>12
  <2> QED  BY <1>9, <1>14, <2>1, <2>2, <2>3, NamesStayOK
<1>18. ASSUME NEW q, NEW name, q # "USER", Bound(q, name, objects, packages)
       PROVE  Bound(q, name, objects', packages')
  <2>1. q \in DOMAIN packages /\ packages'[q] = packages[q] /\ Is(packages[q].global, "environment", objects)
    BY <1>9, <1>12, <1>18 DEF Bound, PackagesOK, PackageOK
  <2>2. objects'[packages[q].global] = objects[packages[q].global]
    BY <1>4, <1>14, <2>1 DEF Is
  <2>3. \A f \in DOMAIN objects : objects[f] = Inherent(name) => objects'[f] = Inherent(name)
    BY <1>14 DEF Grows, Lasts, Inherent
  <2> QED  BY <1>12, <1>14, <1>18, <2>1, <2>2, <2>3 DEF Bound
<1>19. Done(Top.pc + 1, objects', packages')
  <2> DEFINE pc == Top.pc
             n == pc + 1
  <2>1. /\ ~Does(pc, "package") /\ ~Does(pc, "bind function")
    BY <1>2, DoesOne
  <2>2. pc \in 1 .. Steps /\ Done(pc, objects, packages)
    BY <1>2, <1>4
  <2> HIDE DEF pc
  <2>3. n # 1 /\ 1 .. n - 1 = (1 .. pc - 1) \cup {pc}
    BY <2>2, StepsSoFar
  <2>4. DOMAIN packages' = {InitializeRuntime[j].of : j \in {k \in 1 .. n - 1 : Does(k, "package")}}
    <3>1. {k \in 1 .. n - 1 : Does(k, "package")} = {k \in 1 .. pc - 1 : Does(k, "package")}
      BY <2>1, <2>3
    <3> QED  BY <1>12, <2>2, <3>1 DEF Done
  <2>5. \A j \in 1 .. n - 1 : Does(j, "bind function") =>
          Bound(InitializeRuntime[j].of, InitializeRuntime[j].name, objects', packages')
    <3>1. ASSUME NEW j \in 1 .. n - 1, Does(j, "bind function")
          PROVE  Bound(InitializeRuntime[j].of, InitializeRuntime[j].name, objects', packages')
      <4>1. j \in 1 .. pc - 1
        BY <2>1, <2>3, <3>1
      <4>2. Bound(InitializeRuntime[j].of, InitializeRuntime[j].name, objects, packages)
        BY <2>2, <3>1, <4>1 DEF Done
      <4>3. InitializeRuntime[j].of # "USER"
        BY <3>1, BindsInOrder
      <4> QED  BY <1>18, <4>2, <4>3
    <3> QED  BY <3>1
  <2> HIDE DEF n, Steps
  <2>6. Done(n, objects', packages')
    BY <1>13, <1>14, <2>3, <2>4, <2>5 DEF Done
  <2> QED  BY <2>6 DEF pc, n
<1>20. Holds(act, objects') /\ InternedFor(act, packages', value)
  <2>1. act.pc = Top.pc + 1
    OBVIOUS
  <2> HIDE DEF act
  <2> QED  BY <1>2, <2>1, NothingHeld
<1>21. Top.held \subseteq DOMAIN objects' /\ ObjectsOK(objects', packages') /\ Grows(objects, objects')
  BY <1>3, <1>14, <1>15, <1>16, <1>17 DEF ObjectsOK
<1> QED  BY <1>1, <1>3, <1>19, <1>20, <1>21, BootStepsOn


LEMMA BootInterpreterKeeps ==
  ASSUME InitializesInOrder, Inv, BootInterpreter, ended' = ended
  PROVE  Inv'
<1> DEFINE o == InterpreterBlock
           pc == Top.pc + 1
           act == [fn |-> "initialize_runtime", pc |-> pc, held |-> Top.held]
           g == packages["USER"].global
<1>1. /\ At("interpreter") /\ Allocates(o, objects) /\ packages' = packages
      /\ frame_stack' = <<g>> /\ frame_cap' = InitialCapacity /\ last_return_value' = <<Nil>>
      /\ acts' = Append(Below, ThenNext) /\ UNCHANGED <<stack, value>>
  BY DEF BootInterpreter, Becomes
<1>2. /\ Top.fn = "initialize_runtime" /\ Does(Top.pc, "interpreter") /\ Top.pc \in 1 .. Steps
      /\ Top.pc \in Nat /\ Steps \in Nat
  BY <1>1, BootDoes
<1>3. acts' = Append(Below, act) /\ Top.held \subseteq DOMAIN objects /\ Done(Top.pc, objects, packages)
  BY <1>1, <1>2, BootBecomes, BootIs
<1>4. Top.pc = Steps - 1
  BY <1>2 DEF InitializesInOrder, Steps
<1>5. Steps - 2 <= Top.pc /\ pc = Steps /\ Top.pc <= Steps
  <2> DEFINE i == Top.pc
  <2>1. i = Steps - 1 /\ i \in Nat /\ Steps \in Nat
    BY <1>2, <1>4
  <2> HIDE DEF i, Steps
  <2>2. Steps - 2 <= i /\ i + 1 = Steps /\ i <= Steps
    BY <2>1
  <2> QED  BY <2>2 DEF i
<1>6. Is(g, "environment", objects)
  <2>1. "USER" \in DOMAIN packages
    BY <1>2, <1>3, <1>5, UserThere
  <2> QED  BY <2>1 DEF Inv, ObjectsOK, PackagesOK, PackageOK
<1>7. HeapGrows /\ Allocated(o)
  <2>1. ObjectOK(o, Fresh, objects, packages) /\ o.kind # "symbol"
    BY DEF ObjectOK, InterpreterBlock
  <2>2. Altered(objects, objects, Fresh, o)
    BY NothingAltered
  <2> QED  BY <1>1, <2>1, <2>2, QuietAllocation DEF Inv
<1>8. Done(pc, objects', packages')
  BY <1>1, <1>7, DoneGrows
<1>9. /\ Top.held \subseteq DOMAIN objects' /\ ObjectsOK(objects', packages')
      /\ Grows(objects, objects')
  BY <1>3, <1>7 DEF Allocated, HeapGrows, Steady
<1>10. Holds(act, objects') /\ InternedFor(act, packages', value')
  <2>1. act.pc = Top.pc + 1
    OBVIOUS
  <2> HIDE DEF act
  <2> QED  BY <1>2, <2>1, NothingHeld
<1>11. FramesOK(frame_stack', frame_cap', last_return_value', objects') /\ Len(frame_stack') = 1
  <2> HIDE DEF g
  <2>1. IsSeq(<<g>>) /\ Len(<<g>>) = 1 /\ <<g>>[1] = g /\ IsSeq(<<Nil>>) /\ Len(<<Nil>>) = 1
    BY SingleIs
  <2>2. Is(g, "environment", objects')
    BY <1>6, <1>9 DEF Is, Grows, Lasts
  <2>3. InitialCapacity \in Nat /\ 1 <= InitialCapacity
    BY CapacityAssumption
  <2>4. \A i \in 1 .. 1 : <<g>>[i] = g
    BY <2>1
  <2> QED  BY <1>1, <2>1, <2>2, <2>3, <2>4 DEF FramesOK
<1>12. FormOK(value', objects')
  BY <1>1, <1>9 DEF Inv, ValueOK, FormOK, Grows
<1>13. /\ act = [fn |-> "initialize_runtime", pc |-> pc, held |-> act.held] /\ act.held = Top.held
       /\ pc = Top.pc + 1
  OBVIOUS
<1>14. Len(frame_stack') = IF pc < Steps THEN 0 ELSE 1
  <2>1. Steps \in Nat /\ pc = Steps
    BY <1>2, <1>5
  <2> HIDE DEF pc, Steps
  <2> QED  BY <1>11, <2>1
<1> HIDE DEF act, pc
<1> QED  BY <1>1, <1>2, <1>3, <1>5, <1>8, <1>9, <1>10, <1>11, <1>12, <1>13, <1>14, BootGoesOn


LEMMA BootCallsReplKeeps ==
  ASSUME InitializesInOrder, Inv, BootCallsRepl, ended' = ended
  PROVE  Inv'
<1> DEFINE pc == Top.pc + 1
           act == [fn |-> "initialize_runtime", pc |-> pc, held |-> Top.held]
           fn == FunctionNamed("SYSTEM", "REPL")
           callee == CallAct(0)
           lo == [forms |-> 0, frames |-> Len(frame_stack), conses |-> 0]
           hi == [forms |-> Len(form_stack'), frames |-> Len(frame_stack), conses |-> 0]
<1>1. /\ At("repl") /\ Pushes(<<Object(fn)>> \o <<>>) /\ acts' = Below \o <<ThenNext, callee>>
      /\ UNCHANGED <<heap, image, frames, value, ended>>
  <2>1. Len(<<>>) = 0
    BY EmptySeq
  <2> QED  BY <2>1 DEF BootCallsRepl, CallsFunction, Calls
<1>2. /\ Top.fn = "initialize_runtime" /\ Does(Top.pc, "repl") /\ Top.pc \in 1 .. Steps
      /\ Top.pc \in Nat /\ Steps \in Nat
  BY <1>1, BootDoes
<1>3. /\ acts' = Below \o <<act, callee>> /\ Len(form_stack) = 0
      /\ Done(Top.pc, objects, packages) /\ Len(frame_stack) = IF Top.pc < Steps THEN 0 ELSE 1
  BY <1>1, <1>2, BootBecomes, BootIs
<1>4. Top.pc = Steps
  BY <1>2 DEF InitializesInOrder, Steps
<1>5. Steps - 2 <= Top.pc /\ pc = Steps + 1 /\ Top.pc <= Steps
  <2> DEFINE i == Top.pc
  <2>1. i = Steps /\ i \in Nat /\ Steps \in Nat
    BY <1>2, <1>4
  <2> HIDE DEF i, Steps
  <2>2. Steps - 2 <= i /\ i + 1 = Steps + 1 /\ i <= Steps
    BY <2>1
  <2> QED  BY <2>2 DEF i
<1>6. fn \in DOMAIN objects /\ objects[fn] = Inherent("REPL")
  <2>1. Installed("SYSTEM", "REPL")
    BY DEF InitializesInOrder
  <2>2. Bound("SYSTEM", "REPL", objects, packages)
    BY <1>2, <1>3, <1>5, <2>1, InstalledBound
  <2> QED  BY <2>2, FunctionIs DEF Inv
<1>7. Done(pc, objects, packages)
  <2>1. HeapGrows /\ objects' = objects /\ packages' = packages
    BY <1>1, HeapStays DEF heap, image
  <2> QED  BY <1>1, <2>1, DoneGrows
<1>8. Holds(act, objects)
  <2>1. act.pc = Top.pc + 1
    OBVIOUS
  <2> HIDE DEF act
  <2> QED  BY <1>2, <2>1, NothingHeld
<1>9. Len(frame_stack) = 1 /\ Len(frame_stack) = IF pc < Steps THEN 0 ELSE 1
  <2>1. Steps \in Nat /\ pc = Steps + 1 /\ Top.pc = Steps
    BY <1>2, <1>4, <1>5
  <2> HIDE DEF pc, Steps
  <2> QED  BY <1>3, <2>1
<1> HIDE DEF fn
<1>10. /\ FormsOK(form_stack', form_cap', objects) /\ Len(form_stack') = 1
       /\ form_stack'[1] = Object(fn)
  <2> DEFINE m == Len(form_stack)
             none == <<>>
             n == Len(none)
  <2>1. objects' = objects
    BY <1>1 DEF heap
  <2>2. IsSeq(none) /\ n = 0 /\ m = 0
    BY <1>3, EmptySeq DEF IsSeq
  <2>3. \A i \in 1 .. n : FormOK(none[i], objects)
    BY <2>2
  <2>4. Pushes(<<Object(fn)>> \o none)
    BY <1>1
  <2> HIDE DEF none
  <2>5. FormsOK(form_stack', form_cap', objects') /\ Len(form_stack') = m + n + 1
        /\ form_stack'[m + 1] = Object(fn)
    BY <1>6, <2>1, <2>2, <2>3, <2>4, PushedCall DEF Inv
  <2> HIDE DEF m, n
  <2>6. m + n + 1 = 1 /\ m + 1 = 1
    BY <2>2
  <2> QED  BY <2>1, <2>5, <2>6
<1>11. callee = [fn |-> "call", pc |-> "begin", fn_index |-> 0, arg_count |-> 0,
                 arg_i |-> 0, held |-> {}]
  BY <1>3 DEF CallAct
<1> HIDE DEF callee
<1>12. /\ callee.fn = "call" /\ callee.pc = "begin" /\ callee.fn_index = 0
       /\ callee.arg_count = 0 /\ callee.arg_i = 0 /\ callee.held = {}
       /\ callee = [fn |-> callee.fn, pc |-> callee.pc, fn_index |-> callee.fn_index,
                    arg_count |-> callee.arg_count, arg_i |-> callee.arg_i, held |-> callee.held]
  BY <1>11
<1>13. ActOK(callee, objects, packages)
  <2>1. CallOK(callee)
    BY <1>12 DEF CallOK
  <2> QED  BY <1>12, <2>1 DEF ActOK, Readers
<1>14. ActLaid(callee, lo, hi, form_stack', objects)
  <2>1. lo.forms = 0 /\ lo.frames = 1 /\ hi.forms = 1 /\ hi.frames = 1
    BY <1>9, <1>10
  <2> HIDE DEF lo, hi
  <2>2. Suits(form_stack'[lo.forms + 1], 0, objects)
    <3>1. lo.forms + 1 = 1
      BY <2>1
    <3> QED  BY <1>6, <1>10, <3>1 DEF Suits
  <2>3. CallLaid(callee, lo, hi, form_stack', objects)
    BY <1>12, <2>1, <2>2 DEF CallLaid
  <2> QED  BY <1>12, <2>1, <2>3 DEF ActLaid, Readers
<1>15. act.fn = "initialize_runtime" /\ act.pc = Steps + 1
  BY <1>5
<1>16. act = [fn |-> "initialize_runtime", pc |-> pc, held |-> Top.held] /\ pc = Top.pc + 1
  OBVIOUS
<1> HIDE DEF act, pc
<1>17. InternsFor(act, callee) /\ Waits(act, callee) /\ callee.fn # "'"
  <2> HIDE DEF Steps
  <2> QED  BY <1>12, <1>15 DEF InternsFor, Waits, Readers
<1> QED  BY <1>1, <1>2, <1>3, <1>5, <1>7, <1>8, <1>9, <1>10, <1>13, <1>14, <1>16, <1>17, BootCalls


----------------------------------------------------------------------------
(* The invariant holds from the start on                                   *)

LEMMA InitIsInv ==
  ASSUME InitializesInOrder, Init
  PROVE  Inv
<1> DEFINE zero == [forms |-> 0, frames |-> 0, conses |-> 0]
           c == [i \in 0 .. 1 |-> zero]
<1>1. /\ objects = << >> /\ packages = << >> /\ form_stack = <<>> /\ form_cap = 0
      /\ last_return_value = <<>> /\ frame_stack = <<>> /\ frame_cap = 0
      /\ acts = <<BootAct>> /\ value = Nil /\ ended = "running"
  BY DEF Init, RuntimeInit
<1>2. /\ Steps \in Nat /\ 3 < Steps /\ DOMAIN InitializeRuntime = 1 .. Steps
  BY OrderIs
<1>3. IsSeq(<<>>) /\ Len(<<>>) = 0 /\ DOMAIN <<>> = {}
  <2>1. IsSeq(<<>>) /\ Len(<<>>) = 0
    BY EmptySeq, LenProperties DEF IsSeq
  <2> QED  BY <2>1, SeqIs
<1>4. IsSeq(acts) /\ Len(acts) = 1 /\ acts[1] = BootAct
  BY <1>1, SingleIs
<1>5. /\ BootAct.fn = "initialize_runtime" /\ BootAct.pc = 1 /\ BootAct.held = {}
      /\ BootAct = [fn |-> BootAct.fn, pc |-> BootAct.pc, held |-> BootAct.held]
  BY DEF BootAct
<1>6. ObjectsOK(objects, packages)
  <2>1. DOMAIN objects = 0 .. 0 - 1 /\ DOMAIN packages = {} /\ DOMAIN objects = {}
    BY <1>1, <1>3
  <2> QED  BY <2>1 DEF ObjectsOK, HeapOK, PackagesOK, NamesOK
<1>7. ActsOK(acts, objects, packages)
  <2>1. 1 \in 1 .. Steps + 1
    <3> HIDE DEF Steps
    <3> QED  BY <1>2
  <2>2. ActOK(BootAct, objects, packages)
    BY <1>5, <2>1 DEF ActOK, BootOK, Readers
  <2>3. \A i \in 1 .. Len(acts) : ActOK(acts[i], objects, packages)
    BY <1>4, <2>2
  <2>4. \A i \in 1 .. Len(acts) - 1 : FALSE
    BY <1>4
  <2> QED  BY <1>4, <1>5, <2>3, <2>4 DEF ActsOK
<1>8. StartOK(acts, objects, packages, value)
  <2>1. Does(1, "readtable")
    <3>1. 1 \in 1 .. Steps
      <4> HIDE DEF Steps
      <4> QED  BY <1>2
    <3> QED  BY <3>1 DEF InitializesInOrder, Steps
  <2>2. ~Does(1, "bind function")
    BY <2>1, DoesOne
  <2>3. ~Does(2, "bind function")
    <3>1. Does(2, "bind function") => Does(2 - 2, "function")
      BY BindsInOrder
    <3>2. 2 - 2 \notin DOMAIN InitializeRuntime
      <4> HIDE DEF Steps
      <4> QED  BY <1>2
    <3> QED  BY <3>1, <3>2 DEF Does
  <2>4. Holds(BootAct, objects) /\ InternedFor(BootAct, packages, value)
    <3>1. \A j \in {BootAct.pc, BootAct.pc + 1} : j = 1 \/ j = 2
      BY <1>5
    <3> QED  BY <1>5, <2>2, <2>3, <3>1 DEF Holds, InternedFor
  <2>5. Done(1, objects, packages)
    <3>1. DOMAIN packages = {} /\ DOMAIN objects = {}
      BY <1>1, <1>3
    <3>2. 1 .. 1 - 1 = {}
      OBVIOUS
    <3>3. ~(Steps - 2 < 1)
      <4> HIDE DEF Steps
      <4> QED  BY <1>2
    <3> HIDE DEF Steps
    <3> QED  BY <3>1, <3>2, <3>3 DEF Done
  <2> QED  BY <1>4, <1>5, <2>4, <2>5 DEF StartOK
<1>9. \E b : Laid(b, acts, form_stack, Len(frame_stack), objects)
  <2>1. zero \in Levels /\ zero.forms = 0 /\ zero.frames = 0 /\ zero.conses = 0
    BY DEF Levels
  <2> HIDE DEF zero
  <2>2. c \in [0 .. 1 -> Levels] /\ c[0] = zero /\ c[1] = zero
    BY <2>1
  <2>3. \A i \in 0 .. 1 : c[i] = zero
    OBVIOUS
  <2> HIDE DEF c
  <2>4. 1 < Steps
    <3> HIDE DEF Steps
    <3> QED  BY <1>2
  <2>5. ActLaid(BootAct, zero, zero, form_stack, objects)
    <3> HIDE DEF Steps
    <3> QED  BY <1>5, <2>1, <2>4 DEF ActLaid, Readers
  <2>6. Size(objects) \in Nat
    BY <1>6, SizeIs DEF ObjectsOK
  <2>7. Len(form_stack) = 0 /\ Len(frame_stack) = 0
    BY <1>1, <1>3
  <2>8. \A i \in 1 .. 1 : ActLaid(acts[i], c[i - 1], c[i], form_stack, objects)
    BY <1>4, <2>2, <2>5
  <2>9. \A i, j \in 0 .. 1 : i <= j => c[i].forms <= c[j].forms /\ c[i].conses <= c[j].conses
    BY <2>1, <2>3
  <2> QED  BY <1>4, <2>1, <2>2, <2>6, <2>7, <2>8, <2>9 DEF Laid
<1>10. FormsOK(form_stack, form_cap, objects)
       /\ FramesOK(frame_stack, frame_cap, last_return_value, objects)
  BY <1>1, <1>3 DEF FormsOK, FramesOK
<1>11. ValueOK(value, acts, objects)
  BY <1>1, <1>4, <1>5 DEF ValueOK, FormOK, Nil
<1> QED  BY <1>1, <1>6, <1>7, <1>8, <1>9, <1>10, <1>11 DEF Inv

LEMMA NextKeeps ==
  ASSUME InitializesInOrder, Inv, [Next]_vars
  PROVE  Inv'
<1>1. ASSUME Boots \/ Interns, UNCHANGED session  PROVE Inv'
  <2>1. ended' = ended
    BY <1>1 DEF session
  <2> QED
    BY <1>1, <2>1, BootReadtableKeeps, BootPackageKeeps, BootInternKeeps, BootBindConstantsKeeps,
       BootFunctionKeeps, BootBindFunctionKeeps, BootListPackagesKeeps, BootInterpreterKeeps,
       InternFindsKeeps, InternAllocatesSymbolKeeps, InternAllocatesNameKeeps DEF Boots, Interns
<1>2. CASE CallBegins \/ CallTakesArg \/ CallReturns
  BY <1>2, CallBeginsKeeps, CallTakesArgKeeps, CallReturnsKeeps
<1>3. CASE Reads
  BY <1>3, StartsKeep, ReadGensymsKeeps, ReadAllocatesStreamKeeps, ReadSkipsWhitespaceKeeps,
     ReadCallsMacroKeeps, ReadTokenKeeps, ReadReturnsKeeps, ReadSymbolKeeps DEF Reads
<1>4. CASE ReadsList
  BY <1>4, StartsKeep, OpenParenFillsKeeps, OpenParenBindsKeeps, OpenParenReadsKeeps,
     OpenParenBeginsListKeeps, OpenParenExtendsListKeeps, OpenParenReturnsKeeps,
     OpenParenEndsKeeps DEF ReadsList
<1>5. CASE ReadsQuoted
  BY <1>5, StartsKeep, DoubleQuoteScansKeeps, OpenParenEndsKeeps, DoubleQuoteAllocatesStringKeeps,
     DoubleQuoteReturnsKeeps, SingleQuoteInternsKeeps, SingleQuoteReadsKeeps,
     SingleQuoteBeginsKeeps, SingleQuoteReturnsKeeps DEF ReadsQuoted
<1>6. CASE Repl
  <2>1. ASSUME BootCallsRepl  PROVE Inv'
    <3>1. ended' = ended
      BY <2>1 DEF BootCallsRepl, session
    <3> QED  BY <2>1, <3>1, BootCallsReplKeeps
  <2> QED
    BY <1>6, <2>1, StartsKeep, ReplBindsKeeps, ReplAllocatesCharsKeeps, UserTypesKeeps,
       ReplReadsKeeps, ReplFormatsKeeps, OpenParenEndsKeeps DEF Repl
<1>7. CASE UNCHANGED vars
  <2>1. /\ objects' = objects /\ packages' = packages /\ acts' = acts /\ value' = value
        /\ ended' = ended /\ form_stack' = form_stack /\ form_cap' = form_cap
        /\ frame_stack' = frame_stack /\ frame_cap' = frame_cap
        /\ last_return_value' = last_return_value
    BY <1>7 DEF vars, heap, image, stack, frames, session
  <2> QED  BY <2>1 DEF Inv
<1> QED  BY <1>1, <1>2, <1>3, <1>4, <1>5, <1>6, <1>7 DEF Next

LEMMA ReaderKept ==
  ASSUME InitializesInOrder
  PROVE  Spec => []Inv
<1>1. Init => Inv
  BY InitIsInv
<1>2. Inv /\ [Next]_vars => Inv'
  BY NextKeeps
<1> QED  BY <1>1, <1>2, PTL DEF Spec

----------------------------------------------------------------------------
(* What follows                                                            *)

LEMMA TypesFollow ==
  ASSUME Inv
  PROVE  TypeOK
<1>1. PICK b : Laid(b, acts, form_stack, Len(frame_stack), objects)
  BY DEF Inv
<1>2. IsSeq(acts) /\ Len(acts) \in Nat /\ DOMAIN acts = 1 .. Len(acts)
  BY SeqIs DEF Inv, ActsOK
<1>3. Held \subseteq DOMAIN objects
  <2>1. \A i \in DOMAIN acts : acts[i].held \subseteq DOMAIN objects
    BY <1>2 DEF Inv, ActsOK, ActOK
  <2>2. Ids({value}) \subseteq DOMAIN objects
    BY DEF Inv, ValueOK, FormOK, Ids
  <2> QED  BY <2>1, <2>2 DEF Held
<1>4. Ids(ToSet(form_stack)) \subseteq DOMAIN objects
  <2>1. DOMAIN form_stack = 1 .. Len(form_stack)
    BY SeqIs DEF Inv, FormsOK
  <2>2. \A i \in DOMAIN form_stack : FormOK(form_stack[i], objects)
    BY <2>1 DEF Inv, FormsOK
  <2> QED  BY <2>2 DEF Ids, ToSet, FormOK
<1>5. ASSUME NEW i \in DOMAIN acts, acts[i].fn = "call", acts[i].pc # "begin"
      PROVE  /\ EvaledOffset(acts[i]) < Len(form_stack)
             /\ Len(Conses(form_stack[EvaledOffset(acts[i]) + 1])) = acts[i].arg_i
  <2> DEFINE n == Len(acts)
             lo == b[i - 1]
             hi == b[i]
             k == acts[i].arg_i
             count == acts[i].arg_count
             index == acts[i].fn_index
             m == Len(form_stack)
  <2>1. i \in 0 .. n /\ i - 1 \in 0 .. n /\ n \in 0 .. n /\ i <= n /\ i \in 1 .. n
    BY <1>2
  <2>2. /\ lo \in Levels /\ hi \in Levels /\ hi.forms <= b[n].forms /\ b[n].forms = m
        /\ ActLaid(acts[i], lo, hi, form_stack, objects)
    BY <1>1, <2>1 DEF Laid
  <2>3. /\ index = lo.forms /\ hi.forms = lo.forms + count + 2
        /\ Evaluated(form_stack[hi.forms], k, lo.conses, hi.conses, objects)
    BY <1>5, <2>2 DEF ActLaid, CallLaid
  <2>4. CallOK(acts[i])
    BY <1>5, <2>1 DEF Inv, ActsOK, ActOK
  <2>5. index \in Nat /\ count \in 0 .. 2 /\ k \in 0 .. 2
    <3>1. index \in Nat /\ count \in 0 .. 2 /\ k \in 0 .. count
      BY <2>4 DEF CallOK
    <3> HIDE DEF index, count, k
    <3> QED  BY <3>1
  <2>6. hi.forms \in Nat /\ m \in Nat
    BY <2>2, SeqIs DEF Levels, Inv, FormsOK
  <2>7. Len(Conses(form_stack[hi.forms])) = k
    BY <2>3, <2>5, EvaluatedIs DEF Inv, ObjectsOK
  <2>8. EvaledOffset(acts[i]) = index + count + 1
    BY DEF EvaledOffset
  <2> HIDE DEF index, count, m, hi, lo, k
  <2>9. EvaledOffset(acts[i]) + 1 = hi.forms /\ EvaledOffset(acts[i]) < m
    BY <2>2, <2>3, <2>5, <2>6, <2>8
  <2> QED  BY <2>7, <2>9 DEF k, m
<1>6. /\ Len(form_stack) <= form_cap /\ Len(frame_stack) <= frame_cap
      /\ Len(last_return_value) = Len(frame_stack)
      /\ ended \in {"running", "end of input", "quit", "aborted", "looping", "undefined"}
  BY DEF Inv, FormsOK, FramesOK
<1> QED  BY <1>3, <1>4, <1>5, <1>6 DEF TypeOK

LEMMA NamesFollow ==
  ASSUME Inv
  PROVE  OneSymbolPerName
<1>1. \A s \in Named : HasName(s, objects) /\ Name(s) = NameOf(s, objects) /\ s \in DOMAIN objects
  BY DEF Named, HasName, Is, Name, NameOf
<1> QED  BY <1>1 DEF Inv, ObjectsOK, NamesOK, OneSymbolPerName, SameName

(* Whatever is typed, the stacks fit their buffers and go together, and    *)
(* the evaluated arguments of every call that is under way in the reader   *)
(* are where the call put them.                                            *)
THEOREM ReaderTypesCorrect ==
  ASSUME InitializesInOrder
  PROVE  Spec => []TypeOK
<1>1. Inv => TypeOK
  BY TypesFollow
<1> QED  BY <1>1, ReaderKept, PTL

(* No package has two symbols of the same name, though intern_symbol looks *)
(* a name up in one step and files the symbol two allocations later.       *)
THEOREM NamesCorrect ==
  ASSUME InitializesInOrder
  PROVE  Spec => []OneSymbolPerName
<1>1. Inv => OneSymbolPerName
  BY NamesFollow
<1> QED  BY <1>1, ReaderKept, PTL
=============================================================================
