# A verification of lishp

TLA+ modules for the Lisp interpreter in `src/`, the TLC runs that check them on
small instances, and TLAPS proofs. Paths below are relative to `src/` (so
`src/runtime/interpreter.c` is `src/src/runtime/interpreter.c` from the
repository's parent). `PROJECT.json` lists, machine-readably, the components, the
runs, the lines each definition translates, the hazards and the theorems.

## 1. The system

lishp is one process with one thread: `main` initialises a `Runtime`, calls its
REPL and cleans up. Everything else is C functions calling each other, with all
state in a few growing arrays and one block of garbage-collected memory. What
makes it hard is not concurrency but re-entrance: `interpret_bytes` and
`interpret_function_call` call each other, the reader calls the interpreter that
called it, any allocation can start a collection, and any push can move the array
that some caller up the C stack holds a pointer into.

| component | state | operations | what must hold |
|---|---|---|---|
| memory manager (`memory_manager.c`) | a 4 MB block cut into segments, a free and an allocated list, byte counters, the next collection size | `allocate`, `deallocate`, `run_gc` (grey, mark by callback, sweep), `mark_used`, `cleanup_manager` | segments tile the block; lists and flags agree; what is reached or was just allocated survives; counters give the live bytes; collections end |
| ordered map (`map.c`, `util.c`) | a growing buffer of pairs in key order | `map_insert`, `map_remove`, `map_get`, `map_ref`, `map_foreach`, `map_clear` | a map from keys to values; order kept through every shift and growth; nothing changes when `realloc` fails |
| list (`list.c`) | a growing buffer | push, append, pop, get, ref, remove, find, iterate, clear | the sequence of its items, through growth and failed growth; pointers into the buffer die when it grows |
| forms (`types.h`, `types.c`) | - | constructors, `form_cmp`, printing | `form_cmp` is an order, as the maps need |
| compiler (`interpreter.c`, `analyze_*`) | a list of bytecodes being built | one function per special form and kind of form | jumps arrive at the form after their tag; each form leaves the stacks as it found them |
| bytecode machine (`interpreter.c`) | form stack, frame stack, stack of last returns, tag bindings, the C activations | one case per opcode; GO; function calls | stack discipline across calls and jumps; GO leaves exactly what it should |
| environments (`environment.c`) | a chain of maps from symbols to values and to functions | bind, look up | innermost binding wins |
| reader (`reader.c`, reader macros in `system_inherents.c`) | a token, a nested stream per list | `read_form`, `(`, `"`, `'` | the form that was typed, each character used once; stacks back as they were; every complete text read to its end |
| runtime (`runtime.c`) | packages, symbols, readtable | initialise, intern, gensym, import, marking, clean up | what is in use is reached whenever a collection may run; one symbol per name and package |
| REPL and inherents (`system_inherents.c`, `common_lisp_inherents.c`) | - | READ, FORMAT, the loop | each form is answered once, in order |
| entry, build, samples | - | - | - |

Interactions: the REPL pushes READ or FORMAT and its arguments on the form stack
and calls `interpret_function_call`, which pushes a frame, compiles and runs each
argument (`interpret_bytes`), collects the values in a list that starts on the
form stack, calls the C function, and pops all that by count. FORMAT's argument
is the user's form, so evaluation happens as argument evaluation. A GO travels
from opcode to `handle_go_result` through the form stack, from there up to
`interpret_function_call` as a return type, and on from call to call. The memory
manager calls back into the runtime to mark.

## 2. How the modules build on each other

1. **Memory manager**: `BlockHeap` (abstract), `MemoryManager`, shown to implement it; proofs.
2. **Buffers**: `Buffers` (growth and shifting, shared by both); `KeyedStore` (abstract) and
   `OrderedMap`; `ItemSequences` (abstract) and `GrowingList`; each shown to implement its
   abstraction; proofs. `FormOrder` is the comparison the interpreter's maps use.
3. **Evaluation**: `Forms`, `Lists`, `Compiler`, `Reader` (what reading does to the stacks, in
   one step), `Interpreter`; proofs of its type and chain invariants. `Discipline` adds what
   the machine expects of the bytecode it runs; proofs that this is enough for its stacks to be
   where its calls and jumps take them to be.
4. **The promise to the user**: `Evaluator` (reference semantics), `Listener` (abstract REPL),
   `Lishp`, which composes them with 3 and is shown to implement `Listener`.
5. **Reading**: `Characters`, `Runtime` (objects, symbols, packages, initialisation, marking),
   `ReadForm` (the reader character by character), `Syntax` (reference reader), `ReadText`,
   which composes them and relates them to the `Reader` of 3; proofs that `ReadForm` keeps
   its types and one symbol per name, and that a collection finds the runtime and all that is
   in use.

The two large models meet in `Reader`: `Interpreter` reads a form in one step whose effect
on the stacks `Reader` computes from the form, and `SummaryIsRight` of `ReadText` checks
that this is the effect of reading it character by character. Likewise `Interpreter` takes
its stacks for sequences with a capacity and its maps for functions (`Lists`), which is what
`GrowingList` and `OrderedMap` are shown to be. `MemoryManager` treats the marker as a choice of
any set of reached segments; `ReadText` checks, and `CollectionProofs` proves, that what is in
use is in the set that the real marker reaches.

## 3. The modules

| module | models | correspondence |
|---|---|---|
| `BlockHeap` | - (abstract) | a partial map from payload addresses to sizes: obtain, release, collect, reclaim |
| `MemoryManager` | `memory_manager.c` | one action per function; `run_gc` is split by `pc` into its loops, the sweep into one step per header. The `next` fields are the sequences `free` and `allocd`, and `FieldNext` reads a freed header's `next` where `internal_deallocate` left it |
| `Buffers` | `util.h`, `shift_items`, `realloc` | a buffer is a function from its indices to what the cells hold |
| `KeyedStore` | - (abstract) | a finite function with an answer per operation |
| `OrderedMap` | `map.c` | the buffer cell by cell, garbage cells included; `Cmp` is a parameter; `IsIndex` is `find_item` |
| `ItemSequences` | - (abstract) | two sequences of items with an answer per operation |
| `GrowingList` | `list.c` | two lists, since `list_append` empties one into the other; cells, garbage included |
| `FormOrder` | `form_cmp` | differences of `uint32_t` returned as `int`, modulo `Word` |
| `Forms` | `types.h` | tagged tuples; a proper list is the sequence of its elements |
| `Lists` | `list.c`, `map_insert` | capacity growth; a buffer is known by its capacity, since it is moved only to grow; a map is a function |
| `Compiler` | `analyze_*` | an analysis is what it appends, given how long the list was, and its return code |
| `Reader` | `read_form` and the reader macros of `system_inherents.c` | what reading one form does to the two stacks; a form typed as `'x` is told from `(quote x)`, which is read otherwise |
| `Interpreter` | opcodes, GO, calls, frames, environments, READ, FORMAT, `system_repl` | `acts` is the C stack of the two mutually recursive functions; one action per opcode, one per turn of a call, one per turn of the REPL |
| `Discipline` | - (a condition) | what `interpret_bytes` and `interpret_function_call` rely on and never check: a bytecode takes only what it pushed, leaves the scopes it enters, and its GOs lead to places where both stacks are as they are at the GO |
| `Evaluator` | - (reference) | what a form means, by recursion on the form, read as Common Lisp |
| `Listener` | - (abstract) | ask, print the lines the form calls for, ask again |
| `Lishp` | the composition | reader, compiler and machine, and how they answer |
| `Characters` | `get_char_traits`, `convert_case`, `escape_char` and their helpers | a character is a one-character string; the traits are sets |
| `Runtime` | `runtime.c`, `environment.c`, the markers | the heap is a function from ids to objects; `initialize_runtime` is a program of allocations and bindings, one step each; `Reached` is `objs_mark_used` |
| `ReadForm` | `read_form`, the four reader macros, READ, the calls between them | `acts` is the C stack, of ten kinds of activation; one action for each stretch between two calls or allocations, or for each character of a loop; its end states what collections and names promise |
| `Syntax` | - (reference) | the forms of a text, by recursion on the text, read as Common Lisp; whether it ends within a form; and whether its parentheses within lists are all those of lists |
| `ReadText` | the composition | what reading a text promises |
| `ListLemmas`, `MemoryManagerProofs`, `OrderedMapProofs`, `GrowingListProofs`, `InterpreterProofs`, `DisciplineProofs`, `ReadFormProofs`, `CollectionProofs` | - | proofs |

A pointer into a stack's items is modelled by the capacity of the buffer it points
into: it is stale when the stack's capacity is another. Where the code would go
through a stale pointer, or take an item from an empty stack, both things the
build can do are in the model: the step as if nothing had happened (`realloc` may
grow in place) and `Astray`, which ends the run in "undefined" (in `ReadForm`,
`OpenParenLoses`). A failing `assert` is `Abort`. Both are states the runs reach and the
properties look at. The digits that `strtol` may find behind a number that is not
terminated are a choice among `Leftovers`.

In `ReadForm` an action that allocates adds an object and its size to `bytes`; a collection
"runs" when `bytes` reaches `next_gc`, as `allocate` decides it, and what it would keep is
`Reached`. Objects are never taken away: whether one that is still used (`Held`: what
the locals of the C functions under way refer to and these will still use, such as the stream
of `'` and the cons that a list is at) would be, is the question of `HeldIsReached` and
`GreyIsNotUsed`. The marker's recursion is a recursive function on sets of objects, and follows
what `Marks` says each kind of object leads to.

## 4. The runs

| run | question | instance |
|---|---|---|
| `memory_manager` | do lists, headers and counters agree, is the heap promise kept, do collections end | 11 bytes, header 2, requests 1, 2, 4, counters modulo 16: room for three to four segments, so splitting, refusing, exact fits, fragmentation, wrapping and every order of frees occur |
| `sweep_leaves_garbage` (violation) | "remove all the allocations that are still marked grey" | as above |
| `util` | does the map implement a keyed store, does a list implement a sequence | map: 4 forms as keys with `form_cmp` (fixnums near each other, NIL, an object), 2 values; 2 lists of 2 kinds of items, up to 3 in each; capacity 1, 2, 4: buffers grow twice, `realloc` may fail each time |
| `form_map` (violation) | is an inserted pair a new one, with `form_cmp` | three-bit words; three fixnums, a char, an object |
| `lishp` | is every form within the language answered in the end, as its meaning says, with clean stacks | two forms typed, from all tagbodies of up to three items that come to an end, plus compositions of let*, progn, calls and tagbodies: 64 programs, each within as many `progn`s as it takes to be read with the form stack in place; TLC also evaluates that all of these, and the arguments evaluated in their course, are in the language and disciplined (`LanguageIsRight`) |
| `interpreter_edges` | do the stacks keep their shapes whatever is typed | three forms typed, from programs that fail, go out of calls, nest tagbodies, nest deeply |
| `nested_tagbody`, `go_out_of_a_call` (violations) | two things that comments of the code say and the code does not do | the programs of that kind, up to two typed |
| `stale_last_cons` (violation) | does the pointer to the last cons of a list point there when the next element has been read | a list within a list |
| `reading` | from the first allocation of the start to the end of the input: is each text read as it is typed, and to its end, with one symbol per name, the stacks as `Reader` says, and everything in use reached | all 1111 texts of up to three characters over an alphabet with one character of each kind, and 59 others, most of them longer: nesting, strings, parentheses in strings, escapes, quotes, comments of odd characters, unfinished forms; TLC also evaluates that the start takes its steps in the order they need and fits below the first limit (`StartIsOrdered`), which the proofs take as hypotheses |
| `stuck_on_a_complete_text` (violation) | does the reader loop for ever only on texts that are not complete | the text of the FIXME at `system_inherents.c:231` |
| `symbol_in_the_making` (violation) | "still marked grey (not used)" | one form, during whose reading the second collection runs |

**Bounds.** `MaxReads` forms are typed in the runs of `Interpreter`: two suffice for what one
form leaves behind to disturb the next. `MaxEnvs` environments exist at once: no run comes
near it, except where programs leave frames behind. Everything else there is bounded by the
programs. "Within the language" (`MCLishp`) means: each GO has its tag in a tagbody around it
and not across a call, a tagbody directly within another has no tags of its own, what a
`let*` binds is new and its value is a call or an atom. What is outside is in
`MCInterpreter`. In `MCReadText`, three characters are enough for each character to be a
token's first, middle and last and to follow each other kind; the longer texts reach every
action of `ReadForm` and stack depths beyond two doublings. Capacities start at 8 and the first
collection is due at 1024 bytes, as in the code, with the sizes the objects have on a 64-bit
machine: the start allocates 960 bytes, the interpreter last, and the environment of the REPL's
first call makes them exactly 1024. So the first collection finds the interpreter, with 64
bytes to spare, which is what `CollectionsFindRoots` is about.

**Fairness.** One thread runs everything, so `WF_vars(Next)` is what the code
gives: it goes on as long as it can. It includes that a form that is waited for is
typed. `MemoryManager` needs it of `RunGc` only: a collection runs on its
caller's stack. A loop of GOs is the user's own; the programs of
`lishp` have none. `AnswersEveryForm` counts a form as unanswered also when its reading or
its evaluation has led the program astray or failed an assertion, and its programs are chosen
such that they are read with the form stack in place (`ReadInPlace`): most tagbodies, typed as they are,
have a list for their second element, so that the stack moves while they are read and the form
may be lost, which is what `stale_last_cons` shows. Within a few `progn`s (three for most) they come third
in a list, where no pointer into the stack is held, and the stack is large enough by then.
For `AnswersAsPromised` alone, which says what is printed and not that anything is, going astray
would be a stutter.

`EveryTextIsRead` is about complete texts: at the end of the
input within a list or a string the loop that looks for its end never finds it, which
`ReadsWhatIsTyped` records as ending in "looping". It is also about texts whose parentheses are what the list
macro takes them for (`ParensEncloseLists`: outside of lists, a string may have any), and that are read in place. For
the others it is not true: the first is `stuck_on_a_complete_text`, the second `stale_last_cons`.

**Deadlock** is not checked where the program really stops: after (QUIT), an
assertion, the end of the input, or the bound on typed forms, and after `cleanup_manager`.

**Findings.** Each violation run is a disagreement between a comment and the code; all
but the first were reproduced with a build of the program:

- the sweep frees at most one segment per collection (`memory_manager.c:97-103`);
- `form_cmp` is not an order for fixnums more than 2^31 apart
  (`(tagbody (go 3000000000) 1500000000 3000000000 0)` aborts);
- inner tags of nested tagbodies jump to the wrong place (`interpreter.c:178`);
- a GO out of a call's argument leaves the call's frame and never jumps (`:913`, `:556`);
- `last_cons_ptr` (`system_inherents.c:159`), `cur_cons` (`interpreter.c:929`) and
  `Frame.prev` (`:1020`) point into arrays that `realloc` moves; typing `(quote (a))`
  is enough for the first, which has the run; for the others it takes a call with some twenty arguments
  within a call and a GO from some forty scopes (`DeepCalls`, `DeepScopes` of `MCInterpreter`, which go
  astray in `interpreter_edges`; a build of the program does, at `interpreter.c:931` and `:424`);
- the text of the FIXME at `system_inherents.c:231`, on which its author got stuck, is one the program never
  comes back from: not for its newlines but because the list macro (`:113`) ends the list at the `)` within the
  string, after which the loop of `"` gets EOF for ever;
- `intern_symbol` (`runtime.c:115`) allocates a name while nothing refers to the symbol it is
  for; a collection at that moment frees a symbol that is then used (14 names of 18 letters
  in a quoted list print one of them as `#(null):15`).

Other divergences met on the way, of which the repository says nothing and so no run is about
them. The models do what the code does, or leave such texts out, as said:

- `(tagbody)` leaves a NIL on the form stack (`interpreter.c:135`; modelled);
- a number takes digits that lie behind its token along (`reader.c:370`; modelled; about one
  session in twenty reads 22 as 229);
- `\0` in a string ends it, since strings are copied with `strlen` (modelled, not typed);
- `z` is not converted to upper case, and letters between bars are (`reader.c:38`, `:325`): such texts
  are left out of `MCReadText`.

## 5. The proofs

TLC shows a property on an instance; the theorems below show it for every value of
the constants, from the named assumptions in the modules that declare them.

- **`MemoryManagerProofs`** (assumptions: `HeaderSize` positive and at most
  `BlockSize`, requests natural, `Null` no address). `IInv` joins `TypeOK`,
  `HeadersTileBlock` and `ListsPartitionHeaders`: none of the three is inductive
  alone, since that a split keeps the tiling needs that the segment split is a
  header of the stated size, which comes from the lists. `MarkInv` adds what the marks say: a grey
  segment is an allocated one, and while a collection runs, the trigger of it is allocated
  and, once the grey marks are set, black. That gives `SweepNeverDoubleFrees` and
  `TriggerSurvivesCollection`. `Refinement` maps initial states to initial states and each action
  to an action of `BlockHeap` or a stutter, one lemma per action. `CountInv` says that the counters
  differ by the bytes that are allocated, modulo `Word`; that the sum changes by one payload
  when a segment moves needs the tiling, since the segment a split leaves behind has to be a
  new one.
- **`OrderedMapProofs`** (assumptions: a positive initial capacity, and of the comparison
  `TotalOrder`, which each theorem names; `MCUtil` has TLC
  check it of `form_cmp` on fixnums less than half a word apart, and `form_map` shows that
  it fails for others; `ptr_diff` and `symbol_cmp` keep it within one block). `IInv` joins `TypeOK` and `KeysAscend`: with
  the order the index `find_item` returns separates smaller from larger keys, so shifting keeps the order and the keys
  distinct. `Refinement` then reads the store off the cells.
- **`GrowingListProofs`** (assumption: a positive initial capacity). `ListTypeOK` is inductive:
  each operation keeps the size within the capacity and items below the size. `ListIsSequence`
  maps each operation to the one of `ItemSequences`, reading the items off the cells; a
  failed reallocation is a refusal that changes nothing.
- **`InterpreterProofs`** (assumptions: a positive initial capacity, natural bounds; hypotheses,
  which each theorem names: `CompilerIsTyped`, the operands of bytecodes are numbers, and
  `ReaderGrows`, reading does not make a stack's buffer smaller. `MCInterpreter` has TLC check
  both of `Compiler` and `Reader` for its programs; that they hold for every form takes
  induction over forms). Nothing else is assumed of the bytecode: the theorems hold for
  programs that jump into the middle of others, as nested tagbodies do.
  `TypeOK` and `FramesChainEnvironments` are not inductive: a pop by count must not go below the first
  frame, so activations need their types (`ActsInv`) and the first of them must be a call; `handle_go_result`
  must find a frame to stop at, so the first one is the base (`FramesInv`); a new environment takes
  the address of one that is not reached, so environments must not hang from each other in a ring
  (`EnvsInv`: every set of them has one whose parent is outside), from which `AncestryIs` gets that
  what is reached is closed under parents. One lemma per group of actions, one step per action.
- **`DisciplineProofs`** (hypotheses: those of `InterpreterProofs`, and that what is typed and
  the arguments evaluated in its course belong to a `Language` all of whose bytecode
  is `Disciplined`; `MCLishp` has TLC check these of what `Compiler` makes of its
  programs and their arguments. That they hold of every form within the language takes
  induction over forms). The violation runs
  show why the hypothesis is needed: for nested tagbodies and GOs out of a call the properties are
  false. `DInv` adds three things to the invariant of `InterpreterProofs`. `LayoutInv`: the
  activations have the two stacks to themselves, one above the other; each bytecode has there
  what `Shapes` says of the place it has come to, forms, scopes and the tags these
  bind, and each call its function, its arguments, one list and one frame. `ReplInv`: between
  two calls of the REPL nothing runs, and what it prints is in the language. `ScopesInv`: no two
  frames share an environment, so binding a tag changes one scope only. From these a
  GO finds its tag in the scopes of its own bytecode, so `OpGoLeaves` never happens, and a
  call's pops by count take its own. `FramesFollowCalls` then follows from a
  bijection between the calls under way and the funcall frames. One lemma per action.
- **`ReadFormProofs`** (hypothesis: `InitializesInOrder`, which says of the fixed list of steps of
  `initialize_runtime` that each uses only what an earlier one has made. It has no
  parameters, so that TLC finds it true, as `MCReadText` has it do, settles it). The
  theorems hold for every set of texts. Neither property is inductive; `Inv` joins to
  them: what is in each object, package and environment (`ObjectsOK`); which kinds of
  activation may wait for which, and where (`ActsOK`); what the start has made by each of its steps
  (`StartOK`); and how high on the stacks each activation begins (`Laid`), so that none disturbs
  what its callers have there. Two things go beyond types. The recursive functions that follow
  a list's conses and an environment's parents are defined for all objects only because
  a cons is older than the next one of its list, and a parent older than its child, so this order is
  part of `ObjectsOK`. And the arguments that a call has evaluated so far must stay the same list
  while others are built above it: `Laid` gives each activation the first of the conses it may
  change. `OneSymbolPerName` needs what holds in the middle of `intern_symbol`: that
  the name it has looked up is still not in the package when it files the symbol. One
  lemma per action or group of actions.
- **`CollectionProofs`** (hypotheses, all three about the fixed steps of `initialize_runtime` and so
  settled by TLC evaluating them: `InitializesInOrder`; `ConstantsInOrder`, NIL and T are interned in a package
  before they are bound there; and `StartFits`, what these steps allocate is in all smaller
  than `FirstCollection`).
  `CollectionsFindTheirRoots` needs a bound on `bytes` at each step that also holds in the middle of
  `intern_symbol`, which allocates twice or not at all (`StartSpends`), and that each of the steps
  happens once and in order, which comes from `Inv` of `ReadFormProofs`. `HeldIsFound` is about
  every allocation after that. Its invariant `Holding` says of each kind of activation, at each of its
  stages, where what it holds is to be found. A stream or a string is bound in the frame of the
  call below it or of one further down, since a symbol of gensym may be bound further out
  (`bind_value` looks there first) only if it is bound already, and a new one is not
  (`NewSymbol`, `BoundInFrame`). The cons that a list is at is found from the list's head on the form stack,
  through conses that nobody changes meanwhile (`Leads`); that of a quoted form likewise. The stream of
  `'` is in the list of evaluated arguments of the call that `'` runs in. And what was returned last is a
  symbol of a package or one of the last returns: this one fails while a call returns or
  READ gets its symbol, but nothing is allocated there (`ValueKept`, `AllocatingTop`). That frames and activations
  alternate (`FramesOf`) says which frame outlives which activation. That what is found
  in this way is reached needs `ReachedIs`: the marker's recursion comes to an end, and what it
  reaches is closed under marking; this takes `HeapClosed`, every reference in the heap
  leads to an object. During the start the same is replaced by `Ready`: which symbols are there by
  each step. One lemma per action or group of actions.
- **`ListLemmas`**: what the operations of `Lists` and those on sequences that the stacks go through
  (pushing, dropping several, taking the last ones, replacing one) do, whatever the items are.

Only model-checked: liveness and anything under fairness (`CollectionEnds`,
`AnswersEveryForm`, `EveryTextIsRead`), which the provers do not treat; what the recursive definitions
(`Compiler`, `Reader`, `Evaluator`, `Syntax`) compute for every form or text, and with them
`AnswersAsPromised`, `ReadsWhatIsTyped` and `SummaryIsRight`, which need induction over these.

## 6. What is not modelled

- Alignment: requests are not rounded, so headers may be misaligned; the model counts bytes.
- The layout of the output: `print_form` and the other printing functions, and what FORMAT writes.
- In `ReadForm`, evaluation: FORMAT is called and returns at once, so collections are counted
  exactly only until a form that is typed has been evaluated; the texts but one do not come
  to a second collection. In `Interpreter`, collections: its environments are
  freed when nothing refers to them, other objects never.
- An exhausted block: most callers of `allocate` write through the NULL they get. The temporary
  file of each list is never closed; the number a process may open is not modelled.
- The width of a fixnum that is read (`strtol`'s `long` to 32 bits); `FormOrder` has it.
- `cleanup_runtime` but for `cleanup_manager`: it clears what is not used any more.
- A new binding of a name bound further out: `bind_value_rec` assigns the outer one.
  The model does so too; the runs against `Evaluator` bind fresh names only, so `AnswersAsPromised`
  says nothing of it. Nor does `ReadsWhatIsTyped` of the digits behind a number, which it allows for.
- A quoted or special form as the value of a `let*` binding: it is compiled without
  leaving its value on the form stack (`with_ret` is ignored), so BindValue fails its
  assertion. It is in `interpreter_edges`, which lets it fail.
- Dotted pairs, user-defined functions (`kUserDefined` asserts), functions other than READ and FORMAT,
  functions bound in a lexical scope (no opcode does it).
- `interpret` and the callers of `map_remove` and `list_remove` (none), `main`, the Makefile.
