------------------------------ MODULE ReadForm -------------------------------
(***************************************************************************)
(* Reading, character by character: read_form of src/runtime/reader.c,     *)
(* which calls itself through interpret_function_call and the reader       *)
(* macros of src/runtime/system_inherents.c, under the loop of system_repl.*)
(* FORMAT, which evaluates what was read, is Interpreter's: here it only   *)
(* takes note of the form.                                                 *)
(***************************************************************************)
EXTENDS Runtime

CONSTANTS
  Texts,       \* what the user may type before the input ends
  Leftovers    \* digits that the memory behind a token may hold

VARIABLES
  files,       \* the open files, the temporary ones included: [chars, pos]
  read_forms,  \* the forms the REPL got
  ended        \* how the program ended

session == <<read_forms, ended>>
vars == <<heap, image, stack, frames, acts, value, files, session>>

Stdin == 0

Running      == ended = "running"
Ends(how)    == ended' = how /\ UNCHANGED <<heap, image, stack, frames, acts, value, files, read_forms>>
Doing(f, pc) == Running /\ In(f, pc)

AtEnd     == files[Top.file].pos = Len(files[Top.file].chars)
NextChar  == files[Top.file].chars[files[Top.file].pos + 1]
Sees      == ~AtEnd
Consumes  == files' = [files EXCEPT ![Top.file].pos = @ + 1]

----------------------------------------------------------------------------
(* interpret_function_call                                                 *)

CallAct(n) ==
  [fn |-> "call", pc |-> "begin", fn_index |-> Len(form_stack), arg_count |-> n,
   arg_i |-> 0, held |-> {}]

Pushes(some) ==
  /\ form_stack' = form_stack \o some
  /\ form_cap' = Capacity(form_cap, Len(form_stack) + Len(some))

(* push_function, push_argument for each argument, and the call; the       *)
(* caller goes on at pc when it returns.                                   *)
CallsFunction(caller, fn, args) ==
  /\ Pushes(<<Object(fn)>> \o args)
  /\ Calls(caller, CallAct(Len(args)))

CallBegins ==
  /\ Doing("call", "begin")
  /\ Allocates(Environment(CurrentEnv, objects[CurrentEnv].package), objects)
  /\ frame_stack' = Append(frame_stack, Fresh)
  /\ frame_cap' = Capacity(frame_cap, Len(frame_stack) + 1)
  /\ last_return_value' = Append(last_return_value, Nil)
  /\ Pushes(<<Nil>>)
  /\ Becomes([Top EXCEPT !.pc = "arguments", !.held = Ids({form_stack[Top.fn_index + 1]})])
  /\ UNCHANGED <<image, files, session>>

EvaledOffset(call) == call.fn_index + call.arg_count + 1

SetLastReturn(form) ==
  last_return_value' = [last_return_value EXCEPT ![Len(last_return_value)] = form]

(* The conses of the list that starts at a form, the first one first.      *)
Conses(form) ==
  LET from[id \in {c \in DOMAIN objects : objects[c].kind = "cons"}] ==
        <<id>> \o IF objects[id].cdr = Nil THEN <<>> ELSE from[objects[id].cdr[2]]
  IN  IF form = Nil THEN <<>> ELSE from[form[2]]

(* A stream or a character evaluates to itself, through the form stack and *)
(* the last return; a cons with it is added to the evaluated arguments.    *)
CallTakesArg ==
  /\ Doing("call", "arguments") /\ Top.arg_i < Top.arg_count
  /\ LET arg    == form_stack[Top.fn_index + 2 + Top.arg_i]
         evaled == EvaledOffset(Top) + 1
         before == Conses(form_stack[evaled])
     IN  /\ SetLastReturn(arg)
         /\ IF before = <<>>
            THEN /\ form_stack' = [form_stack EXCEPT ![evaled] = Object(Fresh)]
                 /\ Allocates(ConsCell(arg, Nil), objects)
            ELSE /\ Allocates(ConsCell(arg, Nil),
                              [objects EXCEPT ![Last(before)].cdr = Object(Fresh)])
                 /\ UNCHANGED form_stack
  /\ form_cap' = Capacity(form_cap, Len(form_stack) + 1)
  /\ Becomes([Top EXCEPT !.arg_i = @ + 1])
  /\ UNCHANGED <<image, frame_stack, frame_cap, files, session>>

(* Faulty variant: the last return is not popped with the frame.           *)
CallReturnsDeep ==
  /\ Doing("call", "return")
  /\ LET n == Len(frame_stack) - 1
     IN  /\ form_stack' = DropLast(form_stack, Top.arg_count + 2)
         /\ frame_stack' = SubSeq(frame_stack, 1, n)
         /\ SetLastReturn(value)
  /\ Returns(value)
  /\ UNCHANGED <<heap, image, form_cap, frame_cap, files, session>>

(* The result becomes the last return, also of the frame below; what the   *)
(* call pushed is popped.                                                  *)
CallReturns ==
  /\ Doing("call", "return")
  /\ LET n == Len(frame_stack) - 1
     IN  /\ form_stack' = DropLast(form_stack, Top.arg_count + 2)
         /\ frame_stack' = SubSeq(frame_stack, 1, n)
         /\ last_return_value' = [SubSeq(last_return_value, 1, n) EXCEPT ![n] = value]
  /\ Returns(value)
  /\ UNCHANGED <<heap, image, form_cap, frame_cap, files, session>>

(* The call has its arguments: the C function of that name gets them, and  *)
(* the activation that stands for it starts.                               *)
FirstArgument == objects[form_stack[EvaledOffset(Top) + 1][2]].car

Invokes(name, act) ==
  /\ Doing("call", "arguments") /\ Top.arg_i = Top.arg_count
  /\ objects[form_stack[Top.fn_index + 1][2]].name = name
  /\ Calls([Top EXCEPT !.pc = "return"], act)
  /\ UNCHANGED <<heap, image, stack, frames, files, session>>

----------------------------------------------------------------------------
(* READ: common_lisp_read and read_form                                    *)

ReadAct(file) ==
  [fn |-> "READ", pc |-> "gensym", file |-> file, stream |-> Null, token |-> <<>>,
   escaped |-> FALSE, held |-> {}]

ReadStarts ==
  Invokes("READ", ReadAct(IF Top.arg_count = 0 THEN Stdin
                          ELSE objects[FirstArgument[2]].file))

ReadGensyms ==
  /\ Doing("READ", "gensym")
  /\ Gensyms("SYSTEM")
  /\ Becomes([Top EXCEPT !.pc = "stream", !.held = {Fresh}])
  /\ UNCHANGED <<rt, stack, frames, files, session>>

(* Faulty variant: the stream is not bound to the symbol.                  *)
ReadAllocatesStreamUnbound ==
  /\ Doing("READ", "stream")
  /\ Allocates(Stream(Top.file), objects)
  /\ Becomes([Top EXCEPT !.pc = "step_1", !.stream = Fresh, !.held = {Fresh}])
  /\ UNCHANGED <<image, stack, frames, files, session>>

ReadAllocatesStream ==
  /\ Doing("READ", "stream")
  /\ LET sym == CHOOSE s \in Top.held : TRUE
     IN  Allocates(Stream(Top.file), BoundTo(CurrentEnv, sym, Object(Fresh), objects))
  /\ Becomes([Top EXCEPT !.pc = "step_1", !.stream = Fresh, !.held = {Fresh}])
  /\ UNCHANGED <<image, stack, frames, files, session>>

(* Faulty variant: sees the same character again.                          *)
ReadSkipsWhitespaceAgain ==
  /\ Doing("READ", "step_1") /\ Sees /\ IsWhitespace(NextChar)
  /\ UNCHANGED vars

ReadSkipsWhitespace ==
  /\ Doing("READ", "step_1") /\ Sees /\ IsWhitespace(NextChar)
  /\ Consumes
  /\ UNCHANGED <<heap, image, stack, frames, acts, value, session>>

(* The result of the macro function is the form.                           *)
ReadCallsMacro ==
  /\ Doing("READ", "step_1") /\ Sees /\ IsMacro(NextChar)
  /\ CallsFunction([Top EXCEPT !.pc = "macro"],
                   objects[SystemReadtable].macros[NextChar],
                   <<Object(Top.stream), Char(NextChar)>>)
  /\ Consumes
  /\ UNCHANGED <<heap, image, frames, session>>

Gathers(chars, pc) == Becomes([Top EXCEPT !.token = @ \o chars, !.pc = pc])

ReadStartsToken ==
  /\ Doing("READ", "step_1") /\ Sees
  /\ \/ IsConstituent(NextChar) /\ Gathers(<<Converted(NextChar)>>, "step_8")
     \/ IsBar(NextChar) /\ Becomes([Top EXCEPT !.escaped = TRUE, !.pc = "step_9"])
  /\ Consumes
  /\ UNCHANGED <<heap, image, stack, frames, session>>

ReadStep8 ==
  /\ Doing("READ", "step_8") /\ Sees
  /\ \/ (IsConstituent(NextChar) \/ IsDispatch(NextChar)) /\ Gathers(<<Converted(NextChar)>>, "step_8")
     \/ IsBar(NextChar) /\ Becomes([Top EXCEPT !.escaped = TRUE, !.pc = "step_9"])
  /\ Consumes
  /\ UNCHANGED <<heap, image, stack, frames, session>>

(* Faulty variant: the character that ends a token is lost.                *)
ReadEndsTokenBehind ==
  /\ Doing("READ", "step_8")
  /\ \/ AtEnd /\ UNCHANGED files
     \/ Sees /\ (IsWhitespace(NextChar) \/ IsMacro(NextChar)) /\ Consumes
  /\ Goes("step_10")
  /\ UNCHANGED <<heap, image, stack, frames, session>>

(* The character that ends a token is given back.                          *)
ReadEndsToken ==
  /\ Doing("READ", "step_8")
  /\ AtEnd \/ (Sees /\ (IsWhitespace(NextChar) \/ IsMacro(NextChar)))
  /\ Goes("step_10")
  /\ UNCHANGED <<heap, image, stack, frames, files, session>>

ReadStep9 ==
  /\ Doing("READ", "step_9") /\ Sees /\ ~IsInvalid(NextChar)
  /\ IF IsBar(NextChar) THEN Goes("step_8") ELSE Gathers(<<Converted(NextChar)>>, "step_9")
  /\ Consumes
  /\ UNCHANGED <<heap, image, stack, frames, session>>

IsNumber(token) == \A i \in DOMAIN token : IsDigit(token[i])
Number(digits)  == FoldLeft(LAMBDA n, c : 10 * n + DigitVal(c), 0, digits)

(* strtol goes on behind the token, which nothing ends, while it finds     *)
(* digits there.                                                           *)
ReadNumber ==
  /\ Doing("READ", "step_10") /\ ~Top.escaped /\ IsNumber(Top.token)
  /\ \E more \in Leftovers : Returns(Fixnum(Number(Top.token \o more)))
  /\ UNCHANGED <<heap, image, stack, frames, files, session>>

(* A symbol is interned in the package of the current environment.         *)
ReadSymbol ==
  /\ Doing("READ", "step_10") /\ (Top.escaped \/ ~IsNumber(Top.token))
  /\ Calls([Top EXCEPT !.pc = "interned"], InternAct(objects[CurrentEnv].package, Top.token))
  /\ UNCHANGED <<heap, image, stack, frames, files, session>>

ReadReturns ==
  /\ Doing("READ", "macro") \/ Doing("READ", "interned")
  /\ Returns(value)
  /\ UNCHANGED <<heap, image, stack, frames, files, session>>

(* At its end the input may be between two forms of the REPL.              *)
Reading == {i \in DOMAIN acts : acts[i].fn = "READ"}

ReadFails ==
  \/ /\ Doing("READ", "step_1") /\ AtEnd
     /\ Ends(IF Cardinality(Reading) = 1 THEN "end of input" ELSE "aborted")
  \/ Doing("READ", "step_9") /\ AtEnd /\ Ends("aborted")
  \/ /\ Doing("READ", "step_1") \/ Doing("READ", "step_8") \/ Doing("READ", "step_9")
     /\ Sees /\ IsInvalid(NextChar)
     /\ Ends("aborted")

(* '#' is a macro character without a function.                            *)
ReadCallsNothing ==
  Doing("READ", "step_1") /\ Sees /\ IsDispatch(NextChar) /\ Ends("undefined")

----------------------------------------------------------------------------
(* READ-OPEN-PAREN                                                         *)

NoBuffer == 0      \* last_cons_ptr is NULL
InCons   == -1     \* last_cons_ptr points into a cons

(* depth is open_paren_count; last the buffer last_cons_ptr points into,   *)
(* and cons what it leads to.                                              *)
OpenParenAct(file) ==
  [fn |-> "(", pc |-> "scan", file |-> file, depth |-> 1, chars |-> <<>>,
   temp |-> Null, stream |-> Null, last |-> NoBuffer, cons |-> Null, held |-> {}]

OpenParenStarts ==
  Invokes("READ-OPEN-PAREN", OpenParenAct(objects[FirstArgument[2]].file))

DepthAfter(c) == Top.depth + (IF c = "(" THEN 1 ELSE IF c = ")" THEN -1 ELSE 0)

OpenParenScans ==
  /\ Doing("(", "scan") /\ Sees /\ DepthAfter(NextChar) > 0
  /\ Becomes([Top EXCEPT !.depth = DepthAfter(NextChar), !.chars = Append(@, NextChar)])
  /\ Consumes
  /\ UNCHANGED <<heap, image, stack, frames, session>>

(* What is between the parentheses is copied to a temporary file, which    *)
(* nothing will close.                                                     *)
OpenParenCopies ==
  /\ Doing("(", "scan") /\ Sees /\ DepthAfter(NextChar) = 0
  /\ LET temp == Cardinality(DOMAIN files)
     IN  /\ files' = Inserted([files EXCEPT ![Top.file].pos = @ + 1], temp,
                              [chars |-> Top.chars, pos |-> 0])
         /\ Becomes([Top EXCEPT !.pc = "gensym", !.temp = temp])
  /\ UNCHANGED <<heap, image, stack, frames, session>>

OpenParenGensyms ==
  /\ Doing("(", "gensym")
  /\ Gensyms("SYSTEM")
  /\ Becomes([Top EXCEPT !.pc = "stream", !.held = {Fresh}])
  /\ UNCHANGED <<rt, stack, frames, files, session>>

OpenParenAllocatesStream ==
  /\ Doing("(", "stream")
  /\ LET sym == CHOOSE s \in Top.held : TRUE
     IN  Allocates(Stream(Top.temp), BoundTo(CurrentEnv, sym, Object(Fresh), objects))
  /\ Becomes([Top EXCEPT !.pc = "element", !.stream = Fresh, !.held = {Fresh}])
  /\ UNCHANGED <<image, stack, frames, files, session>>

(* is_whitespace, from where the temporary file is read.                   *)
OnlyWhitespaceLeft ==
  \A i \in files[Top.temp].pos + 1 .. Len(Top.chars) :
    IsWhitespace(Top.chars[i]) \/ Top.chars[i] = "VT"

OpenParenReads ==
  /\ Doing("(", "element") /\ ~OnlyWhitespaceLeft
  /\ CallsFunction([Top EXCEPT !.pc = "link"], FunctionNamed("COMMON-LISP", "READ"),
                   <<Object(Top.stream)>>)
  /\ UNCHANGED <<heap, image, frames, files, session>>

Links(buffer) ==
  Becomes([Top EXCEPT !.pc = "element", !.last = buffer, !.cons = Fresh,
                      !.held = {Top.stream, Fresh}])

(* Faulty variant: leaves one form more on the stack.                      *)
OpenParenBeginsListTwice ==
  /\ Doing("(", "link") /\ Top.last = NoBuffer
  /\ Allocates(ConsCell(value, Nil), objects)
  /\ Pushes(<<Nil, Object(Fresh)>>)
  /\ Links(form_cap')
  /\ UNCHANGED <<image, frames, files, session>>

(* The first element begins the list on the form stack.                    *)
OpenParenBeginsList ==
  /\ Doing("(", "link") /\ Top.last = NoBuffer
  /\ Allocates(ConsCell(value, Nil), objects)
  /\ Pushes(<<Object(Fresh)>>)
  /\ Links(form_cap')
  /\ UNCHANGED <<image, frames, files, session>>

(* Any other is linked to the cons before it.                              *)
OpenParenExtendsList ==
  /\ Doing("(", "link") /\ Top.last # NoBuffer
  /\ Allocates(ConsCell(value, Nil), [objects EXCEPT ![Top.cons].cdr = Object(Fresh)])
  /\ Links(InCons)
  /\ UNCHANGED <<image, stack, frames, files, session>>

(* The form stack has been moved away from under last_cons_ptr.            *)
OpenParenLoses ==
  /\ Doing("(", "link") /\ Top.last \notin {NoBuffer, InCons, form_cap}
  /\ Ends("undefined")

OpenParenReturns ==
  /\ Doing("(", "element") /\ OnlyWhitespaceLeft
  /\ IF Top.last = NoBuffer THEN Returns(Nil) /\ UNCHANGED form_stack
     ELSE Returns(Last(form_stack)) /\ form_stack' = DropLast(form_stack, 1)
  /\ UNCHANGED <<heap, image, form_cap, frames, files, session>>

(* At the end of the file the loop adds EOF characters for ever.           *)
OpenParenLoops == Doing("(", "scan") /\ AtEnd /\ Ends("looping")

----------------------------------------------------------------------------
(* READ-CLOSE-PAREN, READ-DOUBLE-QUOTE, READ-SINGLE-QUOTE                  *)

CloseParenAborts ==
  /\ Doing("call", "arguments") /\ Top.arg_i = Top.arg_count
  /\ objects[form_stack[Top.fn_index + 1][2]].name = "READ-CLOSE-PAREN"
  /\ Ends("aborted")

DoubleQuoteAct(file) ==
  [fn |-> "\"", pc |-> "scan", file |-> file, chars |-> <<>>, escaped |-> FALSE, held |-> {}]

DoubleQuoteStarts ==
  Invokes("READ-DOUBLE-QUOTE", DoubleQuoteAct(objects[FirstArgument[2]].file))

DoubleQuoteScans ==
  /\ Doing("\"", "scan") /\ Sees
  /\ \/ Top.escaped /\ Becomes([Top EXCEPT !.chars = Append(@, EscapeChar(NextChar)), !.escaped = FALSE])
     \/ /\ ~Top.escaped /\ NextChar # "\""
        /\ IF NextChar = "\\" THEN Becomes([Top EXCEPT !.escaped = TRUE])
           ELSE Becomes([Top EXCEPT !.chars = Append(@, NextChar)])
     \/ ~Top.escaped /\ NextChar = "\"" /\ Goes("string")
  /\ Consumes
  /\ UNCHANGED <<heap, image, stack, frames, session>>

DoubleQuoteLoops == Doing("\"", "scan") /\ AtEnd /\ Ends("looping")

DoubleQuoteAllocatesString ==
  /\ Doing("\"", "string")
  /\ Allocates(String, objects)
  /\ Pushes(<<Object(Fresh)>>)
  /\ Becomes([Top EXCEPT !.pc = "chars", !.held = {Fresh}])
  /\ UNCHANGED <<image, frames, files, session>>

DoubleQuoteReturns ==
  /\ Doing("\"", "chars")
  /\ LET str == Last(form_stack)
     IN  /\ Allocates(Text(UpToNul(Top.chars)), [objects EXCEPT ![str[2]].lexeme = Fresh])
         /\ Returns(str)
  /\ form_stack' = DropLast(form_stack, 1)
  /\ UNCHANGED <<image, form_cap, frames, files, session>>

SingleQuoteAct(stream) ==
  [fn |-> "'", pc |-> "intern", stream |-> stream, held |-> Ids({stream})]

SingleQuoteStarts == Invokes("READ-SINGLE-QUOTE", SingleQuoteAct(FirstArgument))

SingleQuoteInterns ==
  /\ Doing("'", "intern")
  /\ Calls([Top EXCEPT !.pc = "read"], InternAct("COMMON-LISP", Chars("QUOTE")))
  /\ UNCHANGED <<heap, image, stack, frames, files, session>>

SingleQuoteReads ==
  /\ Doing("'", "read")
  /\ CallsFunction([Top EXCEPT !.pc = "quote", !.held = Ids({value})],
                   FunctionNamed("COMMON-LISP", "READ"), <<Top.stream>>)
  /\ UNCHANGED <<heap, image, frames, files, session>>

SingleQuoteBegins ==
  /\ Doing("'", "quote")
  /\ LET quote == CHOOSE s \in Top.held : TRUE
     IN  Allocates(ConsCell(Object(quote), Nil), objects)
  /\ Pushes(<<Object(Fresh)>>)
  /\ Becomes([Top EXCEPT !.pc = "form", !.held = {Fresh}])
  /\ UNCHANGED <<image, frames, files, session>>

SingleQuoteReturns ==
  /\ Doing("'", "form")
  /\ LET quoted == Last(form_stack)
     IN  /\ Allocates(ConsCell(value, Nil), [objects EXCEPT ![quoted[2]].cdr = Object(Fresh)])
         /\ Returns(quoted)
  /\ form_stack' = DropLast(form_stack, 1)
  /\ UNCHANGED <<image, form_cap, frames, files, session>>

----------------------------------------------------------------------------
(* repl and system_repl                                                    *)

ReplAct == [fn |-> "REPL", pc |-> "gensym", string |-> Null, held |-> {}]

BootCallsRepl ==
  /\ Running /\ At("repl")
  /\ CallsFunction(ThenNext, FunctionNamed("SYSTEM", "REPL"), <<>>)
  /\ UNCHANGED <<heap, image, frames, files, session>>

ReplStarts == Invokes("REPL", ReplAct)

ReplGensyms ==
  /\ Doing("REPL", "gensym")
  /\ Gensyms("SYSTEM")
  /\ Becomes([Top EXCEPT !.pc = "string", !.held = {Fresh}])
  /\ UNCHANGED <<rt, stack, frames, files, session>>

ReplAllocatesString ==
  /\ Doing("REPL", "string")
  /\ LET sym == CHOOSE s \in Top.held : TRUE
     IN  Allocates(String, BoundTo(CurrentEnv, sym, Object(Fresh), objects))
  /\ Becomes([Top EXCEPT !.pc = "chars", !.string = Fresh, !.held = {Fresh}])
  /\ UNCHANGED <<image, stack, frames, files, session>>

ReplAllocatesChars ==
  /\ Doing("REPL", "chars")
  /\ Allocates(Text(Chars("~A~%")), [objects EXCEPT ![Top.string].lexeme = Fresh])
  /\ Goes("prompt")
  /\ UNCHANGED <<image, stack, frames, files, session>>

UserTypes ==
  /\ Doing("REPL", "prompt") /\ files = << >>
  /\ \E text \in Texts : files' = (Stdin :> [chars |-> text, pos |-> 0])
  /\ UNCHANGED <<heap, image, stack, frames, acts, value, session>>

ReplReads ==
  /\ Doing("REPL", "prompt") /\ files # << >>
  /\ CallsFunction([Top EXCEPT !.pc = "read"], FunctionNamed("COMMON-LISP", "READ"), <<>>)
  /\ UNCHANGED <<heap, image, frames, files, session>>

IsQuit(form) ==
  /\ Kind(form) = "cons" /\ Kind(objects[form[2]].car) = "symbol"
  /\ Name(objects[form[2]].car[2]) = Chars("QUIT")

(* FORMAT prints the form, and what it returns becomes the last return.    *)
ReplFormats ==
  /\ Doing("REPL", "read") /\ ~IsQuit(value)
  /\ read_forms' = Append(read_forms, value)
  /\ SetLastReturn(Nil)
  /\ acts' = Append(Below, [Top EXCEPT !.pc = "prompt"]) /\ value' = Nil
  /\ UNCHANGED <<heap, image, stack, frame_stack, frame_cap, files, ended>>

ReplQuits ==
  /\ Doing("REPL", "read") /\ IsQuit(value)
  /\ Ends("quit")

----------------------------------------------------------------------------
Init ==
  /\ RuntimeInit
  /\ files = << >> /\ read_forms = <<>> /\ ended = "running"

Reads ==
  \/ ReadStarts \/ ReadGensyms \/ ReadAllocatesStream \/ ReadSkipsWhitespace
  \/ ReadCallsMacro \/ ReadStartsToken \/ ReadStep8 \/ ReadStep9 \/ ReadEndsToken
  \/ ReadNumber \/ ReadSymbol \/ ReadReturns \/ ReadFails \/ ReadCallsNothing

ReadsList ==
  \/ OpenParenStarts \/ OpenParenScans \/ OpenParenCopies \/ OpenParenGensyms
  \/ OpenParenAllocatesStream \/ OpenParenReads \/ OpenParenBeginsList
  \/ OpenParenExtendsList \/ OpenParenLoses \/ OpenParenReturns \/ OpenParenLoops
  \/ CloseParenAborts

ReadsQuoted ==
  \/ DoubleQuoteStarts \/ DoubleQuoteScans \/ DoubleQuoteLoops
  \/ DoubleQuoteAllocatesString \/ DoubleQuoteReturns
  \/ SingleQuoteStarts \/ SingleQuoteInterns \/ SingleQuoteReads
  \/ SingleQuoteBegins \/ SingleQuoteReturns

Repl ==
  \/ BootCallsRepl \/ ReplStarts \/ ReplGensyms \/ ReplAllocatesString
  \/ ReplAllocatesChars \/ UserTypes \/ ReplReads \/ ReplFormats \/ ReplQuits

Next ==
  \/ Running /\ (Boots \/ Interns) /\ UNCHANGED <<files, session>>
  \/ CallBegins \/ CallTakesArg \/ CallReturns
  \/ Reads \/ ReadsList \/ ReadsQuoted \/ Repl

Spec == Init /\ [][Next]_vars

(* One thread runs everything, and a character that is waited for comes.   *)
FairSpec == Spec /\ WF_vars(Next)

----------------------------------------------------------------------------
(* The stacks fit their buffers and go together, references lead to        *)
(* objects, and the evaluated arguments of every call under way are where  *)
(* the call put them, as many as it has evaluated: the function it calls   *)
(* takes them from there, whatever was read in between.                    *)
TypeOK ==
  /\ ended \in {"running", "end of input", "quit", "aborted", "looping", "undefined"}
  /\ Len(form_stack) <= form_cap /\ Len(frame_stack) <= frame_cap
  /\ Len(last_return_value) = Len(frame_stack)
  /\ Held \subseteq DOMAIN objects /\ Ids(ToSet(form_stack)) \subseteq DOMAIN objects
  /\ \A i \in DOMAIN acts :
       acts[i].fn = "call" /\ acts[i].pc # "begin" =>
         /\ EvaledOffset(acts[i]) < Len(form_stack)
         /\ Len(Conses(form_stack[EvaledOffset(acts[i]) + 1])) = acts[i].arg_i

AllocationStarts == DOMAIN objects' # DOMAIN objects
CollectionRuns   == AllocationStarts /\ bytes' >= next_gc

(* objs_mark_used goes through rt->interpreter, which initialize_runtime   *)
(* leaves as it was until its last call (runtime.c:424), and through the   *)
(* list of the packages, which is empty until all three are complete: no   *)
(* collection runs before both are there, so what is allocated until then  *)
(* has to stay below the first limit.                                      *)
CollectionsFindRoots ==
  [][CollectionRuns => rt.interpreter # Null /\ rt.packages = ToSet(PackageNames)]_vars

(* Once the runtime is there any allocation may start a collection: it     *)
(* finds everything that the functions under way will still use, on the    *)
(* stacks, in the last returns, or bound to a symbol (the comment at       *)
(* system_inherents.c:29 says what the bindings are for).  Only the symbol *)
(* that intern_symbol is making is out of its sight.                       *)
BeingInterned == UNION {acts[i].held : i \in {j \in DOMAIN acts : acts[j].fn = "intern_symbol"}}

HeldIsReached ==
  [][AllocationStarts /\ rt.interpreter # Null => Held \ BeingInterned \subseteq Reached]_vars

(* "remove all the allocations that are still marked grey (not used)"      *)
(* (memory_manager.c:96): what a collection does not mark is not used.     *)
GreyIsNotUsed ==
  [][CollectionRuns /\ rt.interpreter # Null => Held \subseteq Reached]_vars

(* Symbols with a name are the same if their names and packages are: EQ    *)
(* and the maps of the environments compare addresses (runtime.c:14), so a *)
(* second symbol of a name would not find what is bound to the first.      *)
Named == {s \in DOMAIN objects : objects[s].kind = "symbol" /\ objects[s].lexeme # Null}

OneSymbolPerName ==
  \A s, other \in Named :
    Name(s) = Name(other) /\ objects[s].package = objects[other].package => s = other
=============================================================================
