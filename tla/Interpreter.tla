---------------------------- MODULE Interpreter -----------------------------
(***************************************************************************)
(* The bytecode machine of src/runtime/interpreter.c, under the REPL of    *)
(* src/runtime/system_inherents.c: read a form, pass it to FORMAT as an    *)
(* argument, which evaluates it, and so on until (QUIT).                   *)
(*                                                                         *)
(* interpret_bytes and interpret_function_call call each other through C.  *)
(* Their activations are the sequence acts, the running one last; below    *)
(* the first one is system_repl.  A step is one bytecode, or one turn of   *)
(* interpret_function_call.                                                *)
(*                                                                         *)
(* Offsets are C's: the item at offset i of a stack is its element i + 1.  *)
(* A pointer into a stack is the capacity of the buffer it points into.    *)
(***************************************************************************)
EXTENDS Forms, Lists, Integers, SequencesExt

CONSTANTS
  Programs,         \* the forms the user may type
  Analyze(_),       \* analyze_form on an empty list: [bytes, ret]
  Reading(_, _, _), \* reading a form above a stack of a size and a capacity:
                    \* [cap, frames, stale]
  MaxReads,         \* bound: forms read before the input ends
  MaxEnvs           \* bound: environments the heap has room for

ASSUME BoundsAssumption == MaxReads \in Nat /\ MaxEnvs \in Nat

VARIABLES
  form_stack,
  last_return_value,
  frame_stack,           \* of [env, source, prev]; prev names a buffer
  environment_bindings,  \* env -> tag -> bytecode index
  envs,                  \* the Environments in use: id -> [parent, vals]
  acts,                  \* the activations of the two C functions
  repl,                  \* where system_repl is, or how the program ended
  reads,
  printed,               \* the arguments FORMAT printed since the last form read
  form_cap, frame_cap    \* capacities of form_stack and frame_stack

vars == <<form_stack, last_return_value, frame_stack, environment_bindings,
          envs, acts, repl, reads, printed, form_cap, frame_cap>>

stacks == <<form_stack, form_cap>>
session == <<repl, reads, printed>>
scopes == <<last_return_value, frame_stack, frame_cap, envs>>

NoEnv  == -1
NoBuffer == 0      \* no pointer into a list
Heap     == -1     \* a pointer into a cons

Inherents == {"READ", "FORMAT"}   \* what USER imports from COMMON-LISP

BytesAct(bytes) == [kind |-> "bytes", bytes |-> bytes, index |-> 0]
CallAct(fn, fn_index, arg_count) ==
  [kind |-> "call", fn |-> fn, fn_index |-> fn_index, arg_count |-> arg_count,
   arg_i |-> 0, cur_cons |-> NoBuffer]

Running == acts # <<>> /\ repl \in {"reading", "printing"}
Top     == Last(acts)
Below   == Front(acts)

InBytes == Running /\ Top.kind = "bytes" /\ Top.index < Len(Top.bytes)
Byte    == Top.bytes[Top.index + 1]
At(op)  == InBytes /\ Byte.op = op
InCall  == Running /\ Top.kind = "call"

JumpTo(index) == acts' = Below \o <<[Top EXCEPT !.index = index]>>
Advance       == JumpTo(Top.index + 1)

Ends(how) ==
  /\ repl' = how
  /\ UNCHANGED <<form_stack, last_return_value, frame_stack, environment_bindings,
                 envs, acts, reads, printed, form_cap, frame_cap>>

----------------------------------------------------------------------------
(* Environments                                                            *)

CurrentEnv == Last(frame_stack).env

Ancestry(env) ==
  LET up[e \in DOMAIN envs] ==
        {e} \cup IF envs[e].parent = NoEnv THEN {} ELSE up[envs[e].parent]
  IN  up[env]

(* The nearest environment, from env up, that binds the symbol.            *)
Binder(env, sym) ==
  LET nearest[e \in DOMAIN envs] ==
        IF sym \in DOMAIN envs[e].vals THEN e
        ELSE IF envs[e].parent = NoEnv THEN NoEnv ELSE nearest[envs[e].parent]
  IN  nearest[env]

(* What the marker reaches: an environment it does not reach is free, and  *)
(* its address may be that of the next one.                                *)
Reached ==
  (UNION {Ancestry(frame_stack[i].env) : i \in DOMAIN frame_stack})
  \cup (UNION {Ancestry(e) : e \in DOMAIN environment_bindings})

(* Faulty variant: the new environment hangs from the global one.          *)
PushEnvironmentGlobal(source) ==
  LET used == Reached
      new  == CHOOSE e \in (0 .. MaxEnvs - 1) \ used : TRUE
      env  == [parent |-> frame_stack[1].env, vals |-> << >>]
  IN  /\ \E e \in 0 .. MaxEnvs - 1 : e \notin used
      /\ envs' = Inserted([e \in used |-> envs[e]], new, env)
      /\ frame_stack' = Append(frame_stack,
                               [env |-> new, source |-> source, prev |-> frame_cap])
      /\ frame_cap' = Capacity(frame_cap, Len(frame_stack) + 1)
      /\ last_return_value' = Append(last_return_value, Nil)

PushEnvironment(source) ==
  LET used == Reached
      new  == CHOOSE e \in (0 .. MaxEnvs - 1) \ used : TRUE
      env  == [parent |-> CurrentEnv, vals |-> << >>]
  IN  /\ \E e \in 0 .. MaxEnvs - 1 : e \notin used
      /\ envs' = Inserted([e \in used |-> envs[e]], new, env)
      /\ frame_stack' = Append(frame_stack,
                               [env |-> new, source |-> source, prev |-> frame_cap])
      /\ frame_cap' = Capacity(frame_cap, Len(frame_stack) + 1)
      /\ last_return_value' = Append(last_return_value, Nil)

(* Faulty variant: the returned value is lost with its frame.              *)
PopToForgetting(n) ==
  /\ frame_stack' = SubSeq(frame_stack, 1, n)
  /\ last_return_value' = SubSeq(last_return_value, 1, n)
  /\ UNCHANGED <<frame_cap, envs>>

(* Faulty variant: only the frames are popped.                             *)
PopToFrames(n) ==
  /\ frame_stack' = SubSeq(frame_stack, 1, n)
  /\ UNCHANGED <<last_return_value, frame_cap, envs>>

(* pop_environment until n frames are left: the last return of a popped    *)
(* environment becomes that of the one below.                              *)
PopTo(n) ==
  /\ frame_stack' = SubSeq(frame_stack, 1, n)
  /\ last_return_value' =
       [SubSeq(last_return_value, 1, n) EXCEPT ![n] = Last(last_return_value)]
  /\ UNCHANGED <<frame_cap, envs>>

SetLastReturn(form) ==
  last_return_value' = [last_return_value EXCEPT ![Len(last_return_value)] = form]

----------------------------------------------------------------------------
(* The bytecodes                                                           *)

Pushes(forms) ==
  /\ form_stack' = form_stack \o forms
  /\ form_cap' = Capacity(form_cap, Len(form_stack) + Len(forms))

(* The last n forms of the stack are replaced by forms, not more than n.   *)
Replaces(n, forms) ==
  /\ form_stack' = DropLast(form_stack, n) \o forms
  /\ UNCHANGED form_cap

OpPush ==
  /\ At("Push")
  /\ Pushes(<<Byte.target>>)
  /\ Advance
  /\ UNCHANGED <<scopes, environment_bindings, session>>

OpPop ==
  /\ At("Pop")
  /\ Replaces(1, <<>>)
  /\ Advance
  /\ UNCHANGED <<scopes, environment_bindings, session>>

(* Faulty variant: the form stays on the stack.                            *)
OpRetFormKeeping ==
  /\ At("RetForm") /\ form_stack # <<>>
  /\ SetLastReturn(Last(form_stack))
  /\ Advance
  /\ UNCHANGED <<form_stack, form_cap, frame_stack, frame_cap, envs, environment_bindings, session>>

OpRetForm ==
  /\ At("RetForm") /\ form_stack # <<>>
  /\ SetLastReturn(Last(form_stack))
  /\ Replaces(1, <<>>)
  /\ Advance
  /\ UNCHANGED <<frame_stack, frame_cap, envs, environment_bindings, session>>

(* Faulty variant: binds in the environment around the tagbody's own.      *)
OpBindTagOutside ==
  /\ At("BindTag") /\ form_stack # <<>>
  /\ LET env == frame_stack[Len(frame_stack) - 1].env
         old == IF env \in DOMAIN environment_bindings
                THEN environment_bindings[env] ELSE << >>
         new == Inserted(old, Last(form_stack), Byte.index)
     IN  environment_bindings' = Inserted(environment_bindings, env, new)
  /\ Replaces(1, <<>>)
  /\ Advance
  /\ UNCHANGED <<scopes, session>>

OpBindTag ==
  /\ At("BindTag") /\ form_stack # <<>>
  /\ LET env == CurrentEnv
         old == IF env \in DOMAIN environment_bindings
                THEN environment_bindings[env] ELSE << >>
         new == Inserted(old, Last(form_stack), Byte.index)
     IN  environment_bindings' = Inserted(environment_bindings, env, new)
  /\ Replaces(1, <<>>)
  /\ Advance
  /\ UNCHANGED <<scopes, session>>

(* bind_value: where the symbol is bound already, or else here.            *)
OpBindValue ==
  /\ At("BindValue") /\ Len(form_stack) > 1
  /\ LET value == Last(form_stack)
         name  == form_stack[Len(form_stack) - 1]
         bound == Binder(CurrentEnv, name[2])
         env   == IF bound = NoEnv THEN CurrentEnv ELSE bound
     IN  /\ IsSymbol(name)
         /\ envs' = [envs EXCEPT ![env].vals = Inserted(@, name[2], value)]
         /\ Replaces(2, <<value>>)
  /\ Advance
  /\ UNCHANGED <<last_return_value, frame_stack, frame_cap, environment_bindings, session>>

OpPushLexicalEnv ==
  /\ At("PushLexicalEnv")
  /\ PushEnvironment("bytes")
  /\ Advance
  /\ UNCHANGED <<stacks, environment_bindings, session>>

OpPopLexicalEnv ==
  /\ At("PopLexicalEnv") /\ Len(frame_stack) > 1
  /\ PopTo(Len(frame_stack) - 1)
  /\ Advance
  /\ UNCHANGED <<stacks, environment_bindings, session>>

(* symbol_value: a symbol of COMMON-LISP is looked up there, where no      *)
(* value is bound; any other from the current environment up.              *)
IsBound(name) == name \notin Inherents /\ Binder(CurrentEnv, name) # NoEnv

OpLookupSymbol ==
  /\ At("LookupSymbol") /\ form_stack # <<>>
  /\ LET name == Last(form_stack)[2]
     IN  /\ IsSymbol(Last(form_stack)) /\ IsBound(name)
         /\ Replaces(1, <<envs[Binder(CurrentEnv, name)].vals[name]>>)
  /\ Advance
  /\ UNCHANGED <<scopes, environment_bindings, session>>

OpLookupFunction ==
  /\ At("LookupFunction") /\ form_stack # <<>>
  /\ LET form == Last(form_stack)
     IN  /\ IsSymbol(form) /\ form[2] \in Inherents
         /\ Replaces(1, <<Function(form[2])>>)
  /\ Advance
  /\ UNCHANGED <<scopes, environment_bindings, session>>

(* interpret_function_call starts: a frame, and NIL where the evaluated     *)
(* arguments are collected, above the function and its arguments.  The     *)
(* caller may have pushed these just before.                               *)
BeginCall(fn, pushed, arg_count) ==
  LET fn_index == Len(form_stack) + Len(pushed) - (1 + arg_count)
  IN  /\ acts' = Append(acts, CallAct(fn, fn_index, arg_count))
      /\ PushEnvironment("funcall")
      /\ Pushes(pushed \o <<Nil>>)

FunctionOffset == Len(form_stack) - (1 + Byte.arg_count)

OpFuncall ==
  /\ At("Funcall") /\ FunctionOffset >= 0
  /\ LET fn == form_stack[FunctionOffset + 1]
     IN  IsFunction(fn) /\ BeginCall(fn[2], <<>>, Byte.arg_count)
  /\ UNCHANGED <<environment_bindings, session>>

----------------------------------------------------------------------------
(* GO                                                                      *)

Binds(i, tag) ==
  LET env == frame_stack[i].env
  IN  env \in DOMAIN environment_bindings /\ tag \in DOMAIN environment_bindings[env]

Binding(tag) == {i \in DOMAIN frame_stack : Binds(i, tag)}

(* check_valid_tag goes from the last frame, by its prev pointers, to the  *)
(* first that binds the tag, or to the end.                                *)
Followed(tag) ==
  {i \in DOMAIN frame_stack : frame_stack[i].prev # NoBuffer /\ \A j \in Binding(tag) : j < i}

(* handle_go_result stops at the first frame that binds the tag or does    *)
(* not belong to the running interpret_bytes.                              *)
Landing(tag) ==
  Max({i \in DOMAIN frame_stack : Binds(i, tag) \/ frame_stack[i].source # "bytes"})

(* Faulty variant: jumps without leaving the scopes entered since.         *)
OpGoLandsInside ==
  /\ At("GoReturn") /\ Binding(Byte.target) # {}
  /\ LET tag == Byte.target
         i   == Landing(tag)
     IN  /\ Binds(i, tag)
         /\ JumpTo(environment_bindings[frame_stack[i].env][tag])
  /\ form_cap' = Capacity(form_cap, Len(form_stack) + 1)
  /\ UNCHANGED <<form_stack, scopes, environment_bindings, session>>

(* Faulty variant: the index is moved on after the jump, too.              *)
OpGoLandsBehind ==
  /\ At("GoReturn") /\ Binding(Byte.target) # {}
  /\ LET tag == Byte.target
         i   == Landing(tag)
     IN  /\ Binds(i, tag)
         /\ PopTo(i)
         /\ JumpTo(environment_bindings[frame_stack[i].env][tag] + 1)
  /\ form_cap' = Capacity(form_cap, Len(form_stack) + 1)
  /\ UNCHANGED <<form_stack, environment_bindings, session>>

(* The tag goes through the form stack from one function to the other.     *)
OpGoLands ==
  /\ At("GoReturn") /\ Binding(Byte.target) # {}
  /\ LET tag == Byte.target
         i   == Landing(tag)
     IN  /\ Binds(i, tag)
         /\ PopTo(i)
         /\ JumpTo(environment_bindings[frame_stack[i].env][tag])
  /\ form_cap' = Capacity(form_cap, Len(form_stack) + 1)
  /\ UNCHANGED <<form_stack, environment_bindings, session>>

(* The tag is bound further up: interpret_bytes returns it, and so does    *)
(* interpret_function_call, at once.  kOpFuncall takes it for a value.     *)
OpGoLeaves ==
  /\ At("GoReturn") /\ Binding(Byte.target) # {} /\ Len(acts) > 2
  /\ ~Binds(Landing(Byte.target), Byte.target)
  /\ PopTo(Landing(Byte.target))
  /\ Pushes(<<Byte.target>>)
  /\ LET caller == acts[Len(acts) - 2]
     IN  acts' = SubSeq(acts, 1, Len(acts) - 3) \o <<[caller EXCEPT !.index = @ + 1]>>
  /\ UNCHANGED <<environment_bindings, session>>

(* ... or it arrives at system_repl, which returns it: the REPL is left.   *)
OpGoLeavesRepl ==
  /\ At("GoReturn") /\ Binding(Byte.target) # {} /\ Len(acts) = 2
  /\ LET i == Landing(Byte.target)
     IN  /\ ~Binds(i, Byte.target) /\ i > 1
         /\ frame_stack' = SubSeq(frame_stack, 1, i - 1)
         /\ last_return_value' =
              [SubSeq(last_return_value, 1, i - 1) EXCEPT ![i - 1] = Byte.target]
  /\ Replaces(2, <<>>)
  /\ acts' = <<>>
  /\ repl' = "quit"
  /\ UNCHANGED <<frame_cap, envs, environment_bindings, reads, printed>>

----------------------------------------------------------------------------
(* interpret_function_call                                                 *)

(* An argument is compiled and run when its turn comes.                    *)
ArgOffset == Top.fn_index + 1 + Top.arg_i

EvaluateArg ==
  /\ InCall /\ Top.arg_i < Top.arg_count /\ ArgOffset < Len(form_stack)
  /\ LET analysis == Analyze(form_stack[ArgOffset + 1])
     IN  /\ analysis.ret = 0
         /\ acts' = Append(acts, BytesAct(analysis.bytes))
  /\ UNCHANGED <<stacks, scopes, environment_bindings, session>>

ArgReady == Running /\ Top.kind = "bytes" /\ Top.index >= Len(Top.bytes)

EvaledOffset(call) == call.fn_index + call.arg_count + 1

(* The evaluated arguments so far are where the call put them.             *)
EvaledHolds(call) ==
  /\ EvaledOffset(call) < Len(form_stack)
  /\ LET evaled == form_stack[EvaledOffset(call) + 1]
     IN  IsList(evaled) /\ Len(Elements(evaled)) = call.arg_i

(* interpret_bytes returns the last return; it is added to the arguments,  *)
(* the first time through the form stack, then through the last cons.      *)
AddArg ==
  /\ ArgReady
  /\ LET call   == Last(Below)
         evaled == EvaledOffset(call) + 1
         cons   == Append(Elements(form_stack[evaled]), Last(last_return_value))
         buffer == IF call.arg_i = 0 THEN form_cap ELSE Heap
     IN  /\ EvaledHolds(call)
         /\ form_stack' = [form_stack EXCEPT ![evaled] = List(cons)]
         /\ acts' = Front(Below) \o <<[call EXCEPT !.arg_i = @ + 1, !.cur_cons = buffer]>>
  /\ UNCHANGED <<form_cap, scopes, environment_bindings, session>>

(* What the inherent functions accept; no form is a stream.                *)
Accepts(fn, args) ==
  CASE fn = "FORMAT" -> Len(args) > 1 /\ args[1] = T /\ args[2][1] = "string"
    [] fn = "READ"   -> args = <<>>

Arguments == Elements(form_stack[EvaledOffset(Top) + 1])

CallIsReady(fn) ==
  /\ InCall /\ Top.fn = fn /\ Top.arg_i = Top.arg_count /\ EvaledHolds(Top)
  /\ Accepts(fn, Arguments) /\ Len(frame_stack) > 1

(* Faulty variant: leaves the function on the stack.                       *)
FinishCallLeavingFunction(form) ==
  LET n    == Len(frame_stack) - 1
      back == IF Below = <<>> THEN <<>> ELSE <<form>>
  IN  /\ form_stack' = DropLast(form_stack, Top.arg_count + 1) \o back
      /\ frame_stack' = SubSeq(frame_stack, 1, n)
      /\ last_return_value' = [SubSeq(last_return_value, 1, n) EXCEPT ![n] = form]
      /\ acts' = IF Below = <<>> THEN <<>>
                 ELSE Front(Below) \o <<[Last(Below) EXCEPT !.index = @ + 1]>>

(* Faulty variant: does not pop the frame.                                 *)
FinishCallKeepingFrame(form) ==
  LET back == IF Below = <<>> THEN <<>> ELSE <<form>>
  IN  /\ form_stack' = DropLast(form_stack, Top.arg_count + 2) \o back
      /\ UNCHANGED frame_stack
      /\ SetLastReturn(form)
      /\ acts' = IF Below = <<>> THEN <<>>
                 ELSE Front(Below) \o <<[Last(Below) EXCEPT !.index = @ + 1]>>

(* The result of the function becomes the last return; the evaluated       *)
(* arguments, the arguments and the function are popped, and the frame.    *)
(* kOpFuncall pushes the result and goes on; the REPL just goes on.        *)
FinishCall(form) ==
  LET n    == Len(frame_stack) - 1
      back == IF Below = <<>> THEN <<>> ELSE <<form>>
  IN  /\ form_stack' = DropLast(form_stack, Top.arg_count + 2) \o back
      /\ frame_stack' = SubSeq(frame_stack, 1, n)
      /\ last_return_value' = [SubSeq(last_return_value, 1, n) EXCEPT ![n] = form]
      /\ acts' = IF Below = <<>> THEN <<>>
                 ELSE Front(Below) \o <<[Last(Below) EXCEPT !.index = @ + 1]>>

CallFormat ==
  /\ CallIsReady("FORMAT")
  /\ printed' = Append(printed, Arguments)
  /\ FinishCall(Nil)
  /\ repl' = IF Below = <<>> THEN "prompt" ELSE repl
  /\ UNCHANGED <<reads, form_cap, frame_cap, envs, environment_bindings>>

CallRead ==
  /\ CallIsReady("READ") /\ reads < MaxReads
  /\ reads' = reads + 1
  /\ printed' = IF Below = <<>> THEN <<>> ELSE printed
  /\ \E form \in Programs :
       LET reading == Reading(form, Len(form_stack), form_cap)
       IN  /\ FinishCall(form)
           /\ form_cap' = reading.cap
           /\ frame_cap' = Capacity(frame_cap, Len(frame_stack) + reading.frames)
  /\ UNCHANGED <<repl, envs, environment_bindings>>

----------------------------------------------------------------------------
(* system_repl                                                             *)

ReplReads ==
  /\ repl = "prompt"
  /\ BeginCall("READ", <<Function("READ")>>, 0)
  /\ repl' = "reading"
  /\ UNCHANGED <<environment_bindings, reads, printed>>

ReadForm == Last(last_return_value)

IsQuit(form) == IsCons(form) /\ form[2][1] = Sym("QUIT")

ReplPrints ==
  /\ repl = "reading" /\ acts = <<>> /\ ~IsQuit(ReadForm)
  /\ BeginCall("FORMAT", <<Function("FORMAT"), T, Str("~A~%"), ReadForm>>, 3)
  /\ repl' = "printing"
  /\ UNCHANGED <<environment_bindings, reads, printed>>

(* The REPL is itself a call without arguments, and ends as one.           *)
ReplQuits ==
  /\ repl = "reading" /\ acts = <<>> /\ IsQuit(ReadForm)
  /\ LET n == Len(frame_stack) - 1
     IN  /\ n > 0
         /\ frame_stack' = SubSeq(frame_stack, 1, n)
         /\ last_return_value' = [SubSeq(last_return_value, 1, n) EXCEPT ![n] = Nil]
  /\ Replaces(2, <<>>)
  /\ repl' = "quit"
  /\ UNCHANGED <<frame_cap, envs, acts, environment_bindings, reads, printed>>

----------------------------------------------------------------------------
(* The assertions of the code, where they fail.                            *)
FailedAssertion ==
  \/ /\ At("BindValue")
     /\ Len(form_stack) > 1 => ~IsSymbol(form_stack[Len(form_stack) - 1])
  \/ /\ At("Funcall")
     /\ FunctionOffset >= 0 => ~IsFunction(form_stack[FunctionOffset + 1])
  \/ /\ At("LookupSymbol") /\ form_stack # <<>>
     /\ IsSymbol(Last(form_stack)) => ~IsBound(Last(form_stack)[2])
  \/ /\ At("LookupFunction") /\ form_stack # <<>>
     /\ IsSymbol(Last(form_stack)) => Last(form_stack)[2] \notin Inherents
  \/ At("GoReturn") /\ Binding(Byte.target) = {}
  \/ /\ InCall /\ Top.arg_i < Top.arg_count /\ ArgOffset < Len(form_stack)
     /\ Analyze(form_stack[ArgOffset + 1]).ret # 0
  \/ /\ InCall /\ Top.arg_i = Top.arg_count /\ EvaledHolds(Top)
     /\ ~Accepts(Top.fn, Arguments)

(* Where the code would go through a pointer into a buffer that has been   *)
(* given back since ...                                                    *)
StaleFrames(tag) == {i \in Followed(tag) : frame_stack[i].prev # frame_cap}

StaleCons(call) == call.arg_i = 1 /\ call.cur_cons # form_cap

(* ... or take something from a stack that is not there any more.          *)
LostMemory ==
  \/ /\ InBytes /\ Byte.op \in {"RetForm", "BindTag", "LookupSymbol", "LookupFunction"}
     /\ form_stack = <<>>
  \/ At("PopLexicalEnv") /\ Len(frame_stack) = 1
  \/ At("GoReturn") /\ StaleFrames(Byte.target) # {}
  \/ ArgReady /\ (~EvaledHolds(Last(Below)) \/ StaleCons(Last(Below)))
  \/ InCall /\ Top.arg_i < Top.arg_count /\ ArgOffset >= Len(form_stack)
  \/ InCall /\ Top.arg_i = Top.arg_count /\ (~EvaledHolds(Top) \/ Len(frame_stack) = 1)
  \/ /\ CallIsReady("READ") /\ reads < MaxReads
     /\ \E form \in Programs : Reading(form, Len(form_stack), form_cap).stale

Abort  == FailedAssertion /\ Ends("aborted")
Astray == LostMemory /\ Ends("undefined")

----------------------------------------------------------------------------
Globals == [T |-> T, NIL |-> Nil]

Init ==
  /\ form_stack = <<Function("REPL"), Nil>>
  /\ last_return_value = <<Nil, Nil>>
  /\ frame_stack = <<[env |-> 0, source |-> "base", prev |-> NoBuffer],
                     [env |-> 1, source |-> "funcall", prev |-> Capacity(0, 1)]>>
  /\ environment_bindings = << >>
  /\ envs = [e \in {0, 1} |->
               IF e = 0 THEN [parent |-> NoEnv, vals |-> Globals]
                        ELSE [parent |-> 0, vals |-> << >>]]
  /\ acts = <<>>
  /\ repl = "prompt"
  /\ reads = 0 /\ printed = <<>>
  /\ form_cap = Capacity(0, 2) /\ frame_cap = Capacity(Capacity(0, 1), 2)

RunByte ==
  \/ OpPush \/ OpPop \/ OpRetForm \/ OpBindTag \/ OpBindValue
  \/ OpPushLexicalEnv \/ OpPopLexicalEnv \/ OpFuncall
  \/ OpLookupSymbol \/ OpLookupFunction
  \/ OpGoLands \/ OpGoLeaves \/ OpGoLeavesRepl

Next ==
  \/ RunByte
  \/ EvaluateArg \/ AddArg \/ CallFormat \/ CallRead
  \/ ReplReads \/ ReplPrints \/ ReplQuits
  \/ Abort \/ Astray

Spec == Init /\ [][Next]_vars

(* One thread runs everything, so it stops only where it ends; a form that *)
(* is waited for is typed.                                                 *)
FairSpec == Spec /\ WF_vars(Next)

----------------------------------------------------------------------------
(* The stacks and what points from one to another have their shapes: in    *)
(* particular there is one last return per frame, as pop_environment,      *)
(* which pops both, relies on.                                             *)
TypeOK ==
  /\ repl \in {"prompt", "reading", "printing", "quit", "aborted", "undefined"}
  /\ frame_stack # <<>> /\ Len(last_return_value) = Len(frame_stack)
  /\ \A i \in DOMAIN frame_stack :
       /\ frame_stack[i].env \in DOMAIN envs
       /\ frame_stack[i].source \in {"base", "funcall", "bytes"}
       /\ frame_stack[i].prev <= frame_cap
  /\ DOMAIN environment_bindings \subseteq DOMAIN envs
  /\ \A e \in DOMAIN envs : envs[e].parent \in DOMAIN envs \cup {NoEnv}
  /\ Len(form_stack) <= form_cap /\ Len(frame_stack) <= frame_cap
  /\ reads \in 0 .. MaxReads

(* The note of check_valid_tag tells the call stack from the environment   *)
(* stack.  With the inherent functions the two are one chain: whatever is  *)
(* called, left by GO or left behind, the environment of a frame is the    *)
(* child of that of the frame below, so that a tag found up the call stack *)
(* is one found up the environments.                                       *)
FramesChainEnvironments ==
  \A i \in DOMAIN frame_stack :
    envs[frame_stack[i].env].parent
      = IF i = 1 THEN NoEnv ELSE frame_stack[i - 1].env

(* Tags are bound in the scopes of bytecode only.  handle_go_result looks  *)
(* for the tag before it looks at the source of a frame, so a tag bound in *)
(* a call's own environment would send the callee to an index that counts  *)
(* the caller's bytes.                                                     *)
TagsBelongToBytecode ==
  \A i \in DOMAIN frame_stack :
    frame_stack[i].source # "bytes" => frame_stack[i].env \notin DOMAIN environment_bindings

(* Whatever form of the language was typed, the REPL prompts with its own  *)
(* call on the form stack and its own frame on the base one, and nothing   *)
(* else.                                                                   *)
PromptIsClean ==
  repl = "prompt" =>
    /\ form_stack = <<Function("REPL"), Nil>>
    /\ Len(frame_stack) = 2

(* interpret_function_call, once its function has run, pops the evaluated  *)
(* arguments, the arguments and the function (comments at 960, 962 and 966 *)
(* of interpreter.c): whatever an argument pushed and popped, these are    *)
(* again the last on the stack when its bytecode has run, and until then   *)
(* nothing below has been taken.                                           *)
CallPopsItsOwn ==
  /\ InCall   => Len(form_stack) = EvaledOffset(Top) + 1
  /\ ArgReady => Len(form_stack) = EvaledOffset(Last(Below)) + 1

FuncallFrames == {i \in DOMAIN frame_stack : frame_stack[i].source = "funcall"}
Calls         == {i \in DOMAIN acts : acts[i].kind = "call"}

(* There is one funcall frame for each call under way, the REPL's with     *)
(* them: a GO that threads back up the call stack (comment at 657) leaves  *)
(* the frames of no call behind.                                           *)
FramesFollowCalls ==
  repl \in {"prompt", "reading", "printing"} =>
    Cardinality(FuncallFrames) = Cardinality(Calls) + 1

(* When the bytecode of an argument has run, every scope it entered has    *)
(* been left, by PopLexicalEnv or by GO: the call has its own frame again. *)
ScopesAreLeft ==
  ArgReady => Last(frame_stack).source = "funcall"

(* The last_cons_ptr of the reader is a pointer to the address of the last *)
(* cons that was added to a list (comment at line 123 of                   *)
(* system_inherents.c), which for the first is in the form stack: it is    *)
(* still there when the second element of the list has been read.          *)
LastConsIsLive ==
  CallIsReady("READ") =>
    \A form \in Programs : ~Reading(form, Len(form_stack), form_cap).stale
=============================================================================
