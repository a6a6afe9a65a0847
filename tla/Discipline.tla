----------------------------- MODULE Discipline ------------------------------
(***************************************************************************)
(* What interpret_bytes and interpret_function_call expect of a bytecode,  *)
(* and never check: that it takes from the form stack what it put there,   *)
(* that it leaves the scopes it enters, and that its GOs lead to places    *)
(* where both stacks are as they are at the GO.  It is a condition on the  *)
(* bytecode alone, read from one end to the other, and it is what the      *)
(* compiler makes of programs within the language as it is meant.          *)
(***************************************************************************)
EXTENDS Interpreter

CONSTANT Language   \* the forms that are evaluated: typed, or arguments

(* The shape of the stacks above what the caller had there: the forms, as  *)
(* far as the bytecode tells what they are, and the scopes it has entered, *)
(* each with the tags it binds.                                            *)
Unknown == <<"unknown">>

Shape(forms, tags) == [forms |-> forms, scopes |-> tags]

Entered == Shape(<<>>, <<>>)

Taken(byte) ==
  CASE byte.op \in {"Pop", "RetForm", "BindTag", "LookupSymbol", "LookupFunction"} -> 1
    [] byte.op = "BindValue" -> 2
    [] byte.op = "Funcall"   -> byte.arg_count + 1
    [] OTHER                 -> 0

Given(byte) ==
  CASE byte.op = "Push" -> <<byte.target>>
    [] byte.op \in {"BindValue", "LookupSymbol", "LookupFunction", "Funcall"} -> <<Unknown>>
    [] OTHER -> <<>>

ScopesAfter(byte, shape) ==
  CASE byte.op = "PushLexicalEnv" -> Append(shape.scopes, << >>)
    [] byte.op = "PopLexicalEnv"  -> DropLast(shape.scopes, 1)
    [] byte.op = "BindTag"        ->
         [shape.scopes EXCEPT ![Len(shape.scopes)] =
            Inserted(@, Last(shape.forms), byte.index)]
    [] OTHER                      -> shape.scopes

After(byte, shape) ==
  Shape(DropLast(shape.forms, Taken(byte)) \o Given(byte), ScopesAfter(byte, shape))

(* The shapes at the indices of a bytecode, if it is run without a jump.   *)
Shapes(bytes) ==
  LET shape[i \in 0 .. Len(bytes)] ==
        IF i = 0 THEN Entered ELSE After(bytes[i], shape[i - 1])
  IN  shape

(* The scopes that bind a tag; a GO is to the innermost.                   *)
Holding(shape, tag) == {k \in DOMAIN shape.scopes : tag \in DOMAIN shape.scopes[k]}

(* What a byte finds is the bytecode's own.  A tag is bound under its own  *)
(* name, and the arguments of a call are forms that are evaluated in turn. *)
FindsItsOwn(byte, shape) ==
  /\ Taken(byte) <= Len(shape.forms)
  /\ byte.op \in {"BindTag", "PopLexicalEnv"} => shape.scopes # <<>>
  /\ byte.op = "BindTag" => Last(shape.forms) # Unknown
  /\ byte.op = "Funcall" =>
       \A k \in Len(shape.forms) - byte.arg_count + 1 .. Len(shape.forms) :
         shape.forms[k] \in Language \ {Unknown}

(* A GO leads into the same bytecode, to where the scopes inside the one   *)
(* that binds the tag have not been entered and all else is as it is.      *)
GoesBack(tag, shape, shapes) ==
  /\ Holding(shape, tag) # {}
  /\ LET k      == Max(Holding(shape, tag))
         target == shape.scopes[k][tag]
     IN  /\ target \in DOMAIN shapes
         /\ shapes[target] = Shape(shape.forms, SubSeq(shape.scopes, 1, k))

Disciplined(bytes) ==
  LET shapes == Shapes(bytes)
  IN  /\ \A i \in DOMAIN bytes :
           /\ FindsItsOwn(bytes[i], shapes[i - 1])
           /\ bytes[i].op = "GoReturn" => GoesBack(bytes[i].target, shapes[i - 1], shapes)
      /\ shapes[Len(bytes)] = Entered

(* What is typed, and what system_repl adds to it in its call of FORMAT,   *)
(* is within the language, ...                                             *)
LanguageHoldsPrograms == Programs \cup {T, Str("~A~%")} \subseteq Language

(* ... and whatever in the language compiles is disciplined.               *)
LanguageIsDisciplined ==
  \A form \in Language : Analyze(form).ret = 0 => Disciplined(Analyze(form).bytes)
=============================================================================
