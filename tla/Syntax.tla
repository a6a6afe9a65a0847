------------------------------- MODULE Syntax --------------------------------
(***************************************************************************)
(* What a text means, from its characters and the standard syntax of       *)
(* Common Lisp, as far as the reader has it: whitespace, symbols in upper  *)
(* case, numbers of digits, strings, lists, and 'x for (QUOTE x).  A text  *)
(* is taken apart where it stands; the reader's copies, calls and stacks   *)
(* do not occur.                                                           *)
(***************************************************************************)
EXTENDS Forms, Characters, FiniteSetsExt

LOCAL SX == INSTANCE SequencesExt

Indices(text, from) == from .. Len(text)

(* The first index from i on with a property, or the one behind the text.  *)
First(text, i, Is(_)) == Min({j \in Indices(text, i) : Is(j)} \cup {Len(text) + 1})

Ends(c) == IsWhitespace(c) \/ IsMacro(c)

(* A token goes up to the first character, outside bars, that ends one.    *)
BarsIn(text, i, j)   == Cardinality({k \in i .. j : IsBar(text[k])})
TokenEnd(text, i)    == First(text, i, LAMBDA j : Ends(text[j]) /\ BarsIn(text, i, j) % 2 = 0)
TokenOpen(text, i)   == BarsIn(text, i, TokenEnd(text, i) - 1) % 2 = 1
TokenName(text, i)   ==
  LET chars == SX!SelectSeq(SubSeq(text, i, TokenEnd(text, i) - 1), LAMBDA c : ~IsBar(c))
  IN  [k \in DOMAIN chars |-> ToUpper(chars[k])]

(* The names that USER has from COMMON-LISP.                               *)
HomePackage(name) ==
  IF name \in {Chars("READ"), Chars("FORMAT")} THEN "COMMON-LISP" ELSE "USER"

Symbol(name) == Sym(<<HomePackage(name), name>>)
Quoted(form) == List(<<Sym(<<"COMMON-LISP", Chars("QUOTE")>>), form>>)

TokenForm(text, i) ==
  LET name == TokenName(text, i)
  IN  IF BarsIn(text, i, TokenEnd(text, i) - 1) = 0 /\ \A k \in DOMAIN name : IsDigit(name[k])
      THEN Fixnum(SX!FoldLeft(LAMBDA n, c : 10 * n + DigitVal(c), 0, name))
      ELSE Symbol(name)

(* A string goes up to the first double quote that is not escaped; each    *)
(* backslash that is not itself escaped escapes the next character.        *)
Escaped(text, i) ==
  LET is[j \in i .. Len(text)] == j > i + 1 /\ text[j - 1] = "\\" /\ ~is[j - 1]
  IN  is
StringEnd(text, i) ==
  First(text, i + 1, LAMBDA j : text[j] = "\"" /\ ~Escaped(text, i)[j])
StringForm(text, i) ==
  LET inside == i + 1 .. StringEnd(text, i) - 1
      kept   == {j \in inside : text[j] # "\\" \/ Escaped(text, i)[j]}
      nth(k) == CHOOSE j \in kept : Cardinality({h \in kept : h < j}) = k - 1
  IN  Str([k \in 1 .. Cardinality(kept) |->
            IF Escaped(text, i)[nth(k)] THEN EscapeChar(text[nth(k)]) ELSE text[nth(k)]])

(* Where one is behind each character: in a string, in an escape within    *)
(* one, in bars, or outside of these.                                      *)
Literals(text) ==
  LET behind[j \in 0 .. Len(text)] ==
        IF j = 0 THEN "outside"
        ELSE LET c == text[j]  in == behind[j - 1]
             IN  CASE in = "escape"                  -> "string"
                   [] in = "string" /\ c = "\\"      -> "escape"
                   [] in = "string" /\ c = "\""      -> "outside"
                   [] in = "bars" /\ IsBar(c)        -> "outside"
                   [] in = "outside" /\ c = "\""     -> "string"
                   [] in = "outside" /\ IsBar(c)     -> "bars"
                   [] OTHER                          -> in
  IN  behind

(* Each parenthesis begins or ends a list, but for those in strings and    *)
(* bars that are not themselves within a list.                             *)
ParensEncloseLists(text) ==
  LET behind == Literals(text)
      before(c, j) == {i \in 1 .. j - 1 : text[i] = c /\ behind[i] = "outside"}
  IN  \A j \in DOMAIN text :
        text[j] \in {"(", ")"} /\ behind[j] # "outside"
          => Cardinality(before("(", j)) = Cardinality(before(")", j))

(* The form that starts at i or after whitespace there: what it is (or     *)
(* that the text is incomplete, wrong, over, or closes a list), and the    *)
(* index behind it.                                                        *)
Result(is, form, next) == [is |-> is, form |-> form, next |-> next]

RECURSIVE FormFrom(_, _), ElementsFrom(_, _, _)

FormFrom(text, from) ==
  LET i == First(text, from, LAMBDA j : ~IsWhitespace(text[j]))
  IN  IF i > Len(text) THEN Result("over", Nil, i)
      ELSE CASE text[i] = ")" -> Result("close", Nil, i + 1)
             [] text[i] = "(" -> ElementsFrom(text, i + 1, <<>>)
             [] text[i] = "'" ->
                  LET quoted == FormFrom(text, i + 1)
                  IN  Result([form |-> "form", incomplete |-> "incomplete", wrong |-> "wrong",
                              over |-> "incomplete", close |-> "wrong"][quoted.is],
                             Quoted(quoted.form), quoted.next)
             [] text[i] = "\"" ->
                  IF StringEnd(text, i) > Len(text) THEN Result("incomplete", Nil, i)
                  ELSE Result("form", StringForm(text, i), StringEnd(text, i) + 1)
             [] OTHER ->
                  IF IsDispatch(text[i]) \/ \E k \in i .. TokenEnd(text, i) - 1 : IsInvalid(text[k])
                  THEN Result("wrong", Nil, i)
                  ELSE IF TokenOpen(text, i) THEN Result("incomplete", Nil, i)
                  ELSE Result("form", TokenForm(text, i), TokenEnd(text, i))

ElementsFrom(text, from, before) ==
  LET next == FormFrom(text, from)
  IN  CASE next.is = "form"  -> ElementsFrom(text, next.next, Append(before, next.form))
        [] next.is = "close" -> Result("form", List(before), next.next)
        [] next.is = "over"  -> Result("incomplete", Nil, from)
        [] OTHER -> next

(* The forms of a text, and what comes after them.                         *)
RECURSIVE MeaningFrom(_, _, _)
MeaningFrom(text, from, before) ==
  LET next == FormFrom(text, from)
  IN  IF next.is = "form" THEN MeaningFrom(text, next.next, Append(before, next.form))
      ELSE [forms |-> before,
            then  |-> [over |-> "complete", incomplete |-> "incomplete",
                       wrong |-> "wrong", close |-> "wrong"][next.is]]

Meaning(text) == MeaningFrom(text, 1, <<>>)
=============================================================================
