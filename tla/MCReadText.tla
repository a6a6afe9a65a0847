----------------------------- MODULE MCReadText ------------------------------
(* Every text of up to three characters, one of each kind, and longer ones *)
(* in which these meet.  A bar around lower case, the escape \\0 and z are  *)
(* left out: the reader differs from the standard there.                   *)
EXTENDS ReadText

Alphabet   == {"A", "1", "(", ")", "\"", "'", " ", "|", "#", "\\"}
ShortTexts == UNION {[1 .. n -> Alphabet] : n \in 0 .. 3}

LongTexts == {
  "foo", "a b a", "12 34", "a(b)c", "x'y", "a#b", "#a", "12a", "1+", "|A B|c", "a|B|", "||", "a;b",
  "\"\"", "\"a b\"", "\"a\\\"b\"", "\"\\\\\"", "\"a\\nb\" c", "\"\\ta\"", "\"(\" a", "\"a\\",
  "()", "( )", "(a)", "(a b)", "(a b c)", "(a 12 \"s\" a)", "(a) (a)", "( a\t)\n", "(a\nb)", "((a))",
  "((a) b)", "(a (b))", "(a (b) c)", "((a) (b))", "(a b (c) d)", "(((a)))", "((((a))))", "(a", "(a (b)", "(a))",
  "'a", "'(a b)", "''a", "('a 'b)", "(a 'b)", "')", "('", "read", "(format t nil)", "(quote a)",
  "(\"(\" \")\")", "(a \")\")", "(|(| a)", "(quit)", "a (quit) b", "(nil t)", "(\"a\" \"b\")", "(a \"b\" c)" }

MCTexts == ShortTexts \cup {Chars(s) : s \in LongTexts}

(* A digit may happen to be behind a token, or none.                       *)
MCLeftovers == {<<>>, <<"9">>}

(* A form during whose reading, the first after the start, the collector   *)
(* runs for the second time: when the name of its last symbol is allocated.*)
CollectingTexts == {Chars("(multiple-value-bind quotient remainder)")}

(* The text of the FIXME at system_inherents.c:231.                        *)
StuckTexts == {Chars("((lambda (a1) a1) \"argstr)\n)\n\")")}

(* The steps of the start take place in the order they need, and before    *)
(* the first collection.                                                   *)
ASSUME StartIsOrdered == InitializesInOrder /\ ConstantsInOrder /\ StartFits
=============================================================================
