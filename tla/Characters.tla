----------------------------- MODULE Characters ------------------------------
(***************************************************************************)
(* The characters of the reader and what its functions make of one         *)
(* (src/runtime/reader.c and system_inherents.c).  A text is a sequence of *)
(* characters, each a string of length one, or a longer name of one that   *)
(* has no picture.                                                         *)
(***************************************************************************)
EXTENDS Sequences, Integers, TLC

Chars(s) == [i \in 1 .. Len(s) |-> SubSeq(s, i, i)]

CharSet(s) == {SubSeq(s, i, i) : i \in 1 .. Len(s)}

Lower  == Chars("abcdefghijklmnopqrstuvwxyz")
Upper  == Chars("ABCDEFGHIJKLMNOPQRSTUVWXYZ")
Digits == Chars("0123456789")

ToUpper(c) ==
  IF \E i \in 1 .. 26 : Lower[i] = c THEN Upper[CHOOSE i \in 1 .. 26 : Lower[i] = c] ELSE c

(* convert_case for the readcase kUpcase, the only one that is set; to     *)
(* cased_char, whose bound is c < 'z', z has no case.                      *)
Converted(c) == IF c = "z" THEN c ELSE ToUpper(c)

IsDigit(c)  == c \in {Digits[i] : i \in 1 .. 10}
DigitVal(c) == (CHOOSE i \in 1 .. 10 : Digits[i] = c) - 1

(* get_char_traits.  No character is a single escape: the one that would   *)
(* be is a macro character before.                                         *)
IsWhitespace(c) == c \in {"\t", "\n", "\f", "\r", " "}
MacroCharacters == {"(", ")", "\"", "'"}
IsMacro(c)      == c \in MacroCharacters
IsDispatch(c)   == c = "#"
IsBar(c)        == c = "|"
IsConstituent(c) ==
  \/ c \in CharSet("!$%&*+-./:<=>?@[]^_{}~") \cup {"BS"}
  \/ IsDigit(c)
  \/ \E i \in 1 .. 26 : c = Lower[i] \/ c = Upper[i]
IsInvalid(c) ==
  ~(IsWhitespace(c) \/ IsMacro(c) \/ IsDispatch(c) \/ IsBar(c) \/ IsConstituent(c))

(* escape_char: what follows a backslash in a string.                      *)
EscapeChar(c) ==
  LET control == [a |-> "BEL", b |-> "BS", f |-> "\f", n |-> "\n", r |-> "\r", t |-> "\t", v |-> "VT"]
                 @@ ("0" :> "NUL") @@ ("1" :> "SOH") @@ ("2" :> "STX") @@ ("3" :> "ETX")
                 @@ ("4" :> "EOT") @@ ("5" :> "ENQ") @@ ("6" :> "ACK") @@ ("7" :> "BEL")
  IN  IF c \in DOMAIN control THEN control[c] ELSE c

(* What strlen and strncpy see of a string.                                *)
UpToNul(chars) ==
  LET nuls == {i \in 1 .. Len(chars) : chars[i] = "NUL"}
  IN  IF nuls = {} THEN chars
      ELSE SubSeq(chars, 1, (CHOOSE i \in nuls : \A j \in nuls : i <= j) - 1)
=============================================================================
