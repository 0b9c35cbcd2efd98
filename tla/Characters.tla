------------------------------- MODULE Characters -------------------------------
(***************************************************************************)
(* The code points that patterns and lines are made of.  What the tools do *)
(* with a character depends on its place in ASCII, on the class it is in   *)
(* and on its lower-case form; the alphabet holds a few of each class and  *)
(* every character that the syntax of regular expressions uses.            *)
(*                                                                         *)
(* A pattern or a line is the sequence of its code points.  Bytes that are *)
(* no UTF-8 sequence are one element, Undecodable.                         *)
(***************************************************************************)
EXTENDS Naturals, Sequences, FiniteSets

Undecodable == "invalid bytes"
Accented    == "e acute"      \* a code point outside ASCII

\* In the order of their codes.
Alphabet ==
    <<"\t", " ", "$", "(", ")", "*", "+", ",", "-", ".", "0", "1", "2", "3", ":", "?",
      "A", "B", "D", "G", "S", "W", "Z", "[", "\\", "]", "^", "_",
      "a", "b", "d", "g", "p", "s", "w", "x", "z",
      "{", "|", "}", Accented>>

Chars == {Alphabet[i] : i \in DOMAIN Alphabet}

Code == [c \in Chars |-> CHOOSE i \in DOMAIN Alphabet : Alphabet[i] = c]

Digits  == {"0", "1", "2", "3"}
Lower   == <<"a", "b", "d", "g", "s", "w", "z">>
Upper   == <<"A", "B", "D", "G", "S", "W", "Z">>
Capitals == {Upper[i] : i \in DOMAIN Upper}
Letters == {"p", "x"} \cup Capitals \cup {Lower[i] : i \in DOMAIN Lower}
Blanks  == {"\t", " "}

DigitValue == [d \in Digits |-> Code[d] - Code["0"]]

\* std::tolower in the "C" locale.
ToLower(c) ==
    IF c \in Capitals THEN Lower[CHOOSE i \in DOMAIN Upper : Upper[i] = c] ELSE c

LowerText(text) == [i \in DOMAIN text |-> ToLower(text[i])]

\* convert_to_u32string succeeds.
Decodes(text) == \A i \in DOMAIN text : text[i] # Undecodable

--------------------------------------------------------------------------------
Drop(s, n) == SubSeq(s, n + 1, Len(s))

\* How many elements at the beginning of s are in S.
RunLength(s, S) == Cardinality({n \in DOMAIN s : \A i \in 1 .. n : s[i] \in S})

================================================================================
