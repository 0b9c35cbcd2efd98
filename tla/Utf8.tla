---------------------------------- MODULE Utf8 ----------------------------------
(***************************************************************************)
(* How grep makes code points of bytes: one round of convert_to_u32string  *)
(* (grep.cpp:18-99), which the lines go through; parse_char, for patterns, *)
(* is a second copy of it.  Characters takes the code points for granted;  *)
(* here is what their bytes decode to; Grep_proofs shows that nothing is   *)
(* lost.                                                                   *)
(***************************************************************************)
EXTENDS Integers, Sequences

Continues(b) == b \in 128 .. 191

\* How many bytes the first byte of a sequence announces; none when it cannot be first.
Units(c) ==
    CASE c \in 0 .. 127   -> 1
      [] c \in 192 .. 223 -> 2
      [] c \in 224 .. 239 -> 3
      [] c \in 240 .. 247 -> 4
      [] OTHER            -> 0

Whole(bytes) ==
    /\ Units(bytes[1]) \in 1 .. Len(bytes)
    /\ \A i \in 2 .. Units(bytes[1]) : Continues(bytes[i])

Low(b) == b % 64

CodePoint(bytes) ==
    CASE Units(bytes[1]) = 1 -> bytes[1]
      [] Units(bytes[1]) = 2 -> (bytes[1] % 32) * 64 + Low(bytes[2])
      [] Units(bytes[1]) = 3 -> ((bytes[1] % 16) * 64 + Low(bytes[2])) * 64 + Low(bytes[3])
      [] Units(bytes[1]) = 4 ->
           (((bytes[1] % 8) * 64 + Low(bytes[2])) * 64 + Low(bytes[3])) * 64 + Low(bytes[4])

\* What is decoded at the beginning of a non-empty sequence of bytes, and how many
\* of them it takes; nothing where the sequence is cut short or is not UTF-8.
DecodeOne(bytes) ==
    IF Whole(bytes)
    THEN [ok |-> TRUE, length |-> Units(bytes[1]), code |-> CodePoint(bytes)]
    ELSE [ok |-> FALSE]

\* UTF-8 as it is defined, for comparison: the digits of the code point in base 64.
High(n) == n \div 64

Utf8Bytes(code) ==
    LET h2 == High(code)
        h3 == High(h2)
        h4 == High(h3)
    IN  IF code < 128 THEN <<code>>
        ELSE IF h2 < 32 THEN <<192 + h2, 128 + Low(code)>>
        ELSE IF h3 < 16 THEN <<224 + h3, 128 + Low(h2), 128 + Low(code)>>
        ELSE <<240 + h4, 128 + Low(h3), 128 + Low(h2), 128 + Low(code)>>

================================================================================
