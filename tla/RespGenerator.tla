------------------------------ MODULE RespGenerator ------------------------------
(***************************************************************************)
(* The bytes of a value in the Redis protocol (RespGenerator.cpp), and     *)
(* that the server reads back what is written (RedisCommands).             *)
(***************************************************************************)
EXTENDS RedisCommands

CONSTANTS Depth,      \* bound: how deep arrays are in one another
          ValueLists  \* values that a client sends, one after the other

ASSUME GeneratorAssumption ==
    /\ Depth \in Nat
    /\ {"$", "*", ":", "+", "-", "_", CR, LF} \subseteq Characters
    /\ \A i \in DOMAIN DigitCharacters : DigitCharacters[i] \in Characters

--------------------------------------------------------------------------------
\* Values that are no arrays: of bulk strings, of simple strings and errors, which
\* are a line each, and of integers.
PlainOf(bulk, line) ==
    [type : {"bulk"}, text : bulk] \cup [type : {"simple", "error"}, text : line]
    \cup [type : {"integer"}, number : Int]

PlainValues == PlainOf(Input, Input) \cup {Null}

\* Plain values, and arrays of values that are less deep.
UpTo(plain) ==
    LET depth[n \in Nat] ==
            IF n = 0 THEN plain ELSE plain \cup [type : {"array"}, items : Seq(depth[n - 1])]
    IN  depth

--------------------------------------------------------------------------------
\* The last digits of a number, at most so many and one more.
DigitsUpTo[count \in Nat] ==
    [n \in Nat |->
        (IF count = 0 \/ n < 10 THEN <<>> ELSE DigitsUpTo[count - 1][n \div 10])
        \o <<DigitCharacters[(n % 10) + 1]>>]

\* A number has no more digits than it is great.
DigitsOf(n) == IF n < 0 THEN <<"-">> \o DigitsUpTo[-n][-n] ELSE DigitsUpTo[n][n]

GenerateBy(generated, value) ==
    CASE value.type = "bulk"   -> <<"$">> \o DigitsOf(Len(value.text)) \o <<CR, LF>>
                                  \o value.text \o <<CR, LF>>
      [] value.type = "simple" -> <<"+">> \o value.text \o <<CR, LF>>
      [] value.type = "error"  -> <<"-">> \o value.text \o <<CR, LF>>
      [] value.type = "integer" -> <<":">> \o DigitsOf(value.number) \o <<CR, LF>>
      [] value.type = "null"   -> <<"_", CR, LF>>
      [] value.type = "array"  ->
           <<"*">> \o DigitsOf(Len(value.items)) \o <<CR, LF>>
           \o FlattenSeq([i \in DOMAIN value.items |-> generated[value.items[i]]])
      [] OTHER -> <<>>

\* The bytes of values up to a depth; those of an array's items are generated.
GenerateUpTo[depth \in Nat] ==
    [value \in UpTo(PlainValues)[depth] |->
        GenerateBy(IF depth = 0 THEN <<>> ELSE GenerateUpTo[depth - 1], value)]

generate(value) == GenerateUpTo[Depth][value]

Written(values) == FlattenSeq([i \in DOMAIN values |-> generate(values[i])])

--------------------------------------------------------------------------------
\* What the server would read as it was written: null is written in a way that is no
\* request, a text ends at the first CRLF, and only a bulk string may hold a CR or LF.
ReadablePlain ==
    PlainOf({text \in Input : ~\E i \in 2 .. Len(text) : text[i - 1] = CR /\ text[i] = LF},
            {text \in Input : ~\E i \in DOMAIN text : text[i] \in {CR, LF}})

\* The values that are read as they were written, with their bytes.
Messages ==
    {[values |-> values, bytes |-> Written(values)] :
        values \in ValueLists \cap Seq(UpTo(ReadablePlain)[Depth])}

\* Values that are written one after the other are read back as they are, each
\* once and in order, and nothing is left, wherever the bytes are cut
\* (RespParser.cpp:389 and :230, where each value ends and the next one begins,
\* and RespGenerator.cpp).
WrittenIsRead ==
    BytesProcessed =>
        \A m \in Messages :
           m.bytes = request.bytes =>
              outcome = [answers |-> [i \in DOMAIN m.values |-> Reply(m.values[i])],
                         left    |-> <<>>]

================================================================================
