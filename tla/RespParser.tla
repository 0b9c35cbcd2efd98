------------------------------- MODULE RespParser -------------------------------
(***************************************************************************)
(* The Redis protocol: how the server finds values in the bytes that it    *)
(* has (RespParser.cpp), and what on_read_done makes of what was found     *)
(* (Server.cpp).                                                           *)
(*                                                                         *)
(* Bytes are a sequence of characters.  A parse function takes the bytes   *)
(* from where a value begins; what it returns is complete, with the value  *)
(* and the number of bytes that it takes, invalid, with the number of      *)
(* bytes that are given up, or incomplete.                                 *)
(***************************************************************************)
EXTENDS Integers, SequencesExt

CONSTANT Characters     \* what a byte may be

Input == Seq(Characters)

CR == "\r"
LF == "\n"
DigitCharacters == <<"0", "1", "2", "3", "4", "5", "6", "7", "8", "9">>

BulkString(text)   == [type |-> "bulk", text |-> text]
SimpleString(text) == [type |-> "simple", text |-> text]
ErrorValue(text)   == [type |-> "error", text |-> text]
Integer(n)         == [type |-> "integer", number |-> n]
Array(items)       == [type |-> "array", items |-> items]
Null               == [type |-> "null"]

Complete(value, end) == [state |-> "complete", value |-> value, end |-> end]
Invalid(end)         == [state |-> "invalid", end |-> end]
Incomplete           == [state |-> "incomplete"]

From(s, n) == SubSeq(s, n + 1, Len(s))

--------------------------------------------------------------------------------
\* The line from place first on: its text, and the place where the CRLF ends.
LineEnds(s, first) == {i \in first .. Len(s) - 1 : s[i] = CR /\ s[i + 1] = LF}
HasLine(s, first)  == LineEnds(s, first) # {}
LineEnd(s, first)  == CHOOSE i \in LineEnds(s, first) : \A j \in LineEnds(s, first) : i <= j
Line(s, first)     == SubSeq(s, first, LineEnd(s, first) - 1)
Behind(s, first)   == LineEnd(s, first) + 1

Digit(c) == CHOOSE i \in 0 .. 9 : DigitCharacters[i + 1] = c

IsDigit(c) == \E i \in DOMAIN DigitCharacters : DigitCharacters[i] = c

\* How many digits text begins with.
LeadingDigits(text) ==
    CHOOSE n \in 0 .. Len(text) : /\ \A i \in 1 .. n : IsDigit(text[i])
                                  /\ n < Len(text) => ~IsDigit(text[n + 1])

\* The number that the first n characters of text are, for each n.
NumberOf(text) ==
    LET first[n \in Nat] == IF n = 0 THEN 0 ELSE 10 * first[n - 1] + Digit(text[n]) IN first

\* std::from_chars of an unsigned number: -1 without a digit; what follows the
\* digits is not looked at.
Unsigned(text) ==
    LET n == LeadingDigits(text) IN IF n = 0 THEN -1 ELSE NumberOf(text)[n]

\* A simple string or an error, whose text holds no CR and no LF.
parse_text(s, Make(_)) ==
    IF ~HasLine(s, 2) THEN Incomplete
    ELSE IF \E i \in DOMAIN Line(s, 2) : Line(s, 2)[i] \in {CR, LF} THEN Invalid(Behind(s, 2))
    ELSE Complete(Make(Line(s, 2)), Behind(s, 2))

parse_simple_string(s) == parse_text(s, SimpleString)
parse_error(s)         == parse_text(s, ErrorValue)

\* The number that a text is, or Null.
NumberIn(text) ==
    IF text # <<>> /\ text[1] = "-"
    THEN IF Unsigned(Tail(text)) = -1 THEN Null ELSE Integer(-Unsigned(Tail(text)))
    ELSE IF Unsigned(text) = -1 THEN Null ELSE Integer(Unsigned(text))

parse_integer(s) ==
    IF ~HasLine(s, 2) THEN Incomplete
    ELSE IF NumberIn(Line(s, 2)) = Null THEN Invalid(Behind(s, 2))
    ELSE Complete(NumberIn(Line(s, 2)), Behind(s, 2))

\* Mutant: the CRLF after the text stays.
bulk_content_short(s, length, begin) ==
    IF length = -1 THEN Invalid(begin)
    ELSE IF ~HasLine(s, begin + 1) THEN Incomplete
    ELSE IF Len(Line(s, begin + 1)) = length
         THEN Complete(BulkString(Line(s, begin + 1)), Behind(s, begin + 1) - 2)
    ELSE Invalid(Behind(s, begin + 1))

\* The length that was announced, and the text up to the next CRLF.
bulk_content(s, length, begin) ==
    IF length = -1 THEN Invalid(begin)
    ELSE IF ~HasLine(s, begin + 1) THEN Incomplete
    ELSE IF Len(Line(s, begin + 1)) = length
         THEN Complete(BulkString(Line(s, begin + 1)), Behind(s, begin + 1))
    ELSE Invalid(Behind(s, begin + 1))

parse_bulk_string(s) ==
    IF ~HasLine(s, 2) THEN Incomplete
    ELSE bulk_content(s, Unsigned(Line(s, 2)), Behind(s, 2))

--------------------------------------------------------------------------------
\* s is compared with a way to write null, as far as it goes.
check_null_variant(s, variant) ==
    IF \E i \in DOMAIN s \cap DOMAIN variant : s[i] # variant[i] THEN Invalid(0)
    ELSE IF Len(s) >= Len(variant) THEN Complete(Null, Len(variant))
    ELSE Incomplete

UnlessInvalid(first, second) == IF first.state = "invalid" THEN second ELSE first

parse_null(s) ==
    UnlessInvalid(check_null_variant(s, <<"$", "-", "1", CR, LF>>),
    UnlessInvalid(check_null_variant(s, <<"*", "-", "1", CR, LF>>),
                  check_null_variant(s, <<"_", CR, LF>>)))

\* An element after those that were read; they end where it begins.
Following(read, element) ==
    CASE element.state = "complete" ->
            Complete(Append(read.value, element.value), read.end + element.end)
      [] element.state = "invalid"  -> Invalid(read.end + element.end)
      [] OTHER                      -> Incomplete

\* Mutant: bytes that end too early end the array.
NextElementShort(element, s, read) ==
    IF read.state # "complete" \/ read.end >= Len(s) THEN read
    ELSE Following(read, element[From(s, read.end)])

\* What is read with one more element; element parses one.
NextElement(element, s, read) ==
    IF read.state # "complete" THEN read
    ELSE IF read.end >= Len(s) THEN Incomplete
    ELSE Following(read, element[From(s, read.end)])

\* The first n elements from place begin on, for each n.
ElementsFrom(element, s, begin) ==
    LET first[n \in Nat] == IF n = 0 THEN Complete(<<>>, begin)
                            ELSE NextElement(element, s, first[n - 1])
    IN  first

AsArray(read) == IF read.state = "complete" THEN Complete(Array(read.value), read.end) ELSE read

parse_array(element, s) ==
    IF ~HasLine(s, 2) THEN Incomplete
    ELSE IF Unsigned(Line(s, 2)) = -1 THEN Invalid(Behind(s, 2))
    ELSE AsArray(ElementsFrom(element, s, Behind(s, 2))[Unsigned(Line(s, 2))])

\* An element is one of five types; anything else is given up where it begins.
\* The elements of an array are parsed by array.
ElementBy(array, s) ==
    CASE s[1] = "$" -> UnlessInvalid(parse_null(s), parse_bulk_string(s))
      [] s[1] = ":" -> parse_integer(s)
      [] s[1] = "+" -> parse_simple_string(s)
      [] s[1] = "-" -> parse_error(s)
      [] s[1] = "*" -> array
      [] OTHER      -> Invalid(0)

\* Elements with arrays in one another up to a depth.  An array takes some bytes
\* before its first element, so they are never deeper than the bytes are many.
ElementUpTo[depth \in Nat] ==
    [s \in Input |->
        ElementBy(IF depth = 0 THEN Incomplete ELSE parse_array(ElementUpTo[depth - 1], s), s)]

parse_element(s) == ElementUpTo[Len(s)][s]

--------------------------------------------------------------------------------
ValueTypes == {"$", "*", ":", "+", "-"}

\* A value where a command may be.  Only here may an array be null.
parse_value(s) == IF s[1] = "*" THEN UnlessInvalid(parse_null(s), parse_element(s))
                  ELSE parse_element(s)

\* What was found at the beginning, with the places where it begins and ends.
Found(result) ==
    [state |-> result.state, begin |-> 0,
     end   |-> IF result.state = "incomplete" THEN 0 ELSE result.end,
     value |-> IF result.state = "complete" THEN result.value ELSE Null]

\* Results, counted from n places before.
Shifted(results, n) ==
    [i \in DOMAIN results |-> [results[i] EXCEPT !.begin = @ + n, !.end = @ + n]]

\* A value that came to an end, and what was found behind it.
Before(found, behind) ==
    [ok |-> behind.ok, results |-> <<found>> \o Shifted(behind.results, found.end)]

Only(ok, found) == [ok |-> ok, results |-> <<found>>]

\* The first n results; a byte that begins no value is refused.
ParseUpTo[n \in Nat] ==
    [s \in Input |->
        IF n = 0 \/ s = <<>> THEN [ok |-> TRUE, results |-> <<>>]
        ELSE IF s[1] \notin ValueTypes THEN Only(FALSE, Found(Invalid(1)))
        ELSE LET found == Found(parse_value(s))
             IN  IF found.state = "incomplete" THEN Only(TRUE, found)
                 ELSE Before(found, ParseUpTo[n - 1][From(s, found.end)])]

\* A value takes a byte at least.
parse(s) == ParseUpTo[Len(s)][s]

--------------------------------------------------------------------------------
FormatError  == [answer |-> "invalid input format"]
Reply(value) == [answer |-> "processed", value |-> value]

\* The answers to the results that are not incomplete.
Answers(results) ==
    [i \in DOMAIN results |-> IF results[i].state = "complete" THEN Reply(results[i].value)
                              ELSE FormatError]

\* The values in results that came to an end; only the last one may not have.
Ended(results) ==
    IF results # <<>> /\ Last(results).state = "incomplete" THEN Front(results) ELSE results

\* Mutant: the values before a refused byte are answered.
AnsweredKeeping(s, parsed) ==
    LET ended == Ended(parsed.results)
        used  == IF ended = <<>> THEN 0 ELSE Last(ended).end
    IN  IF parsed.ok THEN [answers |-> Answers(ended), left |-> From(s, used)]
        ELSE [answers |-> Answers(ended), left |-> From(s, 1)]

\* Answers, and what is left of the bytes.  A refused byte leaves the values before
\* it without an answer, and takes the first byte only.
Answered(s, parsed) ==
    LET ended == Ended(parsed.results)
        used  == IF ended = <<>> THEN 0 ELSE Last(ended).end
    IN  IF parsed.ok THEN [answers |-> Answers(ended), left |-> From(s, used)]
        ELSE [answers |-> <<FormatError>>, left |-> From(s, 1)]

on_read_done(s) == Answered(s, parse(s))

\* Two reads: what the first one leaves goes before what the second one brings.
AnsweredAfter(first, s) ==
    IF s = <<>> THEN first
    ELSE LET second == on_read_done(first.left \o s)
         IN  [answers |-> first.answers \o second.answers, left |-> second.left]

ReadTwice(s, cut) == AnsweredAfter(on_read_done(SubSeq(s, 1, cut)), From(s, cut))

================================================================================
