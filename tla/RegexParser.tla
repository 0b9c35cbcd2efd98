------------------------------ MODULE RegexParser ------------------------------
(***************************************************************************)
(* The recursive descent parser of grep's regular expressions (parser.cpp).*)
(* Each operator takes the rest of the pattern and returns what it parsed  *)
(* with what remains, or Failed.                                           *)
(*                                                                         *)
(* A regular expression is a record; an Expression is the sequence of its  *)
(* alternatives, a SubExpression the sequence of its items.                *)
(***************************************************************************)
EXTENDS RegexConditions

Parsed(value, rest) == [ok |-> TRUE, value |-> value, rest |-> rest]
Failed              == [ok |-> FALSE]

\* The second attempt is made where the first fails.
OrElse(first, second) == IF first.ok THEN first ELSE second

\* What is made of a value that was parsed and what follows it.
Then(parsed, Use(_, _)) == IF parsed.ok THEN Use(parsed.value, parsed.rest) ELSE Failed

StartsWith(s, c) == s # <<>> /\ s[1] = c

--------------------------------------------------------------------------------
\* The number that digits stand for.
NumberOf(digits) ==
    LET value[i \in 0 .. Len(digits)] ==
            IF i = 0 THEN 0 ELSE 10 * value[i - 1] + DigitValue[digits[i]]
    IN  value[Len(digits)]

\* What is made of the first n elements of s and the rest.
Split(s, n, Use(_, _)) == Use(SubSeq(s, 1, n), Drop(s, n))

parse_number(s) ==
    Split(s, RunLength(s, Digits),
          LAMBDA digits, rest :
              IF digits = <<>> THEN Failed ELSE Parsed(NumberOf(digits), rest))

parse_char(s) ==
    IF s = <<>> \/ StartsWith(s, Undecodable) THEN Failed ELSE Parsed(s[1], Tail(s))

--------------------------------------------------------------------------------
NoUpper  == -1
NoQuantifier == [type |-> "none"]
Quantified(type, lazy) == [type |-> type, lazy |-> lazy]
Ranged(lower, upper, exactly, lazy) ==
    [type |-> "range", lower |-> lower, upper |-> upper, exactly |-> exactly, lazy |-> lazy]

\* Mutant: the brace after the upper bound stays.
range_upper_bound_half(lower, s) ==
    Then(parse_number(s),
         LAMBDA upper, rest :
             IF lower <= upper THEN Parsed(<<lower, upper, FALSE>>, rest) ELSE Failed)

\* The upper bound and the brace after it.
range_upper_bound(lower, s) ==
    Then(parse_number(s),
         LAMBDA upper, rest :
             IF lower <= upper /\ StartsWith(rest, "}")
             THEN Parsed(<<lower, upper, FALSE>>, Tail(rest))
             ELSE Failed)

\* {n}, {n,} and {n,m}; the value is <<lower, upper, exactly>>.
parse_range_quantifier(s) ==
    Then(parse_number(Tail(s)),
         LAMBDA lower, rest :
             CASE StartsWith(rest, "}") -> Parsed(<<lower, NoUpper, TRUE>>, Tail(rest))
               [] StartsWith(rest, ",") ->
                    IF StartsWith(Tail(rest), "}")
                    THEN Parsed(<<lower, NoUpper, FALSE>>, Drop(rest, 2))
                    ELSE range_upper_bound(lower, Tail(rest))
               [] OTHER -> Failed)

QuantifierType(s) ==
    CASE s # <<>> /\ s[1] \in {"*", "+", "?"} -> Parsed(Quantified(s[1], FALSE), Tail(s))
      [] StartsWith(s, "{") ->
           Then(parse_range_quantifier(s),
                LAMBDA r, rest : Parsed(Ranged(r[1], r[2], r[3], FALSE), rest))
      [] OTHER -> Failed

\* The modifier after a quantifier is part of it.
parse_quantifier(s) ==
    Then(QuantifierType(s),
         LAMBDA q, rest : IF StartsWith(rest, "?")
                          THEN Parsed([q EXCEPT !.lazy = TRUE], Tail(rest))
                          ELSE Parsed(q, rest))

\* A node that takes the quantifier that follows it; text that is no quantifier
\* is left for the next item.
WithQuantifier(node, s) ==
    OrElse(Then(parse_quantifier(s),
                LAMBDA q, rest : Parsed([node EXCEPT !.quantifier = q], rest)),
           Parsed(node, s))

--------------------------------------------------------------------------------
AnyChar             == [kind |-> "any"]
CharNode(c)         == [kind |-> "char", char |-> c]
ClassNode(c)        == [kind |-> "class", class |-> c]
CategoryNode(name)  == [kind |-> "category", name |-> name]
RangeNode(first, last) == [kind |-> "range", from |-> first, to |-> last]
SetNode(negated, items) == [kind |-> "set", negated |-> negated, items |-> items]


parse_character_class(s) ==
    IF StartsWith(s, "\\") /\ Len(s) > 1 /\ s[2] \in {"w", "W", "d", "D", "s", "S"}
    THEN Parsed(ClassNode(s[2]), Drop(s, 2))
    ELSE Failed

\* \p{Name}
parse_character_class_from_unicode_category(s) ==
    IF Len(s) > 3 /\ SubSeq(s, 1, 3) = <<"\\", "p", "{">>
    THEN Split(Drop(s, 3), RunLength(Drop(s, 3), Letters),
               LAMBDA name, rest : IF name # <<>> /\ StartsWith(rest, "}")
                                   THEN Parsed(CategoryNode(name), Tail(rest))
                                   ELSE Failed)
    ELSE Failed

\* A range whose end is below its start is none.
range_to(start, s) ==
    Then(parse_char(s),
         LAMBDA end, rest : IF Code[start] <= Code[end]
                            THEN Parsed(RangeNode(start, end), rest)
                            ELSE Failed)

parse_character_range(s) ==
    IF StartsWith(s, "-") THEN Failed
    ELSE Then(parse_char(s),
              LAMBDA start, rest : IF StartsWith(rest, "-") THEN range_to(start, Tail(rest))
                                   ELSE Parsed(RangeNode(start, NoEnd), rest))

one_char(s) == Then(parse_char(s), LAMBDA c, rest : Parsed(CharNode(c), rest))

parse_character_group_item(s) ==
    OrElse(parse_character_class(s),
    OrElse(parse_character_class_from_unicode_category(s),
    OrElse(parse_character_range(s),
           one_char(s))))

\* The items up to a bracket, the end of the pattern or what is no item.
RECURSIVE GroupItems(_, _)
GroupItems(s, items) ==
    OrElse(IF s = <<>> \/ StartsWith(s, "]") THEN Failed
           ELSE Then(parse_character_group_item(s),
                     LAMBDA item, rest : GroupItems(rest, Append(items, item))),
           Parsed(items, s))

items_and_bracket(negated, s) ==
    Then(GroupItems(s, <<>>),
         LAMBDA items, rest : IF StartsWith(rest, "]")
                              THEN Parsed(SetNode(negated, items), Tail(rest))
                              ELSE Failed)

parse_character_group(s) ==
    IF ~StartsWith(s, "[") THEN Failed
    ELSE Split(s, IF Len(s) > 1 /\ s[2] = "^" THEN 2 ELSE 1,
               LAMBDA opening, rest : items_and_bracket(Len(opening) = 2, rest))

parse_match_character_class(s) ==
    OrElse(parse_character_group(s),
    OrElse(parse_character_class(s),
           parse_character_class_from_unicode_category(s)))

parse_match_item(s) ==
    IF StartsWith(s, ".") THEN Parsed(AnyChar, Tail(s))
    ELSE OrElse(parse_match_character_class(s), one_char(s))

parse_match(s) ==
    Then(parse_match_item(s),
         LAMBDA item, rest :
             WithQuantifier([kind |-> "match", item |-> item, quantifier |-> NoQuantifier], rest))

--------------------------------------------------------------------------------
AnchorNode(type)    == [kind |-> "anchor", type |-> type]
BackreferenceTo(n)  == [kind |-> "backreference", group |-> n]

parse_anchor(s) ==
    CASE StartsWith(s, "$") -> Parsed(AnchorNode("$"), Tail(s))
      [] StartsWith(s, "\\") /\ Len(s) > 1 /\ s[2] \in {"b", "B", "A", "z", "Z", "G"} ->
           Parsed(AnchorNode(s[2]), Drop(s, 2))
      [] OTHER -> Failed

parse_backreference(s) ==
    IF ~StartsWith(s, "\\") THEN Failed
    ELSE Then(parse_number(Tail(s)), LAMBDA n, rest : Parsed(BackreferenceTo(n), rest))

RECURSIVE parse_expression(_)

body_of_group(capturing, s) ==
    Then(parse_expression(s),
         LAMBDA body, rest :
             IF StartsWith(rest, ")")
             THEN WithQuantifier([kind |-> "group", capturing |-> capturing,
                                  body |-> body, quantifier |-> NoQuantifier], Tail(rest))
             ELSE Failed)

parse_group(s) ==
    Split(s, IF Len(s) > 2 /\ s[2] = "?" /\ s[3] = ":" THEN 3 ELSE 1,
          LAMBDA opening, rest : body_of_group(Len(opening) = 1, rest))

parse_sub_expression_item(s) ==
    CASE s = <<>> \/ StartsWith(s, "|") \/ StartsWith(s, ")") -> Failed
      [] StartsWith(s, "(") -> parse_group(s)
      [] StartsWith(s, "$") -> parse_anchor(s)
      [] OTHER -> OrElse(IF StartsWith(s, "\\")
                         THEN OrElse(parse_anchor(s), parse_backreference(s))
                         ELSE Failed,
                         parse_match(s))

\* One item, and the next ones up to '|', ')' or the end.
RECURSIVE SubExpressionFrom(_, _)
SubExpressionFrom(s, items) ==
    Then(parse_sub_expression_item(s),
         LAMBDA item, rest :
             IF rest = <<>> \/ StartsWith(rest, "|") \/ StartsWith(rest, ")")
             THEN Parsed(Append(items, item), rest)
             ELSE SubExpressionFrom(rest, Append(items, item)))

parse_sub_expression(s) == SubExpressionFrom(s, <<>>)

\* One alternative, and the next ones while '|' follows.
RECURSIVE AlternativesFrom(_, _)
AlternativesFrom(s, alternatives) ==
    Then(parse_sub_expression(s),
         LAMBDA sub, rest :
             IF StartsWith(rest, "|")
             THEN AlternativesFrom(Tail(rest), Append(alternatives, sub))
             ELSE Parsed(Append(alternatives, sub), rest))

parse_expression(s) == AlternativesFrom(s, <<>>)

\* What remains after the expression is returned with it.
parse_regex(s) ==
    Split(s, IF StartsWith(s, "^") THEN 1 ELSE 0,
          LAMBDA anchor, text :
              Then(parse_expression(text),
                   LAMBDA expression, rest :
                       Parsed([anchored |-> anchor # <<>>, expression |-> expression], rest)))

================================================================================
