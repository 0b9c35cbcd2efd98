------------------------------ MODULE RegexMeaning ------------------------------
(***************************************************************************)
(* What a regular expression means, defined on its syntax and without any  *)
(* automaton: the set of ways in which it can match a text from some       *)
(* position.  It is the reference that the search is compared with.        *)
(*                                                                         *)
(* A way is the position where it ends and the ranges of the capturing     *)
(* groups, which are numbered by their left parenthesis.  A way that fails *)
(* with an exception is Beyond: what follows cannot bring it back.         *)
(***************************************************************************)
EXTENDS RegexParser, FiniteSets

Way(p, groups) == [position |-> p, groups |-> groups]
Beyond == Way(-1, {})

\* The text that is searched, and whether upper and lower case are the same.
Input(text, fold) == [text |-> text, fold |-> fold]

\* The characters that count as c.
Variants(c, input) ==
    IF input.fold THEN {x \in Chars : ToLower(x) = ToLower(c)} ELSE {c}

SameText(s, t, input) ==
    /\ Len(s) = Len(t)
    /\ \A i \in DOMAIN s : t[i] \in Variants(s[i], input)

--------------------------------------------------------------------------------
\* One character at the position of way w.
AcceptsCharacter(item, c, input) ==
    IF item.kind # "set" THEN \E x \in Variants(c, input) : ItemTakes(item, x)
    ELSE LET taken == \E x \in Variants(c, input) : FirstItem(item, x) # 0
         IN  taken # item.negated

ItemWays(item, w, input) ==
    LET p    == w.position
        some == p < Len(input.text)
        c    == input.text[p + 1]
    IN  CASE item.kind = "category" -> {Beyond}
          [] item.kind = "any" -> IF some THEN {[w EXCEPT !.position = p + 1]} ELSE {Beyond}
          [] item.kind = "set" /\ some /\ ReachesCategory(item, c) -> {Beyond}
          [] OTHER -> IF some /\ AcceptsCharacter(item, c, input)
                      THEN {[w EXCEPT !.position = p + 1]} ELSE {}

Wordy(text, p) == p \in 1 .. Len(text) /\ InClass("w", text[p])

AnchorWays(type, w, input) ==
    LET p    == w.position
        n    == Len(input.text)
        holds == CASE type \in {"A", "G"} -> p = 0
                   [] type = "$" -> p = n \/ input.text[p + 1] = "\n"
                   [] type = "Z" -> p = n \/ (p = n - 1 /\ input.text[n] = "\n")
                   [] type = "z" -> p = n
                   [] type = "b" -> Wordy(input.text, p) # Wordy(input.text, p + 1)
                   [] type = "B" -> Wordy(input.text, p) = Wordy(input.text, p + 1)
    IN  IF holds THEN {w} ELSE {}

BackreferenceWays(id, w, input) ==
    LET again(r) == SubSeq(input.text, r.begin + 1, r.end)
    IN  {[w EXCEPT !.position = @ + (r.end - r.begin)] :
           r \in {g \in w.groups :
                    /\ g.group = id /\ g.end # -1
                    /\ w.position + (g.end - g.begin) <= Len(input.text)
                    /\ SameText(again(g), SubSeq(input.text, w.position + 1,
                                                 w.position + (g.end - g.begin)), input)}}

SetGroup(w, id, begin, end) ==
    [w EXCEPT !.groups = {g \in @ : g.group # id}
                         \cup {[group |-> id, begin |-> begin, end |-> end]}]

Begun(w, id) == (CHOOSE g \in w.groups : g.group = id).begin

--------------------------------------------------------------------------------
\* The number of capturing groups in an expression.
RECURSIVE GroupCount(_)
ItemGroups(item) ==
    IF item.kind # "group" THEN 0
    ELSE GroupCount(item.body) + (IF item.capturing THEN 1 ELSE 0)

GroupsIn(items) == FoldLeft(LAMBDA n, item : n + ItemGroups(item), 0, items)
GroupCount(expression) == FoldLeft(LAMBDA n, items : n + GroupsIn(items), 0, expression)

\* The ways of an expression whose first group has number id, from those of ways.
RECURSIVE ExpressionWays(_, _, _, _)

\* One occurrence of a match or a group.
OnceWays(node, id, ways, input) ==
    LET live == ways \ {Beyond}
        opened == {SetGroup(w, id, w.position, -1) : w \in live}
        closed(w) == IF w = Beyond THEN Beyond ELSE SetGroup(w, id, Begun(w, id), w.position)
    IN  (ways \cap {Beyond}) \cup
        CASE node.kind = "match" -> UNION {ItemWays(node.item, w, input) : w \in live}
          [] node.kind = "group" /\ node.capturing ->
               {closed(w) : w \in ExpressionWays(node.body, id + 1, opened, input)}
          [] node.kind = "group" /\ ~node.capturing ->
               ExpressionWays(node.body, id, live, input)

\* At least low and at most high occurrences; any number where high is NoUpper.
RECURSIVE RepeatedWays(_, _, _, _, _, _)
RepeatedWays(node, id, ways, low, high, input) ==
    LET once == OnceWays(node, id, ways, input)
    IN  CASE ways = {} \/ high = 0 -> ways
          [] ways # {} /\ low > 0 ->
               RepeatedWays(node, id, once, low - 1,
                            IF high = NoUpper THEN NoUpper ELSE high - 1, input)
          [] ways # {} /\ low = 0 /\ high > 0 ->
               ways \cup RepeatedWays(node, id, once, 0, high - 1, input)
          [] ways # {} /\ low = 0 /\ high = NoUpper ->
               IF once \subseteq ways THEN ways
               ELSE RepeatedWays(node, id, ways \cup once, 0, NoUpper, input)

Low(q)  == CASE q.type = "range" -> q.lower
             [] q.type \in {"none", "+"} -> 1
             [] q.type \in {"*", "?"} -> 0
High(q) == CASE q.type = "range" -> IF q.exactly THEN q.lower ELSE q.upper
             [] q.type \in {"none", "?"} -> 1
             [] q.type \in {"*", "+"} -> NoUpper

NodeWays(node, id, ways, input) ==
    LET live == ways \ {Beyond}
    IN  CASE node.kind \in {"match", "group"} ->
               RepeatedWays(node, id, ways, Low(node.quantifier), High(node.quantifier), input)
          [] node.kind = "anchor" -> (ways \cap {Beyond}) \cup
               UNION {AnchorWays(node.type, w, input) : w \in live}
          [] node.kind = "backreference" -> (ways \cap {Beyond}) \cup
               UNION {BackreferenceWays(node.group, w, input) : w \in live}

SequenceWays(items, id, ways, input) ==
    LET after[i \in 0 .. Len(items)] ==
            IF i = 0 THEN ways
            ELSE NodeWays(items[i], id + GroupsIn(SubSeq(items, 1, i - 1)), after[i - 1], input)
    IN  after[Len(items)]

ExpressionWays(expression, id, ways, input) ==
    UNION {SequenceWays(expression[i], id + GroupCount(SubSeq(expression, 1, i - 1)),
                        ways, input) : i \in DOMAIN expression}

\* The ways in which regex matches from position p.
Ways(regex, p, input) ==
    IF regex.anchored /\ p # 0 THEN {}
    ELSE ExpressionWays(regex.expression, 1, {Way(p, {})}, input)

\* The empty pattern, which is not parsed.
EmptyRegex == [anchored |-> FALSE, expression |-> <<<<>>>>]

--------------------------------------------------------------------------------
\* Some group is copied by a range quantifier with capturing groups inside.
RECURSIVE CopiesGroups(_)
CopiesGroupsIn(item) ==
    /\ item.kind = "group"
    /\ \/ CopiesGroups(item.body)
       \/ item.quantifier.type = "range" /\ GroupCount(item.body) > 0
CopiesGroups(expression) ==
    \E i \in DOMAIN expression : \E j \in DOMAIN expression[i] : CopiesGroupsIn(expression[i][j])

\* Some backreference is in the expression.
RECURSIVE RefersBack(_)
RefersBackIn(item) ==
    \/ item.kind = "backreference"
    \/ item.kind = "group" /\ RefersBack(item.body)
RefersBack(expression) ==
    \E i \in DOMAIN expression : \E j \in DOMAIN expression[i] : RefersBackIn(expression[i][j])

--------------------------------------------------------------------------------
\* The text that a regular expression was parsed from.
RECURSIVE ExpressionText(_)

DigitsOf(n) ==
    IF n < 10 THEN <<Alphabet[Code["0"] + n]>>
    ELSE <<Alphabet[Code["0"] + (n \div 10)], Alphabet[Code["0"] + (n % 10)]>>

LazyText(q) == IF q.lazy THEN <<"?">> ELSE <<>>

QuantifierText(q) ==
    CASE q.type = "none"  -> <<>>
      [] q.type = "range" -> <<"{">> \o DigitsOf(q.lower)
                             \o (IF q.exactly THEN <<>> ELSE <<",">>)
                             \o (IF q.upper = NoUpper THEN <<>> ELSE DigitsOf(q.upper))
                             \o <<"}">> \o LazyText(q)
      [] OTHER            -> <<q.type>> \o LazyText(q)

ItemText(item) ==
    CASE item.kind = "any"      -> <<".">>
      [] item.kind = "char"     -> <<item.char>>
      [] item.kind = "class"    -> <<"\\", item.class>>
      [] item.kind = "category" -> <<"\\", "p", "{">> \o item.name \o <<"}">>
      [] item.kind = "range"    -> IF item.to = NoEnd THEN <<item.from>>
                                   ELSE <<item.from, "-", item.to>>

SetText(set) ==
    (IF set.negated THEN <<"[", "^">> ELSE <<"[">>)
    \o FlattenSeq([i \in DOMAIN set.items |-> ItemText(set.items[i])]) \o <<"]">>

NodeText(node) ==
    CASE node.kind = "match" ->
           (IF node.item.kind = "set" THEN SetText(node.item) ELSE ItemText(node.item))
           \o QuantifierText(node.quantifier)
      [] node.kind = "group" ->
           (IF node.capturing THEN <<"(">> ELSE <<"(", "?", ":">>)
           \o ExpressionText(node.body) \o <<")">> \o QuantifierText(node.quantifier)
      [] node.kind = "anchor" -> IF node.type = "$" THEN <<"$">> ELSE <<"\\", node.type>>
      [] node.kind = "backreference" -> <<"\\">> \o DigitsOf(node.group)

SequenceText(items) == FlattenSeq([i \in DOMAIN items |-> NodeText(items[i])])

ExpressionText(expression) ==
    FoldLeft(LAMBDA text, items : text \o <<"|">> \o SequenceText(items),
             SequenceText(expression[1]), Tail(expression))

RegexText(regex) ==
    (IF regex.anchored THEN <<"^">> ELSE <<>>) \o ExpressionText(regex.expression)

================================================================================
