-------------------------------- MODULE RegexNfa --------------------------------
(***************************************************************************)
(* The automaton that Nfa::build_regex makes of a parsed regular           *)
(* expression (nfa.cpp).  An Nfa under construction is its states, each    *)
(* the sequence of its transitions, and the number of the next capturing   *)
(* group; a state is named by its index.  Every builder returns the Nfa    *)
(* that it extended with the element it built: its start and its accept.   *)
(*                                                                         *)
(* The order of a state's transitions decides which of two matches the     *)
(* breadth-first search of the matcher finds first.                        *)
(***************************************************************************)
EXTENDS RegexParser

NewNfa == [states |-> <<>>, groups |-> 1]

Epsilon          == [kind |-> "epsilon"]
StartOfString    == [kind |-> "start of string"]
CaptureStart(id) == [kind |-> "capture start", group |-> id]
CaptureEnd(id)   == [kind |-> "capture end", group |-> id]

Element(nfa, start, accept) == [nfa |-> nfa, start |-> start, accept |-> accept]

\* add_new_state; the new state is the last one.
AddState(nfa) == [nfa EXCEPT !.states = Append(@, <<>>)]
LastState(nfa) == Len(nfa.states)

AddTransition(nfa, s, t, condition) ==
    [nfa EXCEPT !.states[s] = Append(@, [to |-> t, on |-> condition])]

AddEpsilons(nfa, edges) ==
    LET added[i \in 0 .. Len(edges)] ==
            IF i = 0 THEN nfa
            ELSE AddTransition(added[i - 1], edges[i][1], edges[i][2], Epsilon)
    IN  added[Len(edges)]

build_basic_element(nfa, condition) ==
    LET s == LastState(nfa) + 1
    IN  Element(AddTransition(AddState(AddState(nfa)), s, s + 1, condition), s, s + 1)

\* second was built after first, in the same Nfa.
concatenate(first, second) ==
    Element(AddTransition(second.nfa, first.accept, second.start, Epsilon),
            first.start, second.accept)

\* What Build makes in the same Nfa, after the element first.
Extended(first, Build(_)) == concatenate(first, Build(first.nfa))

\* The edges in the order in which a lazy quantifier prefers them.
Preferring(lazy, edges) ==
    IF lazy THEN edges ELSE [i \in DOMAIN edges |-> edges[Len(edges) + 1 - i]]

\* apply_quantifier for *, + and ?.
Repeated(e, type, lazy) ==
    LET one == LastState(e.nfa) + 1
        two == LastState(e.nfa) + 2
    IN  CASE type = "*" ->
               Element(AddEpsilons(AddState(AddState(e.nfa)),
                           Preferring(lazy, <<<<one, two>>, <<one, e.start>>>>)
                           \o Preferring(lazy, <<<<e.accept, two>>, <<e.accept, e.start>>>>)),
                       one, two)
          [] type = "+" ->
               Element(AddEpsilons(AddState(e.nfa),
                           Preferring(lazy, <<<<e.accept, one>>, <<e.accept, e.start>>>>)),
                       e.start, one)
          [] type = "?" ->
               Element(AddEpsilons(AddState(AddState(e.nfa)),
                           Append(Preferring(lazy, <<<<one, two>>, <<one, e.start>>>>),
                                  <<e.accept, two>>)),
                       one, two)

--------------------------------------------------------------------------------
RECURSIVE build_expression(_, _)

\* The body of group number id between two new states, start and the one after it.
BetweenCaptures(body, start, id) ==
    Element(AddTransition(AddTransition(body.nfa, start, body.start, CaptureStart(id)),
                          body.accept, start + 1, CaptureEnd(id)),
            start, start + 1)

build_group_body(nfa, group, id) ==
    IF group.capturing
    THEN BetweenCaptures(build_expression(AddState(AddState(nfa)), group.body), LastState(nfa) + 1, id)
    ELSE build_expression(nfa, group.body)

\* build_one_element: the element that a quantifier repeats.
BuildOne(nfa, node, id) ==
    IF node.kind = "match" THEN build_basic_element(nfa, node.item)
    ELSE build_group_body(nfa, node, id)

\* n copies in a row after the element e, each of them optional or none.
RECURSIVE Copies(_, _, _, _, _)
Copies(e, node, id, n, optional) ==
    LET one(nfa)  == BuildOne(nfa, node, id)
        maybe(nfa) == Repeated(one(nfa), "?", node.quantifier.lazy)
    IN  IF n = 0 THEN e
        ELSE Copies(IF optional THEN Extended(e, maybe) ELSE Extended(e, one),
                    node, id, n - 1, optional)

\* {0} and {0,m} begin with an element that matches nothing.
apply_range_quantifier(nfa, node, id) ==
    LET q       == node.quantifier
        star(n) == Repeated(BuildOne(n, node, id), "*", q.lazy)
        needed  == IF q.lower = 0 THEN build_basic_element(nfa, Epsilon)
                   ELSE Copies(BuildOne(nfa, node, id), node, id, q.lower - 1, FALSE)
    IN  CASE q.exactly \/ q.upper = 0 -> needed
          [] ~q.exactly /\ q.upper = NoUpper ->
               IF q.lower = 0 THEN star(nfa) ELSE Extended(needed, star)
          [] q.upper > 0 -> Copies(needed, node, id, q.upper - q.lower, TRUE)

\* A match or a group with its quantifier.
Build(nfa, node, id) ==
    CASE node.quantifier.type = "none"  -> BuildOne(nfa, node, id)
      [] node.quantifier.type = "range" -> apply_range_quantifier(nfa, node, id)
      [] node.quantifier.type \in {"*", "+", "?"} ->
           Repeated(BuildOne(nfa, node, id), node.quantifier.type, node.quantifier.lazy)

build_match(nfa, match) == Build(nfa, match, 0)

\* The number is taken once, before the copies of the body are built.
build_group(nfa, group) ==
    Build(IF group.capturing THEN [nfa EXCEPT !.groups = @ + 1] ELSE nfa, group, nfa.groups)

build_sub_expression_item(nfa, item) ==
    CASE item.kind = "match" -> build_match(nfa, item)
      [] item.kind = "group" -> build_group(nfa, item)
      [] item.kind \in {"anchor", "backreference"} -> build_basic_element(nfa, item)

RECURSIVE BuildItemsFrom(_, _, _)
BuildItemsFrom(e, items, i) ==
    IF i > Len(items) THEN e
    ELSE BuildItemsFrom(Extended(e, LAMBDA nfa : build_sub_expression_item(nfa, items[i])),
                        items, i + 1)

\* The parser makes no empty sub-expression.
build_sub_expression(nfa, items) ==
    BuildItemsFrom(build_sub_expression_item(nfa, items[1]), items, 2)

\* The alternative e between the states start and accept.
Alternative(e, start, accept) ==
    AddEpsilons(e.nfa, <<<<start, e.start>>, <<e.accept, accept>>>>)

build_expression(nfa, alternatives) ==
    LET start  == LastState(nfa) + 1
        accept == LastState(nfa) + 2
        built[i \in 0 .. Len(alternatives)] ==
            IF i = 0 THEN AddState(AddState(nfa))
            ELSE Alternative(build_sub_expression(built[i - 1], alternatives[i]), start, accept)
    IN  Element(built[Len(alternatives)], start, accept)

build_regex(regex) ==
    LET body(nfa) == build_expression(nfa, regex.expression)
    IN  IF regex.anchored
        THEN Extended(build_basic_element(NewNfa, StartOfString), body)
        ELSE body(NewNfa)

\* compile_empty_regex: one state, where matching starts and ends.
EmptyElement == Element(AddState(NewNfa), 1, 1)

================================================================================
