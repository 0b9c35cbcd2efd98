------------------------------ MODULE RegexMatcher ------------------------------
(***************************************************************************)
(* Matcher::match_all (matcher.cpp): from one start position after the     *)
(* other, a breadth-first search of the automaton for the first match      *)
(* state that is at the accept state.                                      *)
(*                                                                         *)
(* A match state is an input position, a state of the automaton and the    *)
(* ranges of the capturing groups so far.  A position counts the           *)
(* characters before it.                                                   *)
(***************************************************************************)
EXTENDS RegexConditions

VARIABLES
    automaton,  \* the Element that the Matcher was made of
    line,       \* the input
    from,       \* match_all's i, where the search in progress starts
    queue,      \* states_to_process
    visited,    \* visited_states
    matches,    \* the results so far
    search      \* what match_all is doing

searchVars == <<line, from, queue, visited, matches, search>>

\* text[p], counted from 0.
At(text, p) == text[p + 1]

NoPosition == -1
GroupRange(id, begin, end) == [group |-> id, begin |-> begin, end |-> end]

\* A category throws wherever it is reached, a bracket expression only on a
\* character that gets to its category.
Throws(text, condition, p) ==
    \/ condition.kind = "category"
    \/ condition.kind = "set" /\ p < Len(text) /\ ReachesCategory(condition, At(text, p))

IsWord(text, p) == p >= 0 /\ p < Len(text) /\ InClass("w", At(text, p))

\* process_anchor_transition.
AnchorHolds(text, type, p) ==
    CASE type = "A" -> p = 0
      [] type = "G" -> p = 0
      [] type = "$" -> p = Len(text) \/ At(text, p) = "\n"
      [] type = "Z" -> p = Len(text) \/ (p = Len(text) - 1 /\ At(text, p) = "\n")
      [] type = "z" -> p = Len(text)
      [] type = "b" -> IsWord(text, p - 1) # IsWord(text, p)
      [] type = "B" -> IsWord(text, p - 1) = IsWord(text, p)

--------------------------------------------------------------------------------
\* Where the range of a group is in ranges, or 0.
RangeIndex(ranges, id) == SelectInSeq(ranges, LAMBDA r : r.group = id)

Captured(ranges, id) ==
    LET i == RangeIndex(ranges, id) IN i # 0 /\ ranges[i].end # NoPosition

\* Mutant: a group that starts again keeps where it began.
CaptureStartsOnce(ranges, id, p) ==
    IF RangeIndex(ranges, id) = 0 THEN Append(ranges, GroupRange(id, p, NoPosition)) ELSE ranges

CaptureStarts(ranges, id, p) ==
    LET i == RangeIndex(ranges, id)
    IN  IF i = 0 THEN Append(ranges, GroupRange(id, p, NoPosition))
        ELSE [ranges EXCEPT ![i] = GroupRange(id, p, NoPosition)]

CapturedText(text, ranges, id) ==
    LET r == ranges[RangeIndex(ranges, id)] IN SubSeq(text, r.begin + 1, r.end)

CaptureEnds(ranges, id, p) ==
    [ranges EXCEPT ![RangeIndex(ranges, id)] = GroupRange(id, @.begin, p)]

\* Whether m may take a transition on this condition.
Passes(text, m, on) ==
    \/ on.kind \in {"epsilon", "any", "capture start"}
    \/ /\ on.kind \in {"char", "class", "range", "set"}
       /\ m.position < Len(text)
       /\ Takes(on, At(text, m.position))
    \/ on.kind = "start of string" /\ m.position = 0
    \/ on.kind = "anchor" /\ AnchorHolds(text, on.type, m.position)
    \/ on.kind = "capture end" /\ RangeIndex(m.ranges, on.group) # 0
    \/ /\ on.kind = "backreference"
       /\ Captured(m.ranges, on.group)
       /\ IsPrefix(CapturedText(text, m.ranges, on.group),
                   SubSeq(text, m.position + 1, Len(text)))

\* How many characters it takes, and what becomes of the groups.
Offset(text, m, on) ==
    IF on.kind = "backreference" THEN Len(CapturedText(text, m.ranges, on.group))
    ELSE IF on.kind \in {"any", "char", "class", "range", "set"} THEN 1 ELSE 0

RangesAfter(m, on) ==
    IF on.kind = "capture start" THEN CaptureStarts(m.ranges, on.group, m.position)
    ELSE IF on.kind = "capture end" THEN CaptureEnds(m.ranges, on.group, m.position)
    ELSE m.ranges

After(text, m, t) ==
    [position |-> m.position + Offset(text, m, t.on),
     state    |-> t.to,
     ranges   |-> RangesAfter(m, t.on)]

\* The match states that a transition leads to from m: one or none.
Branch(text, m, t) == IF Passes(text, m, t.on) THEN <<After(text, m, t)>> ELSE <<>>

\* The places of a text where a search starts, and the first match state there.
StartPlaces(text) == 0 .. (IF text = <<>> THEN 0 ELSE Len(text) - 1)

StartState(p) == [position |-> p, state |-> automaton.start, ranges |-> <<>>]

--------------------------------------------------------------------------------
IdleMatcher ==
    /\ line = <<>> /\ from = 0 /\ queue = <<>> /\ visited = {} /\ matches = <<>>
    /\ search = "idle"

\* match_all(text).
MatchAll(text) ==
    /\ line' = text
    /\ from' = 0
    /\ queue' = <<StartState(0)>>
    /\ visited' = {}
    /\ matches' = <<>>
    /\ search' = "searching"

Current == Head(queue)
Popping == search = "searching" /\ queue # <<>>

\* Mutant: the captured groups are no part of a visited state.
VisitedPlace(m) == \E v \in visited : v.state = m.state /\ v.position = m.position

Visited(m) == m \in visited

\* A match state that was processed before is dropped.
SkipVisited ==
    /\ Popping
    /\ Visited(Current)
    /\ queue' = Tail(queue)
    /\ UNCHANGED <<automaton, line, from, visited, matches, search>>

\* The result of a search from p that ended in m: groups that did not end are left
\* out, and the range of the whole match becomes its first.
ResultOf(p, m) ==
    <<GroupRange(0, p, m.position)>> \o SelectSeq(m.ranges, LAMBDA r : r.end # NoPosition)

\* The accept state.
Accept ==
    /\ Popping
    /\ ~Visited(Current)
    /\ Current.state = automaton.accept
    /\ matches' = Append(matches, ResultOf(from, Current))
    /\ search' = "found"
    /\ UNCHANGED <<automaton, line, from, queue, visited>>

TransitionsOf(m) == automaton.nfa.states[m.state]
Transitions == TransitionsOf(Current)

\* Mutant: substr throws at the end of the input already.
StepThrowsAtEnd(text, m) ==
    TransitionsOf(m) # <<>> /\ (\/ m.position >= Len(text)
                                \/ \E i \in DOMAIN TransitionsOf(m) :
                                      Throws(text, TransitionsOf(m)[i].on, m.position))

\* input.substr throws past the end of the input.
StepThrows(text, m) ==
    TransitionsOf(m) # <<>> /\ (\/ m.position > Len(text)
                                \/ \E i \in DOMAIN TransitionsOf(m) :
                                      Throws(text, TransitionsOf(m)[i].on, m.position))

\* Any other state: the branches that its transitions allow are queued.
Expand ==
    /\ Popping
    /\ ~Visited(Current)
    /\ Current.state # automaton.accept
    /\ ~StepThrows(line, Current)
    /\ queue' = Tail(queue)
                \o FlattenSeq([i \in DOMAIN Transitions |-> Branch(line, Current, Transitions[i])])
    /\ visited' = visited \cup {Current}
    /\ UNCHANGED <<automaton, line, from, matches, search>>

Throw ==
    /\ Popping
    /\ ~Visited(Current)
    /\ Current.state # automaton.accept
    /\ StepThrows(line, Current)
    /\ search' = "threw"
    /\ UNCHANGED <<automaton, line, from, queue, visited, matches>>

Exhausted ==
    /\ search = "searching"
    /\ queue = <<>>
    /\ search' = "missed"
    /\ UNCHANGED <<automaton, line, from, queue, visited, matches>>

\* Mutant: a match is not passed over.
AdvancedByOne == from + 1

\* Mutant: the loop goes on without i++ after a search that found nothing.
AdvancedOnlyAfterMatch ==
    LET whole    == Last(matches)[1]
        consumed == whole.end - whole.begin
    IN  CASE search = "missed" -> from
          [] search = "found"  -> from + (IF consumed > 0 THEN consumed ELSE 1)

\* How far match_all moves on: past the match, and by one where it is empty.
Advanced ==
    LET whole    == Last(matches)[1]
        consumed == whole.end - whole.begin
    IN  IF search = "found" /\ consumed > 0 THEN from + consumed ELSE from + 1

\* match_all's loop goes on while i is inside the input.
NextStart ==
    /\ search \in {"found", "missed"}
    /\ from' = Advanced
    /\ visited' = {}
    /\ IF Advanced < Len(line)
       THEN search' = "searching" /\ queue' = <<StartState(Advanced)>>
       ELSE search' = "ended" /\ queue' = <<>>
    /\ UNCHANGED <<automaton, line, matches>>

SearchStep == SkipVisited \/ Accept \/ Expand \/ Throw \/ Exhausted \/ NextStart

================================================================================
