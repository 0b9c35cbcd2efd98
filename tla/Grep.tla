---------------------------------- MODULE Grep ----------------------------------
(***************************************************************************)
(* The grep tool with its regular expressions: GrepFiles with the automata *)
(* that the parser and the builder make of the patterns, and what the      *)
(* tool must find and print, by the meaning of a regular expression.       *)
(***************************************************************************)
EXTENDS GrepFiles, RegexNfa, RegexMeaning

\* The patterns of all jobs, and what the parser makes of each.
Patterns ==
    LET given == {a.text : a \in {x \in UNION {Range(j.args) : j \in Jobs} : x.kind = "pattern"}}
    IN  given \cup {LowerText(text) : text \in given}

Parse == [text \in Patterns |-> parse_regex(text)]

\* What compile_regex makes of them; what the parser leaves of a pattern is not looked at.
Accepted == {text \in Patterns : text = <<>> \/ Parse[text].ok}
Compiled == [text \in Accepted |->
               IF text = <<>> THEN EmptyElement ELSE build_regex(Parse[text].value)]

accepts(text)       == text \in Accepted
compile_regex(text) == Compiled[text]

--------------------------------------------------------------------------------
\* What was compiled: the text, what the parser made of it and what it left.
Text  == Folded(GivenText)
Regex == IF Text = <<>> THEN EmptyRegex ELSE Parse[Text].value
Rest  == IF Text = <<>> THEN <<>> ELSE Parse[Text].rest

\* A result is the whole match followed by the groups.
Result == Last(matches)
Groups == {Result[i] : i \in DOMAIN Result \ {1}}

\* A range with its positions counted from a given one.
CountedFrom(p, range) == GroupRange(range.group, range.begin - p, range.end - p)

EndsFrom(p, text) == Ways(Regex, p, Input(text, FALSE))

\* A backreference reads groups that a counted repetition copied.
NumberedAnew == CopiesGroups(Regex.expression) /\ RefersBack(Regex.expression)

\* The parser takes a pattern apart without losing any of it: what it made,
\* written down again, and what it left are the pattern, and it leaves only
\* what follows an unmatched parenthesis (parser.cpp:693-782, where every
\* function hands the rest on and tries the next alternative from the same
\* place).
PatternIsReadWhole ==
    phase = "files" /\ search = "idle" /\ Text # <<>> =>
        /\ RegexText(Regex) \o Rest = Text
        /\ Rest = <<>> \/ Rest[1] = ")"

\* How a search ends is one of the ways to match at the place where it started:
\* a result has the length and the groups of one and the same way
\* (matcher.cpp:83-155, where each branch has its own copy of the groups, and
\* nfa.cpp, which copies parts of the automaton for counted repetitions), and
\* it throws only where a way takes '.' past the end of the line or needs a
\* Unicode category (matcher.cpp:56, :144, :320).
\* A way's positions are counted from where its search started, a result's from
\* where it says that its match begins: nothing is said of whether match_all
\* reports positions in the line, as it does (matcher.cpp:119), or within each
\* match, as matcher_test.cpp:147-148 and :190 have it.
\* Groups that a counted repetition copies are numbered anew by every copy
\* (nfa.cpp:316-334), so they are not compared, and nothing is said of a
\* result where a backreference reads them.
OutcomeIsAWay ==
    /\ search = "found" /\ ~NumberedAnew =>
          \E w \in EndsFrom(from, line) \ {Beyond} :
              /\ CountedFrom(Result[1].begin, Result[1]) = GroupRange(0, 0, w.position - from)
              /\ CopiesGroups(Regex.expression)
                 \/ {CountedFrom(Result[1].begin, g) : g \in Groups}
                    = {CountedFrom(from, g) : g \in {x \in w.groups : x.end # NoPosition}}
    /\ search = "threw" => Beyond \in EndsFrom(from, line)

\* The matches of a line do not overlap, and between two of them no place to
\* start another was passed over: where the search found nothing there was
\* nothing, and dropping the match states that were visited loses no way to
\* match (matcher.cpp:98-109, where the groups are part of what was visited, and
\* :174-179, where an empty match advances by one).
MatchesDisjointAndComplete ==
    search = "ended" /\ ~NumberedAnew =>
        LET whole(i) == matches[i][1]
            skipped  == {p \in StartPlaces(line) :
                           \A i \in DOMAIN matches :
                              p # whole(i).begin /\ ~(whole(i).begin < p /\ p < whole(i).end)}
        IN  /\ MatchesDisjoint
            /\ \A p \in skipped : EndsFrom(p, line) = {}

--------------------------------------------------------------------------------
\* What the user asked for: the given pattern, and the case that it ignores.
GivenRegex == IF GivenText = <<>> THEN EmptyRegex ELSE Parse[GivenText].value

Matches(text) ==
    \E p \in StartPlaces(text) : Ways(GivenRegex, p, Input(text, IgnoreCase)) \ {Beyond} # {}

Wanted(text) == Decodes(text) /\ Matches(text) # InvertMatch

\* Changing the case of the whole pattern also changes what it says: an escape
\* with a capital letter is another escape, and a range may have other ends.
CaseMatters ==
    /\ IgnoreCase
    /\ \E i \in DOMAIN GivenText :
          /\ GivenText[i] \in Capitals
          /\ i > 1
          /\ GivenText[i - 1] \in {"\\", "-"}

\* A process that ends by itself has printed the lines that the options and the
\* pattern ask for, as they are in the files and in their order
\* (grep.cpp:272-328 and 435-517).  A line that is no UTF-8 is not among them.
\* The pattern is only asked for at the places where match_all starts.
PrintsSelectedLines ==
    /\ phase = "exited" /\ exit # "abort"
    /\ HasPattern /\ Compiles(Folded(GivenText))
    /\ ~CaseMatters /\ ~NumberedAnew
    => output = SelectSeq(LinesRead, Wanted)

\* Every invocation ends: the search drops the match states that it visited, so
\* that a repetition of an empty match does not go on for ever
\* (matcher.cpp:98-109), and match_all moves on after each search.
GrepEnds == <>(phase = "exited")

================================================================================
