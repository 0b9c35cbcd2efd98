--------------------------------- MODULE MCGrep ---------------------------------
(***************************************************************************)
(* Grep for TLC: every short pattern over a few characters, a list of      *)
(* longer ones for what short patterns do not reach, and invocations with  *)
(* options, several files and directories.                                 *)
(***************************************************************************)
EXTENDS Grep

\* The characters of a string.
T(string) == [i \in 1 .. Len(string) |-> SubSeq(string, i, i)]

TextsOf(strings) == {T(s) : s \in strings}

\* One pattern and one line on standard input.
LineJob(options, pattern, line_) ==
    [args |-> [i \in DOMAIN options |-> Option(options[i])] \o <<Pattern(pattern)>>,
     stdin |-> <<line_>>, current |-> <<>>]

ShortPatterns == UNION {[1 .. n -> {"a", "b", "*", "?", "(", ")", "|", "."}] : n \in 0 .. 4}

ShortLines == TextsOf({"", "a", "ab", "bba"})

LongPatterns == TextsOf({
    "(a|b)*\\1", "^(a*)a*b\\1$", "^(a|aa)a*b\\1$", "(a*)*b", "(a*)+", "(a?)*?b", "(a|ab)(b|a)*$", "((a)|b)+\\2", "(a)|b\\1",
    "a{2}", "a{0}b", "a{0,}b", "a{0,2}b", "a{1,}b", "a{2,3}?b", "a{3,2}", "a{1,", "(ab){2}",
    "(a){0,2}b", "((a)b?){2}", "((a)b){2}\\2", "(?:ab|a){1,2}b", "(?:a|b)??a", "a+?b", "a??b",
    "[ab]+", "[^a]", "[a-b]*a", "[b-a]", "[a-", "[]", "[^]", "[a\\d]b", "[-a]", "[ab",
    "\\w\\s\\w", "\\W", "\\d+\\D", "\\S*", "\\p{Zs}", "[a\\p{Zs}]", "\\p{",
    "\\ba", "a\\b", "\\Ba\\B", "\\Aa", "\\Ga", "a\\z", "a\\Z", "^a$", "^b|a", "^", "a^b",
    "a.b", "a)b", "|a", "a|", "()", "(", "a**", "$", "$a", "a$b", "(a|b$)*", "\\", "\\1a", "(a\\1)b", "{2}", "x{,2}"})

LongLines == TextsOf({"", "ab", "aab", "abab", "a b1", "2a", "aaba", "aabaa"})

FoldPatterns == TextsOf({"aB", "[A-B]+b", "(A)\\1", "[^B]", "B*A", "\\W", "\\D", "[Z-a]", "A|D"})
FoldLines    == TextsOf({"", "AB", "aBb", "Aa", "d.", "1"})

EAcute(s) == <<Accented>> \o T(s)

--------------------------------------------------------------------------------
\* Invocations with several files.
One    == File(<<T("ab"), T("b"), <<>>>>)
Other  == File(<<T("B"), <<Undecodable>>, EAcute("a")>>)
None   == File(<<T("x")>>)
Trees  == {<<>>, <<One, Other>>, <<One, UnopenedFile, Other>>, <<BinaryFile, NoRegularFile, None>>}

FileLists == {<<>>, <<One>>, <<One, Other>>, <<None, None>>, <<None, BinaryFile>>,
              <<UnopenedFile, NoRegularFile>>, <<StandardInput, StandardInput, One>>}
             \cup {<<Directory(t), None>> : t \in Trees} \cup {<<None, Directory(t)>> : t \in Trees}

OptionLists == {<<>>, <<"-i">>, <<"-v">>, <<"-r">>, <<"-r", "-v">>, <<"-i", "-r">>}

FileJobs ==
    {[args |-> [i \in DOMAIN o |-> Option(o[i])] \o <<Pattern(p)>> \o f,
      stdin |-> <<T("a"), T("B")>>, current |-> <<Other, One>>] :
        o \in OptionLists, p \in TextsOf({"b", "", "(", "a$"}), f \in FileLists}

NoPatternJobs == {[args |-> <<Option("-i")>>, stdin |-> <<>>, current |-> <<>>]}

AllJobs ==
    {LineJob(<<>>, p, l) : p \in ShortPatterns, l \in ShortLines}
    \cup {LineJob(<<>>, p, l) : p \in LongPatterns, l \in LongLines}
    \cup {LineJob(o, p, l) : o \in {<<"-i">>, <<"-i", "-v">>}, p \in FoldPatterns, l \in FoldLines}
    \cup FileJobs \cup NoPatternJobs

================================================================================
