------------------------------- MODULE GrepFiles -------------------------------
(***************************************************************************)
(* The grep tool (grep.cpp) around its regular expressions: the command    *)
(* line, the compilation of the pattern, the walk over files and           *)
(* directories, the search of each line and the exit status.  The search   *)
(* of a line is RegexMatcher's; which automaton a pattern compiles to is   *)
(* a constant here and Grep's business.                                    *)
(*                                                                         *)
(* A job is one invocation: its arguments, what standard input holds and   *)
(* the entries of the current directory.  A line is its code points.       *)
(***************************************************************************)
EXTENDS RegexMatcher

CONSTANTS
    Jobs,
    Compiles(_),    \* whether compile_regex accepts a pattern
    Automaton(_)    \* and what it makes of it then

--------------------------------------------------------------------------------
\* An argument is an option, a pattern or a file.
Option(o)         == [kind |-> "option", option |-> o]
Pattern(text)     == [kind |-> "pattern", text |-> text]
File(content)     == [kind |-> "file", lines |-> content]
BinaryFile        == [kind |-> "binary"]        \* is_binary_file
UnopenedFile      == [kind |-> "unopened"]      \* a regular file that does not open
NoRegularFile     == [kind |-> "special"]       \* nothing there, or no regular file
Directory(tree)   == [kind |-> "directory", entries |-> tree]
StandardInput     == [kind |-> "stdin"]         \* "-"

NoAutomaton == [kind |-> "nullopt"]

VARIABLES
    job,
    phase,      \* what main is doing
    files,      \* the file arguments that are left
    entries,    \* what is left of the directory that is walked
    walking,    \* whether the open file is from a directory
    stdin,      \* what is left of standard input
    lines,      \* what is left of the open file
    original,   \* original_line, before its case is changed
    fileMatch,  \* process_one_file's any_match
    anyMatch,   \* main's any_match
    output,     \* the lines that were printed
    exit        \* how the process ended

fileVars == <<files, entries, walking, stdin, lines, original, fileMatch>>
vars == <<automaton, searchVars, job, phase, fileVars, anyMatch, output, exit>>

--------------------------------------------------------------------------------
\* The options are the arguments before the first that is none.
Options(args) == RunLength([i \in DOMAIN args |-> args[i].kind], {"option"})
OptionCount   == Options(job.args)
Given(o)      == \E i \in 1 .. OptionCount : job.args[i].option = o

IgnoreCase  == Given("-i")
InvertMatch == Given("-v")
Recursive   == Given("-r")
HasPattern  == OptionCount < Len(job.args)
GivenText   == job.args[OptionCount + 1].text

\* Without a file, the current directory or standard input.
FileArguments ==
    LET given == Drop(job.args, OptionCount + 1)
    IN  IF given # <<>> THEN given
        ELSE <<IF Recursive THEN Directory(job.current) ELSE StandardInput>>

Folded(text) == IF IgnoreCase THEN LowerText(text) ELSE text

--------------------------------------------------------------------------------
IsSequence(s) == s \in Seq(Range(s))

\* A text is a sequence of lines, a line one of characters.
IsText(s)     == IsSequence(s) /\ \A i \in DOMAIN s : IsSequence(s[i])
HoldsText(f)  == f.kind = "file" => IsText(f.lines)
HoldsFiles(d) == IsSequence(d.entries) /\ \A f \in Range(d.entries) : HoldsText(f)

ASSUME JobsAssumption ==
    \A j \in Jobs :
       /\ IsSequence(j.args) /\ IsText(j.stdin) /\ HoldsFiles(Directory(j.current))
       /\ \A a \in Range(j.args) :
             /\ HoldsText(a)
             /\ a.kind = "directory" => HoldsFiles(a)

\* Transitions lead from states to states.
IsAutomaton(a) ==
    LET states == a.nfa.states
    IN  /\ a.start \in DOMAIN states
        /\ \A s \in DOMAIN states :
              IsSequence(states[s]) /\ \A t \in Range(states[s]) : t.to \in DOMAIN states

ASSUME AutomatonAssumption ==
    LET given == {j.args[Options(j.args) + 1].text :
                    j \in {k \in Jobs : Options(k.args) < Len(k.args)}}
    IN  \A text \in given \cup {LowerText(t) : t \in given} :
           Compiles(text) => IsAutomaton(Automaton(text))

--------------------------------------------------------------------------------
Init ==
    /\ job \in Jobs
    /\ automaton = NoAutomaton
    /\ IdleMatcher
    /\ phase = "arguments"
    /\ files = <<>> /\ entries = <<>> /\ walking = FALSE /\ stdin = job.stdin
    /\ lines = <<>> /\ original = <<>>
    /\ fileMatch = FALSE /\ anyMatch = FALSE
    /\ output = <<>>
    /\ exit = "none"

Exit(status) == phase' = "exited" /\ exit' = status

RefuseArguments ==
    /\ phase = "arguments"
    /\ ~HasPattern
    /\ Exit("failure")
    /\ UNCHANGED <<automaton, searchVars, job, fileVars, anyMatch, output>>

RefusePattern ==
    /\ phase = "arguments"
    /\ HasPattern
    /\ ~Compiles(Folded(GivenText))
    /\ Exit("failure")
    /\ UNCHANGED <<automaton, searchVars, job, fileVars, anyMatch, output>>

Compile ==
    /\ phase = "arguments"
    /\ HasPattern
    /\ Compiles(Folded(GivenText))
    /\ automaton' = Automaton(Folded(GivenText))
    /\ files' = FileArguments
    /\ phase' = "files"
    /\ UNCHANGED <<searchVars, job, entries, walking, stdin, lines, original, fileMatch,
                   anyMatch, output, exit>>

--------------------------------------------------------------------------------
\* process_one_file begins.
Open(text, inDirectory) ==
    /\ lines' = text
    /\ fileMatch' = FALSE
    /\ walking' = inDirectory
    /\ phase' = "reading"

OpenFile ==
    /\ phase = "files"
    /\ files # <<>> /\ Head(files).kind = "file"
    /\ Open(Head(files).lines, FALSE)
    /\ files' = Tail(files)
    /\ UNCHANGED <<automaton, searchVars, job, entries, stdin, original, anyMatch, output, exit>>

\* A second "-" finds standard input at its end.
OpenStandardInput ==
    /\ phase = "files"
    /\ files # <<>> /\ Head(files).kind = "stdin"
    /\ Open(stdin, FALSE)
    /\ stdin' = <<>>
    /\ files' = Tail(files)
    /\ UNCHANGED <<automaton, searchVars, job, entries, original, anyMatch, output, exit>>

OpenDirectory ==
    /\ phase = "files"
    /\ files # <<>> /\ Head(files).kind = "directory" /\ Recursive
    /\ entries' = Head(files).entries
    /\ files' = Tail(files)
    /\ phase' = "walking"
    /\ UNCHANGED <<automaton, searchVars, job, walking, stdin, lines, original, fileMatch,
                   anyMatch, output, exit>>

\* A binary file counts as a match, whatever is not a file or does not open as none.
PassOver ==
    /\ phase = "files"
    /\ files # <<>>
    /\ \/ Head(files).kind \notin {"file", "stdin", "directory"}
       \/ Head(files).kind = "directory" /\ ~Recursive
    /\ anyMatch' = (anyMatch \/ Head(files).kind = "binary")
    /\ files' = Tail(files)
    /\ UNCHANGED <<automaton, searchVars, job, phase, entries, walking, stdin, lines, original,
                   fileMatch, output, exit>>

Finish ==
    /\ phase = "files"
    /\ files = <<>>
    /\ Exit(IF anyMatch THEN "success" ELSE "failure")
    /\ UNCHANGED <<automaton, searchVars, job, fileVars, anyMatch, output>>

--------------------------------------------------------------------------------
\* process_recursive_search, one entry of the directory tree at a time.
WalkFile ==
    /\ phase = "walking"
    /\ entries # <<>> /\ Head(entries).kind = "file"
    /\ Open(Head(entries).lines, TRUE)
    /\ entries' = Tail(entries)
    /\ UNCHANGED <<automaton, searchVars, job, files, stdin, original, anyMatch, output, exit>>

WalkPast ==
    /\ phase = "walking"
    /\ entries # <<>> /\ Head(entries).kind \in {"binary", "special"}
    /\ entries' = Tail(entries)
    /\ UNCHANGED <<automaton, searchVars, job, phase, files, walking, stdin, lines, original,
                   fileMatch, anyMatch, output, exit>>

\* A file that does not open ends the walk; the directory is no match then.
WalkFails ==
    /\ phase = "walking"
    /\ entries # <<>> /\ Head(entries).kind = "unopened"
    /\ entries' = <<>>
    /\ phase' = "files"
    /\ UNCHANGED <<automaton, searchVars, job, files, walking, stdin, lines, original,
                   fileMatch, anyMatch, output, exit>>

\* A directory that was walked to its end counts as a match.
WalkEnds ==
    /\ phase = "walking"
    /\ entries = <<>>
    /\ anyMatch' = TRUE
    /\ phase' = "files"
    /\ UNCHANGED <<automaton, searchVars, job, fileVars, output, exit>>

--------------------------------------------------------------------------------
\* Mutant: the case of the line itself is changed.
SearchLineInPlace ==
    /\ phase = "reading"
    /\ lines # <<>> /\ Decodes(Head(lines))
    /\ original' = Folded(Head(lines))
    /\ lines' = Tail(lines)
    /\ MatchAll(Folded(Head(lines)))
    /\ phase' = "searching"
    /\ UNCHANGED <<automaton, job, files, entries, walking, stdin, fileMatch, anyMatch, output,
                   exit>>

\* getline; the case of a copy is changed.
SearchLine ==
    /\ phase = "reading"
    /\ lines # <<>> /\ Decodes(Head(lines))
    /\ original' = Head(lines)
    /\ lines' = Tail(lines)
    /\ MatchAll(Folded(Head(lines)))
    /\ phase' = "searching"
    /\ UNCHANGED <<automaton, job, files, entries, walking, stdin, fileMatch, anyMatch, output,
                   exit>>

\* A line that is no UTF-8 is never selected, not even by -v.
SkipLine ==
    /\ phase = "reading"
    /\ lines # <<>> /\ ~Decodes(Head(lines))
    /\ lines' = Tail(lines)
    /\ UNCHANGED <<automaton, searchVars, job, phase, files, entries, walking, stdin, original,
                   fileMatch, anyMatch, output, exit>>

\* Mutant: the last file decides about the exit status.
CloseFileForgets ==
    /\ phase = "reading"
    /\ lines = <<>>
    /\ IF walking THEN phase' = "walking" /\ UNCHANGED anyMatch
                  ELSE phase' = "files" /\ anyMatch' = fileMatch
    /\ UNCHANGED <<automaton, searchVars, job, fileVars, output, exit>>

CloseFile ==
    /\ phase = "reading"
    /\ lines = <<>>
    /\ IF walking THEN phase' = "walking" /\ UNCHANGED anyMatch
                  ELSE phase' = "files" /\ anyMatch' = (anyMatch \/ fileMatch)
    /\ UNCHANGED <<automaton, searchVars, job, fileVars, output, exit>>

Search ==
    /\ phase = "searching"
    /\ SearchStep
    /\ UNCHANGED <<job, phase, fileVars, anyMatch, output, exit>>

Selected == (matches # <<>>) # InvertMatch

LineSearched ==
    /\ phase = "searching"
    /\ search = "ended"
    /\ output' = IF Selected THEN Append(output, original) ELSE output
    /\ fileMatch' = (fileMatch \/ Selected)
    /\ phase' = "reading"
    /\ UNCHANGED <<automaton, searchVars, job, files, entries, walking, stdin, lines, original,
                   anyMatch, exit>>

\* Nothing catches the exceptions of the search.
Abort ==
    /\ phase = "searching"
    /\ search = "threw"
    /\ Exit("abort")
    /\ UNCHANGED <<automaton, searchVars, job, fileVars, anyMatch, output>>

Next ==
    \/ RefuseArguments \/ RefusePattern \/ Compile
    \/ OpenFile \/ OpenStandardInput \/ OpenDirectory \/ PassOver \/ Finish
    \/ WalkFile \/ WalkPast \/ WalkFails \/ WalkEnds
    \/ SearchLine \/ SkipLine \/ CloseFile \/ Search \/ LineSearched \/ Abort

Spec == Init /\ [][Next]_vars

\* A process that is given processor time goes on.
FairSpec == Spec /\ WF_vars(Next)

--------------------------------------------------------------------------------
\* The matches of a line come in order and do not overlap, whatever the pattern and the
\* line are: the next search starts behind the last match, and by one further where
\* that was empty (matcher.cpp:162-181).
MatchesDisjoint ==
    \A i \in 1 .. Len(matches) - 1 :
       LET whole == matches[i][1]
           next  == matches[i + 1][1]
       IN  whole.begin < next.begin /\ whole.end <= next.begin

Directories == {i \in DOMAIN FileArguments : FileArguments[i].kind = "directory"}

KindsOf(s) == {s[i].kind : i \in DOMAIN s}

\* The lines that are read, in order: a directory ends at a file that does not open,
\* and standard input is there once.
TreeText(tree) ==
    FlattenSeq([k \in DOMAIN tree |->
                  IF tree[k].kind = "file" /\ \A j \in 1 .. k : tree[j].kind # "unopened"
                  THEN tree[k].lines ELSE <<>>])

ArgumentText(i) ==
    LET f     == FileArguments[i]
        again == \E k \in 1 .. i - 1 : FileArguments[k].kind = "stdin"
    IN  CASE f.kind = "file"                    -> f.lines
          [] f.kind = "stdin"                   -> IF again THEN <<>> ELSE job.stdin
          [] f.kind = "directory" /\ Recursive -> TreeText(f.entries)
          [] OTHER                              -> <<>>

LinesRead == FlattenSeq([i \in DOMAIN FileArguments |-> ArgumentText(i)])

\* The exit status tells whether a line was printed: never failure after output,
\* unless the walk of a directory found a file that does not open
\* (grep.cpp:341-345), and success without output only for a binary file or a
\* directory (grep.cpp:392-396 and 446-449).
StatusTellsOutput ==
    phase = "exited" /\ HasPattern /\ Compiles(Folded(GivenText)) =>
        /\ exit = "failure" /\ output # <<>> =>
              /\ Recursive
              /\ \E i \in Directories : "unopened" \in KindsOf(FileArguments[i].entries)
        /\ exit = "success" /\ output = <<>> =>
              \/ "binary" \in KindsOf(FileArguments)
              \/ Recursive /\ Directories # {}

================================================================================
