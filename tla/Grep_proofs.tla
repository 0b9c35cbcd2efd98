------------------------------- MODULE Grep_proofs -------------------------------
(***************************************************************************)
(* Proofs about the grep tool: what its exit status tells of the output,   *)
(* that the matches of a line do not overlap, that the search finds what   *)
(* the automaton accepts and misses nothing, that the lines which are      *)
(* printed are those that it accepts, and that the code points of a line   *)
(* are what its bytes encode (Utf8).                                       *)
(***************************************************************************)
EXTENDS GrepFiles, Utf8, FiniteSetTheorems, SequenceTheorems, WellFoundedInduction, TLAPS

--------------------------------------------------------------------------------
LEMMA SequenceIn ==
    ASSUME NEW S, NEW s \in Seq(S)
    PROVE  IsSequence(s) /\ Range(s) \subseteq S /\ Len(s) \in Nat /\ DOMAIN s = 1 .. Len(s)
<1>1. s \in [1 .. Len(s) -> S] /\ Len(s) \in Nat
  OBVIOUS
<1>2. s \in [1 .. Len(s) -> Range(s)]
  BY <1>1 DEF Range
<1>3. s \in Seq(Range(s))
  BY <1>1, <1>2
<1> QED BY <1>1, <1>3 DEF IsSequence, Range

LEMMA EmptySequence == IsSequence(<<>>) /\ Range(<<>>) = {}
<1>1. /\ <<>> \in Seq({}) /\ Len(<<>>) = 0
  OBVIOUS
<1> DEFINE s == <<>>
<1> HIDE DEF s
<1>2. s \in Seq({})
  BY <1>1 DEF s
<1>3. IsSequence(s) /\ Range(s) \subseteq {}
  BY <1>2, SequenceIn
<1> QED BY <1>3 DEF s

LEMMA SingletonSequence ==
    ASSUME NEW x
    PROVE  IsSequence(<<x>>) /\ Range(<<x>>) = {x} /\ <<x>> # <<>>
<1>1. <<x>> \in Seq({x}) /\ Len(<<x>>) = 1 /\ <<x>>[1] = x
  OBVIOUS
<1>2. IsSequence(<<x>>) /\ Range(<<x>>) \subseteq {x} /\ DOMAIN <<x>> = 1 .. Len(<<x>>)
  <2> DEFINE s == <<x>>
  <2> HIDE DEF s
  <2>1. s \in Seq({x})
    BY <1>1 DEF s
  <2>2. IsSequence(s) /\ Range(s) \subseteq {x} /\ DOMAIN s = 1 .. Len(s)
    BY <2>1, SequenceIn
  <2> QED BY <2>2 DEF s
<1>3. x \in Range(<<x>>)
  BY <1>1, <1>2 DEF Range
<1> QED BY <1>1, <1>2, <1>3

LEMMA HeadAndTail ==
    ASSUME NEW s, IsSequence(s), s # <<>>
    PROVE  /\ Head(s) \in Range(s)
           /\ IsSequence(Tail(s)) /\ Range(Tail(s)) \subseteq Range(s)
           /\ Range(s) = {Head(s)} \cup Range(Tail(s))
<1>1. s \in Seq(Range(s))
  BY DEF IsSequence
<1>2. Head(s) \in Range(s) /\ Tail(s) \in Seq(Range(s))
  BY <1>1
<1>3. Range(s) = {Head(s)} \cup Range(Tail(s))
  <2>1. PICK t \in Seq(Range(s)) : t = Tail(s)
    BY <1>2
  <2>2. <<Head(s)>> \in Seq(Range(s)) /\ s = <<Head(s)>> \o t
    BY <1>1, <1>2, <2>1
  <2>3. Range(s) = Range(<<Head(s)>>) \cup Range(t)
    <3>1. PICK S, one : S = Range(s) /\ one = <<Head(s)>>
      OBVIOUS
    <3>2. one \in Seq(S) /\ t \in Seq(S)
      BY <2>1, <2>2, <3>1
    <3>3. Range(one \o t) = Range(one) \cup Range(t)
      BY <3>2, RangeConcatenation
    <3> QED BY <2>2, <3>1, <3>3
  <2>4. Range(<<Head(s)>>) = {Head(s)}
    <3>1. PICK h : h = Head(s)
      OBVIOUS
    <3>2. <<h>>[1] = h /\ DOMAIN <<h>> = {1}
      OBVIOUS
    <3> QED BY <3>1, <3>2 DEF Range
  <2> QED BY <2>1, <2>3, <2>4
<1> QED BY <1>2, <1>3, SequenceIn

LEMMA AppendSequence ==
    ASSUME NEW s, IsSequence(s), NEW x
    PROVE  /\ IsSequence(Append(s, x)) /\ Range(Append(s, x)) = Range(s) \cup {x}
           /\ Append(s, x) # <<>>
<1>1. s \in Seq(Range(s) \cup {x})
  BY DEF IsSequence
<1>2. /\ Append(s, x) \in Seq(Range(s) \cup {x}) /\ Len(Append(s, x)) = Len(s) + 1
      /\ Len(s) \in Nat
      /\ Append(s, x)[Len(s) + 1] = x /\ \A i \in 1 .. Len(s) : Append(s, x)[i] = s[i]
  BY <1>1
<1>3. DOMAIN s = 1 .. Len(s) /\ DOMAIN Append(s, x) = 1 .. Len(s) + 1
  BY <1>1, <1>2, SequenceIn
<1>4. Range(s) \subseteq Range(Append(s, x)) /\ x \in Range(Append(s, x))
  BY <1>2, <1>3 DEF Range
<1>5. Range(Append(s, x)) \subseteq Range(s) \cup {x} /\ IsSequence(Append(s, x))
  BY <1>2, SequenceIn
<1>6. Append(s, x) # <<>>
  BY <1>2
<1> QED BY <1>4, <1>5, <1>6

\* What is dropped from a sequence leaves a sequence.
LEMMA DropSequence ==
    ASSUME NEW s, IsSequence(s), NEW n \in Nat
    PROVE  IsSequence(Drop(s, n)) /\ Range(Drop(s, n)) \subseteq Range(s)
<1>1. s \in Seq(Range(s))
  BY DEF IsSequence
<1>2. Drop(s, n) \in Seq(Range(s))
  BY <1>1 DEF Drop
<1> QED BY <1>2, SequenceIn

LEMMA RunLengthType ==
    ASSUME NEW s, IsSequence(s), NEW S
    PROVE  RunLength(s, S) \in Nat
<1> DEFINE run == {n \in DOMAIN s : \A i \in 1 .. n : s[i] \in S}
<1>1. Len(s) \in Nat /\ DOMAIN s = 1 .. Len(s)
  BY SequenceIn DEF IsSequence
<1>2. IsFiniteSet(1 .. Len(s))
  BY <1>1, FS_Interval
<1>3. IsFiniteSet(run)
  BY <1>1, <1>2, FS_Subset
<1> QED BY <1>3, FS_CardinalityType DEF RunLength

--------------------------------------------------------------------------------
\* The arguments of the invocation do not change.
LEMMA SameJob ==
    ASSUME job' = job
    PROVE  /\ OptionCount' = OptionCount /\ FileArguments' = FileArguments
           /\ Directories' = Directories
           /\ Recursive' = Recursive /\ HasPattern' = HasPattern /\ GivenText' = GivenText
           /\ InvertMatch' = InvertMatch
           /\ \A text : Folded(text)' = Folded(text)
<1>1. OptionCount' = OptionCount
  BY DEF OptionCount
<1>2. \A o : Given(o)' = Given(o)
  BY <1>1 DEF Given
<1>3. Recursive' = Recursive /\ IgnoreCase' = IgnoreCase /\ InvertMatch' = InvertMatch
  BY <1>2 DEF Recursive, IgnoreCase, InvertMatch
<1>4. FileArguments' = FileArguments
  BY <1>1, <1>3 DEF FileArguments
<1> QED BY <1>1, <1>3, <1>4 DEF HasPattern, GivenText, Directories, Folded

LEMMA GivenFiles ==
    ASSUME job \in Jobs
    PROVE  /\ IsSequence(FileArguments)
           /\ \A f \in Range(FileArguments) :
                 /\ HoldsText(f)
                 /\ f.kind = "directory" => HoldsFiles(f)
<1> DEFINE kinds == [i \in DOMAIN job.args |-> job.args[i].kind]
           given == Drop(job.args, OptionCount + 1)
<1>1. /\ IsSequence(job.args) /\ HoldsFiles(Directory(job.current))
      /\ \A f \in Range(job.args) : HoldsText(f) /\ (f.kind = "directory" => HoldsFiles(f))
  BY JobsAssumption
<1>2. OptionCount \in Nat
  <2>1. Len(job.args) \in Nat /\ DOMAIN job.args = 1 .. Len(job.args)
    BY <1>1, SequenceIn DEF IsSequence
  <2>2. kinds \in Seq({job.args[i].kind : i \in DOMAIN job.args})
    BY <2>1
  <2>3. IsSequence(kinds)
    BY <2>2, SequenceIn
  <2> QED BY <2>3, RunLengthType DEF OptionCount, Options
<1>3. IsSequence(given) /\ Range(given) \subseteq Range(job.args)
  BY <1>1, <1>2, DropSequence
<1>4. CASE given # <<>>
  <2>1. FileArguments = given
    BY <1>4 DEF FileArguments
  <2> QED BY <1>1, <1>3, <2>1
<1>5. CASE given = <<>>
  <2> DEFINE only == IF Recursive THEN Directory(job.current) ELSE StandardInput
  <2>1. FileArguments = <<only>>
    BY <1>5 DEF FileArguments
  <2>2. HoldsText(only) /\ (only.kind = "directory" => HoldsFiles(only))
    BY <1>1 DEF Directory, StandardInput, HoldsText
  <2> HIDE DEF only
  <2> QED BY <2>1, <2>2, SingletonSequence
<1> QED BY <1>4, <1>5

--------------------------------------------------------------------------------
(***************************************************************************)
(* What the exit status tells.  While the tool runs, printed lines are     *)
(* accounted for by main's any_match, by the match in the file that is     *)
(* open, by the walk in progress or by one that a file ended that does not *)
(* open; and any_match by printed lines, a binary file or a directory.     *)
(***************************************************************************)
InWalk == phase = "walking" \/ (phase \in {"reading", "searching"} /\ walking)
InFile == phase \in {"reading", "searching"} /\ ~walking

UnopenedGiven == Recursive /\ \E i \in Directories : "unopened" \in KindsOf(FileArguments[i].entries)
BinaryGiven   == "binary" \in KindsOf(FileArguments)
WalkGiven     == Recursive /\ Directories # {}

Typed ==
    /\ job \in Jobs
    /\ phase \in {"arguments", "files", "walking", "reading", "searching", "exited"}
    /\ walking \in BOOLEAN /\ fileMatch \in BOOLEAN /\ anyMatch \in BOOLEAN
    /\ IsSequence(files) /\ IsSequence(entries) /\ IsSequence(output)

\* What is left to read is part of what was given.
Remaining ==
    /\ Range(files) \subseteq Range(FileArguments)
    /\ InWalk => /\ Recursive
                 /\ \E i \in Directories : Range(entries) \subseteq Range(FileArguments[i].entries)

Accounted ==
    /\ fileMatch => output # <<>>
    /\ phase = "arguments" => output = <<>> /\ ~anyMatch
    /\ phase # "exited" /\ output # <<>> =>
          anyMatch \/ UnopenedGiven \/ InWalk \/ (InFile /\ fileMatch)
    /\ phase # "exited" /\ anyMatch => output # <<>> \/ BinaryGiven \/ WalkGiven

ToldInv == Typed /\ Remaining /\ Accounted /\ StatusTellsOutput

LEMMA ToldInit == Init => ToldInv
<1> SUFFICES ASSUME Init PROVE ToldInv
  OBVIOUS
<1>1. Typed
  BY EmptySequence DEF Init, Typed
<1>2. Remaining
  BY EmptySequence DEF Init, Remaining, InWalk
<1>3. Accounted /\ StatusTellsOutput
  BY DEF Init, Accounted, StatusTellsOutput
<1> QED BY <1>1, <1>2, <1>3 DEF ToldInv

LEMMA SameGiven ==
    ASSUME job' = job
    PROVE  /\ UnopenedGiven' = UnopenedGiven /\ BinaryGiven' = BinaryGiven
           /\ WalkGiven' = WalkGiven
<1>1. /\ FileArguments' = FileArguments /\ Directories' = Directories
      /\ Recursive' = Recursive
  BY SameJob
<1> QED BY <1>1 DEF UnopenedGiven, BinaryGiven, WalkGiven

\* The status of a process that goes on is not asked for.
LEMMA RunsOn ==
    ASSUME phase' # "exited"
    PROVE  StatusTellsOutput'
  BY DEF StatusTellsOutput

LEMMA ToldStep == ToldInv /\ [Next]_vars => ToldInv'
<1> SUFFICES ASSUME ToldInv, [Next]_vars PROVE ToldInv'
  OBVIOUS
<1>t. Typed /\ Remaining /\ Accounted /\ StatusTellsOutput
  BY DEF ToldInv
<1>j. job' = job
  BY DEF Next, RefuseArguments, RefusePattern, Compile, OpenFile, OpenStandardInput,
         OpenDirectory, PassOver, Finish, WalkFile, WalkPast, WalkFails, WalkEnds,
         SearchLine, SkipLine, CloseFile, Search, LineSearched, Abort, vars
<1>s. /\ FileArguments' = FileArguments /\ Directories' = Directories
      /\ Recursive' = Recursive /\ HasPattern' = HasPattern /\ GivenText' = GivenText
      /\ \A text : Folded(text)' = Folded(text)
      /\ UnopenedGiven' = UnopenedGiven /\ BinaryGiven' = BinaryGiven
      /\ WalkGiven' = WalkGiven
  BY <1>j, SameJob, SameGiven
<1>1. ASSUME RefuseArguments \/ RefusePattern
      PROVE  ToldInv'
  <2>1. /\ phase' = "exited" /\ UNCHANGED <<fileVars, anyMatch, output>>
        /\ output = <<>> /\ exit' = "failure"
    BY <1>1, <1>t DEF RefuseArguments, RefusePattern, Exit, Accounted
  <2>2. Typed' /\ Remaining' /\ Accounted'
    BY <2>1, <1>t, <1>j, <1>s DEF fileVars, Typed, Remaining, Accounted, InWalk
  <2>3. StatusTellsOutput'
    BY <2>1 DEF StatusTellsOutput
  <2> QED BY <2>2, <2>3 DEF ToldInv
<1>2. ASSUME Compile
      PROVE  ToldInv'
  <2>1. /\ phase = "arguments" /\ phase' = "files" /\ files' = FileArguments
        /\ UNCHANGED <<entries, walking, fileMatch, anyMatch, output>>
    BY <1>2 DEF Compile
  <2>2. Typed' /\ Remaining'
    BY <2>1, <1>t, <1>j, <1>s, GivenFiles DEF Typed, Remaining, InWalk
  <2>3. Accounted'
    BY <2>1, <1>t DEF Accounted
  <2> QED BY <2>1, <2>2, <2>3, RunsOn DEF ToldInv
<1>3. ASSUME OpenFile \/ OpenStandardInput
      PROVE  ToldInv'
  <2>1. /\ phase = "files" /\ files # <<>> /\ files' = Tail(files)
        /\ phase' = "reading" /\ walking' = FALSE /\ fileMatch' = FALSE
        /\ UNCHANGED <<entries, anyMatch, output>>
    BY <1>3 DEF OpenFile, OpenStandardInput, Open
  <2>2. Typed' /\ Remaining'
    BY <2>1, <1>t, <1>j, <1>s, HeadAndTail DEF Typed, Remaining, InWalk
  <2>3. Accounted'
    BY <2>1, <1>t, <1>s DEF Accounted, InWalk, InFile
  <2> QED BY <2>1, <2>2, <2>3, RunsOn DEF ToldInv
<1>4. ASSUME OpenDirectory
      PROVE  ToldInv'
  <2>1. /\ phase = "files" /\ files # <<>> /\ files' = Tail(files)
        /\ phase' = "walking" /\ entries' = Head(files).entries
        /\ Head(files).kind = "directory" /\ Recursive
        /\ UNCHANGED <<walking, fileMatch, anyMatch, output>>
    BY <1>4 DEF OpenDirectory
  <2>2. Head(files) \in Range(FileArguments)
    BY <2>1, <1>t, HeadAndTail DEF Typed, Remaining
  <2>3. PICK i \in Directories : FileArguments[i] = Head(files)
    BY <2>1, <2>2 DEF Range, Directories
  <2>4. IsSequence(entries')
    BY <2>1, <2>2, <1>t, GivenFiles DEF Typed, HoldsFiles
  <2>5. Typed' /\ Remaining'
    BY <2>1, <2>3, <2>4, <1>t, <1>j, <1>s, HeadAndTail DEF Typed, Remaining
  <2>6. Accounted'
    BY <2>1, <1>t, <1>s DEF Accounted, InWalk, InFile
  <2> QED BY <2>1, <2>5, <2>6, RunsOn DEF ToldInv
<1>5. ASSUME PassOver
      PROVE  ToldInv'
  <2>1. /\ phase = "files" /\ files # <<>> /\ files' = Tail(files) /\ phase' = phase
        /\ UNCHANGED <<entries, walking, fileMatch, output>>
    BY <1>5 DEF PassOver
  <2>2. /\ anyMatch' \in BOOLEAN
        /\ anyMatch => anyMatch'
        /\ anyMatch' => anyMatch \/ Head(files).kind = "binary"
    BY <1>5, <1>t DEF PassOver, Typed
  <2>3. Head(files) \in Range(FileArguments)
    BY <2>1, <1>t, HeadAndTail DEF Typed, Remaining
  <2>4. Head(files).kind = "binary" => BinaryGiven
    BY <2>3 DEF BinaryGiven, KindsOf, Range
  <2>5. Typed' /\ Remaining'
    BY <2>1, <2>2, <1>t, <1>j, <1>s, HeadAndTail DEF Typed, Remaining, InWalk
  <2>6. Accounted'
    BY <2>1, <2>2, <2>4, <1>t, <1>s DEF Accounted, InWalk, InFile
  <2> QED BY <2>1, <2>5, <2>6, RunsOn DEF ToldInv
<1>6. ASSUME Finish
      PROVE  ToldInv'
  <2>1. /\ phase = "files" /\ phase' = "exited"
        /\ exit' = (IF anyMatch THEN "success" ELSE "failure")
        /\ UNCHANGED <<fileVars, anyMatch, output>>
    BY <1>6 DEF Finish, Exit
  <2>2. Typed' /\ Remaining' /\ Accounted'
    BY <2>1, <1>t, <1>j, <1>s DEF fileVars, Typed, Remaining, Accounted, InWalk
  <2>3. /\ output # <<>> /\ ~anyMatch => UnopenedGiven
        /\ output = <<>> /\ anyMatch => BinaryGiven \/ WalkGiven
    BY <2>1, <1>t DEF Accounted, InWalk, InFile
  <2>4. StatusTellsOutput'
    BY <2>1, <2>3, <1>t, <1>s
    DEF StatusTellsOutput, UnopenedGiven, BinaryGiven, WalkGiven, Typed
  <2> QED BY <2>2, <2>4 DEF ToldInv
<1>7. ASSUME WalkFile \/ WalkPast
      PROVE  ToldInv'
  <2>1. /\ phase = "walking" /\ entries # <<>> /\ entries' = Tail(entries)
        /\ UNCHANGED <<files, anyMatch, output>>
    BY <1>7 DEF WalkFile, WalkPast
  <2>2. \/ phase' = "reading" /\ walking' = TRUE /\ fileMatch' = FALSE
        \/ phase' = "walking" /\ UNCHANGED <<walking, fileMatch>>
    BY <1>7, <2>1 DEF WalkFile, WalkPast, Open
  <2>3. Typed' /\ Remaining'
    BY <2>1, <2>2, <1>t, <1>j, <1>s, HeadAndTail DEF Typed, Remaining, InWalk
  <2>4. Accounted'
    BY <2>1, <2>2, <1>t, <1>s DEF Accounted, InWalk, InFile
  <2> QED BY <2>1, <2>2, <2>3, <2>4, RunsOn DEF ToldInv
<1>8. ASSUME WalkFails
      PROVE  ToldInv'
  <2>1. /\ phase = "walking" /\ entries # <<>> /\ entries' = <<>> /\ phase' = "files"
        /\ Head(entries).kind = "unopened"
        /\ UNCHANGED <<files, walking, fileMatch, anyMatch, output>>
    BY <1>8 DEF WalkFails
  <2>2. UnopenedGiven
    <3>1. Head(entries) \in Range(entries)
      BY <2>1, <1>t, HeadAndTail DEF Typed
    <3> QED BY <2>1, <3>1, <1>t DEF Remaining, InWalk, UnopenedGiven, KindsOf, Range
  <2>3. Typed' /\ Remaining'
    BY <2>1, <1>t, <1>j, <1>s, EmptySequence DEF Typed, Remaining, InWalk
  <2>4. Accounted'
    BY <2>1, <2>2, <1>t, <1>s DEF Accounted
  <2> QED BY <2>1, <2>3, <2>4, RunsOn DEF ToldInv
<1>9. ASSUME WalkEnds
      PROVE  ToldInv'
  <2>1. /\ phase = "walking" /\ phase' = "files" /\ anyMatch' = TRUE
        /\ UNCHANGED <<files, entries, walking, fileMatch, output>>
    BY <1>9 DEF WalkEnds, fileVars
  <2>2. WalkGiven
    BY <2>1, <1>t DEF Remaining, InWalk, WalkGiven
  <2>3. Typed' /\ Remaining'
    BY <2>1, <1>t, <1>j, <1>s DEF Typed, Remaining, InWalk
  <2>4. Accounted'
    BY <2>1, <2>2, <1>t, <1>s DEF Accounted
  <2> QED BY <2>1, <2>3, <2>4, RunsOn DEF ToldInv
<1>10. ASSUME SearchLine \/ SkipLine \/ Search
       PROVE  ToldInv'
  <2>1. /\ phase \in {"reading", "searching"} /\ phase' \in {"reading", "searching"}
        /\ UNCHANGED <<files, entries, walking, fileMatch, anyMatch, output>>
    BY <1>10 DEF SearchLine, SkipLine, Search, fileVars
  <2>2. Typed' /\ Remaining'
    BY <2>1, <1>t, <1>j, <1>s DEF Typed, Remaining, InWalk
  <2>3. Accounted'
    BY <2>1, <1>t, <1>s DEF Accounted, InWalk, InFile
  <2> QED BY <2>1, <2>2, <2>3, RunsOn DEF ToldInv
<1>11. ASSUME LineSearched
       PROVE  ToldInv'
  <2>1. /\ phase = "searching" /\ phase' = "reading"
        /\ UNCHANGED <<files, entries, walking, anyMatch>>
    BY <1>11 DEF LineSearched
  <2>2. /\ IsSequence(output') /\ fileMatch' \in BOOLEAN
        /\ output # <<>> => output' # <<>>
        /\ fileMatch' => output' # <<>>
        /\ output' # <<>> => output # <<>> \/ fileMatch'
        /\ fileMatch => fileMatch'
    <3>1. CASE Selected
      <4>1. output' = Append(output, original) /\ fileMatch' = TRUE
        BY <1>11, <3>1, <1>t DEF LineSearched, Typed
      <4> QED BY <4>1, <1>t, AppendSequence DEF Typed
    <3>2. CASE ~Selected
      <4>1. output' = output /\ fileMatch' = fileMatch
        BY <1>11, <3>2, <1>t DEF LineSearched, Typed
      <4> QED BY <4>1, <1>t DEF Typed, Accounted
    <3> QED BY <3>1, <3>2
  <2>3. Typed' /\ Remaining'
    BY <2>1, <2>2, <1>t, <1>j, <1>s DEF Typed, Remaining, InWalk
  <2>4. Accounted'
    BY <2>1, <2>2, <1>t, <1>s DEF Accounted, InWalk, InFile, Typed
  <2> QED BY <2>1, <2>3, <2>4, RunsOn DEF ToldInv
<1>12. ASSUME CloseFile
       PROVE  ToldInv'
  <2>1. /\ phase = "reading"
        /\ UNCHANGED <<files, entries, walking, fileMatch, output>>
        /\ walking => phase' = "walking" /\ anyMatch' = anyMatch
        /\ ~walking => phase' = "files" /\ anyMatch' = (anyMatch \/ fileMatch)
    BY <1>12 DEF CloseFile, fileVars
  <2>2. /\ anyMatch' \in BOOLEAN
        /\ anyMatch => anyMatch'
        /\ anyMatch' => anyMatch \/ fileMatch
        /\ ~walking /\ fileMatch => anyMatch'
    BY <2>1, <1>t DEF Typed
  <2>3. Typed' /\ Remaining'
    BY <2>1, <2>2, <1>t, <1>j, <1>s DEF Typed, Remaining, InWalk
  <2>4. Accounted'
    BY <2>1, <2>2, <1>t, <1>s DEF Accounted, InWalk, InFile, Typed
  <2> QED BY <2>1, <2>3, <2>4, RunsOn DEF ToldInv
<1>13. ASSUME Abort
       PROVE  ToldInv'
  <2>1. /\ phase' = "exited" /\ exit' = "abort" /\ UNCHANGED <<fileVars, anyMatch, output>>
    BY <1>13 DEF Abort, Exit
  <2>2. Typed' /\ Remaining' /\ Accounted'
    BY <2>1, <1>t, <1>j, <1>s DEF fileVars, Typed, Remaining, Accounted, InWalk
  <2>3. StatusTellsOutput'
    BY <2>1 DEF StatusTellsOutput
  <2> QED BY <2>2, <2>3 DEF ToldInv
<1>14. CASE UNCHANGED vars
  <2>1. UNCHANGED <<phase, fileVars, anyMatch, output, exit>>
    BY <1>14 DEF vars
  <2>2. Typed' /\ Remaining' /\ Accounted'
    BY <2>1, <1>t, <1>j, <1>s DEF fileVars, Typed, Remaining, Accounted, InWalk, InFile
  <2>3. StatusTellsOutput'
    BY <2>1, <1>t, <1>s DEF StatusTellsOutput
  <2> QED BY <2>2, <2>3 DEF ToldInv
<1> QED
  BY <1>1, <1>2, <1>3, <1>4, <1>5, <1>6, <1>7, <1>8, <1>9, <1>10, <1>11, <1>12, <1>13, <1>14
  DEF Next

\* However many files and directories there are, and whatever the patterns compile to,
\* the exit status is a failure only if nothing was printed or a walk was cut short, and
\* a success only if something was printed, a file was binary or a directory was walked.
THEOREM StatusIsTold == Spec => []StatusTellsOutput
<1>1. ToldInv => StatusTellsOutput
  BY DEF ToldInv
<1> QED BY ToldInit, ToldStep, <1>1, PTL DEF Spec

--------------------------------------------------------------------------------
(***************************************************************************)
(* The matches of a line.  Every match state of a search is at the place   *)
(* where the search started or behind it, and the search in progress       *)
(* started behind the last match.                                          *)
(***************************************************************************)
LEMMA LeastIn ==
    ASSUME NEW S \in SUBSET Nat, S # {}
    PROVE  Min(S) \in S
<1>1. PICK x \in S : \A y \in S : ~(<<y, x>> \in OpToRel(<, Nat))
  BY NatLessThanWellFounded, WFMin
<1>2. \A y \in S : ~(y < x)
  BY <1>1 DEF OpToRel
<1>3. \A y \in S : x <= y
  BY <1>2
<1> QED BY <1>3 DEF Min

LEMMA RangeIndexType ==
    ASSUME NEW ranges, IsSequence(ranges), NEW id
    PROVE  RangeIndex(ranges, id) = 0 \/ RangeIndex(ranges, id) \in DOMAIN ranges
<1> DEFINE I == {i \in 1 .. Len(ranges) : ranges[i].group = id}
<1>1. Len(ranges) \in Nat /\ DOMAIN ranges = 1 .. Len(ranges)
  BY SequenceIn DEF IsSequence
<1>2. RangeIndex(ranges, id) = IF I # {} THEN Min(I) ELSE 0
  BY DEF RangeIndex, SelectInSeq
<1>3. I \in SUBSET Nat /\ I \subseteq DOMAIN ranges
  BY <1>1
<1> HIDE DEF I
<1> QED BY <1>2, <1>3, LeastIn

\* The ranges of the groups are numbers.
HoldRanges(ranges) ==
    /\ IsSequence(ranges)
    /\ \A i \in DOMAIN ranges : ranges[i].begin \in Int /\ ranges[i].end \in Int

IsState(m) ==
    /\ m.position \in Nat /\ from <= m.position
    /\ m.state \in DOMAIN automaton.nfa.states
    /\ HoldRanges(m.ranges)

LEMMA CaptureRanges ==
    ASSUME NEW ranges, HoldRanges(ranges), NEW id, NEW p \in Nat
    PROVE  /\ HoldRanges(CaptureStarts(ranges, id, p))
           /\ HoldRanges(CaptureEnds(ranges, id, p))
<1> DEFINE i == RangeIndex(ranges, id)
           new == GroupRange(id, p, NoPosition)
           ended == GroupRange(id, ranges[i].begin, p)
<1>1. /\ IsSequence(ranges) /\ Len(ranges) \in Nat /\ DOMAIN ranges = 1 .. Len(ranges)
      /\ \A k \in DOMAIN ranges : ranges[k].begin \in Int /\ ranges[k].end \in Int
  BY SequenceIn DEF HoldRanges, IsSequence
<1>2. new.begin \in Int /\ new.end \in Int
  BY DEF GroupRange, NoPosition
<1>3. i \in DOMAIN ranges => ended.begin \in Int /\ ended.end \in Int
  BY <1>1 DEF GroupRange
<1> HIDE DEF i, new, ended
<1>4. ASSUME NEW x, i \in DOMAIN ranges => x.begin \in Int /\ x.end \in Int
      PROVE  HoldRanges([ranges EXCEPT ![i] = x])
  <2> DEFINE s == [ranges EXCEPT ![i] = x]
  <2>1. s \in [1 .. Len(ranges) -> Range(ranges) \cup {x}]
    BY <1>1 DEF Range
  <2>2. \A k \in DOMAIN s : s[k].begin \in Int /\ s[k].end \in Int
    BY <1>1, <1>4
  <2> HIDE DEF s
  <2>3. s \in Seq(Range(ranges) \cup {x})
    BY <1>1, <2>1
  <2>4. IsSequence(s)
    BY <2>3, SequenceIn
  <2> QED BY <2>2, <2>4 DEF HoldRanges, s
<1>5. HoldRanges(Append(ranges, new))
  <2> DEFINE s == Append(ranges, new)
  <2>1. IsSequence(s) /\ Range(s) = Range(ranges) \cup {new}
    BY <1>1, AppendSequence
  <2>2. \A x \in Range(ranges) : x.begin \in Int /\ x.end \in Int
    BY <1>1 DEF Range
  <2> HIDE DEF s
  <2>3. \A k \in DOMAIN s : s[k] \in Range(s)
    BY DEF Range
  <2> QED BY <1>2, <2>1, <2>2, <2>3 DEF HoldRanges, s
<1>6. HoldRanges([ranges EXCEPT ![i] = new]) /\ HoldRanges([ranges EXCEPT ![i] = ended])
  BY <1>2, <1>3, <1>4
<1> QED BY <1>5, <1>6 DEF CaptureStarts, CaptureEnds, i, new, ended

\* A transition that may be taken leads to no earlier place.
LEMMA AfterIsState ==
    ASSUME from \in Nat, NEW m, IsState(m),
           NEW t, t.to \in DOMAIN automaton.nfa.states, Passes(line, m, t.on)
    PROVE  IsState(After(line, m, t))
<1>1. HoldRanges(RangesAfter(m, t.on))
  BY CaptureRanges DEF IsState, RangesAfter
<1>2. Offset(line, m, t.on) \in Nat
  <2>1. CASE t.on.kind = "backreference"
    <3> DEFINE r == m.ranges[RangeIndex(m.ranges, t.on.group)]
               characters == {line[i] : i \in r.begin + 1 .. r.end}
    <3>1. Captured(m.ranges, t.on.group)
      BY <2>1 DEF Passes
    <3>2. r.begin \in Int /\ r.end \in Int
      BY <3>1, RangeIndexType DEF Captured, IsState, HoldRanges
    <3> HIDE DEF r
    <3>3. SubSeq(line, r.begin + 1, r.end) \in Seq(characters)
      <4>1. r.begin + 1 \in Int /\ r.end \in Int
        BY <3>2
      <4>2. \A i \in r.begin + 1 .. r.end : line[i] \in characters
        OBVIOUS
      <4> HIDE DEF characters
      <4> QED BY <4>1, <4>2, SubSeqProperties
    <3>4. Len(CapturedText(line, m.ranges, t.on.group)) \in Nat
      BY <3>3 DEF CapturedText, r
    <3> QED BY <2>1, <3>4 DEF Offset
  <2>2. CASE t.on.kind # "backreference"
    BY <2>2 DEF Offset
  <2> QED BY <2>1, <2>2
<1> QED BY <1>1, <1>2 DEF After, IsState

LEMMA NatSetInduction ==
    ASSUME NEW S, 0 \in S, \A n \in Nat : n \in S => n + 1 \in S
    PROVE  Nat \subseteq S
<1>1. SUFFICES ASSUME Nat \ S # {} PROVE FALSE
  OBVIOUS
<1> DEFINE first == Min(Nat \ S)
<1>2. first \in Nat /\ first \notin S
  BY <1>1, LeastIn
<1>3. \A y \in Nat \ S : first <= y
  <2>1. PICK x \in Nat \ S : \A y \in Nat \ S : ~(<<y, x>> \in OpToRel(<, Nat))
    BY <1>1, NatLessThanWellFounded, WFMin
  <2>2. \A y \in Nat \ S : ~(y < x)
    BY <2>1 DEF OpToRel
  <2>3. \A y \in Nat \ S : x <= y
    BY <2>2
  <2> QED BY <2>3 DEF Min
<1> HIDE DEF first
<1>4. first - 1 \in Nat /\ (first - 1) + 1 = first
  BY <1>2
<1>5. first - 1 \in S
  BY <1>2, <1>3, <1>4
<1> QED BY <1>2, <1>4, <1>5

\* The sequences up to each place, one after the other.
Joined(g, seqs, n) ==
    \A i \in 1 .. n : g[i] = IF i = 1 THEN seqs[i] ELSE g[i - 1] \o seqs[i]

\* FlattenSeq joins them.
LEMMA FlattenJoins ==
    ASSUME NEW S, NEW seqs \in Seq(Seq(S)), seqs # <<>>
    PROVE  /\ Len(seqs) \in Nat \ {0}
           /\ \E g : /\ Joined(g, seqs, Len(seqs))
                    /\ \A i \in 1 .. Len(seqs) : g[i] \in Seq(S)
                    /\ FlattenSeq(seqs) = g[Len(seqs)]
<1> DEFINE len == Len(seqs)
           Rule(g) == [i \in 1 .. len |-> IF i = 1 THEN seqs[i] ELSE g[i - 1] \o seqs[i]]
           flatten == CHOOSE g : g = Rule(g)
<1>len. len \in Nat \ {0} /\ DOMAIN seqs = 1 .. len /\ \A i \in 1 .. len : seqs[i] \in Seq(S)
  BY EmptySeq, LenProperties, ElementOfSeq
<1> DEFINE Has == {n \in Nat : n <= len => \E g \in [1 .. n -> Seq(S)] : Joined(g, seqs, n)}
<1>1. 0 \in Has
  <2> DEFINE g == [i \in 1 .. 0 |-> <<>>]
  <2>1. g \in [1 .. 0 -> Seq(S)] /\ Joined(g, seqs, 0)
    BY DEF Joined
  <2> HIDE DEF g
  <2> QED BY <2>1
<1>2. ASSUME NEW n \in Nat, n \in Has, n + 1 <= len PROVE n + 1 \in Has
  <2>1. PICK g \in [1 .. n -> Seq(S)] : Joined(g, seqs, n)
    BY <1>len, <1>2
  <2> DEFINE next == IF n = 0 THEN seqs[1] ELSE g[n] \o seqs[n + 1]
             h == [i \in 1 .. n + 1 |-> IF i = n + 1 THEN next ELSE g[i]]
  <2>2. next \in Seq(S)
    <3>1. n + 1 \in 1 .. len /\ seqs[n + 1] \in Seq(S)
      BY <1>len, <1>2
    <3>2. CASE n = 0
      BY <3>1, <3>2
    <3>3. CASE n # 0
      <4>1. n \in 1 .. n
        BY <3>3
      <4>2. g[n] \in Seq(S)
        BY <2>1, <4>1
      <4>3. next = g[n] \o seqs[n + 1]
        BY <3>3
      <4> HIDE DEF next
      <4> QED BY <3>1, <4>2, <4>3
    <3> QED BY <3>2, <3>3
  <2>3. h \in [1 .. n + 1 -> Seq(S)]
    BY <2>2
  <2>4. ASSUME NEW i \in 1 .. n + 1
        PROVE  h[i] = IF i = 1 THEN seqs[i] ELSE h[i - 1] \o seqs[i]
    <3>1. CASE i = n + 1
      <4>1. CASE n = 0
        BY <3>1, <4>1
      <4>2. CASE n # 0
        <5>1. next = g[n] \o seqs[n + 1]
          BY <4>2
        <5> HIDE DEF next
        <5>2. h[i] = next /\ h[i - 1] = g[n] /\ i # 1
          BY <3>1, <4>2
        <5> QED BY <3>1, <5>1, <5>2
      <4> QED BY <4>1, <4>2
    <3>2. CASE i # n + 1
      <4>1. i \in 1 .. n /\ h[i] = g[i] /\ (i # 1 => h[i - 1] = g[i - 1])
        BY <3>2
      <4> QED BY <2>1, <4>1 DEF Joined
    <3> QED BY <3>1, <3>2
  <2>5. Joined(h, seqs, n + 1)
    BY <2>4 DEF Joined
  <2> HIDE DEF h
  <2> QED BY <2>3, <2>5
<1>3. \A n \in Nat : n \in Has => n + 1 \in Has
  <2> SUFFICES ASSUME NEW n \in Nat, n \in Has PROVE n + 1 \in Has
    OBVIOUS
  <2>1. CASE n + 1 <= len
    BY <1>2, <2>1
  <2>2. CASE ~(n + 1 <= len)
    BY <2>2
  <2> QED BY <2>1, <2>2
<1> HIDE DEF Has
<1>4. len \in Has
  BY <1>len, <1>1, <1>3, NatSetInduction
<1>5. PICK g \in [1 .. len -> Seq(S)] : Joined(g, seqs, len)
  BY <1>len, <1>4 DEF Has
<1>6. g = Rule(g)
  BY <1>5 DEF Joined
<1>7. flatten = Rule(flatten)
  BY <1>6
<1> HIDE DEF flatten
<1>8. Joined(flatten, seqs, len)
  BY <1>7 DEF Joined
<1> DEFINE Fits == {n \in Nat : 1 <= n /\ n <= len => flatten[n] \in Seq(S)}
<1>9. 0 \in Fits
  OBVIOUS
<1>10. ASSUME NEW n \in Nat, n \in Fits PROVE n + 1 \in Fits
  <2> SUFFICES ASSUME n + 1 <= len PROVE flatten[n + 1] \in Seq(S)
    OBVIOUS
  <2>1. n + 1 \in 1 .. len /\ (n + 1) - 1 = n
    BY <1>len
  <2>2. flatten[n + 1] = IF n + 1 = 1 THEN seqs[n + 1] ELSE flatten[n] \o seqs[n + 1]
    BY <1>8, <2>1 DEF Joined
  <2>3. seqs[n + 1] \in Seq(S)
    BY <1>len, <2>1
  <2>4. n # 0 => flatten[n] \in Seq(S)
    BY <1>10, <2>1, <1>len
  <2> QED BY <2>2, <2>3, <2>4
<1> HIDE DEF Fits
<1>12. \A i \in 1 .. len : flatten[i] \in Seq(S)
  <2> SUFFICES ASSUME NEW i \in 1 .. len PROVE flatten[i] \in Seq(S)
    OBVIOUS
  <2>1. i \in Nat
    BY <1>len
  <2>2. i \in Fits
    BY <1>9, <1>10, <2>1, NatSetInduction
  <2> QED BY <2>1, <2>2, <1>len DEF Fits
<1>13. FlattenSeq(seqs) = flatten[len]
  BY <1>len DEF FlattenSeq, flatten
<1> QED BY <1>len, <1>8, <1>12, <1>13

LEMMA FlattenType ==
    ASSUME NEW S, NEW seqs \in Seq(Seq(S))
    PROVE  FlattenSeq(seqs) \in Seq(S)
<1>1. CASE seqs = <<>>
  <2>1. FlattenSeq(seqs) = <<>>
    BY <1>1 DEF FlattenSeq
  <2> QED BY <2>1
<1>2. CASE seqs # <<>>
  <2>1. Len(seqs) \in 1 .. Len(seqs)
    BY <1>2, FlattenJoins
  <2> QED BY <1>2, <2>1, FlattenJoins
<1> QED BY <1>1, <1>2

LEMMA FlattenNone == FlattenSeq(<<>>) = <<>>
  BY DEF FlattenSeq

\* The first sequence comes first.
LEMMA FlattenFirst ==
    ASSUME NEW S, NEW seqs \in Seq(Seq(S)), seqs # <<>>
    PROVE  FlattenSeq(seqs) = seqs[1] \o FlattenSeq(Tail(seqs))
<1>t. PICK t \in Seq(Seq(S)) : t = Tail(seqs)
  BY HeadTailProperties
<1>n. PICK len \in Nat \ {0} : len = Len(seqs)
  BY FlattenJoins
<1>1. PICK g : /\ Joined(g, seqs, len) /\ \A i \in 1 .. len : g[i] \in Seq(S)
               /\ FlattenSeq(seqs) = g[len]
  BY FlattenJoins, <1>n
<1>2. /\ Len(t) = len - 1
      /\ \A i \in 1 .. len : seqs[i] \in Seq(S)
      /\ \A i \in 1 .. len - 1 : t[i] = seqs[i + 1]
  BY <1>t, <1>n, HeadTailProperties, ElementOfSeq
<1>3. g[1] = seqs[1] /\ seqs[1] \in Seq(S)
  BY <1>1, <1>2 DEF Joined
<1>a. \A u, v, w \in Seq(S) : (u \o v) \o w = u \o (v \o w)
  <2> SUFFICES ASSUME NEW u \in Seq(S), NEW v \in Seq(S), NEW w \in Seq(S)
               PROVE  (u \o v) \o w = u \o (v \o w)
    OBVIOUS
  <2> QED BY ConcatAssociative, SMTT(30)
<1>4. CASE len = 1
  <2>1. t = <<>>
    BY <1>2, <1>4, EmptySeq
  <2>2. FlattenSeq(t) = <<>>
    BY <2>1, FlattenNone
  <2> QED BY <1>1, <1>3, <1>4, <1>t, <2>2, ConcatEmptySeq
<1>5. CASE len # 1
  <2>1. t # <<>>
    BY <1>2, <1>5, EmptySeq
  <2>2. PICK h : /\ Joined(h, t, len - 1) /\ \A i \in 1 .. len - 1 : h[i] \in Seq(S)
                 /\ FlattenSeq(t) = h[len - 1]
    <3>1. \E h : /\ Joined(h, t, Len(t)) /\ \A i \in 1 .. Len(t) : h[i] \in Seq(S)
                 /\ FlattenSeq(t) = h[Len(t)]
      <4>1. t \in Seq(Seq(S)) /\ t # <<>>
        BY <1>2, <2>1
      <4> QED BY <4>1, FlattenJoins
    <3>2. Len(t) = len - 1
      BY <1>2
    <3> QED BY <3>1, <3>2, Zenon
  <2> DEFINE Joint(n) == seqs[1] \o h[n]
             Same == {n \in Nat : 1 <= n /\ n <= len - 1 => g[n + 1] = Joint(n)}
  <2> HIDE DEF Joint
  <2>3. 0 \in Same
    OBVIOUS
  <2>4. ASSUME NEW n \in Nat, n \in Same, n + 1 <= len - 1
        PROVE  g[n + 2] = Joint(n + 1)
    <3>1. /\ n + 2 \in 1 .. len /\ n + 2 # 1 /\ (n + 2) - 1 = n + 1
          /\ n + 1 \in 1 .. len - 1 /\ (n + 1) - 1 = n
      BY <1>2, <2>4
    <3>2. g[n + 2] = g[n + 1] \o seqs[n + 2]
      BY <1>1, <3>1 DEF Joined
    <3>3. t[n + 1] = seqs[n + 2] /\ t[n + 1] \in Seq(S)
      <4>1. t[n + 1] = seqs[(n + 1) + 1]
        BY <1>2, <3>1
      <4> QED BY <1>2, <3>1, <4>1
    <3>4. CASE n = 0
      <4>1. h[1] = t[1]
        BY <2>2, <3>1, <3>4 DEF Joined
      <4>2. n + 1 = 1
        BY <3>4
      <4>3. g[n + 2] = g[1] \o t[1]
        BY <3>2, <3>3, <4>2, Zenon
      <4> QED BY <1>3, <4>1, <4>2, <4>3, Zenon DEF Joint
    <3>5. CASE n # 0
      <4>1. h[n + 1] = h[n] \o t[n + 1]
        <5>1. n + 1 # 1
          BY <3>5
        <5> QED BY <2>2, <3>1, <5>1 DEF Joined
      <4>2. n \in 1 .. len - 1 /\ h[n] \in Seq(S)
        BY <1>2, <2>2, <3>1, <3>5
      <4>3. g[n + 1] = Joint(n)
        BY <2>4, <4>2
      <4>4. (seqs[1] \o h[n]) \o t[n + 1] = seqs[1] \o (h[n] \o t[n + 1])
        <5>1. seqs[1] \in Seq(S) /\ h[n] \in Seq(S) /\ t[n + 1] \in Seq(S)
          BY <1>3, <3>3, <4>2
        <5> QED BY <1>a, <5>1, Zenon
      <4>5. g[n + 2] = (seqs[1] \o h[n]) \o t[n + 1]
        BY <3>2, <3>3, <4>3, Zenon DEF Joint
      <4> QED BY <4>1, <4>4, <4>5, Zenon DEF Joint
    <3> QED BY <3>4, <3>5
  <2>5. \A n \in Nat : n \in Same => n + 1 \in Same
    <3> SUFFICES ASSUME NEW n \in Nat, n \in Same PROVE n + 1 \in Same
      OBVIOUS
    <3>1. n + 1 <= len - 1 => g[n + 2] = Joint(n + 1)
      BY <2>4
    <3>2. (n + 1) + 1 = n + 2 /\ n + 1 \in Nat
      OBVIOUS
    <3> QED BY <3>1, <3>2
  <2> HIDE DEF Same
  <2>6. len - 1 \in Same
    <3>1. len - 1 \in Nat
      BY <1>2
    <3> QED BY <2>3, <2>5, <3>1, NatSetInduction
  <2>7. g[len] = seqs[1] \o h[len - 1]
    <3>1. (len - 1) + 1 = len /\ 1 <= len - 1 /\ len - 1 <= len - 1
      BY <1>2, <1>5
    <3> QED BY <2>6, <3>1 DEF Same, Joint
  <2> QED BY <1>1, <1>t, <2>2, <2>7
<1> QED BY <1>4, <1>5

\* Nothing else is in it, and nothing is lost.
LEMMA FlattenRange ==
    ASSUME NEW S, NEW seqs \in Seq(Seq(S))
    PROVE  \A x : x \in Range(FlattenSeq(seqs)) <=> \E i \in DOMAIN seqs : x \in Range(seqs[i])
<1> DEFINE Has(s) == \A x : x \in Range(FlattenSeq(s)) <=> \E i \in DOMAIN s : x \in Range(s[i])
           Right == {n \in Nat : \A s \in Seq(Seq(S)) : Len(s) = n => Has(s)}
<1>1. 0 \in Right
  <2> SUFFICES ASSUME NEW s \in Seq(Seq(S)), Len(s) = 0 PROVE Has(s)
    OBVIOUS
  <2>1. s = <<>>
    BY EmptySeq
  <2>2. FlattenSeq(s) = <<>> /\ DOMAIN s = {}
    BY <2>1, FlattenNone
  <2> QED BY <2>2, EmptySequence
<1>2. ASSUME NEW n \in Nat, n \in Right PROVE n + 1 \in Right
  <2> SUFFICES ASSUME NEW s \in Seq(Seq(S)), Len(s) = n + 1 PROVE Has(s)
    OBVIOUS
  <2> DEFINE t == Tail(s)
  <2>1. s # <<>> /\ s[1] \in Seq(S) /\ DOMAIN s = 1 .. n + 1
    BY EmptySeq, ElementOfSeq, LenProperties
  <2>2. /\ t \in Seq(Seq(S)) /\ Len(t) = n /\ DOMAIN t = 1 .. n
        /\ \A i \in 1 .. n : t[i] = s[i + 1]
    <3>1. t \in Seq(Seq(S)) /\ Len(t) = n /\ \A i \in 1 .. Len(t) : t[i] = s[i + 1]
      BY <2>1, HeadTailProperties
    <3> QED BY <3>1, LenProperties
  <2>3. Has(t)
    BY <1>2, <2>2
  <2>4. FlattenSeq(s) = s[1] \o FlattenSeq(t)
    BY <2>1, FlattenFirst
  <2>5. FlattenSeq(t) \in Seq(S)
    BY <2>2, FlattenType
  <2>6. Range(FlattenSeq(s)) = Range(s[1]) \cup Range(FlattenSeq(t))
    BY <2>1, <2>4, <2>5, RangeConcatenation
  <2> SUFFICES ASSUME NEW x
               PROVE  x \in Range(FlattenSeq(s)) <=> \E i \in DOMAIN s : x \in Range(s[i])
    OBVIOUS
  <2>7. x \in Range(FlattenSeq(t)) <=> \E i \in 1 .. n : x \in Range(s[i + 1])
    BY <2>2, <2>3
  <2>8. (\E i \in 1 .. n : x \in Range(s[i + 1])) <=> \E i \in 2 .. n + 1 : x \in Range(s[i])
    <3>1. ASSUME NEW i \in 2 .. n + 1, x \in Range(s[i]) PROVE \E k \in 1 .. n : x \in Range(s[k + 1])
      <4>1. i - 1 \in 1 .. n /\ (i - 1) + 1 = i
        OBVIOUS
      <4> QED BY <3>1, <4>1
    <3>2. \A i \in 1 .. n : i + 1 \in 2 .. n + 1
      OBVIOUS
    <3> QED BY <3>1, <3>2
  <2>9. \A i : i \in 1 .. n + 1 <=> i = 1 \/ i \in 2 .. n + 1
    OBVIOUS
  <2> QED BY <2>1, <2>6, <2>7, <2>8, <2>9
<1> HIDE DEF Right
<1>3. Len(seqs) \in Right
  BY <1>1, <1>2, NatSetInduction
<1> QED BY <1>3 DEF Right

--------------------------------------------------------------------------------
WholeMatch(i) == matches[i][1]

\* The last match begins where the search that found it started, and the next search
\* starts behind it.
Placed ==
    /\ from \in Nat
    /\ IsSequence(matches)
    /\ \A i \in DOMAIN matches :
          WholeMatch(i).begin \in Nat /\ WholeMatch(i).end \in Nat /\ WholeMatch(i).begin <= WholeMatch(i).end
    /\ search = "found" => matches # <<>> /\ WholeMatch(Len(matches)).begin = from
    /\ search \in {"searching", "missed"} /\ matches # <<>> =>
          WholeMatch(Len(matches)).begin < from /\ WholeMatch(Len(matches)).end <= from

\* A search goes over match states of the automaton only.
Queued ==
    /\ IsSequence(queue)
    /\ phase \in {"files", "walking", "reading", "searching"} => IsAutomaton(automaton)
    /\ phase = "searching" => \A m \in Range(queue) : IsState(m)

MatchInv == Placed /\ Queued /\ MatchesDisjoint

LEMMA MatchInit == Init => MatchInv
<1> SUFFICES ASSUME Init PROVE MatchInv
  OBVIOUS
<1>1. matches = <<>> /\ queue = <<>> /\ from = 0 /\ search = "idle" /\ phase = "arguments"
  BY DEF Init, IdleMatcher
<1>2. Placed
  BY <1>1, EmptySequence DEF Placed
<1>3. Queued
  BY <1>1, EmptySequence DEF Queued
<1>4. MatchesDisjoint
  BY <1>1 DEF MatchesDisjoint
<1> QED BY <1>2, <1>3, <1>4 DEF MatchInv

LEMMA SameStates ==
    ASSUME UNCHANGED <<automaton, from>>
    PROVE  \A m : IsState(m)' <=> IsState(m)
  BY DEF IsState

LEMMA SameMatches ==
    ASSUME Placed, MatchesDisjoint, UNCHANGED <<from, matches, search>>
    PROVE  Placed' /\ MatchesDisjoint'
<1>1. \A i : WholeMatch(i)' = WholeMatch(i)
  BY DEF WholeMatch
<1> QED BY <1>1 DEF Placed, MatchesDisjoint

\* A search starts with one match state.
LEMMA StartQueued ==
    ASSUME IsAutomaton(automaton), automaton' = automaton, from' \in Nat,
           queue' = <<StartState(from')>>
    PROVE  IsSequence(queue') /\ \A m \in Range(queue') : IsState(m)'
<1>1. IsSequence(queue') /\ Range(queue') = {StartState(from')}
  BY SingletonSequence
<1> SUFFICES ASSUME NEW m \in Range(queue') PROVE IsState(m)'
  BY <1>1
<1>2. m.position = from' /\ m.state = automaton.start /\ m.ranges = <<>>
  BY <1>1 DEF StartState
<1>3. HoldRanges(<<>>)
  BY EmptySequence DEF HoldRanges
<1> QED BY <1>2, <1>3 DEF IsState, IsAutomaton

\* A transition leads from the match state m to n.
StepTo(text, m, n) ==
    \E t \in Range(TransitionsOf(m)) : Passes(text, m, t.on) /\ n = After(text, m, t)

\* The branches of a match state are match states, those that a step leads to.
LEMMA BranchesQueued ==
    ASSUME from \in Nat, IsAutomaton(automaton), IsSequence(queue), queue # <<>>,
           \A m \in Range(queue) : IsState(m), Expand
    PROVE  /\ IsSequence(queue') /\ \A m \in Range(queue') : IsState(m)
           /\ \A m : m \in Range(queue') <=> m \in Range(Tail(queue)) \/ StepTo(line, Current, m)
<1> DEFINE branches == [i \in DOMAIN Transitions |-> Branch(line, Current, Transitions[i])]
           next == {After(line, Current, t) : t \in {u \in Range(Transitions) : Passes(line, Current, u.on)}}
           left == Range(Tail(queue))
<1>1. IsState(Current) /\ IsSequence(Tail(queue)) /\ left \subseteq Range(queue)
  BY HeadAndTail DEF Current
<1>2. /\ IsSequence(Transitions)
      /\ \A t \in Range(Transitions) : t.to \in DOMAIN automaton.nfa.states
  BY <1>1 DEF IsState, IsAutomaton, Transitions, TransitionsOf
<1>3. \A m \in next : IsState(m)
  BY <1>1, <1>2, AfterIsState
<1>4. \A i \in DOMAIN Transitions : Branch(line, Current, Transitions[i]) \in Seq(next)
  <2> SUFFICES ASSUME NEW i \in DOMAIN Transitions
               PROVE  Branch(line, Current, Transitions[i]) \in Seq(next)
    OBVIOUS
  <2> DEFINE t == Transitions[i]
  <2>1. t \in Range(Transitions)
    BY DEF Range
  <2> HIDE DEF t
  <2>2. CASE Passes(line, Current, t.on)
    <3>1. After(line, Current, t) \in next
      BY <2>1, <2>2
    <3> HIDE DEF next
    <3>2. Branch(line, Current, t) = <<After(line, Current, t)>>
      BY <2>2 DEF Branch
    <3> QED BY <3>1, <3>2 DEF t
  <2>3. CASE ~Passes(line, Current, t.on)
    <3>1. Branch(line, Current, t) = <<>>
      BY <2>3 DEF Branch
    <3> HIDE DEF next
    <3> QED BY <3>1 DEF t
  <2> QED BY <2>2, <2>3
<1>10. \A m : m \in next <=> StepTo(line, Current, m)
  BY DEF StepTo, Transitions
<1>11. \A m : m \in next <=> \E i \in DOMAIN branches : m \in Range(branches[i])
  <2>1. ASSUME NEW i \in DOMAIN Transitions
        PROVE  \A m : m \in Range(branches[i])
                         <=> Passes(line, Current, Transitions[i].on) /\ m = After(line, Current, Transitions[i])
    <3> DEFINE n == After(line, Current, Transitions[i])
    <3> HIDE DEF n
    <3>1. Range(<<n>>) = {n} /\ Range(<<>>) = {}
      BY SingletonSequence, EmptySequence
    <3>2. branches[i] = IF Passes(line, Current, Transitions[i].on) THEN <<n>> ELSE <<>>
      BY DEF Branch, n
    <3> HIDE DEF branches
    <3> QED BY <3>1, <3>2 DEF n
  <2>2. DOMAIN branches = DOMAIN Transitions
    OBVIOUS
  <2> HIDE DEF branches
  <2> QED BY <2>1, <2>2 DEF Range
<1> HIDE DEF next
<1>5. branches \in Seq(Seq(next))
  <2>1. Len(Transitions) \in Nat /\ DOMAIN Transitions = 1 .. Len(Transitions)
    BY <1>2, SequenceIn DEF IsSequence
  <2> QED BY <1>4, <2>1
<1> HIDE DEF branches
<1>6. FlattenSeq(branches) \in Seq(next)
  BY <1>5, FlattenType
<1>12. \A m : m \in Range(FlattenSeq(branches)) <=> StepTo(line, Current, m)
  BY <1>5, <1>10, <1>11, FlattenRange
<1>7. queue' = Tail(queue) \o FlattenSeq(branches)
  BY DEF Expand, branches
<1>8. Tail(queue) \in Seq(left)
  BY <1>1 DEF IsSequence
<1>13. Range(queue') = Range(Tail(queue)) \cup Range(FlattenSeq(branches))
  <2>1. Tail(queue) \in Seq(left \cup next) /\ FlattenSeq(branches) \in Seq(left \cup next)
    BY <1>6, <1>8, SeqMonotonic
  <2> HIDE DEF left
  <2>2. PICK S, rest, more : S = left \cup next /\ rest = Tail(queue) /\ more = FlattenSeq(branches)
    OBVIOUS
  <2>3. rest \in Seq(S) /\ more \in Seq(S) /\ queue' = rest \o more
    BY <1>7, <2>1, <2>2
  <2>4. Range(rest \o more) = Range(rest) \cup Range(more)
    BY <2>3, RangeConcatenation
  <2> QED BY <2>2, <2>3, <2>4
<1> HIDE DEF left
<1>9. queue' \in Seq(left \cup next)
  BY <1>6, <1>7, <1>8
<1> QED BY <1>1, <1>3, <1>9, <1>12, <1>13, SequenceIn

\* What a match state that is accepted adds.
LEMMA AcceptAppends ==
    ASSUME Placed, Accept, NEW n \in Nat, n = Len(matches)
    PROVE  /\ DOMAIN matches = 1 .. n /\ DOMAIN matches' = 1 .. n + 1
           /\ Len(matches') = n + 1
           /\ IsSequence(matches') /\ matches' # <<>>
           /\ matches'[n + 1] = ResultOf(from, Current)
           /\ WholeMatch(n + 1)' = GroupRange(0, from, Current.position)
           /\ \A i \in 1 .. n : matches'[i] = matches[i] /\ WholeMatch(i)' = WholeMatch(i)
<1> DEFINE whole == GroupRange(0, from, Current.position)
           groups == SelectSeq(Current.ranges, LAMBDA r : r.end # NoPosition)
           result == <<whole>> \o groups
<1>1. IsSequence(matches) /\ matches' = Append(matches, result)
  BY DEF Placed, Accept, ResultOf
<1>2. result = ResultOf(from, Current)
  BY DEF ResultOf
<1> HIDE DEF whole, groups
<1>3. result[1] = whole
  OBVIOUS
<1> HIDE DEF result
<1>4. IsSequence(matches') /\ matches' # <<>>
  BY <1>1, AppendSequence
<1>5. DOMAIN matches = 1 .. n /\ DOMAIN matches' = 1 .. Len(matches')
  BY <1>1, <1>4, SequenceIn DEF IsSequence
<1>6. matches \in Seq(Range(matches) \cup {result})
  BY <1>1 DEF IsSequence
<1>7. /\ Len(matches') = n + 1 /\ matches'[n + 1] = result
      /\ \A i \in 1 .. n : matches'[i] = matches[i]
  BY <1>1, <1>6
<1> QED BY <1>2, <1>3, <1>4, <1>5, <1>7 DEF WholeMatch, whole

LEMMA SearchStepMatches ==
    ASSUME MatchInv, IsAutomaton(automaton), \A m \in Range(queue) : IsState(m), SearchStep
    PROVE  /\ Placed' /\ MatchesDisjoint'
           /\ IsSequence(queue') /\ automaton' = automaton
           /\ \A m \in Range(queue') : IsState(m)'
<1> DEFINE Kept == /\ IsSequence(queue') /\ automaton' = automaton
                   /\ \A m \in Range(queue') : IsState(m)'
<1>t. Placed /\ IsSequence(queue) /\ MatchesDisjoint
  BY DEF MatchInv, Queued
<1>1. CASE SkipVisited
  <2>1. /\ queue # <<>> /\ queue' = Tail(queue)
        /\ UNCHANGED <<automaton, from, matches, search>>
    BY <1>1 DEF SkipVisited, Popping
  <2>2. Kept
    BY <1>t, <2>1, HeadAndTail, SameStates
  <2> QED BY <1>t, <2>1, <2>2, SameMatches
<1>2. CASE Accept
  <2> DEFINE whole == GroupRange(0, from, Current.position)
  <2>1. /\ queue # <<>> /\ search = "searching" /\ search' = "found"
        /\ UNCHANGED <<automaton, from, queue>>
    BY <1>2 DEF Accept, Popping
  <2>2. Kept
    BY <1>t, <2>1, SameStates
  <2>3. IsState(Current)
    BY <1>t, <2>1, HeadAndTail DEF Current
  <2>4. /\ from \in Nat /\ whole.begin = from
        /\ whole.end \in Nat /\ from <= whole.end
    BY <1>t, <2>3 DEF Placed, GroupRange, IsState
  <2>n. PICK n \in Nat : n = Len(matches)
    BY <1>t, SequenceIn DEF Placed, IsSequence
  <2>7. /\ DOMAIN matches = 1 .. n /\ Len(matches') = n + 1
        /\ DOMAIN matches' = 1 .. n + 1 /\ IsSequence(matches') /\ matches' # <<>>
        /\ \A i \in 1 .. n : matches'[i] = matches[i]
    BY <1>2, <1>t, <2>n, AcceptAppends
  <2>8. WholeMatch(n + 1)' = whole /\ \A i \in 1 .. n : WholeMatch(i)' = WholeMatch(i)
    BY <1>2, <1>t, <2>n, AcceptAppends
  <2> HIDE DEF whole
  <2>9. n # 0 => WholeMatch(n).begin < from /\ WholeMatch(n).end <= from
    <3>1. n # 0 => matches # <<>>
      BY <2>n
    <3> QED BY <2>n, <1>t, <2>1, <3>1 DEF Placed
  <2>10. Placed'
    <3>1. WholeMatch(Len(matches))' = whole
      BY <2>7, <2>8 DEF WholeMatch
    <3>2. ASSUME NEW i \in 1 .. n + 1
          PROVE  /\ WholeMatch(i)'.begin \in Nat /\ WholeMatch(i)'.end \in Nat
                 /\ WholeMatch(i)'.begin <= WholeMatch(i)'.end
      <4>1. CASE i = n + 1
        BY <2>4, <2>8, <4>1
      <4>2. CASE i # n + 1
        BY <1>t, <2>7, <2>8, <4>2 DEF Placed
      <4> QED BY <4>1, <4>2
    <3> QED BY <2>1, <2>4, <2>7, <3>1, <3>2 DEF Placed
  <2>11. MatchesDisjoint'
    <3> SUFFICES ASSUME NEW i \in 1 .. n
                 PROVE  /\ WholeMatch(i)'.begin < WholeMatch(i + 1)'.begin
                        /\ WholeMatch(i)'.end <= WholeMatch(i + 1)'.begin
      BY <2>7 DEF MatchesDisjoint, WholeMatch
    <3>1. CASE i = n
      BY <2>4, <2>8, <2>9, <3>1
    <3>2. CASE i # n
      <4>1. i \in 1 .. n - 1 /\ i + 1 \in 1 .. n
        BY <2>7, <3>2
      <4>2. WholeMatch(i).begin < WholeMatch(i + 1).begin /\ WholeMatch(i).end <= WholeMatch(i + 1).begin
        BY <2>n, <1>t, <4>1 DEF MatchesDisjoint, WholeMatch
      <4> QED BY <2>8, <4>1, <4>2
    <3> QED BY <3>1, <3>2
  <2> QED BY <2>2, <2>10, <2>11
<1>3. CASE Expand
  <2>1. queue # <<>> /\ UNCHANGED <<automaton, from, matches, search>>
    BY <1>3 DEF Expand, Popping
  <2>2. IsSequence(queue') /\ \A m \in Range(queue') : IsState(m)
    BY <1>3, <1>t, <2>1, BranchesQueued DEF Placed
  <2> QED BY <1>t, <2>1, <2>2, SameMatches, SameStates
<1>4. CASE Throw \/ Exhausted
  <2>1. /\ UNCHANGED <<automaton, from, queue, matches>>
        /\ search = "searching" /\ search' \in {"threw", "missed"}
    BY <1>4 DEF Throw, Exhausted, Popping
  <2>2. \A i : WholeMatch(i)' = WholeMatch(i)
    BY <2>1 DEF WholeMatch
  <2>3. Placed' /\ MatchesDisjoint'
    BY <1>t, <2>1, <2>2 DEF Placed, MatchesDisjoint
  <2> QED BY <1>t, <2>1, <2>3, SameStates
<1>5. CASE NextStart
  <2>1. /\ search \in {"found", "missed"} /\ UNCHANGED <<automaton, matches>>
        /\ from' = Advanced /\ search' \in {"searching", "ended"}
        /\ queue' = <<StartState(from')>> \/ queue' = <<>>
    BY <1>5 DEF NextStart
  <2> DEFINE last == WholeMatch(Len(matches))
             n == Len(matches)
  <2>2. /\ from \in Nat /\ n \in Nat
        /\ matches # <<>> => n \in DOMAIN matches
    BY <1>t, SequenceIn DEF Placed, IsSequence
  <2>3. /\ search = "found" => matches # <<>> /\ last.begin = from
        /\ matches # <<>> => last.begin \in Nat /\ last.end \in Nat /\ last.begin <= last.end
        /\ search = "missed" /\ matches # <<>> => last.begin < from /\ last.end <= from
    BY <1>t, <2>2 DEF Placed
  <2>4. Advanced = IF search = "found" /\ last.end - last.begin > 0
                   THEN from + (last.end - last.begin) ELSE from + 1
    BY DEF Advanced, WholeMatch, Last
  <2> HIDE DEF last, n
  <2>5. /\ from' \in Nat
        /\ matches # <<>> => last.begin < from' /\ last.end <= from'
    BY <2>1, <2>2, <2>3, <2>4
  <2>6. \A i : WholeMatch(i)' = WholeMatch(i)
    BY <2>1 DEF WholeMatch
  <2>7. Placed' /\ MatchesDisjoint'
    BY <1>t, <2>1, <2>5, <2>6 DEF Placed, MatchesDisjoint, last
  <2>8. IsSequence(queue') /\ \A m \in Range(queue') : IsState(m)'
    BY <2>1, <2>5, StartQueued, EmptySequence
  <2> QED BY <2>1, <2>7, <2>8
<1> QED BY <1>1, <1>2, <1>3, <1>4, <1>5 DEF SearchStep

\* A step of the tool outside of the search leaves the matches alone, or starts anew.
LEMMA MatchStep == ToldInv /\ MatchInv /\ [Next]_vars => MatchInv'
<1> SUFFICES ASSUME ToldInv, MatchInv, [Next]_vars PROVE MatchInv'
  OBVIOUS
<1>t. Placed /\ Queued /\ MatchesDisjoint /\ Typed
  BY DEF MatchInv, ToldInv
<1>1. CASE Search
  <2>1. phase = "searching" /\ phase' = phase /\ SearchStep
    BY <1>1 DEF Search
  <2>2. IsAutomaton(automaton) /\ \A m \in Range(queue) : IsState(m)
    BY <1>t, <2>1 DEF Queued
  <2>3. /\ Placed' /\ MatchesDisjoint' /\ IsSequence(queue') /\ automaton' = automaton
        /\ \A m \in Range(queue') : IsState(m)'
    BY <2>1, <2>2, SearchStepMatches
  <2>4. IsAutomaton(automaton)'
    BY <2>2, <2>3
  <2> QED BY <2>3, <2>4 DEF MatchInv, Queued
<1>2. CASE SearchLine
  <2>1. /\ phase = "reading" /\ phase' = "searching" /\ automaton' = automaton
        /\ from' = 0 /\ queue' = <<StartState(from')>> /\ matches' = <<>>
        /\ search' = "searching"
    BY <1>2 DEF SearchLine, MatchAll
  <2>2. IsAutomaton(automaton)
    BY <1>t, <2>1 DEF Queued
  <2>3. IsSequence(queue') /\ \A m \in Range(queue') : IsState(m)'
    BY <2>1, <2>2, StartQueued
  <2>4. Placed' /\ MatchesDisjoint'
    BY <2>1, EmptySequence DEF Placed, MatchesDisjoint
  <2>5. IsAutomaton(automaton)'
    BY <2>1, <2>2
  <2> QED BY <2>3, <2>4, <2>5 DEF MatchInv, Queued
<1>3. CASE Compile
  <2>1. /\ phase' = "files" /\ UNCHANGED <<from, queue, matches, search>>
        /\ automaton' = Automaton(Folded(GivenText))
        /\ HasPattern /\ Compiles(Folded(GivenText))
    BY <1>3 DEF Compile, searchVars
  <2>2. IsAutomaton(automaton')
    <3>1. job \in Jobs /\ Options(job.args) < Len(job.args)
      BY <1>t, <2>1 DEF Typed, HasPattern, OptionCount
    <3>2. GivenText = job.args[Options(job.args) + 1].text
      BY DEF GivenText, OptionCount
    <3> QED BY <2>1, <3>1, <3>2, AutomatonAssumption DEF Folded
  <2>3. Placed' /\ MatchesDisjoint'
    BY <1>t, <2>1, SameMatches
  <2> QED BY <1>t, <2>1, <2>2, <2>3 DEF MatchInv, Queued
<1>4. ASSUME ~Search, ~SearchLine, ~Compile
      PROVE  MatchInv'
  <2>1. /\ UNCHANGED <<automaton, from, queue, matches, search>>
        /\ phase' # "searching" \/ phase' = phase
        /\ phase' \in {"files", "walking", "reading", "searching"} =>
              phase \in {"files", "walking", "reading", "searching"}
    BY <1>4 DEF Next, RefuseArguments, RefusePattern, OpenFile, OpenStandardInput,
         OpenDirectory, PassOver, Finish, WalkFile, WalkPast, WalkFails, WalkEnds,
         SkipLine, CloseFile, LineSearched, Abort, Exit, Open, searchVars, vars
  <2>2. Placed' /\ MatchesDisjoint'
    BY <1>t, <2>1, SameMatches
  <2>3. \A m : IsState(m)' <=> IsState(m)
    BY <2>1, SameStates
  <2>4. IsAutomaton(automaton') <=> IsAutomaton(automaton)
    BY <2>1
  <2>5. Queued'
    BY <1>t, <2>1, <2>3, <2>4 DEF Queued
  <2> QED BY <2>2, <2>5 DEF MatchInv
<1> QED BY <1>1, <1>2, <1>3, <1>4

\* Whatever the pattern compiles to, and whatever the line is: the matches that the search
\* finds follow each other, and none begins before the one before it has ended.
THEOREM MatchesNeverOverlap == Spec => []MatchesDisjoint
<1>1. Init => ToldInv /\ MatchInv
  BY ToldInit, MatchInit
<1>2. (ToldInv /\ MatchInv) /\ [Next]_vars => (ToldInv /\ MatchInv)'
  BY ToldStep, MatchStep
<1>3. ToldInv /\ MatchInv => MatchesDisjoint
  BY DEF MatchInv
<1> QED BY <1>1, <1>2, <1>3, PTL DEF Spec

--------------------------------------------------------------------------------
(***************************************************************************)
(* The search finds what the automaton accepts, and nothing else.  What    *)
(* the automaton accepts is defined by its runs, without a queue, without  *)
(* visited states and in any order.                                        *)
(***************************************************************************)
\* A sequence of match states from the start state at p, each a step behind the other.
IsRun(text, p, run) ==
    /\ IsSequence(run) /\ run # <<>>
    /\ run[1] = StartState(p)
    /\ \A i \in 1 .. Len(run) - 1 : StepTo(text, run[i], run[i + 1])

Reaches(text, p, m) == \E run : IsRun(text, p, run) /\ m = run[Len(run)]

Accepting(m) == m.state = automaton.accept

AcceptsFrom(text, p) == \E m : Reaches(text, p, m) /\ Accepting(m)

LEMMA SameRuns ==
    ASSUME automaton' = automaton
    PROVE  /\ \A text, m, n : StepTo(text, m, n)' <=> StepTo(text, m, n)
           /\ \A text, p, m : Reaches(text, p, m)' <=> Reaches(text, p, m)
           /\ \A m : Accepting(m)' <=> Accepting(m)
           /\ \A text, p : AcceptsFrom(text, p)' <=> AcceptsFrom(text, p)
           /\ \A text, m : StepThrows(text, m)' <=> StepThrows(text, m)
<1>1. \A m : TransitionsOf(m)' = TransitionsOf(m)
  BY DEF TransitionsOf
<1>2. \A text, m, n : StepTo(text, m, n)' <=> StepTo(text, m, n)
  BY <1>1 DEF StepTo
<1>3. \A p : StartState(p)' = StartState(p)
  BY DEF StartState
<1>4. \A text, p, run : IsRun(text, p, run)' <=> IsRun(text, p, run)
  BY <1>2, <1>3 DEF IsRun
<1>5. \A text, p, m : Reaches(text, p, m)' <=> Reaches(text, p, m)
  BY <1>4 DEF Reaches
<1>6. \A m : Accepting(m)' <=> Accepting(m)
  BY DEF Accepting
<1>7. \A text, p : AcceptsFrom(text, p)' <=> AcceptsFrom(text, p)
  BY <1>5, <1>6 DEF AcceptsFrom
<1>8. \A text, m : StepThrows(text, m)' <=> StepThrows(text, m)
  BY <1>1 DEF StepThrows
<1> QED BY <1>2, <1>5, <1>6, <1>7, <1>8

LEMMA StartReached ==
    ASSUME NEW text, NEW p
    PROVE  Reaches(text, p, StartState(p))
<1> DEFINE m == StartState(p)
           run == <<m>>
<1>1. IsSequence(run) /\ run # <<>>
  BY SingletonSequence
<1>2. run[1] = m /\ Len(run) = 1
  OBVIOUS
<1> HIDE DEF run
<1>3. IsRun(text, p, run)
  BY <1>1, <1>2 DEF IsRun
<1> QED BY <1>2, <1>3 DEF Reaches

LEMMA StepReached ==
    ASSUME NEW text, NEW p, NEW m, Reaches(text, p, m), NEW n, StepTo(text, m, n)
    PROVE  Reaches(text, p, n)
<1>1. PICK run : IsRun(text, p, run) /\ m = run[Len(run)]
  BY DEF Reaches
<1>2. PICK longer : longer = Append(run, n)
  OBVIOUS
<1>3. IsSequence(run) /\ run # <<>>
  BY <1>1 DEF IsRun
<1>4. run \in Seq(Range(run) \cup {n})
  BY <1>3 DEF IsSequence
<1>5. PICK len \in Nat \ {0} : len = Len(run)
  BY <1>3, <1>4, EmptySeq
<1>6. /\ IsSequence(longer) /\ longer # <<>>
      /\ Len(longer) = len + 1 /\ longer[len + 1] = n
      /\ \A i \in 1 .. len : longer[i] = run[i]
  BY <1>2, <1>3, <1>4, <1>5, AppendSequence, AppendProperties
<1>7. \A i \in 1 .. len : StepTo(text, longer[i], longer[i + 1])
  <2> SUFFICES ASSUME NEW i \in 1 .. len PROVE StepTo(text, longer[i], longer[i + 1])
    OBVIOUS
  <2>1. CASE i = len
    <3>1. longer[i] = m /\ longer[i + 1] = n
      BY <1>1, <1>5, <1>6, <2>1
    <3> QED BY <3>1
  <2>2. CASE i # len
    <3>1. i \in 1 .. len - 1 /\ i + 1 \in 1 .. len
      BY <2>2
    <3>2. longer[i] = run[i] /\ longer[i + 1] = run[i + 1]
      BY <1>6, <3>1
    <3> QED BY <1>1, <1>5, <3>1, <3>2 DEF IsRun
  <2> QED BY <2>1, <2>2
<1>8. longer[1] = StartState(p)
  BY <1>1, <1>5, <1>6 DEF IsRun
<1>9. IsRun(text, p, longer)
  <2>1. Len(longer) - 1 = len
    BY <1>6
  <2> QED BY <1>6, <1>7, <1>8, <2>1 DEF IsRun
<1> QED BY <1>6, <1>9 DEF Reaches

\* A run does not leave a set that holds its start and that no step leaves.
LEMMA RunsStay ==
    ASSUME NEW text, NEW p, NEW V, StartState(p) \in V,
           \A m \in V : \A n : StepTo(text, m, n) => n \in V
    PROVE  \A m : Reaches(text, p, m) => m \in V
<1> SUFFICES ASSUME NEW m, Reaches(text, p, m) PROVE m \in V
  OBVIOUS
<1>1. PICK run : IsRun(text, p, run) /\ m = run[Len(run)]
  BY DEF Reaches
<1>2. PICK len \in Nat \ {0} : len = Len(run)
  <2>1. run # <<>> /\ run \in Seq(Range(run))
    BY <1>1 DEF IsRun, IsSequence
  <2> QED BY <2>1, EmptySeq
<1> DEFINE In == {i \in Nat : i + 1 <= len => run[i + 1] \in V}
<1>3. 0 \in In
  BY <1>1 DEF IsRun
<1>4. ASSUME NEW i \in Nat, i \in In PROVE i + 1 \in In
  <2> SUFFICES ASSUME (i + 1) + 1 <= len PROVE run[(i + 1) + 1] \in V
    OBVIOUS
  <2>1. i + 1 \in 1 .. len - 1 /\ i + 1 <= len
    BY <1>2
  <2>2. run[i + 1] \in V
    BY <1>4, <2>1
  <2>3. StepTo(text, run[i + 1], run[(i + 1) + 1])
    BY <1>1, <1>2, <2>1 DEF IsRun
  <2> QED BY <2>2, <2>3
<1> HIDE DEF In
<1>5. len - 1 \in Nat
  BY <1>2
<1>6. len - 1 \in In
  BY <1>3, <1>4, <1>5, NatSetInduction
<1>7. (len - 1) + 1 = len
  BY <1>2
<1> QED BY <1>1, <1>2, <1>6, <1>7 DEF In

--------------------------------------------------------------------------------
\* What is read is text, and a line that is searched is the original with its case changed.
Texts ==
    /\ IsText(lines) /\ IsText(stdin) /\ IsSequence(original)
    /\ phase = "searching" => line = Folded(original) /\ Decodes(original)

LEMMA EmptyText == IsText(<<>>)
<1>1. DOMAIN <<>> = {}
  OBVIOUS
<1> QED BY <1>1, EmptySequence DEF IsText

LEMMA HeadAndTailOfText ==
    ASSUME NEW s, IsText(s), s # <<>>
    PROVE  IsSequence(Head(s)) /\ IsText(Tail(s))
<1>1. IsSequence(s) /\ \A x \in Range(s) : IsSequence(x)
  BY DEF IsText, Range
<1>2. PICK t : t = Tail(s)
  OBVIOUS
<1>3. IsSequence(t) /\ Range(t) \subseteq Range(s) /\ Head(s) \in Range(s)
  BY <1>1, <1>2, HeadAndTail
<1>4. \A i \in DOMAIN t : t[i] \in Range(s)
  BY <1>3 DEF Range
<1> QED BY <1>1, <1>2, <1>3, <1>4 DEF IsText

LEMMA FoldedText ==
    ASSUME NEW text, IsSequence(text)
    PROVE  IsSequence(Folded(text)) /\ Len(Folded(text)) = Len(text)
<1> DEFINE lower == [i \in DOMAIN text |-> ToLower(text[i])]
           S == {ToLower(text[i]) : i \in DOMAIN text}
<1>1. Len(text) \in Nat /\ DOMAIN text = 1 .. Len(text)
  BY SequenceIn DEF IsSequence
<1>2. lower \in Seq(S) /\ Len(lower) = Len(text)
  BY <1>1
<1>3. Folded(text) \in {text, lower}
  BY DEF Folded, LowerText
<1> HIDE DEF lower, S
<1>4. IsSequence(lower)
  BY <1>2, SequenceIn
<1> QED BY <1>2, <1>3, <1>4

LEMMA TextsInit == Init => Texts
  BY EmptyText, EmptySequence, JobsAssumption DEF Init, Texts

LEMMA TextsStep == ToldInv /\ Texts /\ [Next]_vars => Texts'
<1> SUFFICES ASSUME ToldInv, Texts, [Next]_vars PROVE Texts'
  OBVIOUS
<1>t. Typed /\ Remaining
  BY DEF ToldInv
<1>j. job' = job
  BY DEF Next, RefuseArguments, RefusePattern, Compile, OpenFile, OpenStandardInput,
         OpenDirectory, PassOver, Finish, WalkFile, WalkPast, WalkFails, WalkEnds,
         SearchLine, SkipLine, CloseFile, Search, LineSearched, Abort, vars
<1>s. \A text : Folded(text)' = Folded(text)
  BY <1>j, SameJob
<1>1. CASE OpenFile
  <2>1. Head(files) \in Range(FileArguments) /\ Head(files).kind = "file"
    BY <1>1, <1>t, HeadAndTail DEF OpenFile, Typed, Remaining
  <2>2. IsText(Head(files).lines)
    BY <2>1, <1>t, GivenFiles DEF Typed, HoldsText
  <2> QED BY <1>1, <2>2 DEF OpenFile, Open, Texts
<1>2. CASE OpenStandardInput
  BY <1>2, EmptyText DEF OpenStandardInput, Open, Texts
<1>3. CASE WalkFile
  <2>1. Head(entries) \in Range(entries) /\ Head(entries).kind = "file"
    BY <1>3, <1>t, HeadAndTail DEF WalkFile, Typed
  <2>2. PICK i \in Directories : Range(entries) \subseteq Range(FileArguments[i].entries)
    BY <1>3, <1>t DEF WalkFile, Remaining, InWalk
  <2>3. FileArguments[i] \in Range(FileArguments) /\ FileArguments[i].kind = "directory"
    BY DEF Directories, Range
  <2>4. IsText(Head(entries).lines)
    BY <2>1, <2>2, <2>3, <1>t, GivenFiles DEF Typed, HoldsFiles, HoldsText
  <2> QED BY <1>3, <2>4 DEF WalkFile, Open, Texts
<1>4. CASE SearchLine
  <2>1. lines # <<>> /\ Decodes(Head(lines)) /\ original' = Head(lines) /\ lines' = Tail(lines)
        /\ line' = Folded(Head(lines)) /\ stdin' = stdin
    BY <1>4 DEF SearchLine, MatchAll
  <2> QED BY <2>1, <1>s, HeadAndTailOfText DEF Texts
<1>5. CASE SkipLine
  <2>1. lines # <<>> /\ lines' = Tail(lines) /\ UNCHANGED <<phase, stdin, original>>
        /\ phase # "searching"
    BY <1>5 DEF SkipLine
  <2> QED BY <2>1, HeadAndTailOfText DEF Texts
<1>6. ASSUME ~OpenFile, ~OpenStandardInput, ~WalkFile, ~SearchLine, ~SkipLine
      PROVE  Texts'
  <2>1. /\ UNCHANGED <<lines, stdin, original>>
        /\ phase' = "searching" => phase = "searching" /\ line' = line
    BY <1>6 DEF Next, RefuseArguments, RefusePattern, Compile, OpenDirectory, PassOver, Finish,
         WalkPast, WalkFails, WalkEnds, CloseFile, Search, LineSearched, Abort, Exit,
         SearchStep, SkipVisited, Accept, Expand, Throw, Exhausted, NextStart, fileVars,
         searchVars, vars
  <2> QED BY <2>1, <1>s DEF Texts
<1> QED BY <1>1, <1>2, <1>3, <1>4, <1>5, <1>6

--------------------------------------------------------------------------------
\* A result of the automaton that begins at p.
IsResult(text, p, result) ==
    \E m : Reaches(text, p, m) /\ Accepting(m) /\ result = ResultOf(p, m)

\* A search that is over: what it found the automaton accepts, where it found nothing
\* the automaton accepts nothing, and it throws only where a run of the automaton gets to
\* a transition that cannot be tried.
OutcomeIsExact ==
    phase = "searching" =>
        /\ search = "found" => IsResult(line, from, Last(matches))
        /\ search = "missed" => ~AcceptsFrom(line, from)
        /\ search = "threw" => \E m : Reaches(line, from, m) /\ StepThrows(line, m)

\* Places that a match takes.
Covered(p) ==
    \E i \in DOMAIN matches :
       \/ WholeMatch(i).begin = p
       \/ WholeMatch(i).begin < p /\ p < WholeMatch(i).end

\* A line that was searched to its end: every match is one of the automaton, and there is
\* none at a place that the matches leave.
MatchesAreComplete ==
    phase = "searching" /\ search = "ended" =>
        /\ \A i \in DOMAIN matches :
              /\ WholeMatch(i).begin \in StartPlaces(line)
              /\ IsResult(line, WholeMatch(i).begin, matches[i])
        /\ \A p \in StartPlaces(line) : ~Covered(p) => ~AcceptsFrom(line, p)

\* What a search in progress has seen: all that it visited or will visit is reached by
\* runs, nothing that it visited is accepting, and every step from there is visited or queued.
Explored ==
    LET seen == visited \cup Range(queue)
    IN  /\ StartState(from) \in seen
        /\ \A m \in seen : Reaches(line, from, m)
        /\ \A m \in visited : ~Accepting(m) /\ \A n : StepTo(line, m, n) => n \in seen

\* The searches that are over.
Swept ==
    /\ \A i \in DOMAIN matches :
          /\ WholeMatch(i).begin \in StartPlaces(line)
          /\ IsResult(line, WholeMatch(i).begin, matches[i])
    /\ \A p \in Nat : p < from /\ ~Covered(p) => ~AcceptsFrom(line, p)

Searching ==
    /\ search \in {"searching", "found", "missed", "threw", "ended"}
    /\ search # "ended" => from \in StartPlaces(line)
    /\ search = "ended" => \A p \in StartPlaces(line) : p < from
    /\ search = "searching" => Explored
    /\ Swept

ExactInv == OutcomeIsExact /\ (phase = "searching" => Searching)

LEMMA StartPlacesType ==
    ASSUME NEW text, IsSequence(text)
    PROVE  /\ Len(text) \in Nat
           /\ StartPlaces(text) \subseteq Nat /\ 0 \in StartPlaces(text)
           /\ \A p \in Nat : p < Len(text) => p \in StartPlaces(text)
           /\ \A p \in StartPlaces(text) : p = 0 \/ p < Len(text)
<1>1. Len(text) \in Nat /\ text \in Seq(Range(text))
  BY SequenceIn DEF IsSequence
<1>2. text # <<>> => Len(text) # 0
  BY <1>1, EmptySeq
<1>3. text = <<>> => Len(text) = 0
  BY EmptySeq
<1> QED BY <1>1, <1>2, <1>3 DEF StartPlaces

LEMMA SameExplored ==
    ASSUME automaton' = automaton
    PROVE  /\ \A text, p, r : IsResult(text, p, r)' <=> IsResult(text, p, r)
           /\ \A p : StartState(p)' = StartState(p)
           /\ \A text : StartPlaces(text)' = StartPlaces(text)
<1>1. ASSUME NEW p, NEW m PROVE ResultOf(p, m)' = ResultOf(p, m)
  OBVIOUS
<1>2. \A text, p, r : IsResult(text, p, r)' <=> IsResult(text, p, r)
  BY <1>1, SameRuns DEF IsResult
<1>3. \A p : StartState(p)' = StartState(p)
  BY DEF StartState
<1> QED BY <1>2, <1>3 DEF StartPlaces

LEMMA SameSwept ==
    ASSUME Swept, UNCHANGED <<automaton, line, from, matches>>
    PROVE  Swept'
<1>1. \A i : WholeMatch(i)' = WholeMatch(i)
  BY DEF WholeMatch
<1>2. \A p : Covered(p)' <=> Covered(p)
  BY <1>1 DEF Covered
<1> QED BY <1>1, <1>2, SameExplored, SameRuns DEF Swept

LEMMA SearchStepExact ==
    ASSUME MatchInv, OutcomeIsExact, Searching, IsSequence(line), phase = "searching",
           IsAutomaton(automaton), \A m \in Range(queue) : IsState(m),
           SearchStep, Placed', phase' = phase
    PROVE  OutcomeIsExact' /\ Searching'
<1>t. Placed /\ IsSequence(queue)
  BY DEF MatchInv, Queued
<1>l. automaton' = automaton /\ line' = line
  BY DEF SearchStep, SkipVisited, Accept, Expand, Throw, Exhausted, NextStart
<1>s. /\ \A text, m, n : StepTo(text, m, n)' <=> StepTo(text, m, n)
      /\ \A text, p, m : Reaches(text, p, m)' <=> Reaches(text, p, m)
      /\ \A m : Accepting(m)' <=> Accepting(m)
      /\ \A text, p : AcceptsFrom(text, p)' <=> AcceptsFrom(text, p)
      /\ \A text, m : StepThrows(text, m)' <=> StepThrows(text, m)
      /\ \A text, p, r : IsResult(text, p, r)' <=> IsResult(text, p, r)
      /\ \A p : StartState(p)' = StartState(p)
      /\ \A text : StartPlaces(text)' = StartPlaces(text)
  BY <1>l, SameRuns, SameExplored
<1>e. search = "searching" => Explored
  BY DEF Searching
<1>c. queue # <<>> => /\ Current \in Range(queue)
                      /\ Range(queue) = {Current} \cup Range(Tail(queue))
  BY <1>t, HeadAndTail DEF Current
<1>1. CASE SkipVisited
  <2>1. /\ search = "searching" /\ queue # <<>> /\ queue' = Tail(queue) /\ Current \in visited
        /\ UNCHANGED <<from, visited, matches, search>>
    BY <1>1 DEF SkipVisited, Popping, Visited
  <2>2. visited' \cup Range(queue') = visited \cup Range(queue)
    BY <1>c, <2>1
  <2>3. Explored'
    BY <1>e, <1>l, <1>s, <2>1, <2>2 DEF Explored
  <2>4. Swept'
    BY <1>l, <2>1, SameSwept DEF Searching
  <2>5. Searching'
    BY <1>l, <1>s, <2>1, <2>3, <2>4 DEF Searching
  <2> QED BY <2>1, <2>5 DEF OutcomeIsExact
<1>2. CASE Accept
  <2>1. /\ search = "searching" /\ search' = "found" /\ queue # <<>> /\ from' = from
        /\ Current.state = automaton.accept
    BY <1>2 DEF Accept, Popping
  <2>n. PICK n \in Nat : n = Len(matches)
    BY <1>t, SequenceIn DEF Placed, IsSequence
  <2>2. /\ DOMAIN matches = 1 .. n /\ DOMAIN matches' = 1 .. n + 1 /\ Len(matches') = n + 1
        /\ matches'[n + 1] = ResultOf(from, Current)
        /\ WholeMatch(n + 1)' = GroupRange(0, from, Current.position)
        /\ \A i \in 1 .. n : matches'[i] = matches[i] /\ WholeMatch(i)' = WholeMatch(i)
    BY <1>2, <1>t, <2>n, AcceptAppends
  <2>3. Reaches(line, from, Current)
    BY <1>c, <1>e, <2>1 DEF Explored
  <2>4. IsResult(line, from, matches'[n + 1])
    BY <2>1, <2>2, <2>3 DEF IsResult, Accepting
  <2>5. OutcomeIsExact'
    <3>1. Last(matches') = matches'[n + 1]
      BY <2>2 DEF Last
    <3> QED BY <1>l, <1>s, <2>1, <2>4, <3>1 DEF OutcomeIsExact
  <2>6. Swept'
    <3>1. ASSUME NEW i \in 1 .. n + 1
          PROVE  /\ WholeMatch(i)'.begin \in StartPlaces(line)
                 /\ IsResult(line, WholeMatch(i)'.begin, matches'[i])
      <4>1. CASE i = n + 1
        <5>1. WholeMatch(i)'.begin = from
          BY <2>2, <4>1 DEF GroupRange
        <5>2. from \in StartPlaces(line)
          BY <2>1 DEF Searching
        <5> QED BY <2>4, <4>1, <5>1, <5>2
      <4>2. CASE i # n + 1
        <5>1. i \in 1 .. n
          BY <4>2
        <5> QED BY <2>2, <5>1 DEF Searching, Swept
      <4> QED BY <4>1, <4>2
    <3>2. ASSUME NEW p, Covered(p) PROVE Covered(p)'
      <4>1. PICK i \in 1 .. n : \/ WholeMatch(i).begin = p
                                \/ WholeMatch(i).begin < p /\ p < WholeMatch(i).end
        BY <2>2, <3>2 DEF Covered
      <4>2. i \in 1 .. n + 1
        OBVIOUS
      <4> QED BY <2>2, <4>1, <4>2 DEF Covered
    <3> QED BY <1>l, <1>s, <2>1, <2>2, <3>1, <3>2 DEF Searching, Swept
  <2>7. Searching'
    BY <1>l, <1>s, <2>1, <2>6 DEF Searching
  <2> QED BY <2>5, <2>7
<1>3. CASE Expand
  <2>1. /\ search = "searching" /\ queue # <<>> /\ visited' = visited \cup {Current}
        /\ ~Accepting(Current)
        /\ UNCHANGED <<from, matches, search>>
    BY <1>3 DEF Expand, Popping, Accepting
  <2>2. \A m : m \in Range(queue') <=> m \in Range(Tail(queue)) \/ StepTo(line, Current, m)
    BY <1>3, <1>t, <2>1, BranchesQueued DEF Placed
  <2> DEFINE seen == visited \cup Range(queue)
  <2>3. \A m : m \in visited' \cup Range(queue') <=> m \in seen \/ StepTo(line, Current, m)
    BY <1>c, <2>1, <2>2
  <2>4. /\ StartState(from) \in seen /\ Current \in seen
        /\ \A m \in seen : Reaches(line, from, m)
        /\ \A m \in visited : ~Accepting(m) /\ \A n : StepTo(line, m, n) => n \in seen
    BY <1>c, <1>e, <2>1 DEF Explored
  <2> HIDE DEF seen
  <2>5. \A m : StepTo(line, Current, m) => Reaches(line, from, m)
    BY <2>4, StepReached
  <2>6. Explored'
    BY <1>l, <1>s, <2>1, <2>3, <2>4, <2>5 DEF Explored
  <2>7. Swept'
    BY <1>l, <2>1, SameSwept DEF Searching
  <2>8. Searching'
    BY <1>l, <1>s, <2>1, <2>6, <2>7 DEF Searching
  <2> QED BY <2>1, <2>8 DEF OutcomeIsExact
<1>4. CASE Throw
  <2>1. /\ search = "searching" /\ search' = "threw" /\ queue # <<>> /\ StepThrows(line, Current)
        /\ UNCHANGED <<from, matches>>
    BY <1>4 DEF Throw, Popping
  <2>2. Reaches(line, from, Current)
    BY <1>c, <1>e, <2>1 DEF Explored
  <2>3. OutcomeIsExact'
    BY <1>l, <1>s, <2>1, <2>2 DEF OutcomeIsExact
  <2>4. Swept'
    BY <1>l, <2>1, SameSwept DEF Searching
  <2> QED BY <1>l, <1>s, <2>1, <2>3, <2>4 DEF Searching
<1>5. CASE Exhausted
  <2>1. /\ search = "searching" /\ search' = "missed" /\ queue = <<>>
        /\ UNCHANGED <<from, matches>>
    BY <1>5 DEF Exhausted
  <2>2. visited \cup Range(queue) = visited
    BY <2>1, EmptySequence
  <2>3. \A m : Reaches(line, from, m) => m \in visited
    BY <1>e, <2>1, <2>2, RunsStay DEF Explored
  <2>4. ~AcceptsFrom(line, from)
    BY <1>e, <2>1, <2>3 DEF Explored, AcceptsFrom
  <2>5. OutcomeIsExact'
    BY <1>l, <1>s, <2>1, <2>4 DEF OutcomeIsExact
  <2>6. Swept'
    BY <1>l, <2>1, SameSwept DEF Searching
  <2> QED BY <1>l, <1>s, <2>1, <2>5, <2>6 DEF Searching
<1>6. CASE NextStart
  <2>1. /\ search \in {"found", "missed"} /\ from' = Advanced /\ visited' = {}
        /\ matches' = matches
        /\ \/ from' < Len(line) /\ search' = "searching" /\ queue' = <<StartState(from')>>
           \/ ~(from' < Len(line)) /\ search' = "ended" /\ queue' = <<>>
    BY <1>6 DEF NextStart
  <2> DEFINE last == WholeMatch(Len(matches))
  <2>2. Advanced = IF search = "found" /\ last.end - last.begin > 0
                   THEN from + (last.end - last.begin) ELSE from + 1
    BY DEF Advanced, WholeMatch, Last
  <2>3. /\ from \in Nat /\ from' \in Nat
        /\ search = "found" => /\ Len(matches) \in DOMAIN matches
                               /\ last.begin = from /\ last.end \in Nat /\ from <= last.end
    <3>1. matches # <<>> => Len(matches) \in DOMAIN matches
      BY <1>t, SequenceIn DEF Placed, IsSequence
    <3> QED BY <1>t, <3>1 DEF Placed
  <2> HIDE DEF last
  <2>4. from + 1 <= from'
    BY <2>1, <2>2, <2>3
  <2>5. \A i : WholeMatch(i)' = WholeMatch(i)
    BY <2>1 DEF WholeMatch
  <2>6. \A p : Covered(p)' <=> Covered(p)
    BY <2>1, <2>5 DEF Covered
  <2>7. ASSUME NEW p \in Nat, p < from', ~Covered(p)
        PROVE  ~AcceptsFrom(line, p)
    <3>1. CASE p < from
      BY <2>7, <3>1 DEF Searching, Swept
    <3>2. CASE from <= p /\ search = "found"
      <4>1. \/ last.begin = p
            \/ last.begin < p /\ p < last.end
        BY <2>1, <2>2, <2>3, <2>7, <3>2
      <4> QED BY <2>3, <2>7, <3>2, <4>1 DEF Covered, last
    <3>3. CASE from <= p /\ search = "missed"
      <4>1. p = from
        BY <2>1, <2>2, <2>3, <2>7, <3>3
      <4> QED BY <3>3, <4>1 DEF OutcomeIsExact
    <3> QED BY <2>1, <2>3, <3>1, <3>2, <3>3
  <2>8. Swept'
    BY <1>l, <1>s, <2>1, <2>5, <2>6, <2>7 DEF Searching, Swept
  <2>9. /\ from' < Len(line) => from' \in StartPlaces(line)
        /\ ~(from' < Len(line)) => \A p \in StartPlaces(line) : p < from'
    BY <2>3, <2>4, StartPlacesType
  <2>10. search' = "searching" => Explored'
    <3> SUFFICES ASSUME search' = "searching" PROVE Explored'
      OBVIOUS
    <3>1. visited' \cup Range(queue') = {StartState(from')}
      BY <2>1, SingletonSequence
    <3>2. Reaches(line, from', StartState(from'))
      BY StartReached
    <3> QED BY <1>l, <1>s, <2>1, <3>1, <3>2 DEF Explored
  <2>11. Searching'
    BY <1>l, <1>s, <2>1, <2>8, <2>9, <2>10 DEF Searching
  <2> QED BY <2>1, <2>11 DEF OutcomeIsExact
<1> QED BY <1>1, <1>2, <1>3, <1>4, <1>5, <1>6 DEF SearchStep

LEMMA ExactStep == ToldInv /\ MatchInv /\ Texts /\ ExactInv /\ [Next]_vars => ExactInv'
<1> SUFFICES ASSUME ToldInv, MatchInv, Texts, ExactInv, [Next]_vars PROVE ExactInv'
  OBVIOUS
<1>t. Placed /\ Queued
  BY DEF MatchInv
<1>1. CASE Search
  <2>1. phase = "searching" /\ phase' = phase /\ SearchStep
    BY <1>1 DEF Search
  <2>2. IsAutomaton(automaton) /\ \A m \in Range(queue) : IsState(m)
    BY <1>t, <2>1 DEF Queued
  <2>3. Placed'
    BY <2>1, <2>2, SearchStepMatches
  <2>4. IsSequence(line)
    BY <2>1, FoldedText DEF Texts
  <2> QED BY <2>1, <2>2, <2>3, <2>4, SearchStepExact DEF ExactInv
<1>2. CASE SearchLine
  <2>1. /\ phase' = "searching" /\ automaton' = automaton
        /\ from' = 0 /\ queue' = <<StartState(from')>> /\ visited' = {} /\ matches' = <<>>
        /\ search' = "searching"
    BY <1>2 DEF SearchLine, MatchAll
  <2>2. Texts'
    BY TextsStep
  <2>3. PICK text : text = line'
    OBVIOUS
  <2>4. IsSequence(text)
    <3>1. job' = job /\ \A t : Folded(t)' = Folded(t)
      BY <1>2, SameJob DEF SearchLine
    <3>2. IsSequence(original') /\ line' = Folded(original')
      BY <2>1, <2>2, <3>1 DEF Texts
    <3> QED BY <2>3, <3>2, FoldedText
  <2>5. from' \in StartPlaces(line')
    BY <2>1, <2>3, <2>4, StartPlacesType
  <2>6. Explored'
    <3>1. visited' \cup Range(queue') = {StartState(from')}
      BY <2>1, SingletonSequence
    <3>2. Reaches(line', from', StartState(from'))
      BY StartReached
    <3> QED BY <2>1, <3>1, <3>2, SameRuns, SameExplored DEF Explored
  <2>7. Swept'
    BY <2>1 DEF Swept
  <2>8. Searching'
    BY <2>1, <2>5, <2>6, <2>7, SameExplored DEF Searching
  <2> QED BY <2>1, <2>8 DEF ExactInv, OutcomeIsExact
<1>3. ASSUME ~Search, ~SearchLine
      PROVE  ExactInv'
  <2>1. phase' = "searching" => phase = "searching" /\ UNCHANGED <<automaton, searchVars>>
    BY <1>3 DEF Next, RefuseArguments, RefusePattern, Compile, OpenFile, OpenStandardInput,
         OpenDirectory, PassOver, Finish, WalkFile, WalkPast, WalkFails, WalkEnds,
         SkipLine, CloseFile, LineSearched, Abort, Exit, Open, vars
  <2>2. CASE phase' # "searching"
    BY <2>2 DEF ExactInv, OutcomeIsExact
  <2>3. CASE phase' = "searching"
    <3>1. phase = "searching" /\ UNCHANGED <<automaton, line, from, queue, visited, matches, search>>
      BY <2>1, <2>3 DEF searchVars
    <3>2. OutcomeIsExact /\ Searching
      BY <3>1 DEF ExactInv
    <3>3. OutcomeIsExact'
      BY <3>1, <3>2, SameRuns, SameExplored DEF OutcomeIsExact
    <3>4. Explored => Explored'
      BY <3>1, SameRuns, SameExplored DEF Explored
    <3>5. Swept'
      BY <3>1, <3>2, SameSwept DEF Searching
    <3>6. Searching'
      BY <3>1, <3>2, <3>4, <3>5, SameExplored DEF Searching
    <3> QED BY <3>3, <3>6 DEF ExactInv
  <2> QED BY <2>2, <2>3
<1> QED BY <1>1, <1>2, <1>3

\* All that is known of a line that is searched.
SearchInv == ToldInv /\ MatchInv /\ Texts /\ ExactInv

LEMMA SearchInvInit == Init => SearchInv
<1> SUFFICES ASSUME Init PROVE SearchInv
  OBVIOUS
<1>1. ExactInv
  BY DEF Init, ExactInv, OutcomeIsExact
<1> QED BY <1>1, ToldInit, MatchInit, TextsInit DEF SearchInv

LEMMA SearchInvStep == SearchInv /\ [Next]_vars => SearchInv'
  BY ToldStep, MatchStep, TextsStep, ExactStep DEF SearchInv

LEMMA CompleteByInv == SearchInv => MatchesAreComplete
<1> SUFFICES ASSUME SearchInv, phase = "searching", search = "ended" PROVE MatchesAreComplete
  BY DEF MatchesAreComplete
<1>1. Searching
  BY DEF SearchInv, ExactInv
<1>2. StartPlaces(line) \subseteq Nat
  BY FoldedText, StartPlacesType DEF SearchInv, Texts
<1> QED BY <1>1, <1>2 DEF Searching, Swept, MatchesAreComplete

\* Whatever the automaton is: each search that found something found a run of the automaton
\* to its accept state, with the end and the groups of that run; each that found nothing
\* started where no run gets to the accept state; and each that threw reached the transition
\* that threw (matcher.cpp:83-155).  Dropping what was visited loses nothing.
THEOREM SearchIsExact == Spec => []OutcomeIsExact
<1>1. SearchInv => OutcomeIsExact
  BY DEF SearchInv, ExactInv
<1> QED BY <1>1, SearchInvInit, SearchInvStep, PTL DEF Spec

\* Whatever the automaton and the line are: when match_all has gone through a line, every
\* match is one of the automaton, and at every place that no match takes the automaton
\* accepts nothing (matcher.cpp:162-181).
THEOREM NoMatchIsMissed == Spec => []MatchesAreComplete
  BY SearchInvInit, SearchInvStep, CompleteByInv, PTL DEF Spec

--------------------------------------------------------------------------------
(***************************************************************************)
(* The tool prints the lines that the automaton accepts.  What the lines   *)
(* are that an invocation reads, and which of them it is asked for, is     *)
(* said without the walk over the files: the lines that are printed so far *)
(* and those that are still to be printed are always the same.             *)
(***************************************************************************)
Accepts(text) == \E p \in StartPlaces(text) : AcceptsFrom(text, p)

\* With -v the lines that are not accepted.
AskedFor(text) == Decodes(text) /\ (Accepts(Folded(text)) <=> ~InvertMatch)

AskedOf(s) == FlattenSeq([i \in DOMAIN s |-> IF AskedFor(s[i]) THEN <<s[i]>> ELSE <<>>])

\* The lines of the file arguments behind the first k.
RestText(k) == FlattenSeq([i \in 1 .. Len(FileArguments) - k |-> ArgumentText(k + i)])

Behind(k) == IF InWalk THEN TreeText(entries) \o RestText(k) ELSE RestText(k)

\* The lines that are not yet searched to their end.
Unread(k) ==
    CASE phase = "searching" -> <<original>> \o (lines \o Behind(k))
      [] phase = "reading"   -> lines \o Behind(k)
      [] OTHER               -> Behind(k)

\* The first k arguments are opened.
ReadUpTo(k) ==
    /\ Len(files) = Len(FileArguments) - k
    /\ \A i \in 1 .. Len(files) : files[i] = FileArguments[k + i]
    /\ stdin = IF \E i \in 1 .. k : FileArguments[i].kind = "stdin" THEN <<>> ELSE job.stdin
    /\ output \o AskedOf(Unread(k)) = AskedOf(LinesRead)

Running == phase \in {"files", "walking", "reading", "searching"}

PrintsAskedLines ==
    phase = "exited" /\ exit # "abort" /\ HasPattern /\ Compiles(Folded(GivenText)) =>
        /\ automaton = Automaton(Folded(GivenText))
        /\ output = AskedOf(LinesRead)

PrintedInv ==
    /\ phase = "arguments" => stdin = job.stdin
    /\ Running => /\ automaton = Automaton(Folded(GivenText))
                  /\ \E k \in 0 .. Len(FileArguments) : ReadUpTo(k)
    /\ PrintsAskedLines

--------------------------------------------------------------------------------
\* Sequences of sequences.
LEMMA ConcatSequence ==
    ASSUME NEW s, IsSequence(s), NEW t, IsSequence(t)
    PROVE  IsSequence(s \o t)
<1>1. PICK S : S = Range(s) \cup Range(t)
  OBVIOUS
<1>2. s \in Seq(S) /\ t \in Seq(S)
  <2>1. s \in Seq(Range(s)) /\ t \in Seq(Range(t)) /\ Range(s) \subseteq S /\ Range(t) \subseteq S
    BY <1>1 DEF IsSequence
  <2> QED BY <2>1, SeqMonotonic
<1>3. s \o t \in Seq(S)
  BY <1>2, ConcatProperties
<1> QED BY <1>3, SequenceIn

LEMMA Associative ==
    ASSUME NEW s, IsSequence(s), NEW t, IsSequence(t), NEW u, IsSequence(u)
    PROVE  (s \o t) \o u = s \o (t \o u)
<1>1. PICK S : S = Range(s) \cup Range(t) \cup Range(u)
  OBVIOUS
<1>2. s \in Seq(S) /\ t \in Seq(S) /\ u \in Seq(S)
  <2>1. /\ s \in Seq(Range(s)) /\ t \in Seq(Range(t)) /\ u \in Seq(Range(u))
        /\ Range(s) \subseteq S /\ Range(t) \subseteq S /\ Range(u) \subseteq S
    BY <1>1 DEF IsSequence
  <2> QED BY <2>1, SeqMonotonic
<1> QED BY <1>2, ConcatAssociative

LEMMA WithEmpty ==
    ASSUME NEW s, IsSequence(s)
    PROVE  <<>> \o s = s /\ s \o <<>> = s
<1>1. s \in Seq(Range(s))
  BY DEF IsSequence
<1> QED BY <1>1, ConcatEmptySeq

\* The first of n sequences comes first in their concatenation.
LEMMA FlattenFunction ==
    ASSUME NEW n \in Nat, NEW f, IsSequence(f), Len(f) = n, \A i \in 1 .. n : IsSequence(f[i]),
           NEW g, n # 0 => /\ IsSequence(g) /\ Len(g) = n - 1
                           /\ \A i \in 1 .. n - 1 : g[i] = f[i + 1]
    PROVE  /\ IsSequence(FlattenSeq(f))
           /\ \A x : x \in Range(FlattenSeq(f)) <=> \E i \in 1 .. n : x \in Range(f[i])
           /\ n = 0 => FlattenSeq(f) = <<>>
           /\ n # 0 => FlattenSeq(f) = f[1] \o FlattenSeq(g)
<1>1. PICK S : S = UNION {Range(f[i]) : i \in 1 .. n}
  OBVIOUS
<1>2. \A i \in 1 .. n : f[i] \in Seq(S)
  <2> SUFFICES ASSUME NEW i \in 1 .. n PROVE f[i] \in Seq(S)
    OBVIOUS
  <2>1. f[i] \in Seq(Range(f[i])) /\ Range(f[i]) \subseteq S
    BY <1>1 DEF IsSequence
  <2> QED BY <2>1, SeqMonotonic
<1>3. f \in Seq(Seq(S)) /\ Len(f) = n /\ DOMAIN f = 1 .. n
  <2>1. f \in Seq(Range(f)) /\ f \in [1 .. n -> Range(f)]
    BY LenProperties DEF IsSequence
  <2>2. f \in [1 .. n -> Seq(S)]
    BY <1>2, <2>1
  <2> QED BY <2>1, <2>2
<1>4. FlattenSeq(f) \in Seq(S)
  BY <1>3, FlattenType
<1>5. IsSequence(FlattenSeq(f))
  BY <1>4, SequenceIn
<1>6. \A x : x \in Range(FlattenSeq(f)) <=> \E i \in 1 .. n : x \in Range(f[i])
  BY <1>3, FlattenRange
<1>7. n = 0 => FlattenSeq(f) = <<>>
  BY <1>3, EmptySeq, FlattenNone
<1>8. ASSUME n # 0 PROVE FlattenSeq(f) = f[1] \o FlattenSeq(g)
  <2>1. f # <<>>
    BY <1>3, <1>8, EmptySeq
  <2>2. PICK t : t = Tail(f)
    OBVIOUS
  <2>3. t \in Seq(Seq(S)) /\ Len(t) = n - 1 /\ \A i \in 1 .. n - 1 : t[i] = f[i + 1]
    BY <1>3, <2>1, <2>2, HeadTailProperties
  <2>4. t = g
    <3>1. PICK T : T = Range(g) \cup Seq(S)
      OBVIOUS
    <3>2. g \in Seq(Range(g)) /\ Range(g) \subseteq T /\ Seq(S) \subseteq T
      BY <1>8, <3>1 DEF IsSequence
    <3>3. g \in Seq(T) /\ t \in Seq(T)
      BY <2>3, <3>2, SeqMonotonic
    <3>4. Len(t) = Len(g) /\ \A i \in 1 .. Len(t) : t[i] = g[i]
      BY <1>8, <2>3
    <3> QED BY <3>3, <3>4, SeqEqual
  <2> QED BY <1>3, <2>1, <2>2, <2>4, FlattenFirst
<1> QED BY <1>5, <1>6, <1>7, <1>8

LEMMA NothingIn ==
    ASSUME NEW s, IsSequence(s), Range(s) = {}
    PROVE  s = <<>>
<1>1. s \in Seq({})
  BY DEF IsSequence
<1> QED BY <1>1

LEMMA TailParts ==
    ASSUME NEW s, IsSequence(s), s # <<>>
    PROVE  /\ Len(s) \in Nat \ {0} /\ Head(s) = s[1] /\ DOMAIN s = 1 .. Len(s)
           /\ Len(Tail(s)) = Len(s) - 1 /\ DOMAIN Tail(s) = 1 .. Len(s) - 1
           /\ \A i \in 1 .. Len(s) - 1 : Tail(s)[i] = s[i + 1]
<1>1. s \in Seq(Range(s))
  BY DEF IsSequence
<1>2. PICK t : t = Tail(s)
  OBVIOUS
<1>3. t \in Seq(Range(s)) /\ Len(t) = Len(s) - 1 /\ \A i \in 1 .. Len(t) : t[i] = s[i + 1]
  BY <1>1, <1>2, HeadTailProperties
<1>4. DOMAIN t = 1 .. Len(t) /\ DOMAIN s = 1 .. Len(s) /\ Len(s) \in Nat \ {0} /\ Head(s) = s[1]
  BY <1>1, <1>3, LenProperties, EmptySeq
<1> QED BY <1>2, <1>3, <1>4


LEMMA FunctionSequence ==
    ASSUME NEW n \in Nat, NEW f, f = [i \in 1 .. n |-> f[i]]
    PROVE  IsSequence(f) /\ Len(f) = n
<1>1. f \in Seq({f[i] : i \in 1 .. n}) /\ Len(f) = n
  OBVIOUS
<1> QED BY <1>1, SequenceIn

\* The lines that are asked for of a text, its first line first.
LEMMA AskedFirst ==
    ASSUME NEW s, IsSequence(s)
    PROVE  /\ IsSequence(AskedOf(s))
           /\ s = <<>> => AskedOf(s) = <<>>
           /\ s # <<>> => AskedOf(s) = (IF AskedFor(Head(s)) THEN <<Head(s)>> ELSE <<>>) \o AskedOf(Tail(s))
<1> DEFINE one(x) == IF AskedFor(x) THEN <<x>> ELSE <<>>
           f == [i \in DOMAIN s |-> one(s[i])]
           g == [i \in DOMAIN Tail(s) |-> one(Tail(s)[i])]
<1>1. \A x : IsSequence(one(x))
  BY SingletonSequence, EmptySequence
<1>2. AskedOf(s) = FlattenSeq(f) /\ AskedOf(Tail(s)) = FlattenSeq(g)
  BY DEF AskedOf
<1>n. PICK n \in Nat : n = Len(s) /\ DOMAIN s = 1 .. n
  BY SequenceIn DEF IsSequence
<1> HIDE DEF one
<1>3. /\ f = [i \in 1 .. n |-> f[i]]
      /\ \A i \in 1 .. n : IsSequence(f[i]) /\ f[i] = one(s[i])
  BY <1>1, <1>n
<1>4. s # <<>> => /\ f[1] = one(Head(s)) /\ n # 0
                  /\ g = [i \in 1 .. n - 1 |-> g[i]] /\ \A i \in 1 .. n - 1 : g[i] = f[i + 1]
  <2> SUFFICES ASSUME s # <<>>
               PROVE  /\ f[1] = one(Head(s)) /\ n # 0
                      /\ g = [i \in 1 .. n - 1 |-> g[i]] /\ \A i \in 1 .. n - 1 : g[i] = f[i + 1]
    OBVIOUS
  <2>1. /\ n # 0 /\ Head(s) = s[1] /\ DOMAIN Tail(s) = 1 .. n - 1
        /\ \A i \in 1 .. n - 1 : Tail(s)[i] = s[i + 1] /\ i + 1 \in 1 .. n
    BY <1>n, TailParts
  <2> QED BY <1>3, <1>n, <2>1
<1>5. s = <<>> => n = 0
  BY <1>n, EmptySeq
<1>8. n # 0 => s # <<>>
  BY <1>5
<1> HIDE DEF f, g
<1>6. /\ IsSequence(f) /\ Len(f) = n
      /\ s # <<>> => IsSequence(g) /\ Len(g) = n - 1
  BY <1>3, <1>4, FunctionSequence
<1>7. /\ IsSequence(FlattenSeq(f))
      /\ n = 0 => FlattenSeq(f) = <<>>
      /\ n # 0 => FlattenSeq(f) = f[1] \o FlattenSeq(g)
  <2>1. IsSequence(f) /\ Len(f) = n /\ \A i \in 1 .. n : IsSequence(f[i])
    BY <1>3, <1>6
  <2>2. n # 0 => IsSequence(g) /\ Len(g) = n - 1 /\ \A i \in 1 .. n - 1 : g[i] = f[i + 1]
    BY <1>4, <1>6, <1>8
  <2> QED BY <2>1, <2>2, FlattenFunction
<1> QED BY <1>2, <1>4, <1>5, <1>7 DEF one

\* The files of a directory, the first one first, up to one that does not open.
LEMMA TreeFirst ==
    ASSUME NEW tree, IsSequence(tree), \A f \in Range(tree) : HoldsText(f)
    PROVE  /\ IsSequence(TreeText(tree))
           /\ tree = <<>> => TreeText(tree) = <<>>
           /\ tree # <<>> /\ Head(tree).kind = "unopened" => TreeText(tree) = <<>>
           /\ tree # <<>> /\ Head(tree).kind # "unopened" =>
                 TreeText(tree) = (IF Head(tree).kind = "file" THEN Head(tree).lines ELSE <<>>)
                                  \o TreeText(Tail(tree))
<1> DEFINE rest == Tail(tree)
           Opens(t, k) == t[k].kind = "file" /\ \A j \in 1 .. k : t[j].kind # "unopened"
           f == [k \in DOMAIN tree |-> IF Opens(tree, k) THEN tree[k].lines ELSE <<>>]
           g == [k \in DOMAIN rest |-> IF Opens(rest, k) THEN rest[k].lines ELSE <<>>]
<1>2. TreeText(tree) = FlattenSeq(f) /\ TreeText(rest) = FlattenSeq(g)
  BY DEF TreeText
<1>n. PICK n \in Nat : n = Len(tree) /\ DOMAIN tree = 1 .. n
  BY SequenceIn DEF IsSequence
<1>3. /\ f = [k \in 1 .. n |-> f[k]]
      /\ \A k \in 1 .. n : f[k] = IF Opens(tree, k) THEN tree[k].lines ELSE <<>>
  BY <1>n
<1>4. \A k \in 1 .. n : IsSequence(f[k])
  <2> SUFFICES ASSUME NEW k \in 1 .. n PROVE IsSequence(f[k])
    OBVIOUS
  <2>1. tree[k].kind = "file" => IsSequence(tree[k].lines)
    BY <1>n DEF HoldsText, IsText, Range
  <2> QED BY <1>3, <2>1, EmptySequence
<1>5. ASSUME tree # <<>>
      PROVE  /\ n # 0 /\ Head(tree) = tree[1] /\ DOMAIN rest = 1 .. n - 1
             /\ \A k \in 1 .. n - 1 : rest[k] = tree[k + 1]
  BY <1>5, <1>n, TailParts
<1> HIDE DEF f
<1>6. ASSUME tree # <<>>, Head(tree).kind = "unopened" PROVE \A k \in 1 .. n : Range(f[k]) = {}
  <2> SUFFICES ASSUME NEW k \in 1 .. n PROVE Range(f[k]) = {}
    OBVIOUS
  <2>1. 1 \in 1 .. k /\ tree[1].kind = "unopened"
    BY <1>5, <1>6
  <2>2. f[k] = <<>>
    BY <1>3, <2>1
  <2> QED BY <2>2, EmptySequence
<1>7. ASSUME tree # <<>>, Head(tree).kind # "unopened"
      PROVE  /\ f[1] = IF Head(tree).kind = "file" THEN Head(tree).lines ELSE <<>>
             /\ \A k \in 1 .. n - 1 : g[k] = f[k + 1]
  <2>1. ASSUME NEW k \in 1 .. n - 1
        PROVE  Opens(rest, k) <=> Opens(tree, k + 1)
    <3>1. rest[k] = tree[k + 1] /\ \A j \in 1 .. k : rest[j] = tree[j + 1]
      BY <1>5, <1>7
    <3>2. \A j \in 1 .. k + 1 : j = 1 \/ (j - 1 \in 1 .. k /\ (j - 1) + 1 = j)
      OBVIOUS
    <3>3. \A j \in 1 .. k : j + 1 \in 1 .. k + 1
      OBVIOUS
    <3>4. (\A j \in 1 .. k : rest[j].kind # "unopened")
             <=> (\A j \in 1 .. k + 1 : tree[j].kind # "unopened")
      BY <1>5, <1>7, <3>1, <3>2, <3>3
    <3> QED BY <3>1, <3>4
  <2>2. ASSUME NEW k \in 1 .. n - 1 PROVE k + 1 \in 1 .. n /\ rest[k] = tree[k + 1]
    BY <1>5, <1>7
  <2>3. Opens(tree, 1) <=> tree[1].kind = "file"
    BY <1>5, <1>7
  <2> HIDE DEF Opens
  <2>4. f[1] = IF Head(tree).kind = "file" THEN Head(tree).lines ELSE <<>>
    BY <1>3, <1>5, <1>7, <2>3
  <2>5. \A k \in 1 .. n - 1 : g[k] = f[k + 1]
    BY <1>3, <1>5, <1>7, <2>1, <2>2
  <2> QED BY <2>4, <2>5
<1>8. tree # <<>> => g = [k \in 1 .. n - 1 |-> g[k]]
  BY <1>5
<1> HIDE DEF g
<1>9. tree = <<>> <=> n = 0
  BY <1>5, <1>n, EmptySeq
<1>11. /\ IsSequence(f) /\ Len(f) = n
       /\ tree # <<>> => IsSequence(g) /\ Len(g) = n - 1
  BY <1>3, <1>8, <1>9, FunctionSequence
<1>12. ASSUME NEW h, n # 0 => IsSequence(h) /\ Len(h) = n - 1 /\ \A k \in 1 .. n - 1 : h[k] = f[k + 1]
       PROVE  /\ IsSequence(FlattenSeq(f))
              /\ \A x : x \in Range(FlattenSeq(f)) <=> \E k \in 1 .. n : x \in Range(f[k])
              /\ n = 0 => FlattenSeq(f) = <<>>
              /\ n # 0 => FlattenSeq(f) = f[1] \o FlattenSeq(h)
  BY <1>4, <1>11, <1>12, FlattenFunction
<1>13. /\ IsSequence(FlattenSeq(f))
       /\ \A x : x \in Range(FlattenSeq(f)) <=> \E k \in 1 .. n : x \in Range(f[k])
       /\ n = 0 => FlattenSeq(f) = <<>>
  <2> DEFINE h == [k \in 1 .. n - 1 |-> f[k + 1]]
  <2>1. n # 0 => IsSequence(h) /\ Len(h) = n - 1
    BY FunctionSequence
  <2>2. \A k \in 1 .. n - 1 : h[k] = f[k + 1]
    OBVIOUS
  <2> HIDE DEF h
  <2> QED BY <1>12, <2>1, <2>2
<1>10. ASSUME tree # <<>>, Head(tree).kind = "unopened" PROVE FlattenSeq(f) = <<>>
  <2>1. Range(FlattenSeq(f)) = {}
    BY <1>6, <1>10, <1>13
  <2> QED BY <1>13, <2>1, NothingIn
<1>14. ASSUME tree # <<>>, Head(tree).kind # "unopened"
       PROVE  FlattenSeq(f) = f[1] \o FlattenSeq(g)
  BY <1>7, <1>9, <1>11, <1>12, <1>14
<1> QED BY <1>2, <1>7, <1>9, <1>10, <1>13, <1>14

LEMMA AskedSequence == \A s : IsSequence(s) => IsSequence(AskedOf(s))
  BY AskedFirst

LEMMA AskedSequenceNext == (\A s : IsSequence(s) => IsSequence(AskedOf(s)))'
  BY AskedSequence, PTL

LEMMA ArgumentSequence ==
    ASSUME job \in Jobs, NEW i \in 1 .. Len(FileArguments)
    PROVE  /\ IsSequence(ArgumentText(i))
           /\ FileArguments[i] \in Range(FileArguments)
<1>1. FileArguments[i] \in Range(FileArguments)
  <2>1. DOMAIN FileArguments = 1 .. Len(FileArguments)
    BY GivenFiles, SequenceIn DEF IsSequence
  <2> QED BY <2>1 DEF Range
<1> DEFINE f == FileArguments[i]
<1>2. HoldsText(f) /\ (f.kind = "directory" => HoldsFiles(f)) /\ IsSequence(job.stdin)
  BY <1>1, GivenFiles, JobsAssumption DEF IsText
<1> HIDE DEF f
<1>3. f.kind = "directory" => IsSequence(TreeText(f.entries))
  BY <1>2, TreeFirst DEF HoldsFiles
<1>4. f.kind = "file" => IsSequence(f.lines)
  BY <1>2 DEF HoldsText, IsText
<1> QED BY <1>1, <1>2, <1>3, <1>4, EmptySequence DEF ArgumentText, f

\* The text of the arguments, the first of them first.
LEMMA RestFirst ==
    ASSUME job \in Jobs, NEW N \in Nat, N = Len(FileArguments), NEW k \in 0 .. N
    PROVE  /\ IsSequence(RestText(k))
           /\ k = N => RestText(k) = <<>>
           /\ k # N => RestText(k) = ArgumentText(k + 1) \o RestText(k + 1)
<1>0. N - k \in Nat
  OBVIOUS
<1>2. PICK n \in Nat : n = N - k
  BY <1>0, Zenon
<1> DEFINE f == [i \in 1 .. N - k |-> ArgumentText(k + i)]
           g == [i \in 1 .. N - (k + 1) |-> ArgumentText((k + 1) + i)]
<1>1. RestText(k) = FlattenSeq(f) /\ RestText(k + 1) = FlattenSeq(g)
  BY DEF RestText
<1>3. \A i \in 1 .. n : IsSequence(f[i]) /\ f[i] = ArgumentText(k + i)
  <2> SUFFICES ASSUME NEW i \in 1 .. n PROVE IsSequence(f[i]) /\ f[i] = ArgumentText(k + i)
    OBVIOUS
  <2>1. k + i \in 1 .. Len(FileArguments) /\ i \in 1 .. N - k
    BY <1>2
  <2> QED BY <2>1, ArgumentSequence
<1>4. f = [i \in 1 .. n |-> f[i]]
  BY <1>2
<1>5. g = [i \in 1 .. n - 1 |-> g[i]]
  BY <1>2
<1>6. \A i \in 1 .. n - 1 : g[i] = f[i + 1]
  <2> SUFFICES ASSUME NEW i \in 1 .. n - 1 PROVE g[i] = f[i + 1]
    OBVIOUS
  <2>1. (k + 1) + i = k + (i + 1) /\ i \in 1 .. N - (k + 1) /\ i + 1 \in 1 .. N - k
    BY <1>2
  <2> QED BY <2>1
<1>7. n # 0 => f[1] = ArgumentText(k + 1)
  BY <1>2
<1> HIDE DEF f, g
<1>8. /\ IsSequence(f) /\ Len(f) = n
      /\ n # 0 => IsSequence(g) /\ Len(g) = n - 1
  BY <1>4, <1>5, FunctionSequence
<1>9. /\ IsSequence(FlattenSeq(f))
      /\ n = 0 => FlattenSeq(f) = <<>>
      /\ n # 0 => FlattenSeq(f) = f[1] \o FlattenSeq(g)
  <2>1. \A i \in 1 .. n : IsSequence(f[i])
    BY <1>3
  <2>2. n # 0 => IsSequence(g) /\ Len(g) = n - 1 /\ \A i \in 1 .. n - 1 : g[i] = f[i + 1]
    BY <1>6, <1>8
  <2> QED BY <1>8, <2>1, <2>2, FlattenFunction
<1>10. k = N <=> n = 0
  BY <1>2
<1> QED BY <1>1, <1>7, <1>9, <1>10

LEMMA AllIsRest ==
    ASSUME job \in Jobs
    PROVE  LinesRead = RestText(0)
<1>1. Len(FileArguments) \in Nat /\ DOMAIN FileArguments = 1 .. Len(FileArguments)
  BY GivenFiles, SequenceIn DEF IsSequence
<1>2. 1 .. Len(FileArguments) - 0 = 1 .. Len(FileArguments)
  BY <1>1
<1>3. \A i \in 1 .. Len(FileArguments) : 0 + i = i
  BY <1>1
<1> QED BY <1>1, <1>2, <1>3 DEF LinesRead, RestText

LEMMA SameText ==
    ASSUME job' = job
    PROVE  LinesRead' = LinesRead /\ \A k : RestText(k)' = RestText(k)
<1>1. FileArguments' = FileArguments /\ Recursive' = Recursive
  BY SameJob
<1>2. \A i : ArgumentText(i)' = ArgumentText(i)
  BY <1>1 DEF ArgumentText
<1> QED BY <1>1, <1>2 DEF LinesRead, RestText

LEMMA SameAsked ==
    ASSUME job' = job, automaton' = automaton
    PROVE  \A s : AskedOf(s)' = AskedOf(s)
<1>1. \A text : Accepts(text)' <=> Accepts(text)
  BY SameRuns, SameExplored DEF Accepts
<1>2. InvertMatch' = InvertMatch /\ \A text : Folded(text)' = Folded(text)
  BY SameJob
<1>3. \A text : AskedFor(text)' <=> AskedFor(text)
  BY <1>1, <1>2 DEF AskedFor
<1> QED BY <1>3 DEF AskedOf

\* A line that was searched to its end has a match exactly if the automaton accepts it.
LEMMA MatchesTell ==
    ASSUME SearchInv, phase = "searching", search = "ended"
    PROVE  matches # <<>> <=> Accepts(line)
<1>1. MatchesAreComplete
  BY CompleteByInv
<1>2. DOMAIN matches = 1 .. Len(matches) /\ (matches # <<>> => Len(matches) \in Nat \ {0})
  BY SequenceIn, TailParts DEF SearchInv, MatchInv, Placed, IsSequence
<1>3. ASSUME matches # <<>> PROVE Accepts(line)
  <2>1. 1 \in DOMAIN matches
    BY <1>2, <1>3
  <2>2. /\ WholeMatch(1).begin \in StartPlaces(line)
        /\ IsResult(line, WholeMatch(1).begin, matches[1])
    BY <1>1, <2>1 DEF MatchesAreComplete
  <2> QED BY <2>2 DEF IsResult, Accepts, AcceptsFrom
<1>4. ASSUME matches = <<>> PROVE ~Accepts(line)
  <2>1. DOMAIN matches = {}
    BY <1>4
  <2> QED BY <1>1, <2>1 DEF MatchesAreComplete, Covered, Accepts
<1> QED BY <1>3, <1>4

LEMMA SelectedIsAskedFor ==
    ASSUME SearchInv, phase = "searching", search = "ended"
    PROVE  Selected <=> AskedFor(original)
<1>1. line = Folded(original) /\ Decodes(original)
  BY DEF SearchInv, Texts
<1>2. matches # <<>> <=> Accepts(Folded(original))
  BY <1>1, MatchesTell
<1>3. InvertMatch \in BOOLEAN
  BY DEF InvertMatch, Given
<1> QED BY <1>1, <1>2, <1>3 DEF Selected, AskedFor

\* A step that leaves the arguments alone, and the lines that are still to be printed
\* with those that are printed.
LEMMA ReadOn ==
    ASSUME job' = job, automaton' = automaton, files' = files, stdin' = stdin,
           NEW k, ReadUpTo(k), NEW u, u = Unread(k)',
           output' \o AskedOf(u) = output \o AskedOf(Unread(k))
    PROVE  ReadUpTo(k)'
<1>1. FileArguments' = FileArguments /\ LinesRead' = LinesRead
  BY SameJob, SameText
<1>2. AskedOf(Unread(k))' = AskedOf(u) /\ AskedOf(LinesRead)' = AskedOf(LinesRead)
  BY <1>1, SameAsked
<1> QED BY <1>1, <1>2 DEF ReadUpTo

\* A step that takes the next argument, and leaves as much to be printed.
LEMMA ReadNext ==
    ASSUME job \in Jobs, job' = job, automaton' = automaton, output' = output,
           NEW N \in Nat, N = Len(FileArguments),
           NEW k \in 0 .. N, ReadUpTo(k), IsSequence(files), files # <<>>, files' = Tail(files),
           stdin' = IF Head(files).kind = "stdin" THEN <<>> ELSE stdin,
           NEW u, u = Unread(k + 1)',
           k + 1 \in 1 .. N /\ Head(files) = FileArguments[k + 1] => u = Unread(k)
    PROVE  k + 1 \in 0 .. N /\ ReadUpTo(k + 1)'
<1>1. FileArguments' = FileArguments /\ LinesRead' = LinesRead
  BY SameJob, SameText
<1>2. \A s : AskedOf(s)' = AskedOf(s)
  BY SameAsked
<1>3. /\ Len(files) \in Nat \ {0} /\ Head(files) = files[1] /\ Len(Tail(files)) = Len(files) - 1
      /\ \A i \in 1 .. Len(files) - 1 : Tail(files)[i] = files[i + 1]
  BY TailParts
<1>4. /\ Len(files) = N - k /\ \A i \in 1 .. Len(files) : files[i] = FileArguments[k + i]
      /\ stdin = IF \E i \in 1 .. k : FileArguments[i].kind = "stdin" THEN <<>> ELSE job.stdin
      /\ output \o AskedOf(Unread(k)) = AskedOf(LinesRead)
  BY DEF ReadUpTo
<1>5. k + 1 \in 1 .. N /\ Head(files) = FileArguments[k + 1]
  BY <1>3, <1>4
<1>6. output' \o AskedOf(Unread(k + 1))' = AskedOf(LinesRead)'
  BY <1>1, <1>2, <1>4, <1>5
<1>7. Len(files') = Len(FileArguments') - (k + 1)
  <2>1. Len(files') = Len(files) - 1 /\ Len(FileArguments') = N
    BY <1>1, <1>3
  <2>2. (N - k) - 1 = N - (k + 1)
    OBVIOUS
  <2> QED BY <1>4, <2>1, <2>2
<1>8. ASSUME NEW i \in 1 .. Len(files') PROVE files'[i] = FileArguments'[(k + 1) + i]
  <2>1. i \in 1 .. Len(files) - 1 /\ i + 1 \in 1 .. Len(files) /\ k + (i + 1) = (k + 1) + i
    BY <1>3
  <2>2. files'[i] = files[i + 1]
    BY <1>3, <2>1
  <2>3. files[i + 1] = FileArguments[k + (i + 1)]
    BY <1>4, <2>1
  <2> QED BY <1>1, <2>1, <2>2, <2>3
<1>9. stdin' = IF \E i \in 1 .. k + 1 : FileArguments'[i].kind = "stdin" THEN <<>> ELSE job'.stdin
  <2>1. \A i : i \in 1 .. k + 1 <=> i \in 1 .. k \/ i = k + 1
    OBVIOUS
  <2> QED BY <1>1, <1>4, <1>5, <2>1
<1> QED BY <1>5, <1>6, <1>7, <1>8, <1>9 DEF ReadUpTo

LEMMA UnreadIn ==
    /\ \A k : phase \in {"files", "walking"} => Unread(k) = Behind(k)
    /\ \A k : phase = "reading" => Unread(k) = lines \o Behind(k)
    /\ \A k : phase = "searching" => Unread(k) = <<original>> \o (lines \o Behind(k))
    /\ \A k : InWalk => Behind(k) = TreeText(entries) \o RestText(k)
    /\ \A k : ~InWalk => Behind(k) = RestText(k)
  BY DEF Unread, Behind

LEMMA UnreadNext ==
    ASSUME job' = job
    PROVE  /\ \A k : phase' \in {"files", "walking"} => Unread(k)' = Behind(k)'
           /\ \A k : phase' = "reading" => Unread(k)' = lines' \o Behind(k)'
           /\ \A k : phase' = "searching" => Unread(k)' = <<original'>> \o (lines' \o Behind(k)')
           /\ \A k : InWalk' => Behind(k)' = TreeText(entries') \o RestText(k)
           /\ \A k : ~InWalk' => Behind(k)' = RestText(k)
<1>1. \A k : RestText(k)' = RestText(k)
  BY SameText
<1> QED BY <1>1 DEF Unread, Behind

LEMMA HeadFirst ==
    ASSUME NEW s, IsSequence(s), s # <<>>
    PROVE  s = <<Head(s)>> \o Tail(s)
<1>1. s \in Seq(Range(s))
  BY DEF IsSequence
<1> QED BY <1>1

LEMMA AskedLine ==
    ASSUME NEW x, NEW s, IsSequence(s)
    PROVE  AskedOf(<<x>> \o s) = (IF AskedFor(x) THEN <<x>> ELSE <<>>) \o AskedOf(s)
<1>1. PICK all : all = <<x>> \o s
  OBVIOUS
<1>2. IsSequence(all)
  BY <1>1, SingletonSequence, ConcatSequence
<1>3. all # <<>> /\ Head(all) = x /\ Tail(all) = s
  <2>1. PICK S : S = {x} \cup Range(s)
    OBVIOUS
  <2>2. s \in Seq(S) /\ x \in S
    <3>1. s \in Seq(Range(s)) /\ Range(s) \subseteq S
      BY <2>1 DEF IsSequence
    <3> QED BY <2>1, <3>1, SeqMonotonic
  <2>3. <<x>> \in Seq(S) /\ Len(<<x>>) = 1 /\ <<x>>[1] = x
    BY <2>2
  <2>4. /\ all \in Seq(S) /\ Len(all) = 1 + Len(s) /\ Len(s) \in Nat
        /\ \A i \in 1 .. 1 + Len(s) : all[i] = IF i <= 1 THEN <<x>>[i] ELSE s[i - 1]
    BY <1>1, <2>2, <2>3, ConcatProperties, LenProperties
  <2>5. all # <<>> /\ Head(all) = x
    BY <2>3, <2>4
  <2>9. PICK t : t = Tail(all)
    OBVIOUS
  <2>6. t \in Seq(S) /\ Len(t) = Len(s) /\ \A i \in 1 .. Len(s) : t[i] = all[i + 1]
    <3>1. t \in Seq(S) /\ Len(t) = Len(all) - 1 /\ \A i \in 1 .. Len(t) : t[i] = all[i + 1]
      BY <2>4, <2>5, <2>9, HeadTailProperties
    <3> QED BY <2>4, <3>1
  <2>7. \A i \in 1 .. Len(s) : t[i] = s[i]
    <3> SUFFICES ASSUME NEW i \in 1 .. Len(s) PROVE t[i] = s[i]
      OBVIOUS
    <3>1. i + 1 \in 1 .. 1 + Len(s) /\ ~(i + 1 <= 1) /\ (i + 1) - 1 = i
      BY <2>4
    <3> QED BY <2>4, <2>6, <3>1
  <2>8. t = s
    BY <2>2, <2>6, <2>7, SeqEqual
  <2> QED BY <2>5, <2>8, <2>9
<1> QED BY <1>1, <1>2, <1>3, AskedFirst

LEMMA PrintedStep == SearchInv /\ PrintedInv /\ [Next]_vars => PrintedInv'
<1> SUFFICES ASSUME SearchInv, PrintedInv, [Next]_vars PROVE PrintedInv'
  OBVIOUS
<1>t. Typed /\ Remaining /\ Accounted /\ Texts
  BY DEF SearchInv, ToldInv
<1>j. job \in Jobs /\ job' = job
  BY <1>t DEF Next, RefuseArguments, RefusePattern, Compile, OpenFile, OpenStandardInput,
         OpenDirectory, PassOver, Finish, WalkFile, WalkPast, WalkFails, WalkEnds,
         SearchLine, SkipLine, CloseFile, Search, LineSearched, Abort, vars, Typed
<1>s. /\ FileArguments' = FileArguments /\ LinesRead' = LinesRead
      /\ HasPattern' = HasPattern /\ GivenText' = GivenText
      /\ \A text : Folded(text)' = Folded(text)
      /\ \A k : RestText(k)' = RestText(k)
  BY <1>j, SameJob, SameText
<1>n. PICK N \in Nat : N = Len(FileArguments)
  BY <1>j, GivenFiles, SequenceIn DEF IsSequence
<1>1. CASE phase = "exited"
  <2>1. UNCHANGED <<automaton, phase, exit, output>>
    BY <1>1 DEF Next, RefuseArguments, RefusePattern, Compile, OpenFile, OpenStandardInput,
       OpenDirectory, PassOver, Finish, WalkFile, WalkPast, WalkFails, WalkEnds,
       SearchLine, SkipLine, CloseFile, Search, LineSearched, Abort, vars
  <2>2. AskedOf(LinesRead)' = AskedOf(LinesRead)
    BY <1>j, <1>s, <2>1, SameAsked
  <2> QED BY <1>1, <1>s, <2>1, <2>2 DEF PrintedInv, Running, PrintsAskedLines
<1>2. CASE RefuseArguments \/ RefusePattern
  <2>1. phase' = "exited" /\ ~(HasPattern /\ Compiles(Folded(GivenText)))
    BY <1>2 DEF RefuseArguments, RefusePattern, Exit
  <2> QED BY <1>s, <2>1 DEF PrintedInv, Running, PrintsAskedLines
<1>3. CASE Compile
  <2>1. /\ phase = "arguments" /\ phase' = "files" /\ files' = FileArguments
        /\ automaton' = Automaton(Folded(GivenText)) /\ stdin' = stdin /\ output' = output
    BY <1>3 DEF Compile
  <2>2. output' = <<>> /\ stdin' = job.stdin
    BY <1>t, <2>1 DEF Accounted, PrintedInv
  <2>3. Unread(0)' = LinesRead'
    <3>1. ~InWalk'
      BY <2>1 DEF InWalk
    <3> QED BY <1>j, <1>s, <2>1, <3>1, UnreadNext, AllIsRest
  <2>4. <<>> \o AskedOf(LinesRead)' = AskedOf(LinesRead)'
    <3>1. IsSequence(LinesRead)
      BY <1>j, <1>n, AllIsRest, RestFirst
    <3>2. IsSequence(AskedOf(LinesRead)')
      BY <1>s, <3>1, AskedSequenceNext
    <3> QED BY <3>2, WithEmpty
  <2>5. output' \o AskedOf(Unread(0))' = AskedOf(LinesRead)'
    BY <2>2, <2>3, <2>4
  <2>6. Len(files') = Len(FileArguments') - 0
    BY <1>n, <1>s, <2>1
  <2>7. \A i \in 1 .. Len(files') : files'[i] = FileArguments'[0 + i]
    BY <1>n, <1>s, <2>1
  <2>8. stdin' = IF \E i \in 1 .. 0 : FileArguments'[i].kind = "stdin" THEN <<>> ELSE job'.stdin
    BY <1>j, <2>2
  <2>9. ReadUpTo(0)'
    BY <2>5, <2>6, <2>7, <2>8 DEF ReadUpTo
  <2>10. 0 \in 0 .. Len(FileArguments')
    BY <1>n, <1>s
  <2>11. automaton' = Automaton(Folded(GivenText)')
    BY <1>s, <2>1
  <2> QED BY <2>1, <2>9, <2>10, <2>11 DEF PrintedInv, Running, PrintsAskedLines
<1>4. ASSUME Running, ~Compile
      PROVE  PrintedInv'
  <2>a. automaton' = automaton /\ phase # "arguments" /\ phase # "exited"
    BY <1>4 DEF Running, Next, RefuseArguments, RefusePattern, OpenFile, OpenStandardInput,
       OpenDirectory, PassOver, Finish, WalkFile, WalkPast, WalkFails, WalkEnds,
       SearchLine, SkipLine, CloseFile, Search, LineSearched, Abort, SearchStep, SkipVisited,
       Accept, Expand, Throw, Exhausted, NextStart, vars
  <2>b. automaton' = Automaton(Folded(GivenText))'
    BY <1>4, <1>s, <2>a DEF PrintedInv
  <2>k. PICK k \in 0 .. N : ReadUpTo(k)
    BY <1>4, <1>n DEF PrintedInv
  \* It is enough to say up to where the arguments are opened then.
  <2>c. ASSUME Running', NEW m \in 0 .. N, ReadUpTo(m)' PROVE PrintedInv'
    BY <1>n, <1>s, <2>b, <2>c DEF PrintedInv, Running, PrintsAskedLines
  <2>r. /\ \A m \in 0 .. N : IsSequence(RestText(m))
        /\ RestText(N) = <<>>
        /\ k # N => RestText(k) = ArgumentText(k + 1) \o RestText(k + 1) /\ k + 1 \in 0 .. N
                    /\ IsSequence(ArgumentText(k + 1))
    <3>1. \A m \in 0 .. N : IsSequence(RestText(m)) /\ (m = N => RestText(m) = <<>>)
      BY <1>j, <1>n, RestFirst
    <3>2. N \in 0 .. N
      OBVIOUS
    <3>3. k # N => k + 1 \in 0 .. N /\ k + 1 \in 1 .. Len(FileArguments)
      BY <1>n
    <3>4. k # N => RestText(k) = ArgumentText(k + 1) \o RestText(k + 1)
      BY <1>j, <1>n, RestFirst
    <3>5. k # N => IsSequence(ArgumentText(k + 1))
      BY <1>j, <3>3, ArgumentSequence
    <3> QED BY <3>1, <3>2, <3>3, <3>4, <3>5
  <2>w. InWalk => /\ IsSequence(TreeText(entries))
                  /\ entries = <<>> => TreeText(entries) = <<>>
                  /\ entries # <<>> /\ Head(entries).kind = "unopened" => TreeText(entries) = <<>>
                  /\ entries # <<>> /\ Head(entries).kind # "unopened" =>
                        /\ IsSequence(TreeText(Tail(entries)))
                        /\ TreeText(entries) =
                              (IF Head(entries).kind = "file" THEN Head(entries).lines ELSE <<>>)
                              \o TreeText(Tail(entries))
    <3> SUFFICES ASSUME InWalk
                 PROVE  \A tree : /\ IsSequence(tree) /\ Range(tree) \subseteq Range(entries)
                                  => \A f \in Range(tree) : HoldsText(f)
      BY <1>t, HeadAndTail, TreeFirst DEF Typed
    <3>1. PICK i \in Directories : Range(entries) \subseteq Range(FileArguments[i].entries)
      BY <1>t DEF Remaining
    <3>2. FileArguments[i] \in Range(FileArguments) /\ FileArguments[i].kind = "directory"
      BY DEF Directories, Range
    <3> QED BY <1>j, <3>1, <3>2, GivenFiles DEF HoldsFiles
  <2>v. IsSequence(Behind(k)) /\ IsSequence(lines) /\ IsSequence(output)
    BY <1>t, <2>r, <2>w, ConcatSequence DEF Behind, Texts, IsText, Typed
  \* Nothing is printed, and as much is left to be printed.
  <2>d. ASSUME Running', UNCHANGED <<files, stdin, output>>, NEW u, u = Unread(k)', u = Unread(k)
        PROVE  PrintedInv'
    <3>1. ReadUpTo(k)'
      BY <1>j, <2>a, <2>k, <2>d, ReadOn
    <3> QED BY <2>c, <2>d, <3>1
  \* The next argument is taken.
  <2>e. ASSUME phase = "files", Running', output' = output, files # <<>>, files' = Tail(files),
               stdin' = IF Head(files).kind = "stdin" THEN <<>> ELSE stdin,
               NEW u, u = Unread(k + 1)',
               k + 1 \in 1 .. N /\ Head(files) = FileArguments[k + 1]
                 => u = ArgumentText(k + 1) \o RestText(k + 1)
        PROVE  PrintedInv'
    <3>1. Unread(k) = RestText(k)
      BY <2>e, UnreadIn DEF InWalk
    <3>2. k + 1 \in 1 .. N /\ Head(files) = FileArguments[k + 1] => u = Unread(k)
      BY <2>e, <2>r, <3>1
    <3>3. IsSequence(files)
      BY <1>t DEF Typed
    <3>4. k + 1 \in 0 .. N /\ ReadUpTo(k + 1)'
      BY <1>j, <1>n, <2>a, <2>k, <2>e, <3>2, <3>3, ReadNext
    <3> QED BY <2>c, <2>e, <3>4
  <2>1. CASE OpenFile
    <3>1. /\ phase = "files" /\ files # <<>> /\ Head(files).kind = "file" /\ files' = Tail(files)
          /\ phase' = "reading" /\ walking' = FALSE /\ lines' = Head(files).lines
          /\ stdin' = stdin /\ output' = output
      BY <2>1 DEF OpenFile, Open
    <3>2. Running' /\ ~InWalk'
      BY <3>1 DEF Running, InWalk
    <3>3. PICK u : u = Unread(k + 1)'
      OBVIOUS
    <3>4. u = lines' \o RestText(k + 1)
      BY <1>j, <3>1, <3>2, <3>3, UnreadNext
    <3>5. Head(files) = FileArguments[k + 1] => ArgumentText(k + 1) = lines'
      BY <3>1 DEF ArgumentText
    <3> QED BY <2>e, <3>1, <3>2, <3>3, <3>4, <3>5
  <2>2. CASE OpenStandardInput
    <3>1. /\ phase = "files" /\ files # <<>> /\ Head(files).kind = "stdin" /\ files' = Tail(files)
          /\ phase' = "reading" /\ walking' = FALSE /\ lines' = stdin
          /\ stdin' = <<>> /\ output' = output
      BY <2>2 DEF OpenStandardInput, Open
    <3>2. Running' /\ ~InWalk'
      BY <3>1 DEF Running, InWalk
    <3>3. PICK u : u = Unread(k + 1)'
      OBVIOUS
    <3>4. u = lines' \o RestText(k + 1)
      BY <1>j, <3>1, <3>2, <3>3, UnreadNext
    <3>5. stdin = IF \E i \in 1 .. k : FileArguments[i].kind = "stdin" THEN <<>> ELSE job.stdin
      BY <2>k DEF ReadUpTo
    <3>6. (k + 1) - 1 = k
      BY <1>n
    <3>7. Head(files) = FileArguments[k + 1] => ArgumentText(k + 1) = lines'
      BY <3>1, <3>5, <3>6 DEF ArgumentText
    <3> QED BY <2>e, <3>1, <3>2, <3>3, <3>4, <3>7
  <2>3. CASE OpenDirectory
    <3>1. /\ phase = "files" /\ files # <<>> /\ Head(files).kind = "directory" /\ Recursive
          /\ files' = Tail(files) /\ phase' = "walking" /\ entries' = Head(files).entries
          /\ stdin' = stdin /\ output' = output
      BY <2>3 DEF OpenDirectory
    <3>2. Running' /\ InWalk'
      BY <3>1 DEF Running, InWalk
    <3>3. PICK u : u = Unread(k + 1)'
      OBVIOUS
    <3>4. u = TreeText(entries') \o RestText(k + 1)
      BY <1>j, <3>1, <3>2, <3>3, UnreadNext
    <3>5. Head(files) = FileArguments[k + 1] => ArgumentText(k + 1) = TreeText(entries')
      BY <3>1 DEF ArgumentText
    <3> QED BY <2>e, <3>1, <3>2, <3>3, <3>4, <3>5
  <2>4. CASE PassOver
    <3>1. /\ phase = "files" /\ files # <<>> /\ files' = Tail(files) /\ phase' = "files"
          /\ \/ Head(files).kind \notin {"file", "stdin", "directory"}
             \/ Head(files).kind = "directory" /\ ~Recursive
          /\ stdin' = stdin /\ output' = output
      BY <2>4 DEF PassOver
    <3>2. Running' /\ ~InWalk'
      BY <3>1 DEF Running, InWalk
    <3>3. PICK u : u = Unread(k + 1)'
      OBVIOUS
    <3>4. u = RestText(k + 1)
      BY <1>j, <3>1, <3>2, <3>3, UnreadNext
    <3>5. Head(files) = FileArguments[k + 1] => ArgumentText(k + 1) = <<>>
      BY <3>1 DEF ArgumentText
    <3>6. ASSUME k + 1 \in 1 .. N PROVE <<>> \o RestText(k + 1) = RestText(k + 1)
      <4>1. IsSequence(RestText(k + 1))
        BY <1>n, <2>r, <3>6
      <4> QED BY <4>1, WithEmpty
    <3>7. stdin' = IF Head(files).kind = "stdin" THEN <<>> ELSE stdin
      BY <3>1
    <3> QED BY <2>e, <3>1, <3>2, <3>3, <3>4, <3>5, <3>6, <3>7
  <2>5. CASE Finish
    <3>1. /\ phase = "files" /\ files = <<>> /\ phase' = "exited" /\ output' = output
      BY <2>5 DEF Finish, Exit
    <3>2. k = N
      BY <1>n, <2>k, <3>1 DEF ReadUpTo
    <3>3. Unread(k) = <<>>
      BY <2>r, <3>1, <3>2, UnreadIn DEF InWalk
    <3>4. AskedOf(Unread(k)) = <<>>
      BY <3>3, EmptySequence, AskedFirst
    <3>5. output = AskedOf(LinesRead)
      BY <2>k, <2>v, <3>4, WithEmpty DEF ReadUpTo
    <3>6. output' = AskedOf(LinesRead)'
      BY <1>j, <1>s, <2>a, <3>1, <3>5, SameAsked
    <3> QED BY <2>b, <3>1, <3>6 DEF PrintedInv, Running, PrintsAskedLines
  <2>6. CASE WalkFile
    <3>1. /\ phase = "walking" /\ entries # <<>> /\ Head(entries).kind = "file"
          /\ lines' = Head(entries).lines /\ entries' = Tail(entries)
          /\ phase' = "reading" /\ walking' = TRUE /\ UNCHANGED <<files, stdin, output>>
      BY <2>6 DEF WalkFile, Open
    <3>2. Running' /\ InWalk /\ InWalk'
      BY <3>1 DEF Running, InWalk
    <3>3. PICK u : u = Unread(k)'
      OBVIOUS
    <3>4. u = lines' \o (TreeText(entries') \o RestText(k))
      BY <1>j, <3>1, <3>2, <3>3, UnreadNext
    <3>5. Unread(k) = TreeText(entries) \o RestText(k)
      BY <3>1, <3>2, UnreadIn
    <3>6. TreeText(entries) = lines' \o TreeText(entries') /\ IsSequence(TreeText(entries'))
      BY <2>w, <3>1, <3>2
    <3>7. IsSequence(lines')
      <4>1. Texts'
        BY TextsStep DEF SearchInv
      <4> QED BY <4>1 DEF Texts, IsText
    <3>8. IsSequence(RestText(k))
      BY <2>r
    <3>9. (lines' \o TreeText(entries')) \o RestText(k) = lines' \o (TreeText(entries') \o RestText(k))
      BY <3>6, <3>7, <3>8, Associative
    <3> QED BY <2>d, <3>1, <3>2, <3>3, <3>4, <3>5, <3>6, <3>9
  <2>7. CASE WalkPast
    <3>1. /\ phase = "walking" /\ entries # <<>> /\ Head(entries).kind \in {"binary", "special"}
          /\ entries' = Tail(entries) /\ phase' = "walking" /\ UNCHANGED <<files, stdin, output>>
      BY <2>7 DEF WalkPast
    <3>2. Running' /\ InWalk /\ InWalk'
      BY <3>1 DEF Running, InWalk
    <3>3. PICK u : u = Unread(k)'
      OBVIOUS
    <3>4. u = TreeText(entries') \o RestText(k)
      BY <1>j, <3>1, <3>2, <3>3, UnreadNext
    <3>5. Unread(k) = TreeText(entries) \o RestText(k)
      BY <3>1, <3>2, UnreadIn
    <3>6. TreeText(entries) = <<>> \o TreeText(entries') /\ IsSequence(TreeText(entries'))
      BY <2>w, <3>1, <3>2
    <3>7. <<>> \o TreeText(entries') = TreeText(entries')
      BY <3>6, WithEmpty
    <3> QED BY <2>d, <3>1, <3>2, <3>3, <3>4, <3>5, <3>6, <3>7
  <2>8. CASE WalkFails \/ WalkEnds
    <3>1. /\ phase = "walking" /\ phase' = "files" /\ UNCHANGED <<files, stdin, output>>
          /\ entries = <<>> \/ (entries # <<>> /\ Head(entries).kind = "unopened")
      BY <2>8 DEF WalkFails, WalkEnds, fileVars
    <3>2. Running' /\ InWalk /\ ~InWalk'
      BY <3>1 DEF Running, InWalk
    <3>3. PICK u : u = Unread(k)'
      OBVIOUS
    <3>4. u = RestText(k)
      BY <1>j, <3>1, <3>2, <3>3, UnreadNext
    <3>5. Unread(k) = TreeText(entries) \o RestText(k)
      BY <3>1, <3>2, UnreadIn
    <3>6. TreeText(entries) = <<>>
      BY <2>w, <3>1, <3>2
    <3>7. <<>> \o RestText(k) = RestText(k)
      BY <2>r, WithEmpty
    <3> QED BY <2>d, <3>1, <3>2, <3>3, <3>4, <3>5, <3>6, <3>7
  \* What is behind the open file stays there.
  <2>o. ASSUME phase \in {"reading", "searching"}, phase' \in {"reading", "searching"},
               UNCHANGED <<entries, walking>>
        PROVE  Behind(k)' = Behind(k)
    BY <1>j, <1>s, <2>o, UnreadIn, UnreadNext DEF InWalk
  <2>h. phase = "reading" /\ lines # <<>> => /\ lines = <<Head(lines)>> \o Tail(lines)
                                             /\ IsSequence(<<Head(lines)>>) /\ IsSequence(Tail(lines))
    BY <2>v, HeadFirst, HeadAndTail, SingletonSequence
  <2>p. phase = "reading" /\ lines # <<>> =>
          /\ IsSequence(Tail(lines) \o Behind(k))
          /\ Unread(k) = <<Head(lines)>> \o (Tail(lines) \o Behind(k))
    <3> SUFFICES ASSUME phase = "reading", lines # <<>>
                 PROVE  /\ IsSequence(Tail(lines) \o Behind(k))
                        /\ Unread(k) = <<Head(lines)>> \o (Tail(lines) \o Behind(k))
      OBVIOUS
    <3>1. (<<Head(lines)>> \o Tail(lines)) \o Behind(k) = <<Head(lines)>> \o (Tail(lines) \o Behind(k))
      BY <2>h, <2>v, Associative
    <3>2. Unread(k) = lines \o Behind(k)
      BY UnreadIn
    <3>3. IsSequence(Tail(lines) \o Behind(k))
      BY <2>h, <2>v, ConcatSequence
    <3> QED BY <2>h, <3>1, <3>2, <3>3
  <2>9. CASE SearchLine
    <3>1. /\ phase = "reading" /\ lines # <<>> /\ original' = Head(lines) /\ lines' = Tail(lines)
          /\ phase' = "searching" /\ UNCHANGED <<entries, walking, files, stdin, output>>
      BY <2>9 DEF SearchLine
    <3>2. Running' /\ Behind(k)' = Behind(k)
      BY <2>o, <3>1 DEF Running
    <3>3. PICK u : u = Unread(k)'
      OBVIOUS
    <3>4. u = <<original'>> \o (lines' \o Behind(k))
      BY <1>j, <3>1, <3>2, <3>3, UnreadNext
    <3> QED BY <2>d, <2>p, <3>1, <3>2, <3>3, <3>4
  <2>10. CASE SkipLine
    <3>1. /\ phase = "reading" /\ lines # <<>> /\ ~Decodes(Head(lines)) /\ lines' = Tail(lines)
          /\ phase' = "reading" /\ UNCHANGED <<entries, walking, files, stdin, output>>
      BY <2>10 DEF SkipLine
    <3>2. Running' /\ Behind(k)' = Behind(k)
      BY <2>o, <3>1 DEF Running
    <3>3. PICK u : u = Unread(k)'
      OBVIOUS
    <3>4. u = lines' \o Behind(k)
      BY <1>j, <3>1, <3>2, <3>3, UnreadNext
    <3>5. AskedOf(Unread(k)) = <<>> \o AskedOf(u)
      BY <2>p, <3>1, <3>4, AskedLine DEF AskedFor
    <3>6. AskedOf(Unread(k)) = AskedOf(u)
      <4>1. IsSequence(AskedOf(u))
        BY <2>p, <3>1, <3>4, AskedSequence
      <4> QED BY <3>5, <4>1, WithEmpty
    <3>7. ReadUpTo(k)'
      BY <1>j, <2>a, <2>k, <3>1, <3>3, <3>6, ReadOn
    <3> QED BY <2>c, <3>2, <3>7
  <2>11. CASE LineSearched
    <3>1. /\ phase = "searching" /\ search = "ended"
          /\ output' = IF Selected THEN Append(output, original) ELSE output
          /\ phase' = "reading" /\ UNCHANGED <<lines, entries, walking, files, stdin>>
      BY <2>11 DEF LineSearched
    <3>2. Running' /\ Behind(k)' = Behind(k)
      BY <2>o, <3>1 DEF Running
    <3>3. PICK u : u = Unread(k)'
      OBVIOUS
    <3>4. u = lines \o Behind(k) /\ IsSequence(u)
      BY <1>j, <2>v, <3>1, <3>2, <3>3, UnreadNext, ConcatSequence
    <3>5. Unread(k) = <<original>> \o u
      BY <3>1, <3>4, UnreadIn
    <3>6. PICK r : r = IF AskedFor(original) THEN <<original>> ELSE <<>>
      OBVIOUS
    <3>7. AskedOf(Unread(k)) = r \o AskedOf(u)
      BY <3>4, <3>5, <3>6, AskedLine
    <3>8. output' = output \o r
      <4>1. Selected <=> AskedFor(original)
        BY <3>1, SelectedIsAskedFor
      <4>2. output \o <<>> = output
        BY <2>v, WithEmpty
      <4>3. Append(output, original) = output \o <<original>>
        <5>1. output \in Seq(Range(output) \cup {original}) /\ original \in Range(output) \cup {original}
          <6>1. output \in Seq(Range(output)) /\ Range(output) \subseteq Range(output) \cup {original}
            BY <2>v DEF IsSequence
          <6> QED BY <6>1, SeqMonotonic
        <5> QED BY <5>1, AppendIsConcat
      <4> QED BY <3>1, <3>6, <4>1, <4>2, <4>3
    <3>9. (output \o r) \o AskedOf(u) = output \o (r \o AskedOf(u))
      <4>1. IsSequence(r) /\ IsSequence(AskedOf(u)) /\ IsSequence(output)
        BY <2>v, <3>4, <3>6, AskedSequence, SingletonSequence, EmptySequence
      <4> QED BY <4>1, Associative
    <3>10. output' \o AskedOf(u) = output \o AskedOf(Unread(k))
      BY <3>7, <3>8, <3>9
    <3>11. ReadUpTo(k)'
      BY <1>j, <2>a, <2>k, <3>1, <3>3, <3>10, ReadOn
    <3> QED BY <2>c, <3>2, <3>11
  <2>12. CASE CloseFile
    <3>1. /\ phase = "reading" /\ lines = <<>> /\ phase' = IF walking THEN "walking" ELSE "files"
          /\ UNCHANGED <<entries, walking, files, stdin, output>>
      BY <2>12 DEF CloseFile, fileVars
    <3>2. Running' /\ (InWalk' <=> InWalk)
      BY <3>1 DEF Running, InWalk
    <3>3. PICK u : u = Unread(k)'
      OBVIOUS
    <3>4. u = Behind(k)
      BY <1>j, <3>1, <3>2, <3>3, UnreadIn, UnreadNext
    <3>5. Unread(k) = <<>> \o Behind(k)
      BY <3>1, UnreadIn
    <3>6. <<>> \o Behind(k) = Behind(k)
      BY <2>v, WithEmpty
    <3> QED BY <2>d, <3>1, <3>2, <3>3, <3>4, <3>5, <3>6
  <2>13. CASE Search \/ UNCHANGED vars
    <3>1. UNCHANGED <<phase, lines, original, entries, walking, files, stdin, output>>
      BY <2>13 DEF Search, fileVars, vars
    <3>2. Running'
      BY <1>4, <3>1 DEF Running
    <3>3. PICK u : u = Unread(k)'
      OBVIOUS
    <3>4. u = Unread(k)
      BY <1>s, <3>1, <3>3 DEF Unread, Behind, InWalk
    <3> QED BY <2>d, <3>1, <3>2, <3>3, <3>4
  <2>14. CASE Abort
    <3>1. phase' = "exited" /\ exit' = "abort"
      BY <2>14 DEF Abort, Exit
    <3> QED BY <3>1 DEF PrintedInv, Running, PrintsAskedLines
  <2>15. ~RefuseArguments /\ ~RefusePattern
    BY <2>a DEF RefuseArguments, RefusePattern
  <2> QED BY <1>4, <2>1, <2>2, <2>3, <2>4, <2>5, <2>6, <2>7, <2>8, <2>9, <2>10, <2>11, <2>12,
             <2>13, <2>14, <2>15 DEF Next
<1>5. CASE phase = "arguments" /\ UNCHANGED vars
  <2>1. phase = "arguments" /\ phase' = phase /\ stdin' = stdin
    BY <1>5 DEF vars, fileVars
  <2>2. stdin' = job'.stdin
    BY <1>j, <2>1 DEF PrintedInv
  <2>3. ~Running' /\ PrintsAskedLines'
    BY <2>1 DEF Running, PrintsAskedLines
  <2> QED BY <2>2, <2>3 DEF PrintedInv
<1>6. phase = "arguments" \/ phase = "exited" \/ Running
  BY <1>t DEF Typed, Running
<1>7. phase = "arguments" => RefuseArguments \/ RefusePattern \/ Compile \/ UNCHANGED vars
  BY DEF Next, OpenFile, OpenStandardInput, OpenDirectory, PassOver, Finish, WalkFile, WalkPast,
     WalkFails, WalkEnds, SearchLine, SkipLine, CloseFile, Search, LineSearched, Abort
<1>8. Running => PrintedInv'
  BY <1>3, <1>4
<1>9. phase = "arguments" => PrintedInv'
  BY <1>2, <1>3, <1>5, <1>7
<1> QED BY <1>1, <1>6, <1>8, <1>9

LEMMA PrintedInit == Init => PrintedInv
  BY DEF Init, PrintedInv, Running, PrintsAskedLines

\* A process that ends by itself has printed the lines of its files that the automaton of
\* the pattern accepts, with -v those that it does not accept, in their order and as they
\* are in the files, whatever the files, the lines and the pattern are: none is left out,
\* none is printed twice (grep.cpp:272-328, where the case of a copy is changed, and
\* 435-517).  A line that is no UTF-8 is not among them, and nothing behind a file of a
\* directory that does not open.
THEOREM PrintsAcceptedLines == Spec => []PrintsAskedLines
<1>1. Init => SearchInv /\ PrintedInv
  BY SearchInvInit, PrintedInit
<1>2. SearchInv /\ PrintedInv /\ [Next]_vars => (SearchInv /\ PrintedInv)'
  BY SearchInvStep, PrintedStep
<1>3. PrintedInv => PrintsAskedLines
  BY DEF PrintedInv
<1> QED BY <1>1, <1>2, <1>3, PTL DEF Spec

--------------------------------------------------------------------------------
LEMMA InDigits ==
    ASSUME NEW n \in Nat
    PROVE  n = High(n) * 64 + Low(n) /\ Low(n) \in 0 .. 63 /\ High(n) \in Nat
BY SMT DEF High, Low

\* A byte that continues a sequence carries one digit.
LEMMA Continuation ==
    ASSUME NEW d \in 0 .. 63
    PROVE  Continues(128 + d) /\ Low(128 + d) = d
BY SMT DEF Continues, Low

\* The first byte of a sequence tells its length and carries the first digit.
LEMMA FirstByte ==
    ASSUME NEW h \in Nat
    PROVE  /\ h < 128 => Units(h) = 1
           /\ h < 32 => Units(192 + h) = 2 /\ (192 + h) % 32 = h
           /\ h < 16 => Units(224 + h) = 3 /\ (224 + h) % 16 = h
           /\ h < 8 => Units(240 + h) = 4 /\ (240 + h) % 8 = h
<1>1. h < 128 => Units(h) = 1
  BY SMT DEF Units
<1>2. h < 32 => Units(192 + h) = 2
  BY SMT DEF Units
<1>3. h < 16 => Units(224 + h) = 3
  BY SMT DEF Units
<1>4. h < 8 => Units(240 + h) = 4
  BY SMT DEF Units
<1>5. /\ h < 32 => (192 + h) % 32 = h
      /\ h < 16 => (224 + h) % 16 = h
      /\ h < 8 => (240 + h) % 8 = h
  BY SMT
<1> QED BY <1>1, <1>2, <1>3, <1>4, <1>5

\* The code point of every valid sequence of bytes is decoded, whatever bytes follow,
\* and exactly the bytes of the sequence are consumed, for every code point of at most
\* 21 bits: a line of well-formed UTF-8 is never skipped and never mistaken for another
\* one (grep.cpp:18-99).
THEOREM DecodesWhatIsEncoded ==
    ASSUME NEW code \in Nat, High(High(High(code))) < 8,
           NEW rest \in Seq(0 .. 255)
    PROVE  DecodeOne(Utf8Bytes(code) \o rest)
               = [ok |-> TRUE, length |-> Len(Utf8Bytes(code)), code |-> code]
<1> DEFINE d0 == Low(code)
           h2 == High(code)
           d1 == Low(h2)
           h3 == High(h2)
           d2 == Low(h3)
           h4 == High(h3)
           s  == Utf8Bytes(code) \o rest
<1>1. /\ code = h2 * 64 + d0 /\ d0 \in 0 .. 63 /\ h2 \in Nat
      /\ h2 = h3 * 64 + d1 /\ d1 \in 0 .. 63 /\ h3 \in Nat
      /\ h3 = h4 * 64 + d2 /\ d2 \in 0 .. 63 /\ h4 \in Nat /\ h4 < 8
  <2>1. code = h2 * 64 + d0 /\ d0 \in 0 .. 63 /\ h2 \in Nat
    BY InDigits
  <2>2. h2 = h3 * 64 + d1 /\ d1 \in 0 .. 63 /\ h3 \in Nat
    BY <2>1, InDigits
  <2>3. h3 = h4 * 64 + d2 /\ d2 \in 0 .. 63 /\ h4 \in Nat
    BY <2>2, InDigits
  <2> QED BY <2>1, <2>2, <2>3
<1> HIDE DEF d0, d1, d2, h2, h3, h4
<1>2. /\ code < 128 => Utf8Bytes(code) = <<code>>
      /\ ~(code < 128) /\ h2 < 32 => Utf8Bytes(code) = <<192 + h2, 128 + d0>>
      /\ ~(code < 128) /\ ~(h2 < 32) /\ h3 < 16
            => Utf8Bytes(code) = <<224 + h3, 128 + d1, 128 + d0>>
      /\ ~(code < 128) /\ ~(h2 < 32) /\ ~(h3 < 16)
            => Utf8Bytes(code) = <<240 + h4, 128 + d2, 128 + d1, 128 + d0>>
  BY Zenon DEF Utf8Bytes, d0, d1, d2, h2, h3, h4
<1>3. /\ Continues(128 + d0) /\ Low(128 + d0) = d0
      /\ Continues(128 + d1) /\ Low(128 + d1) = d1
      /\ Continues(128 + d2) /\ Low(128 + d2) = d2
  BY <1>1, Continuation
<1>4. CASE code < 128
  <2>1. Utf8Bytes(code) = <<code>>
    BY <1>2, <1>4
  <2>2. /\ Len(s) >= 1 /\ Len(s) \in Nat /\ Len(Utf8Bytes(code)) = 1
        /\ s[1] = code
    BY <2>1, SMT
  <2> HIDE DEF s
  <2>3. Units(s[1]) = 1
    BY <1>4, <2>2, FirstByte, SMT
  <2>4. Whole(s)
    BY <2>2, <2>3, SMT DEF Whole
  <2>5. CodePoint(s) = code
    BY <2>2, <2>3, SMT DEF CodePoint
  <2> QED BY <2>2, <2>3, <2>4, <2>5 DEF DecodeOne, s
<1>5. CASE ~(code < 128) /\ h2 < 32
  <2>1. Utf8Bytes(code) = <<192 + h2, 128 + d0>>
    BY <1>2, <1>5
  <2>2. /\ Len(s) >= 2 /\ Len(s) \in Nat /\ Len(Utf8Bytes(code)) = 2
        /\ s[1] = 192 + h2 /\ s[2] = 128 + d0
    BY <2>1, <1>1, SMT
  <2> HIDE DEF s
  <2>3. Units(s[1]) = 2 /\ s[1] % 32 = h2
    <3>1. Units(192 + h2) = 2 /\ (192 + h2) % 32 = h2
      <4>1. h2 \in Nat /\ h2 < 32
        BY <1>1, <1>5
      <4> QED BY <4>1, FirstByte, Zenon
    <3> QED BY <2>2, <3>1, Zenon
  <2>4. Whole(s)
    BY <1>3, <2>2, <2>3, SMT DEF Whole
  <2>5. CodePoint(s) = h2 * 64 + d0
    BY <1>3, <2>2, <2>3, SMT DEF CodePoint
  <2>6. CodePoint(s) = code
    BY <1>1, <2>5
  <2> QED BY <2>2, <2>3, <2>4, <2>6 DEF DecodeOne, s
<1>6. CASE ~(code < 128) /\ ~(h2 < 32) /\ h3 < 16
  <2>1. Utf8Bytes(code) = <<224 + h3, 128 + d1, 128 + d0>>
    BY <1>2, <1>6
  <2>2. /\ Len(s) >= 3 /\ Len(s) \in Nat /\ Len(Utf8Bytes(code)) = 3
        /\ s[1] = 224 + h3 /\ s[2] = 128 + d1 /\ s[3] = 128 + d0
    BY <2>1, <1>1, SMT
  <2> HIDE DEF s
  <2>3. Units(s[1]) = 3 /\ s[1] % 16 = h3
    <3>1. Units(224 + h3) = 3 /\ (224 + h3) % 16 = h3
      <4>1. h3 \in Nat /\ h3 < 16
        BY <1>1, <1>6
      <4> QED BY <4>1, FirstByte, Zenon
    <3> QED BY <2>2, <3>1, Zenon
  <2>4. Whole(s)
    BY <1>3, <2>2, <2>3, SMT DEF Whole
  <2>5. CodePoint(s) = (h3 * 64 + d1) * 64 + d0
    BY <1>3, <2>2, <2>3, SMT DEF CodePoint
  <2>6. CodePoint(s) = code
    BY <1>1, <2>5
  <2> QED BY <2>2, <2>3, <2>4, <2>6 DEF DecodeOne, s
<1>7. CASE ~(code < 128) /\ ~(h2 < 32) /\ ~(h3 < 16)
  <2>1. Utf8Bytes(code) = <<240 + h4, 128 + d2, 128 + d1, 128 + d0>>
    BY <1>2, <1>7
  <2>2. /\ Len(s) >= 4 /\ Len(s) \in Nat /\ Len(Utf8Bytes(code)) = 4
        /\ s[1] = 240 + h4 /\ s[2] = 128 + d2 /\ s[3] = 128 + d1 /\ s[4] = 128 + d0
    BY <2>1, <1>1, SMT
  <2> HIDE DEF s
  <2>3. Units(s[1]) = 4 /\ s[1] % 8 = h4
    <3>1. Units(240 + h4) = 4 /\ (240 + h4) % 8 = h4
      <4>1. h4 \in Nat /\ h4 < 8
        BY <1>1
      <4> QED BY <4>1, FirstByte, Zenon
    <3> QED BY <2>2, <3>1, Zenon
  <2>4. Whole(s)
    BY <1>3, <2>2, <2>3, SMT DEF Whole
  <2>5. CodePoint(s) = ((h4 * 64 + d2) * 64 + d1) * 64 + d0
    BY <1>3, <2>2, <2>3, SMT DEF CodePoint
  <2>6. CodePoint(s) = code
    BY <1>1, <2>5
  <2> QED BY <2>2, <2>3, <2>4, <2>6 DEF DecodeOne, s
<1> QED BY <1>4, <1>5, <1>6, <1>7

================================================================================
