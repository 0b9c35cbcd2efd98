----------------------------- MODULE RedisSnapshot -----------------------------
(***************************************************************************)
(* SAVE and the load at start-up (DictionaryManager.cpp save and load,     *)
(* RdbManager.cpp).  SAVE copies the map under the shared lock and writes  *)
(* the copy with no lock held: other clients go on changing the            *)
(* dictionary, lists are shared with the copy, and SAVEs of two clients    *)
(* write the same file.  The process may be killed at any point; what a    *)
(* stream has not flushed by then is lost.                                 *)
(*                                                                         *)
(* What is stored is told apart by its kind, its size, and the change that *)
(* made it.  Expiry timestamps travel with their entries and are left out. *)
(***************************************************************************)
EXTENDS FiniteSets, RdbLength, SequencesExt

CONSTANTS Keys,
          Savers,      \* connections that may have a SAVE under way
          Sizes,       \* lengths of the strings that clients store
          MaxChanges,  \* bound: changes of the dictionary by clients
          MaxRestarts  \* bound: times the process is killed and started again

\* Sizes are those that write_length stores: up to 2^32 - 1.
ASSUME SnapshotBounds ==
    /\ Sizes \subseteq {n \in Nat : n \div 65536 <= 65535}
    /\ MaxChanges \in 0 .. 63 /\ MaxRestarts \in Nat
    /\ IsFiniteSet(Keys) /\ Cardinality(Keys) <= 63

VARIABLES
    dictionary,  \* m_dictionary: a function on the keys that it holds
    changes,     \* number of changes so far
    save,        \* what each SAVE has done
    file,        \* dump.rdb
    promised,    \* history: what the last SAVE answered with OK had copied
    restarts     \* number of restarts so far

vars == <<dictionary, changes, save, file, promised, restarts>>

\* A RespString, a RespArray, or the RespInt that INCR stores under an expired key.
SizesRead == {ReadLength(WriteLength(n)) : n \in Sizes}

Entries ==
    [kind : {"string"}, size : Sizes \cup SizesRead, made : 0 .. MaxChanges] \cup
    [kind : {"list"}, size : Nat \ {0}, made : 1 .. MaxChanges] \cup
    [kind : {"number"}, size : {0}, made : 1 .. MaxChanges]

Contents == UNION {[held -> Entries] : held \in SUBSET Keys}

\* The contents with one entry more, or another entry for a key.
With(contents, k, e) ==
    [l \in DOMAIN contents \cup {k} |-> IF l = k THEN e ELSE contents[l]]

\* The file as a sequence of blocks: the preamble with the number of entries, a block
\* for each entry, and the end mark.  A torn block lacks some of its bytes, or holds
\* what a list being changed happened to give.
Preamble(count) == [what |-> "preamble", count |-> count]
Stored(c)       == [what |-> "entry", key |-> c.key, entry |-> c.entry]
EndMark         == [what |-> "end"]
Torn            == [what |-> "torn"]

\* mixed: several streams have written to the file at places of their own.
NoFile      == [exists |-> FALSE, mixed |-> FALSE, blocks |-> <<>>]
File(m, b)  == [exists |-> TRUE, mixed |-> m, blocks |-> b]

\* copied: the entries still to be written, in the order of the map's iteration;
\* copy: history, all of them as they were under the lock; lengthWritten: the size of
\* the list that is being written.
Idle == [at |-> "idle"]
Active(at, copied, copy) ==
    [at |-> at, copied |-> copied, copy |-> copy, lengthWritten |-> 0]

Nothing == [k \in {} |-> {}]

Open == {s \in Savers : save[s].at = "writing"}

Unknown == [known |-> FALSE, copy |-> Nothing]

Pairs  == [key : Keys, entry : Entries]
Blocks == [what : {"preamble"}, count : Nat] \cup
          [what : {"entry"}, key : Keys, entry : Entries] \cup {EndMark, Torn}

TypeOK ==
    /\ dictionary \in Contents
    /\ changes \in 0 .. MaxChanges
    /\ save \in [Savers -> {Idle} \cup [at : {"copied", "writing"}, copied : Seq(Pairs),
                                       copy : Contents, lengthWritten : Nat]]
    /\ file \in [exists : BOOLEAN, mixed : BOOLEAN, blocks : Seq(Blocks)]
    /\ promised \in [known : BOOLEAN, copy : Contents]
    /\ restarts \in 0 .. MaxRestarts

Init ==
    /\ dictionary = Nothing
    /\ changes = 0
    /\ save = [s \in Savers |-> Idle]
    /\ file = NoFile
    /\ promised = Unknown
    /\ restarts = 0

--------------------------------------------------------------------------------
\* What clients do to the dictionary meanwhile.
Change(contents) ==
    /\ changes < MaxChanges
    /\ changes' = changes + 1
    /\ dictionary' = contents
    /\ UNCHANGED <<file, promised, restarts>>

\* Mutant: the value is assigned through the pointer that a copy shares.
SetInPlace(k) ==
    \E size \in Sizes :
       LET new == [kind |-> "string", size |-> size, made |-> changes + 1]
           Assigned(copied) ==
              [i \in DOMAIN copied |-> IF copied[i].key = k THEN [copied[i] EXCEPT !.entry = new]
                                      ELSE copied[i]]
       IN  /\ Change(With(dictionary, k, new))
           /\ save' = [s \in Savers |-> IF save[s] = Idle THEN Idle
                                        ELSE [save[s] EXCEPT !.copied = Assigned(@)]]

\* set replaces the entry: a copy keeps the old one.
Set(k) ==
    /\ \E size \in Sizes :
          Change(With(dictionary, k, [kind |-> "string", size |-> size, made |-> changes + 1]))
    /\ UNCHANGED save

\* increment or decrement of a key whose time has passed.
SetExpiredToOne(k) ==
    /\ k \in DOMAIN dictionary
    /\ Change(With(dictionary, k, [kind |-> "number", size |-> 0, made |-> changes + 1]))
    /\ UNCHANGED save

Del(k) ==
    /\ k \in DOMAIN dictionary
    /\ Change([l \in DOMAIN dictionary \ {k} |-> dictionary[l]])
    /\ UNCHANGED save

\* push_front, push_back: a list is changed in place, in the copies that share it too.
PushNew(k) ==
    /\ k \notin DOMAIN dictionary
    /\ Change(With(dictionary, k, [kind |-> "list", size |-> 1, made |-> changes + 1]))
    /\ UNCHANGED save

Push(k) ==
    /\ k \in DOMAIN dictionary /\ dictionary[k].kind = "list"
    /\ LET Longer(e) == IF e = dictionary[k] THEN [e EXCEPT !.size = @ + 1] ELSE e
           Shared(copied) == [i \in DOMAIN copied |-> [copied[i] EXCEPT !.entry = Longer(@)]]
       IN  /\ Change([dictionary EXCEPT ![k] = Longer(@)])
           /\ save' = [s \in Savers |-> IF save[s] = Idle THEN Idle
                                        ELSE [save[s] EXCEPT !.copied = Shared(@)]]

--------------------------------------------------------------------------------
\* DictionaryManager::save: the copy, under the shared lock.
SaveCopies(s) ==
    /\ save[s] = Idle
    /\ \E order \in SetToSeqs(DOMAIN dictionary) :
          save' = [save EXCEPT ![s] =
              Active("copied",
                     [i \in DOMAIN order |-> [key |-> order[i], entry |-> dictionary[order[i]]]],
                     dictionary)]
    /\ UNCHANGED <<dictionary, changes, file, promised, restarts>>

\* RdbManager::save: the file is emptied when it is opened, and begins anew.
SaveOpens(s) ==
    /\ save[s].at = "copied"
    /\ save' = [save EXCEPT ![s].at = "writing"]
    /\ file' = File(Open # {}, <<Preamble(Len(save[s].copied))>>)
    /\ promised' = Unknown
    /\ UNCHANGED <<dictionary, changes, restarts>>

\* The file cannot be opened: SAVE_FAILED.
SaveFails(s) ==
    /\ save[s].at = "copied"
    /\ save' = [save EXCEPT ![s] = Idle]
    /\ UNCHANGED <<dictionary, changes, file, promised, restarts>>

\* Once two streams write to it, the blocks of the file are not followed.
Writes(blocks) == file' = File(file.mixed, IF file.mixed THEN <<>> ELSE file.blocks \o blocks)

\* The next entry is a list: its size goes first.
SaveWritesLength(s) ==
    /\ save[s].at = "writing" /\ save[s].copied # <<>> /\ save[s].lengthWritten = 0
    /\ Head(save[s].copied).entry.kind = "list"
    /\ save' = [save EXCEPT ![s].lengthWritten = Head(save[s].copied).entry.size]
    /\ UNCHANGED <<dictionary, changes, file, promised, restarts>>

\* The record of an entry: none for a number; for a list, its elements as they are by
\* now, behind the size that was written before.
Record(c, lengthWritten) ==
    IF c.entry.kind = "number" THEN <<>>
    ELSE IF c.entry.kind = "list" /\ c.entry.size # lengthWritten THEN <<Torn>>
    ELSE <<Stored(c)>>

SaveWrites(s) ==
    /\ save[s].at = "writing" /\ save[s].copied # <<>>
    /\ Head(save[s].copied).entry.kind = "list" => save[s].lengthWritten # 0
    /\ Writes(Record(Head(save[s].copied), save[s].lengthWritten))
    /\ save' = [save EXCEPT ![s].copied = Tail(@), ![s].lengthWritten = 0]
    /\ UNCHANGED <<dictionary, changes, promised, restarts>>

\* The stream is closed, and SAVE answers OK.
SaveEnds(s) ==
    /\ save[s].at = "writing" /\ save[s].copied = <<>>
    /\ Writes(<<EndMark>>)
    /\ promised' = IF file.mixed THEN Unknown ELSE [known |-> TRUE, copy |-> save[s].copy]
    /\ save' = [save EXCEPT ![s] = Idle]
    /\ UNCHANGED <<dictionary, changes, restarts>>

--------------------------------------------------------------------------------
\* What is left of the file when the process is killed: a stream that is open may
\* have flushed any part of what was written to it.
Left ==
    IF Open = {} \/ file.mixed THEN {file}
    ELSE LET whole == {SubSeq(file.blocks, 1, n) : n \in 0 .. Len(file.blocks)}
         IN  {File(FALSE, blocks) : blocks \in whole \cup {Append(b, Torn) : b \in whole}}

AsRead(e) == IF e.kind = "string" THEN [e EXCEPT !.size = ReadLength(WriteLength(@))] ELSE e

\* The first n entries of the file.
FirstRead(blocks, n) ==
    LET places == 2 .. n + 1
    IN  [k \in {blocks[i].key : i \in places} |->
            AsRead(blocks[CHOOSE i \in places : blocks[i].key = k].entry)]

\* Past the bytes it can follow, load acts on variables that were never assigned: it
\* gives up, or makes up entries.
Undefined(contents) ==
    {Nothing} \cup
    UNION {{[k \in held \cup DOMAIN contents |-> IF k \in held THEN made[k] ELSE contents[k]] :
               made \in [held -> [kind : {"string"}, size : Sizes, made : {0}]]} :
              held \in SUBSET Keys}

\* Mutant: load leaves the loop at a byte that is no type, with what it has so far.
LoadsPart(f) ==
    LET Entry(i) == i + 1 <= Len(f.blocks) /\ f.blocks[i + 1].what = "entry"
        Same(i)  == Entry(i) /\ AsRead(f.blocks[i + 1].entry) = f.blocks[i + 1].entry
    IN  IF ~f.exists THEN {Nothing}
        ELSE IF f.mixed \/ f.blocks = <<>> \/ f.blocks[1] = Torn THEN Undefined(Nothing)
        ELSE LET n == f.blocks[1].count
                 followed == {i \in 0 .. n : \A j \in 1 .. i : Same(j)}
                 last == CHOOSE i \in followed : \A j \in followed : j <= i
             IN  IF last = n \/ (last + 1 = n /\ Entry(n))
                 THEN {FirstRead(f.blocks, n)}
                 ELSE IF Entry(last + 1) THEN Undefined(FirstRead(f.blocks, last + 1))
                 ELSE IF last + 2 <= Len(f.blocks) /\ f.blocks[last + 2] = EndMark
                 THEN {FirstRead(f.blocks, last)}
                 ELSE Undefined(FirstRead(f.blocks, last))

\* RdbManager::load: what it may make of a file.
Loads(f) ==
    LET Entry(i) == i + 1 <= Len(f.blocks) /\ f.blocks[i + 1].what = "entry"
        Same(i)  == Entry(i) /\ AsRead(f.blocks[i + 1].entry) = f.blocks[i + 1].entry
    IN  IF ~f.exists THEN {Nothing}
        ELSE IF f.mixed \/ f.blocks = <<>> \/ f.blocks[1] = Torn THEN Undefined(Nothing)
        ELSE LET n == f.blocks[1].count
                 followed == {i \in 0 .. n : \A j \in 1 .. i : Same(j)}
                 last == CHOOSE i \in followed : \A j \in followed : j <= i
             IN  IF last = n \/ (last + 1 = n /\ Entry(n))
                 THEN {FirstRead(f.blocks, n)}
                 ELSE IF Entry(last + 1) THEN Undefined(FirstRead(f.blocks, last + 1))
                 ELSE IF last + 2 <= Len(f.blocks) /\ f.blocks[last + 2] = EndMark THEN {Nothing}
                 ELSE Undefined(FirstRead(f.blocks, last))

\* The process ends, with whatever it was doing, and is started again.
Restart ==
    /\ restarts < MaxRestarts
    /\ restarts' = restarts + 1
    /\ \E left \in Left : file' = left /\ dictionary' \in Loads(left)
    /\ save' = [s \in Savers |-> Idle]
    /\ UNCHANGED <<changes, promised>>

Next ==
    \/ \E k \in Keys : Set(k) \/ SetExpiredToOne(k) \/ Del(k) \/ PushNew(k) \/ Push(k)
    \/ \E s \in Savers :
          \/ SaveCopies(s) \/ SaveOpens(s) \/ SaveFails(s)
          \/ SaveWritesLength(s) \/ SaveWrites(s) \/ SaveEnds(s)
    \/ Restart

Spec == Init /\ [][Next]_vars

--------------------------------------------------------------------------------
Whole(c) == \A k \in DOMAIN c : c[k].kind = "string" => Survives(c[k].size)
Numbers(c) == {k \in DOMAIN c : c[k].kind = "number"}

\* A list may have grown until it was written.
Restores(c, d) ==
    /\ DOMAIN d = DOMAIN c
    /\ \A k \in DOMAIN c :
          \/ d[k] = c[k]
          \/ d[k].kind = "list" /\ c[k].kind = "list" /\ d[k].made = c[k].made
             /\ d[k].size > c[k].size

\* DictionaryManager::save and load: when a SAVE was answered with OK and no other was
\* writing along, a restart finds the dictionary as it was at one moment of that SAVE,
\* whatever clients did to it afterwards.  What can spoil the file: a length that is
\* not read back, a list that grew while it was being written, and a number.
RestartRestores ==
    [][restarts' # restarts /\ promised.known /\ Whole(promised.copy)
          /\ Torn \notin ToSet(file.blocks) /\ Numbers(promised.copy) = {}
       => Restores(promised.copy, dictionary')]_vars

\* load returns everything or nothing: after such a SAVE a restart never finds a part of
\* the dictionary.  One RespInt spoils all: it is counted and has no record, so load runs
\* into the end mark (RdbManager.cpp:104-138, :212-216).
AllOrNothing ==
    [][restarts' # restarts /\ promised.known /\ Whole(promised.copy)
          /\ Torn \notin ToSet(file.blocks)
       => Restores(promised.copy, dictionary') \/ dictionary' = Nothing]_vars

\* A string has a length that some client gave it (RdbManager.cpp:12: "The combined 14
\* bits represent the length").
LengthsSurvive ==
    \A k \in DOMAIN dictionary : dictionary[k].kind = "string" => dictionary[k].size \in Sizes

================================================================================
