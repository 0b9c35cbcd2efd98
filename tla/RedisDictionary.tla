---------------------------- MODULE RedisDictionary ----------------------------
(***************************************************************************)
(* The dictionary of the Redis server (DictionaryManager.cpp).  Each       *)
(* client's commands run one after the other on some thread of the client  *)
(* manager's pool; a thread of its own removes expired keys.  One          *)
(* shared_mutex protects the map, but GET, INCR and DECR release it        *)
(* between what they read and what they write: those are the steps below   *)
(* that leave pc # "idle".  EXISTS and LRANGE change nothing and are left  *)
(* out; a DEL of several keys is several calls of Del.                     *)
(***************************************************************************)
EXTENDS Integers, FiniteSets

CONSTANTS Clients,     \* connections, each with one command at a time
          Keys,
          SampleSize,  \* keys that one pass of the expiry thread looks at
          MaxTime,     \* bound: the clock stops there
          MaxNumber,   \* bound: no INCR goes beyond it, no DECR below 0
          NoTime       \* an empty std::optional<std::uint64_t>

ASSUME BoundsAssumption ==
    /\ MaxTime \in Nat /\ MaxNumber \in Nat /\ SampleSize \in Nat \ {0}
    /\ NoTime \notin 0 .. MaxTime

Numbers == 0 .. MaxNumber
Times == 0 .. MaxTime

\* What an entry's m_value can hold: a RespString with an integer in it, any other
\* RespString, a RespArray, or the RespInt that INCR stores under an expired key.
Number(n) == [kind |-> "number", num |-> n]
Text      == [kind |-> "text", num |-> 0]
List      == [kind |-> "list", num |-> 0]
IntOne    == [kind |-> "int", num |-> 1]
Values    == {Number(n) : n \in Numbers} \cup {Text, List, IntOne}

\* An entry is absent or has a value and perhaps an expiry timestamp.
Absent == [kind |-> "absent", num |-> 0]
Entries == [value : Values \cup {Absent}, expiry : Times \cup {NoTime}]
NoEntry == [value |-> Absent, expiry |-> NoTime]

VARIABLES
    now,         \* get_current_time, in milliseconds
    dictionary,  \* m_dictionary
    command,     \* what each client's command has read, while it is under way
    reply,       \* the last reply to any client, as far as it is told apart here
    expired,     \* keys_to_remove of the expiry thread
    stale        \* history: those that were written since they were found expired

vars == <<now, dictionary, command, reply, expired, stale>>

\* Where a command is (at), the key it is about, the number and the expiry timestamp
\* that it is going to store, and what happened to the key's entry since it was read.
Idle == [at |-> "idle"]
ReadEntry(at, k, n) ==
    [at |-> at, key |-> k, number |-> n, expiry |-> NoTime, overtaken |-> "no"]

Commands ==
    {Idle} \cup
    [at : {"getRemove", "incrOne", "incrExpiry", "incrSet"}, key : Keys, number : Numbers,
     expiry : Times \cup {NoTime}, overtaken : {"no", "rewritten", "erased"}]

TypeOK ==
    /\ now \in Times
    /\ dictionary \in [Keys -> Entries]
    /\ command \in [Clients -> Commands]
    /\ reply \in {"none", "ok", "null", "error"}
    /\ expired \subseteq Keys
    /\ stale \subseteq expired

Present(k) == dictionary[k].value # Absent

HasExpired(k) == dictionary[k].expiry # NoTime /\ now > dictionary[k].expiry

Init ==
    /\ now = 0
    /\ dictionary = [k \in Keys |-> NoEntry]
    /\ command = [c \in Clients |-> Idle]
    /\ reply = "none"
    /\ expired = {}
    /\ stale = {}

--------------------------------------------------------------------------------
Busy(c, k) == command[c].at # "idle" /\ command[c].key = k

\* DictionaryManager::set by client c: the entry is replaced where it is; those who
\* hold a reference to it see the new one.
Store(c, k, value, time) ==
    /\ dictionary' = [dictionary EXCEPT ![k] = [value |-> value, expiry |-> time]]
    /\ command' =
         [d \in Clients |->
            CASE d = c -> Idle
              [] d # c /\ Busy(d, k) /\ command[d].overtaken = "no" ->
                   [command[d] EXCEPT !.overtaken = "rewritten"]
              [] OTHER -> command[d]]
    /\ stale' = stale \cup (expired \cap {k})

\* DictionaryManager::remove: the entry, whatever it is by now, is erased, and
\* references to it dangle.  The command of the clients in Done is over.
Erase(k, Done) ==
    /\ dictionary' = [dictionary EXCEPT ![k] = NoEntry]
    /\ command' =
         [d \in Clients |->
            CASE d \in Done -> Idle
              [] d \notin Done /\ Busy(d, k) /\ Present(k) ->
                   [command[d] EXCEPT !.overtaken = "erased"]
              [] OTHER -> command[d]]

\* SET, with or without one of the expiry options.  Their timestamp was computed
\* from the clock, or compared with it, before the lock was taken: it may be past.
Set(c, k, value, time) ==
    /\ command[c] = Idle
    /\ Store(c, k, value, time)
    /\ reply' = "ok"
    /\ UNCHANGED <<now, expired>>

Del(c, k) ==
    /\ command[c] = Idle
    /\ Erase(k, {c})
    /\ reply' = "ok"
    /\ UNCHANGED <<now, expired, stale>>

\* LPUSH and RPUSH: a new list has no expiry.  An old one grows in place, whether its
\* time has passed or not, and another value is left alone.
Push(c, k) ==
    /\ command[c] = Idle
    /\ IF Present(k)
       THEN UNCHANGED <<dictionary, command, stale>>
       ELSE Store(c, k, List, NoTime)
    /\ reply' = IF Present(k) /\ dictionary[k].value # List THEN "error" ELSE "ok"
    /\ UNCHANGED <<now, expired>>

\* What a command does after it read the entry under the lock: answer at once, or go
\* on after it released the lock.
Answer(r) ==
    /\ reply' = r
    /\ UNCHANGED <<now, dictionary, command, expired, stale>>

GoOn(c, next) ==
    /\ command' = [command EXCEPT ![c] = next]
    /\ UNCHANGED <<now, dictionary, reply, expired, stale>>

\* Mutant: every entry that has an expiry timestamp is taken for expired.
GetEager(c, k) ==
    /\ command[c] = Idle
    /\ \/ ~Present(k) /\ Answer("null")
       \/ /\ Present(k) /\ dictionary[k].expiry # NoTime
          /\ GoOn(c, ReadEntry("getRemove", k, 0))

\* get: an expired entry is to be removed; else the answer is its value, or an error
\* when that is no RespString.
Get(c, k) ==
    /\ command[c] = Idle
    /\ \/ ~Present(k) /\ Answer("null")
       \/ /\ Present(k) /\ ~HasExpired(k)
          /\ Answer(IF dictionary[k].value.kind \in {"number", "text"} THEN "ok" ELSE "error")
       \/ /\ Present(k) /\ HasExpired(k)
          /\ GoOn(c, ReadEntry("getRemove", k, 0))

GetRemove(c) ==
    /\ command[c].at = "getRemove"
    /\ Erase(command[c].key, {c})
    /\ reply' = "null"
    /\ UNCHANGED <<now, expired, stale>>

\* increment (delta = 1) and decrement (delta = -1) answer an absent key with null,
\* and what holds no number with an error.
AddEntry(c, k, delta) ==
    /\ command[c] = Idle
    /\ \/ ~Present(k) /\ Answer("null")
       \/ /\ Present(k) /\ ~HasExpired(k) /\ dictionary[k].value.kind # "number"
          /\ Answer("error")
       \/ /\ Present(k) /\ HasExpired(k)
          /\ GoOn(c, ReadEntry("incrOne", k, 0))
       \/ /\ Present(k) /\ ~HasExpired(k) /\ dictionary[k].value.kind = "number"
          /\ dictionary[k].value.num + delta \in Numbers
          /\ GoOn(c, ReadEntry("incrExpiry", k, dictionary[k].value.num + delta))

\* An expired key: RespInt{1} is stored, without an expiry, by INCR and DECR alike.
AddStoreOne(c) ==
    /\ command[c].at = "incrOne"
    /\ Store(c, command[c].key, IntOne, NoTime)
    /\ reply' = "ok"
    /\ UNCHANGED <<now, expired>>

\* Mutant: the timestamp is not taken over.
AddReadExpiryNone(c) ==
    /\ command[c].at = "incrExpiry"
    /\ GoOn(c, [command[c] EXCEPT !.at = "incrSet"])

\* it->second.m_expiry_timestamp is read with no lock held: the entry's timestamp
\* as it is now or, when the entry was erased, anything.
AddReadExpiry(c) ==
    /\ command[c].at = "incrExpiry"
    /\ \E time \in Times \cup {NoTime} :
          /\ command[c].overtaken # "erased" => time = dictionary[command[c].key].expiry
          /\ GoOn(c, [command[c] EXCEPT !.at = "incrSet", !.expiry = time])

\* Mutant: the expiry is dropped.
AddStoreForever(c) ==
    /\ command[c].at = "incrSet"
    /\ Store(c, command[c].key, Number(command[c].number), NoTime)
    /\ reply' = "ok"
    /\ UNCHANGED <<now, expired>>

AddStore(c) ==
    /\ command[c].at = "incrSet"
    /\ Store(c, command[c].key, Number(command[c].number), command[c].expiry)
    /\ reply' = "ok"
    /\ UNCHANGED <<now, expired>>

--------------------------------------------------------------------------------
WithExpiry == {k \in Keys : Present(k) /\ dictionary[k].expiry # NoTime}

\* A random sample of the entries that have an expiry.
Samples ==
    {S \in SUBSET WithExpiry :
        Cardinality(S) = IF Cardinality(WithExpiry) < SampleSize
                         THEN Cardinality(WithExpiry) ELSE SampleSize}

\* try_remove_expired_keys, under the shared lock: when the timer fires, or at once
\* again when the last sample had two expired keys or more.  A pass may thus
\* follow the last one at any time.
ExpirySample ==
    /\ expired = {}
    /\ \E S \in Samples : expired' = {k \in S : HasExpired(k)}
    /\ UNCHANGED <<now, dictionary, command, reply, stale>>

\* Mutant: the last key of the list is forgotten.
ExpiryRemoveAllButOne(k) ==
    /\ k \in expired
    /\ IF expired = {k} THEN UNCHANGED <<dictionary, command>> ELSE Erase(k, {})
    /\ expired' = expired \ {k}
    /\ stale' = stale \ {k}
    /\ UNCHANGED <<now, reply>>

\* One of the removals that follow, each under the lock.
ExpiryRemove(k) ==
    /\ k \in expired
    /\ Erase(k, {})
    /\ expired' = expired \ {k}
    /\ stale' = stale \ {k}
    /\ UNCHANGED <<now, reply>>

Tick ==
    /\ now < MaxTime
    /\ now' = now + 1
    /\ UNCHANGED <<dictionary, command, reply, expired, stale>>

ClientStep(c) ==
    \/ \E k \in Keys :
          \/ \E value \in {Number(0), Text}, time \in Times \cup {NoTime} :
                Set(c, k, value, time)
          \/ Del(c, k) \/ Push(c, k) \/ Get(c, k)
          \/ \E delta \in {1, -1} : AddEntry(c, k, delta)
    \/ GetRemove(c) \/ AddStoreOne(c) \/ AddReadExpiry(c) \/ AddStore(c)

ExpiryThread == ExpirySample \/ \E k \in Keys : ExpiryRemove(k)

Next == (\E c \in Clients : ClientStep(c)) \/ ExpiryThread \/ Tick

Spec == Init /\ [][Next]_vars

\* The timer fires every ten seconds, and its thread runs.
FairSpec == Spec /\ WF_vars(ExpiryThread)

--------------------------------------------------------------------------------
(***************************************************************************)
(* Properties.                                                             *)
(***************************************************************************)

\* The decision to treat a key as expired is taken under the lock and acted on
\* after it is released (GET removes, INCR and DECR store 1, the expiry thread
\* removes what it collected).  It stands by then, whatever the other threads did,
\* unless one of them stored or removed the key in between.
ExpiredUnlessOvertaken ==
    /\ \A c \in Clients :
          command[c].at \in {"getRemove", "incrOne"} /\ command[c].overtaken = "no" =>
              HasExpired(command[c].key)
    /\ \A k \in expired \ stale : Present(k) => HasExpired(k)

\* The number that INCR or DECR is about to store is one away from the number that
\* the entry holds, and its expiry timestamp is the entry's, unless another command
\* stored or removed the key after the number was read.
IncrementUnlessOvertaken ==
    \A c \in Clients :
        command[c].at \in {"incrExpiry", "incrSet"} /\ command[c].overtaken = "no" =>
            LET entry == dictionary[command[c].key] IN
            /\ entry.value.kind = "number"
            /\ command[c].number - entry.value.num \in {1, -1}
            /\ command[c].at = "incrSet" => command[c].expiry = entry.expiry

\* A command or the expiry thread acts on what it read of k before k was stored or
\* removed by someone else.
ActsOnStale(k) ==
    \/ k \in stale /\ ExpiryRemove(k)
    \/ \E c \in Clients :
          /\ Busy(c, k) /\ command[c].overtaken # "no"
          /\ GetRemove(c) \/ AddStoreOne(c) \/ AddStore(c)

\* A key whose time has not passed stays until a client deletes it, and INCR and DECR
\* leave it its expiry timestamp.  The exceptions are the steps of threads that were
\* overtaken, and those are real: a SET between get's check and its removal is undone.
LiveKeyStaysUnlessStale ==
    [][\A k \in Keys : Present(k) /\ ~HasExpired(k) =>
          \/ Present(k)' /\ dictionary'[k].expiry = dictionary[k].expiry
          \/ \E c \in Clients : \/ Del(c, k)
                                 \/ \E v \in Values, t \in Times \cup {NoTime} : Set(c, k, v, t)
          \/ ActsOnStale(k)]_vars

\* A key whose time has passed is removed or stored again in the end, though no client
\* may ask for it: the expiry thread gets to it (when SampleSize covers all the keys
\* with an expiry; a random sample of fewer does so with probability 1 only).
ExpiredIsReclaimed == \A k \in Keys : HasExpired(k) ~> ~HasExpired(k)

================================================================================
