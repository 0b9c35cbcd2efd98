-------------------------- MODULE RedisCommands_proofs --------------------------
(***************************************************************************)
(* What was decided under the dictionary's lock still holds when it is     *)
(* acted on, unless it was overtaken: for any clients, keys and clock.     *)
(* What the commands make of their arguments before they get there         *)
(* (CommandArguments), for any width of the integers.  What comes of the   *)
(* bytes that a command is read from (RedisCommands), for any bytes,       *)
(* wherever they are cut.  And that what is written of values              *)
(* (RespGenerator) is read back as it was, for any values.                 *)
(***************************************************************************)
EXTENDS RedisDictionary, RespGenerator, FiniteSetTheorems, SequenceTheorems, WellFoundedInduction, TLAPS

Expiries == Times \cup {NoTime}

\* An entry that is not there has no expiry timestamp, so that what has expired is
\* there, and its removal overtakes the commands that read it.
AbsentNeverExpires == \A k \in Keys : ~Present(k) => dictionary[k].expiry = NoTime

IInv ==
    /\ TypeOK
    /\ AbsentNeverExpires
    /\ ExpiredUnlessOvertaken
    /\ IncrementUnlessOvertaken

--------------------------------------------------------------------------------
\* The entries, and what can be stored.
LEMMA EntryFacts ==
    /\ NoEntry \in Entries
    /\ \A v \in Values : v # Absent
    /\ \A v \in Values, t \in Expiries : [value |-> v, expiry |-> t] \in Entries
    /\ Number(0) \in Values /\ Text \in Values /\ List \in Values /\ IntOne \in Values
    /\ \A n \in Numbers : Number(n) \in Values
BY BoundsAssumption DEF NoEntry, Entries, Values, Absent, Number, Text, List, IntOne, Expiries,
                        Numbers, Times

\* A command under way has a key, a number and a timestamp of their types.
LEMMA CommandFacts ==
    ASSUME NEW m \in Commands, m.at # "idle"
    PROVE  /\ m.key \in Keys /\ m.number \in Numbers /\ m.expiry \in Expiries
           /\ [m EXCEPT !.overtaken = "rewritten"] \in Commands
           /\ [m EXCEPT !.overtaken = "erased"] \in Commands
           /\ \A t \in Expiries : [m EXCEPT !.at = "incrSet", !.expiry = t] \in Commands
<1>1. m \in [at : {"getRemove", "incrOne", "incrExpiry", "incrSet"}, key : Keys,
             number : Numbers, expiry : Expiries, overtaken : {"no", "rewritten", "erased"}]
  BY DEF Commands, Idle, Expiries
<1>2. \A o \in {"rewritten", "erased"} : [m EXCEPT !.overtaken = o] \in Commands
  BY <1>1 DEF Commands, Expiries
<1>3. \A t \in Expiries : [m EXCEPT !.at = "incrSet", !.expiry = t] \in Commands
  BY <1>1 DEF Commands, Expiries
<1> QED BY <1>1, <1>2, <1>3

\* What a command leaves when it releases the lock.
LEMMA ReadEntryTyped ==
    ASSUME NEW k \in Keys, NEW n \in Numbers,
           NEW at \in {"getRemove", "incrOne", "incrExpiry"}
    PROVE  ReadEntry(at, k, n) \in Commands
BY DEF ReadEntry, Commands

\* DictionaryManager::set keeps the invariant, whoever calls it.
LEMMA StoreKeeps ==
    ASSUME IInv, NEW c \in Clients, NEW k \in Keys, NEW v \in Values, NEW t \in Expiries,
           Store(c, k, v, t), UNCHANGED <<now, expired>>,
           reply' \in {"none", "ok", "null", "error"}
    PROVE  IInv'
<1> USE DEF IInv
<1>1. \A d \in Clients : /\ command'[d].at # "idle" => d # c /\ command[d].at # "idle"
                         /\ command'[d] \in Commands
  <2> SUFFICES ASSUME NEW d \in Clients
               PROVE  /\ command'[d].at # "idle" => d # c /\ command[d].at # "idle"
                      /\ command'[d] \in Commands
    OBVIOUS
  <2>1. CASE d = c
    BY <2>1 DEF Store, Commands, Idle
  <2>2. CASE d # c /\ Busy(d, k) /\ command[d].overtaken = "no"
    <3>1. command'[d] = [command[d] EXCEPT !.overtaken = "rewritten"]
      BY <2>2 DEF Store
    <3>2. command[d] \in Commands /\ command[d].at # "idle"
      BY <2>2 DEF TypeOK, Busy
    <3> QED BY <2>2, <3>1, <3>2, CommandFacts
  <2>3. CASE d # c /\ ~(Busy(d, k) /\ command[d].overtaken = "no")
    <3>1. command'[d] = command[d]
      BY <2>3 DEF Store
    <3> QED BY <2>3, <3>1 DEF TypeOK
  <2> QED BY <2>1, <2>2, <2>3
<1>2. TypeOK'
  BY <1>1, EntryFacts DEF Store, TypeOK
<1>3. /\ dictionary'[k] = [value |-> v, expiry |-> t]
      /\ \A j \in Keys \ {k} : dictionary'[j] = dictionary[j]
  BY DEF Store, TypeOK
<1>4. AbsentNeverExpires'
  BY <1>3, EntryFacts DEF AbsentNeverExpires, Present, HasExpired
<1>5. ASSUME NEW d \in Clients, command'[d].at # "idle", command'[d].overtaken = "no"
      PROVE  command'[d] = command[d] /\ command[d].key \in Keys \ {k}
  <2>1. d # c /\ command[d].at # "idle" /\ command[d] \in Commands
    BY <1>1, <1>5 DEF TypeOK
  <2>2. CASE Busy(d, k) /\ command[d].overtaken = "no"
    <3>1. command'[d] = [command[d] EXCEPT !.overtaken = "rewritten"]
      BY <2>1, <2>2 DEF Store
    <3>2. command'[d].overtaken = "rewritten"
      BY <2>1, <3>1 DEF Commands, Idle
    <3> QED BY <1>5, <3>2
  <2>3. CASE ~(Busy(d, k) /\ command[d].overtaken = "no")
    <3>1. command'[d] = command[d]
      BY <2>1, <2>3 DEF Store
    <3> QED BY <1>5, <2>1, <2>3, <3>1, CommandFacts DEF Busy
  <2> QED BY <2>2, <2>3
<1>6. ExpiredUnlessOvertaken'
  <2>1. ASSUME NEW d \in Clients, command'[d].at \in {"getRemove", "incrOne"},
               command'[d].overtaken = "no"
        PROVE  HasExpired(command[d].key)' /\ command'[d].key = command[d].key
    BY <1>3, <1>5, <2>1 DEF ExpiredUnlessOvertaken, HasExpired
  <2>2. \A j \in expired' \ stale' : Present(j)' => HasExpired(j)'
    BY <1>3 DEF ExpiredUnlessOvertaken, HasExpired, Present, Store, TypeOK
  <2> QED BY <2>1, <2>2 DEF ExpiredUnlessOvertaken, HasExpired
<1>7. IncrementUnlessOvertaken'
  BY <1>3, <1>5 DEF IncrementUnlessOvertaken
<1> QED BY <1>2, <1>4, <1>6, <1>7

\* DictionaryManager::remove keeps the invariant, whoever calls it.
LEMMA RemoveKeeps ==
    ASSUME IInv, NEW k \in Keys, NEW Done \in SUBSET Clients, Erase(k, Done), UNCHANGED now,
           expired' \subseteq Keys, stale' \subseteq expired',
           expired' \ stale' \subseteq expired \ stale,
           reply' \in {"none", "ok", "null", "error"}
    PROVE  IInv'
<1> USE DEF IInv
<1>1. \A d \in Clients : /\ command'[d].at # "idle" => d \notin Done /\ command[d].at # "idle"
                         /\ command'[d] \in Commands
  <2> SUFFICES ASSUME NEW d \in Clients
               PROVE  /\ command'[d].at # "idle" => d \notin Done /\ command[d].at # "idle"
                      /\ command'[d] \in Commands
    OBVIOUS
  <2>1. CASE d \in Done
    BY <2>1 DEF Erase, Commands, Idle
  <2>2. CASE d \notin Done /\ Busy(d, k) /\ Present(k)
    <3>1. command'[d] = [command[d] EXCEPT !.overtaken = "erased"]
      BY <2>2 DEF Erase
    <3>2. command[d] \in Commands /\ command[d].at # "idle"
      BY <2>2 DEF TypeOK, Busy
    <3> QED BY <2>2, <3>1, <3>2, CommandFacts
  <2>3. CASE d \notin Done /\ ~(Busy(d, k) /\ Present(k))
    <3>1. command'[d] = command[d]
      BY <2>3 DEF Erase
    <3> QED BY <2>3, <3>1 DEF TypeOK
  <2> QED BY <2>1, <2>2, <2>3
<1>2. TypeOK'
  BY <1>1, EntryFacts DEF Erase, TypeOK
<1>3. /\ dictionary'[k] = NoEntry
      /\ \A j \in Keys \ {k} : dictionary'[j] = dictionary[j]
  BY DEF Erase, TypeOK
<1>4. AbsentNeverExpires'
  BY <1>3 DEF AbsentNeverExpires, Present, HasExpired, NoEntry
<1>5. ASSUME NEW d \in Clients, command'[d].at # "idle", command'[d].overtaken = "no"
      PROVE  /\ command'[d] = command[d]
             /\ command[d].key \in Keys
             /\ command[d].key = k => ~Present(k)
  <2>1. d \notin Done /\ command[d].at # "idle" /\ command[d] \in Commands
    BY <1>1, <1>5 DEF TypeOK
  <2>2. CASE Busy(d, k) /\ Present(k)
    <3>1. command'[d] = [command[d] EXCEPT !.overtaken = "erased"]
      BY <2>1, <2>2 DEF Erase
    <3>2. command'[d].overtaken = "erased"
      BY <2>1, <3>1 DEF Commands, Idle
    <3> QED BY <1>5, <3>2
  <2>3. CASE ~(Busy(d, k) /\ Present(k))
    <3>1. command'[d] = command[d]
      BY <2>1, <2>3 DEF Erase
    <3> QED BY <2>1, <2>3, <3>1, CommandFacts DEF Busy
  <2> QED BY <2>2, <2>3
<1>6. ExpiredUnlessOvertaken'
  <2>1. ASSUME NEW d \in Clients, command'[d].at \in {"getRemove", "incrOne"},
               command'[d].overtaken = "no"
        PROVE  HasExpired(command[d].key)' /\ command'[d].key = command[d].key
    <3>1. HasExpired(command[d].key) /\ command'[d] = command[d]
      BY <1>5, <2>1 DEF ExpiredUnlessOvertaken
    <3>2. command[d].key \in Keys \ {k}
      BY <1>5, <2>1, <3>1 DEF AbsentNeverExpires, HasExpired
    <3> QED BY <1>3, <3>1, <3>2 DEF HasExpired
  <2>2. \A j \in expired' \ stale' : Present(j)' => HasExpired(j)'
    BY <1>3 DEF ExpiredUnlessOvertaken, HasExpired, Present, NoEntry, TypeOK
  <2> QED BY <2>1, <2>2 DEF ExpiredUnlessOvertaken, HasExpired
<1>7. IncrementUnlessOvertaken'
  <2>1. ASSUME NEW d \in Clients, command'[d].at \in {"incrExpiry", "incrSet"},
               command'[d].overtaken = "no"
        PROVE  command'[d] = command[d] /\ command[d].key \in Keys \ {k}
    BY <1>5, <2>1 DEF IncrementUnlessOvertaken, Present, Absent
  <2> QED BY <1>3, <2>1 DEF IncrementUnlessOvertaken
<1> QED BY <1>2, <1>4, <1>6, <1>7

\* Before any command nothing has been decided.
LEMMA InitIInv == Init => IInv
<1> SUFFICES ASSUME Init PROVE IInv OBVIOUS
<1>1. TypeOK
  BY EntryFacts, BoundsAssumption DEF Init, TypeOK, Times, Commands
<1> QED
  BY <1>1 DEF Init, IInv, AbsentNeverExpires, ExpiredUnlessOvertaken, IncrementUnlessOvertaken,
              HasExpired, NoEntry, Idle

--------------------------------------------------------------------------------
\* A command that releases the lock has read what it decided on.
LEMMA GoOnKeeps ==
    ASSUME IInv, NEW c \in Clients, NEW m \in Commands, GoOn(c, m),
           m.at \in {"getRemove", "incrOne"} /\ m.overtaken = "no" => HasExpired(m.key),
           m.at \in {"incrExpiry", "incrSet"} /\ m.overtaken = "no" =>
               LET entry == dictionary[m.key] IN
               /\ entry.value.kind = "number"
               /\ m.number - entry.value.num \in {1, -1}
               /\ m.at = "incrSet" => m.expiry = entry.expiry
    PROVE  IInv'
<1> USE DEF IInv
<1>1. /\ command'[c] = m
      /\ \A d \in Clients \ {c} : command'[d] = command[d]
      /\ UNCHANGED <<now, dictionary, reply, expired, stale>>
  BY DEF GoOn, TypeOK
<1>2. TypeOK'
  BY <1>1 DEF TypeOK, GoOn
<1>3. AbsentNeverExpires'
  BY <1>1 DEF AbsentNeverExpires, Present, HasExpired
<1>4. ExpiredUnlessOvertaken'
  BY <1>1 DEF ExpiredUnlessOvertaken, Present, HasExpired
<1>5. IncrementUnlessOvertaken'
  BY <1>1 DEF IncrementUnlessOvertaken
<1> QED BY <1>2, <1>3, <1>4, <1>5

\* A reply alone changes nothing that the invariant is about.
LEMMA AnswerKeeps ==
    ASSUME IInv, NEW r \in {"none", "ok", "null", "error"}, reply' = r,
           UNCHANGED <<now, dictionary, command, expired, stale>>
    PROVE  IInv'
BY DEF IInv, TypeOK, AbsentNeverExpires, ExpiredUnlessOvertaken, IncrementUnlessOvertaken,
       Present, HasExpired

\* A command that starts: SET, DEL, a push, GET, INCR or DECR.
LEMMA CommandStarts ==
    ASSUME IInv, NEW c \in Clients, NEW k \in Keys,
           \/ \E v \in Values, t \in Expiries : Set(c, k, v, t)
           \/ Del(c, k) \/ Push(c, k) \/ Get(c, k)
           \/ \E delta \in {1, -1} : AddEntry(c, k, delta)
    PROVE  IInv'
<1>1. CASE \E v \in Values, t \in Expiries : Set(c, k, v, t)
  BY <1>1, StoreKeeps DEF Set
<1>2. CASE Del(c, k)
  BY <1>2, RemoveKeeps DEF Del, IInv, TypeOK
<1>3. CASE Push(c, k)
  <2>1. CASE Present(k)
    BY <1>3, <2>1, AnswerKeeps DEF Push
  <2>2. CASE ~Present(k)
    BY <1>3, <2>2, StoreKeeps, EntryFacts DEF Push, Expiries
  <2> QED BY <2>1, <2>2
<1>4. CASE Get(c, k)
  <2>1. CASE \E r \in {"ok", "null", "error"} : Answer(r)
    BY <2>1, AnswerKeeps DEF Answer
  <2>2. CASE HasExpired(k) /\ GoOn(c, ReadEntry("getRemove", k, 0))
    <3>1. ReadEntry("getRemove", k, 0) \in Commands
      BY ReadEntryTyped, BoundsAssumption DEF Numbers
    <3> QED BY <2>2, <3>1, GoOnKeeps DEF ReadEntry
  <2> QED BY <1>4, <2>1, <2>2 DEF Get
<1>5. ASSUME NEW delta \in {1, -1}, AddEntry(c, k, delta)
      PROVE  IInv'
  <2>1. CASE \E r \in {"null", "error"} : Answer(r)
    BY <2>1, AnswerKeeps DEF Answer
  <2>2. CASE HasExpired(k) /\ GoOn(c, ReadEntry("incrOne", k, 0))
    <3>1. ReadEntry("incrOne", k, 0) \in Commands
      BY ReadEntryTyped, BoundsAssumption DEF Numbers
    <3> QED BY <2>2, <3>1, GoOnKeeps DEF ReadEntry
  <2>3. CASE /\ dictionary[k].value.kind = "number"
             /\ dictionary[k].value.num + delta \in Numbers
             /\ GoOn(c, ReadEntry("incrExpiry", k, dictionary[k].value.num + delta))
    <3> DEFINE m == ReadEntry("incrExpiry", k, dictionary[k].value.num + delta)
    <3>1. m \in Commands
      BY <2>3, ReadEntryTyped
    <3>2. dictionary[k].value.num \in Int
      <4>1. dictionary[k].value \in Values \cup {Absent}
        BY DEF IInv, TypeOK, Entries
      <4> QED BY <4>1 DEF Values, Absent, Number, Text, List, IntOne, Numbers
    <3>3. m.key = k /\ m.at = "incrExpiry" /\ m.number - dictionary[k].value.num \in {1, -1}
      BY <1>5, <3>2 DEF ReadEntry
    <3> HIDE DEF m
    <3> QED BY <2>3, <3>1, <3>3, GoOnKeeps DEF m
  <2> QED BY <1>5, <2>1, <2>2, <2>3 DEF AddEntry
<1> QED BY <1>1, <1>2, <1>3, <1>4, <1>5

\* A command that goes on after it released the lock.
LEMMA CommandGoesOn ==
    ASSUME IInv, NEW c \in Clients,
           GetRemove(c) \/ AddStoreOne(c) \/ AddReadExpiry(c) \/ AddStore(c)
    PROVE  IInv'
<1>1. command[c] \in Commands
  BY DEF IInv, TypeOK
<1>2. CASE GetRemove(c)
  <2>1. command[c].key \in Keys /\ {c} \in SUBSET Clients
    BY <1>1, <1>2, CommandFacts DEF GetRemove
  <2>2. Erase(command[c].key, {c}) /\ UNCHANGED <<now, expired, stale>> /\ reply' = "null"
    BY <1>2 DEF GetRemove
  <2>3. expired' \subseteq Keys /\ stale' \subseteq expired'
    BY <2>2 DEF IInv, TypeOK
  <2> QED BY <2>1, <2>2, <2>3, RemoveKeeps
<1>3. CASE AddStoreOne(c)
  BY <1>1, <1>3, CommandFacts, StoreKeeps, EntryFacts DEF AddStoreOne, Expiries
<1>4. CASE AddStore(c)
  BY <1>1, <1>4, CommandFacts, StoreKeeps, EntryFacts DEF AddStore
<1>5. CASE AddReadExpiry(c)
  <2>1. PICK t \in Expiries :
           /\ command[c].overtaken # "erased" => t = dictionary[command[c].key].expiry
           /\ GoOn(c, [command[c] EXCEPT !.at = "incrSet", !.expiry = t])
    BY <1>5 DEF AddReadExpiry, Expiries
  <2> DEFINE m == [command[c] EXCEPT !.at = "incrSet", !.expiry = t]
  <2>2. command[c].at = "incrExpiry"
    BY <1>5 DEF AddReadExpiry
  <2>3. m \in Commands
    BY <1>1, <2>2, CommandFacts
  <2>4. /\ m.at = "incrSet" /\ m.expiry = t /\ m.key = command[c].key
        /\ m.number = command[c].number /\ m.overtaken = command[c].overtaken
    BY <1>1, <2>2 DEF Commands, Idle
  <2>5. m.overtaken = "no" =>
           /\ dictionary[m.key].value.kind = "number"
           /\ m.number - dictionary[m.key].value.num \in {1, -1}
           /\ m.expiry = dictionary[m.key].expiry
    BY <2>1, <2>2, <2>4 DEF IInv, IncrementUnlessOvertaken
  <2> HIDE DEF m
  <2> QED BY <2>1, <2>3, <2>4, <2>5, GoOnKeeps DEF m
<1> QED BY <1>2, <1>3, <1>4, <1>5

\* The expiry thread.
LEMMA ExpiryKeeps == ASSUME IInv, ExpiryThread PROVE IInv'
<1>1. CASE ExpirySample
  <2>1. PICK S \in Samples : expired' = {k \in S : HasExpired(k)}
    BY <1>1 DEF ExpirySample
  <2>2. S \subseteq Keys
    BY DEF Samples, WithExpiry
  <2>3. stale' = {}
    BY <1>1 DEF ExpirySample, IInv, TypeOK
  <2> QED BY <1>1, <2>1, <2>2, <2>3 DEF ExpirySample, IInv, TypeOK, AbsentNeverExpires,
            ExpiredUnlessOvertaken, IncrementUnlessOvertaken, Present, HasExpired
<1>2. ASSUME NEW k \in Keys, ExpiryRemove(k) PROVE IInv'
  BY <1>2, RemoveKeeps DEF ExpiryRemove, IInv, TypeOK
<1> QED BY <1>1, <1>2 DEF ExpiryThread

\* What has expired stays expired while time passes.
LEMMA TickKeeps == ASSUME IInv, Tick PROVE IInv'
<1>1. \A k \in Keys : HasExpired(k) => HasExpired(k)'
  <2> SUFFICES ASSUME NEW k \in Keys, HasExpired(k) PROVE HasExpired(k)'
    OBVIOUS
  <2>1. dictionary[k].expiry \in Times /\ now \in Times
    BY DEF HasExpired, IInv, TypeOK, Entries
  <2> QED BY <2>1 DEF Tick, HasExpired, Times
<1>2. TypeOK'
  <2>1. now' \in Times
    BY BoundsAssumption DEF IInv, TypeOK, Tick, Times
  <2> QED BY <2>1 DEF IInv, TypeOK, Tick
<1>3. \A c \in Clients : command[c].at # "idle" => command[c].key \in Keys
  BY CommandFacts DEF IInv, TypeOK
<1>4. ExpiredUnlessOvertaken'
  BY <1>1, <1>3 DEF IInv, TypeOK, ExpiredUnlessOvertaken, Tick, Present
<1>5. AbsentNeverExpires' /\ IncrementUnlessOvertaken'
  BY DEF IInv, AbsentNeverExpires, IncrementUnlessOvertaken, Tick, Present
<1> QED BY <1>2, <1>4, <1>5 DEF IInv

\* Every step keeps the invariant.
LEMMA NextIInv == IInv /\ [Next]_vars => IInv'
<1> SUFFICES ASSUME IInv, [Next]_vars PROVE IInv'
  OBVIOUS
<1>1. ASSUME NEW c \in Clients, ClientStep(c) PROVE IInv'
  BY <1>1, CommandStarts, CommandGoesOn, EntryFacts DEF ClientStep, Expiries
<1>2. CASE ExpiryThread
  BY <1>2, ExpiryKeeps
<1>3. CASE Tick
  BY <1>3, TickKeeps
<1>4. CASE UNCHANGED vars
  BY <1>4, AnswerKeeps DEF vars, IInv, TypeOK
<1> QED BY <1>1, <1>2, <1>3, <1>4 DEF Next

--------------------------------------------------------------------------------
\* What the expiry thread, GET, INCR and DECR decided on an expired key stands when
\* they act on it, unless another thread stored or removed the key in between
\* (DictionaryManager.cpp:44-52, 134-139, 159-165).
THEOREM ExpiredStands == Spec => []ExpiredUnlessOvertaken
<1>1. IInv => ExpiredUnlessOvertaken
  BY DEF IInv
<1> QED BY <1>1, InitIInv, NextIInv, PTL DEF Spec

\* What INCR and DECR are about to store is one away from what the entry holds, with
\* the entry's timestamp, unless another thread stored or removed the key after they
\* read it (DictionaryManager.cpp:167-181).
THEOREM IncrementStands == Spec => []IncrementUnlessOvertaken
<1>1. IInv => IncrementUnlessOvertaken
  BY DEF IInv
<1> QED BY <1>1, InitIInv, NextIInv, PTL DEF Spec

\* A step that stores a key leaves the others as they are, and so does a removal.
LEMMA OnlyOneKey ==
    ASSUME IInv, NEW k \in Keys, NEW j \in Keys, j # k,
           \/ \E c \in Clients, v \in Values, t \in Expiries : Store(c, j, v, t)
           \/ \E Done \in SUBSET Clients : Erase(j, Done)
    PROVE  dictionary'[k] = dictionary[k]
BY DEF Store, Erase, IInv, TypeOK


\* What LiveKeyStaysUnlessStale says of one key.
KeyStays(k) ==
    Present(k) /\ ~HasExpired(k) =>
        \/ Present(k)' /\ dictionary'[k].expiry = dictionary[k].expiry
        \/ \E c \in Clients : \/ Del(c, k)
                               \/ \E v \in Values, t \in Times \cup {NoTime} : Set(c, k, v, t)
        \/ ActsOnStale(k)

\* An entry that is as it was keeps its key.
LEMMA SameEntryStays ==
    ASSUME NEW k \in Keys, dictionary'[k] = dictionary[k]
    PROVE  KeyStays(k)
BY DEF KeyStays, Present

\* A command that starts.
LEMMA StartLeavesKey ==
    ASSUME IInv, NEW k \in Keys, NEW c \in Clients, NEW j \in Keys,
           \/ \E v \in Values, t \in Expiries : Set(c, j, v, t)
           \/ Del(c, j) \/ Push(c, j) \/ Get(c, j)
           \/ \E delta \in {1, -1} : AddEntry(c, j, delta)
    PROVE  KeyStays(k)
<1>1. CASE \E v \in Values, t \in Expiries : Set(c, j, v, t)
  <2>1. CASE j = k
    BY <1>1, <2>1 DEF KeyStays, Expiries
  <2>2. CASE j # k
    BY <1>1, <2>2, OnlyOneKey, SameEntryStays DEF Set
  <2> QED BY <2>1, <2>2
<1>2. CASE Del(c, j)
  <2>1. CASE j = k
    BY <1>2, <2>1 DEF KeyStays
  <2>2. CASE j # k
    BY <1>2, <2>2, OnlyOneKey, SameEntryStays DEF Del
  <2> QED BY <2>1, <2>2
<1>3. CASE Push(c, j)
  <2>1. CASE Present(j)
    BY <1>3, <2>1, SameEntryStays DEF Push
  <2>2. CASE ~Present(j) /\ j = k
    BY <2>2 DEF KeyStays
  <2>3. CASE ~Present(j) /\ j # k
    BY <1>3, <2>3, OnlyOneKey, SameEntryStays, EntryFacts DEF Push, Expiries
  <2> QED BY <2>1, <2>2, <2>3
<1>4. CASE Get(c, j) \/ \E delta \in {1, -1} : AddEntry(c, j, delta)
  <2>1. UNCHANGED dictionary
    BY <1>4 DEF Get, AddEntry, Answer, GoOn
  <2> QED BY <2>1, SameEntryStays
<1> QED BY <1>1, <1>2, <1>3, <1>4

\* A command that goes on: it was overtaken, or what it does is due.
LEMMA GoingOnLeavesKey ==
    ASSUME IInv, NEW k \in Keys, NEW c \in Clients,
           GetRemove(c) \/ AddStoreOne(c) \/ AddReadExpiry(c) \/ AddStore(c)
    PROVE  KeyStays(k)
<1>1. command[c] \in Commands /\ command[c].at # "idle" /\ command[c].key \in Keys
  BY CommandFacts DEF GetRemove, AddStoreOne, AddReadExpiry, AddStore, IInv, TypeOK
<1>2. CASE AddReadExpiry(c)
  BY <1>2, SameEntryStays DEF AddReadExpiry, GoOn
<1>3. CASE (GetRemove(c) \/ AddStoreOne(c) \/ AddStore(c)) /\ command[c].key # k
  BY <1>1, <1>3, CommandFacts, OnlyOneKey, SameEntryStays, EntryFacts
     DEF GetRemove, AddStoreOne, AddStore, Expiries
<1>4. CASE /\ GetRemove(c) \/ AddStoreOne(c) \/ AddStore(c)
           /\ command[c].key = k /\ command[c].overtaken # "no"
  BY <1>1, <1>4 DEF KeyStays, ActsOnStale, Busy
<1>5. CASE /\ GetRemove(c) \/ AddStoreOne(c)
           /\ command[c].key = k /\ command[c].overtaken = "no"
  BY <1>5 DEF GetRemove, AddStoreOne, IInv, ExpiredUnlessOvertaken, KeyStays
<1>6. CASE AddStore(c) /\ command[c].key = k /\ command[c].overtaken = "no"
  <2>1. dictionary'[k] = [value |-> Number(command[c].number), expiry |-> command[c].expiry]
    BY <1>6 DEF AddStore, Store, IInv, TypeOK
  <2>2. command[c].expiry = dictionary[k].expiry
    BY <1>6 DEF AddStore, IInv, IncrementUnlessOvertaken
  <2>3. Number(command[c].number) # Absent
    BY <1>1, CommandFacts, EntryFacts
  <2> QED BY <2>1, <2>2, <2>3 DEF KeyStays, Present
<1> QED BY <1>2, <1>3, <1>4, <1>5, <1>6

\* The expiry thread: the key was stored since it was collected, or has expired.
LEMMA ExpiryLeavesKey == ASSUME IInv, NEW k \in Keys, ExpiryThread PROVE KeyStays(k)
<1>1. CASE ExpirySample
  BY <1>1, SameEntryStays DEF ExpirySample
<1>2. ASSUME NEW j \in Keys, ExpiryRemove(j), j # k PROVE KeyStays(k)
  BY <1>2, OnlyOneKey, SameEntryStays DEF ExpiryRemove
<1>3. CASE ExpiryRemove(k) /\ k \in stale
  BY <1>3 DEF KeyStays, ActsOnStale
<1>4. CASE ExpiryRemove(k) /\ k \notin stale
  BY <1>4 DEF ExpiryRemove, IInv, ExpiredUnlessOvertaken, KeyStays
<1> QED BY <1>1, <1>2, <1>3, <1>4 DEF ExpiryThread

\* Only a client that deletes or sets a key ends its life before its time, or a thread
\* that acts on what it read before another one stored or removed the key: every
\* unlocked window of the dictionary is named by ActsOnStale
\* (DictionaryManager.cpp:44-52, 134-139, 159-181).
THEOREM LiveKeyStays == Spec => LiveKeyStaysUnlessStale
<1>1. IInv /\ [Next]_vars => [\A k \in Keys : KeyStays(k)]_vars
  <2> SUFFICES ASSUME IInv, Next, NEW k \in Keys PROVE KeyStays(k)
    OBVIOUS
  <2>1. ASSUME NEW c \in Clients, ClientStep(c) PROVE KeyStays(k)
    BY <2>1, StartLeavesKey, GoingOnLeavesKey, EntryFacts DEF ClientStep, Expiries
  <2>2. CASE ExpiryThread
    BY <2>2, ExpiryLeavesKey
  <2>3. CASE Tick
    BY <2>3, SameEntryStays DEF Tick
  <2> QED BY <2>1, <2>2, <2>3 DEF Next
<1> QED
  BY <1>1, InitIInv, NextIInv, PTL DEF Spec, LiveKeyStaysUnlessStale, KeyStays

--------------------------------------------------------------------------------
\* What fits does not wrap around.
LEMMA SmallRemainder ==
    ASSUME NEW M \in Nat \ {0}, NEW x \in 0 .. M - 1
    PROVE  x % M = x
BY SMT

\* Passing a number as an int changes none that is one.
LEMMA Fits == \A n \in Ints : AsInt(n) = n
<1> SUFFICES ASSUME NEW n \in Ints PROVE AsInt(n) = n
  OBVIOUS
<1> DEFINE M == 2 * (MaxInt + 1)
<1>1. MaxInt \in Nat /\ n \in Int /\ M \in Nat \ {0} /\ n + MaxInt + 1 \in 0 .. M - 1
  BY WidthAssumption DEF Ints
<1> HIDE DEF M
<1>2. (n + MaxInt + 1) % M = n + MaxInt + 1
  BY <1>1, SmallRemainder
<1> QED BY <1>1, <1>2 DEF AsInt, M

\* Whole seconds are past when their milliseconds are.
LEMMA PastInSeconds ==
    ASSUME NEW n \in Nat, NEW clock \in Nat
    PROVE  n <= clock \div Second <=> n * Second <= clock
<1> DEFINE q == clock \div Second
<1>1. Second \in Nat /\ Second > 0
  BY WidthAssumption
<1>2. q \in Nat /\ q * Second <= clock /\ clock < q * Second + Second
  BY <1>1, SMT
<1> HIDE DEF q
<1>3. ASSUME n <= q PROVE n * Second <= clock
  <2>1. PICK d \in Nat : q = n + d
    <3>1. q - n \in Nat /\ q = n + (q - n)
      BY <1>2, <1>3
    <3> QED BY <3>1
  <2>2. q * Second = n * Second + d * Second /\ d * Second \in Nat /\ n * Second \in Nat
    BY <1>1, <2>1, SMT
  <2> QED BY <1>1, <1>2, <2>2, SMT
<1>4. ASSUME n * Second <= clock PROVE n <= q
  <2> SUFFICES ASSUME ~(n <= q) PROVE FALSE
    OBVIOUS
  <2>1. PICK d \in Nat : n = q + 1 + d
    <3>1. n - q - 1 \in Nat /\ n = q + 1 + (n - q - 1)
      BY <1>2
    <3> QED BY <3>1
  <2>2. n * Second = q * Second + Second + d * Second /\ d * Second \in Nat /\ q * Second \in Nat
    BY <1>1, <1>2, <2>1, SMT
  <2> QED BY <1>1, <1>2, <1>4, <2>2, SMT
<1> QED BY <1>3, <1>4 DEF q

\* The elements that a command reads, when its size is accepted.
LEMMA SizedRight ==
    ASSUME NEW name \in Names, NEW size \in 1 .. MaxSize, HasArguments(name, size),
           [name |-> name, size |-> size] # [name |-> "SET", size |-> 4]
    PROVE  LastRead(name, size) <= size
BY WidthAssumption, SMT DEF Names, HasArguments, LastRead

\* EXAT compares in seconds, and its outcome is what a comparison of milliseconds gives.
LEMMA ExpiryRight ==
    ASSUME NEW option \in Options, NEW n \in 0 .. Word - 1, NEW clock \in 0 .. Word - 1,
           NEW result, result = Expiry(option, n, clock),
           NEW exact, exact = Exact(option, n, clock)
    PROVE  IF option \in {"EXAT", "PXAT"} /\ exact <= clock THEN result = Refused
           ELSE result.ok /\ (exact < Word => result.time = exact /\ result.time >= clock)
<1> DEFINE ms == Milliseconds(option, n)
<1>1. /\ Word \in Nat \ {0} /\ Second \in Nat \ {0} /\ n \in Nat /\ clock \in Nat
      /\ option \in {"EX", "EXAT"} => ms = n * Second
      /\ option \notin {"EX", "EXAT"} => ms = n
      /\ ms \in Nat
  <2>1. /\ Word \in Nat \ {0} /\ Second \in Nat \ {0} /\ n \in Nat /\ clock \in Nat
    BY WidthAssumption
  <2>2. n * Second \in Nat
    BY <2>1, SMT
  <2> QED BY <2>1, <2>2 DEF Milliseconds
<1> HIDE DEF ms
<1>2. n <= clock \div Second <=> n * Second <= clock
  BY <1>1, PastInSeconds
<1>3. /\ option \in {"EX", "PX"} => exact = clock + ms
      /\ option \in {"EXAT", "PXAT"} => exact = ms
      /\ exact \in Nat
  BY <1>1 DEF Exact, Options, ms
<1>4. ASSUME exact % Word = exact \/ ~(exact < Word), result = ExpiresAt(exact),
             option \in {"EX", "PX"} \/ ~(exact <= clock)
      PROVE  result.ok /\ (exact < Word => result.time = exact /\ result.time >= clock)
  <2>1. result = [ok |-> TRUE, time |-> exact % Word]
    BY <1>4 DEF ExpiresAt
  <2>2. exact >= clock
    BY <1>1, <1>3, <1>4
  <2> QED BY <1>4, <2>1, <2>2
<1>5. exact % Word = exact \/ ~(exact < Word)
  BY <1>1, <1>3, SmallRemainder
<1>6. CASE option \in {"EX", "PX"}
  <2>1. result = ExpiresAt(exact)
    BY <1>3, <1>6 DEF Expiry, ms
  <2> QED BY <1>4, <1>5, <1>6, <2>1
<1>7. CASE option = "EXAT"
  <2>1. result = IF exact <= clock THEN Refused ELSE ExpiresAt(exact)
    BY <1>1, <1>2, <1>3, <1>7 DEF Expiry, ms
  <2> QED BY <1>4, <1>5, <1>7, <2>1
<1>8. CASE option = "PXAT"
  <2>1. result = IF exact <= clock THEN Refused ELSE ExpiresAt(exact)
    BY <1>1, <1>3, <1>8 DEF Expiry, ms
  <2> QED BY <1>4, <1>5, <1>8, <2>1
<1> QED BY <1>6, <1>7, <1>8 DEF Options

\* What get_list gives, element by element.
LEMMA RangeRight ==
    ASSUME NEW list \in Lists, NEW from \in Ints, NEW to \in Ints,
           NEW given, given = GetList(list, from, to)
    PROVE  /\ {given[i] : i \in DOMAIN given} = Selected(list, from, to)
           /\ \A i, j \in DOMAIN given : i < j => given[i] < given[j]
<1> DEFINE size  == Len(list)
           start == IF from < 0 THEN size + from ELSE from
           end   == IF to < 0 THEN size + to ELSE to
           lo    == 1 + (IF start < 0 THEN 0 ELSE start)
           hi    == 1 + (IF end < size THEN end ELSE size - 1)
<1>1. /\ MaxInt \in Nat /\ size \in 0 .. MaxInt /\ from \in Int /\ to \in Int
      /\ list = [i \in 1 .. size |-> i] /\ list \in Seq(Nat) /\ DOMAIN list = 1 .. size
  <2>1. PICK n \in 0 .. MaxLength : list = [i \in 1 .. n |-> i]
    BY DEF Lists
  <2>2. MaxInt \in Nat /\ n \in Nat /\ n \in 0 .. MaxInt
    BY WidthAssumption
  <2>3. list \in Seq(Nat) /\ Len(list) = n
    BY <2>1, <2>2
  <2> QED BY <2>1, <2>2, <2>3, WidthAssumption DEF Ints
<1>2. FromStart(AsInt(from), size) = start /\ FromStart(AsInt(to), size) = end
  <2>1. AsInt(from) = from /\ AsInt(to) = to
    BY Fits
  <2>2. /\ from < 0 => AsInt(size + from) = size + from
        /\ to < 0 => AsInt(size + to) = size + to
    <3>1. /\ from < 0 => size + from \in Ints
          /\ to < 0 => size + to \in Ints
      <4> HIDE DEF size
      <4> QED BY <1>1 DEF Ints
    <3> QED BY <3>1, Fits
  <2> QED BY <2>1, <2>2 DEF FromStart
<1>3. given = IF start > end \/ start >= size THEN <<>> ELSE SubSeq(list, lo, hi)
  <2> HIDE DEF start, end
  <2> QED BY <1>2, Zenon DEF GetList
<1>4. start \in Int /\ end \in Int /\ lo \in Nat \ {0} /\ hi \in Int /\ hi <= size
  <2> HIDE DEF size
  <2> QED BY <1>1
<1>5. \A i \in 1 .. size : i \in Selected(list, from, to) <=> start <= i - 1 /\ i - 1 <= end
  <2> SUFFICES ASSUME NEW i \in 1 .. size
               PROVE  i \in Selected(list, from, to) <=> start <= i - 1 /\ i - 1 <= end
    OBVIOUS
  <2>1. i \in Selected(list, from, to) <=>
            /\ from <= (IF from < 0 THEN i - 1 - size ELSE i - 1)
            /\ (IF to < 0 THEN i - 1 - size ELSE i - 1) <= to
    BY <1>1 DEF Selected
  <2> HIDE DEF size
  <2> QED BY <1>1, <2>1
<1>6. Selected(list, from, to) \subseteq 1 .. size
  BY <1>1 DEF Selected
<1>7. CASE start > end \/ start >= size
  <2>1. given = <<>>
    BY <1>3, <1>7
  <2>2. Selected(list, from, to) = {}
    <3> HIDE DEF start, end, size
    <3> QED BY <1>1, <1>4, <1>5, <1>6, <1>7
  <2> QED BY <2>1, <2>2
<1>8. CASE ~(start > end \/ start >= size)
  <2>1. given = SubSeq(list, lo, hi)
    BY <1>3, <1>8
  <2>2. \A i \in 1 .. size : i \in Selected(list, from, to) <=> lo <= i /\ i <= hi
    <3>1. /\ start \in Int /\ end \in Int /\ size \in Nat
          /\ lo = 1 + (IF start < 0 THEN 0 ELSE start)
          /\ hi = 1 + (IF end < size THEN end ELSE size - 1)
      BY <1>1, <1>4
    <3> HIDE DEF start, end, size, lo, hi
    <3> QED BY <1>5, <3>1
  <2> HIDE DEF start, end, lo, hi, size
  <2>3. \A i \in lo .. hi : i \in 1 .. size /\ list[i] = i /\ list[i] \in Nat
    BY <1>1, <1>4
  <2>4. /\ given \in Seq(Nat) /\ Len(given) = (IF lo <= hi THEN hi - lo + 1 ELSE 0)
        /\ \A i \in 1 .. hi - lo + 1 : given[i] = list[lo + i - 1]
    BY <1>4, <2>1, <2>3, SubSeqProperties
  <2>5. /\ DOMAIN given = 1 .. Len(given)
        /\ \A i \in 1 .. Len(given) : given[i] = lo + i - 1 /\ lo + i - 1 \in lo .. hi
    <3>1. SUFFICES ASSUME NEW i \in 1 .. Len(given)
                   PROVE  given[i] = lo + i - 1 /\ lo + i - 1 \in lo .. hi
      BY <2>4
    <3>2. i \in 1 .. hi - lo + 1 /\ lo + i - 1 \in lo .. hi
      BY <1>4, <2>4
    <3> QED BY <2>3, <2>4, <3>2
  <2>6. {given[i] : i \in DOMAIN given} = Selected(list, from, to)
    <3>1. ASSUME NEW i \in DOMAIN given PROVE given[i] \in Selected(list, from, to)
      BY <1>4, <2>2, <2>3, <2>5
    <3>2. ASSUME NEW e \in Selected(list, from, to) PROVE \E i \in DOMAIN given : e = given[i]
      <4>1. e \in 1 .. size /\ lo <= e /\ e <= hi
        BY <1>6, <2>2
      <4>2. e - lo + 1 \in 1 .. Len(given) /\ lo + (e - lo + 1) - 1 = e
        BY <1>1, <1>4, <2>4, <4>1
      <4> QED BY <2>5, <4>2
    <3> QED BY <3>1, <3>2
  <2>7. \A i, j \in DOMAIN given : i < j => given[i] < given[j]
    BY <1>4, <2>4, <2>5
  <2> QED BY <2>6, <2>7
<1> QED BY <1>7, <1>8

--------------------------------------------------------------------------------
(***************************************************************************)
(* The bytes of a request (RespParser).                                    *)
(*                                                                         *)
(* Induction over the natural numbers, as a fact about a set of them; and  *)
(* with it, that the recursive functions of the parser are what their      *)
(* definitions say: for each one, the functions on 0 .. n that obey it     *)
(* exist and agree.                                                        *)
(***************************************************************************)

\* Of the natural numbers that are not in S, one is the least.
LEMMA LeastOutside ==
    ASSUME NEW S, Nat \ S # {}
    PROVE  \E x \in Nat \ S : \A y \in Nat \ S : ~(<<y, x>> \in OpToRel(<, Nat))
BY NatLessThanWellFounded, WFMin

\* Induction over the natural numbers, for a set of them.
LEMMA NatSetInduction ==
    ASSUME NEW S, 0 \in S, \A n \in Nat : n \in S => n + 1 \in S
    PROVE  Nat \subseteq S
<1>1. SUFFICES ASSUME Nat \ S # {} PROVE FALSE
  OBVIOUS
<1>2. PICK x \in Nat \ S : \A y \in Nat \ S : ~(<<y, x>> \in OpToRel(<, Nat))
  BY <1>1, LeastOutside
<1>3. \A y \in Nat \ S : ~(y < x)
  BY <1>2 DEF OpToRel
<1>4. x \in Nat /\ x # 0 /\ x \notin S
  OBVIOUS
<1>5. x - 1 \in Nat /\ x - 1 < x /\ (x - 1) + 1 = x
  BY <1>4
<1>6. x - 1 \in S
  BY <1>3, <1>5
<1> QED BY <1>4, <1>5, <1>6

\* One more result, when rest are the results of what is behind it.
Nothing == [ok |-> TRUE, results |-> <<>>]

Parsed(s, rest) ==
    IF s = <<>> THEN Nothing
    ELSE IF s[1] \notin ValueTypes THEN Only(FALSE, Found(Invalid(1)))
    ELSE IF Found(parse_value(s)).state = "incomplete" THEN Only(TRUE, Found(parse_value(s)))
    ELSE Before(Found(parse_value(s)), rest[From(s, Found(parse_value(s)).end)])

\* The recursive definition of NumberOf, digit by digit.
LEMMA NumberRule ==
    ASSUME NEW text
    PROVE  /\ NumberOf(text)[0] = 0
           /\ \A n \in Nat : NumberOf(text)[n + 1] = 10 * NumberOf(text)[n] + Digit(text[n + 1])
<1> DEFINE start == 0
           Step(n, x) == 10 * x + Digit(text[n])
           Body(n, g) == IF n = 0 THEN 0 ELSE 10 * g[n - 1] + Digit(text[n])
           f == CHOOSE g : g = [n \in Nat |-> Body(n, g)]
           Part(g, n) == g = [i \in 0 .. n |-> IF i = 0 THEN start ELSE Step(i, g[i - 1])]
           Has == {n \in Nat : \E g : Part(g, n)}
<1>f. NumberOf(text) = f
  BY DEF NumberOf
<1>g. \A n, x : Step(n, x) = 10 * x + Digit(text[n])
  OBVIOUS
<1>s. start = 0
  OBVIOUS
<1>b. \A n \in Nat : \A g : Body(n, g) = IF n = 0 THEN start ELSE Step(n, g[n - 1])
  OBVIOUS
<1> HIDE DEF Step, start, Body
<1>1. 0 \in Has
  <2> DEFINE g == [i \in 0 .. 0 |-> start]
  <2>1. Part(g, 0)
    OBVIOUS
  <2> QED BY <2>1
<1>2. ASSUME NEW n \in Nat, n \in Has PROVE n + 1 \in Has
  <2>1. PICK g : Part(g, n)
    BY <1>2
  <2> DEFINE next == Step(n + 1, g[n])
             h == [i \in 0 .. n + 1 |-> IF i = n + 1 THEN next ELSE g[i]]
  <2>2. ASSUME NEW i \in 0 .. n + 1 PROVE h[i] = IF i = 0 THEN start ELSE Step(i, h[i - 1])
    <3>1. CASE i = n + 1
      <4>1. i # 0 /\ i - 1 = n /\ n \in 0 .. n + 1 /\ n # n + 1
        BY <3>1
      <4>2. h[i] = next /\ h[i - 1] = g[n]
        BY <3>1, <4>1
      <4> QED BY <3>1, <4>1, <4>2
    <3>2. CASE i # n + 1
      <4>1. i \in 0 .. n /\ h[i] = g[i] /\ (i # 0 => h[i - 1] = g[i - 1])
        BY <3>2
      <4> QED BY <2>1, <4>1
    <3> QED BY <3>1, <3>2
  <2> HIDE DEF next
  <2>3. Part(h, n + 1)
    BY <2>2
  <2> HIDE DEF h
  <2> QED BY <2>3
<1> HIDE DEF Has
<1>3. Nat \subseteq Has
  BY <1>1, <1>2, NatSetInduction
<1> DEFINE part(n) == CHOOSE g : Part(g, n)
           h == [n \in Nat |-> part(n)[n]]
<1>4. ASSUME NEW n \in Nat PROVE Part(part(n), n)
  BY <1>3 DEF Has
<1> HIDE DEF part
<1>5. ASSUME NEW n \in Nat PROVE part(n + 1)[n] = part(n)[n]
  <2> DEFINE Same == {i \in Nat : i <= n => part(n + 1)[i] = part(n)[i]}
  <2>1. Part(part(n), n) /\ Part(part(n + 1), n + 1)
    BY <1>4
  <2>2. 0 \in Same
    <3>1. 0 \in 0 .. n /\ 0 \in 0 .. n + 1
      OBVIOUS
    <3> QED BY <2>1, <3>1
  <2>3. ASSUME NEW i \in Nat, i \in Same PROVE i + 1 \in Same
    <3> SUFFICES ASSUME i + 1 <= n PROVE part(n + 1)[i + 1] = part(n)[i + 1]
      OBVIOUS
    <3>1. i + 1 \in 0 .. n /\ i + 1 \in 0 .. n + 1 /\ i + 1 # 0 /\ (i + 1) - 1 = i
      OBVIOUS
    <3>2. part(n + 1)[i] = part(n)[i]
      BY <2>3
    <3>3. /\ part(n + 1)[i + 1] = Step(i + 1, part(n + 1)[i])
          /\ part(n)[i + 1] = Step(i + 1, part(n)[i])
      BY <2>1, <3>1
    <3> QED BY <3>2, <3>3
  <2> HIDE DEF Same
  <2>4. n \in Same
    BY <2>2, <2>3, NatSetInduction
  <2> QED BY <2>4 DEF Same
<1>6. ASSUME NEW n \in Nat PROVE h[n] = Body(n, h)
  <2>1. n \in 0 .. n
    OBVIOUS
  <2>2. h[n] = IF n = 0 THEN start ELSE Step(n, part(n)[n - 1])
    BY <1>4, <2>1
  <2>3. ASSUME n # 0 PROVE part(n)[n - 1] = h[n - 1]
    <3>1. n - 1 \in Nat /\ (n - 1) + 1 = n
      BY <2>3
    <3>2. part((n - 1) + 1)[n - 1] = part(n - 1)[n - 1]
      BY <1>5, <3>1
    <3> QED BY <3>1, <3>2
  <2>4. Body(n, h) = IF n = 0 THEN start ELSE Step(n, h[n - 1])
    BY <1>b
  <2> QED BY <2>2, <2>3, <2>4
<1>7. h = [n \in Nat |-> Body(n, h)]
  BY <1>6
<1> HIDE DEF h
<1>8. f = [n \in Nat |-> Body(n, f)]
  BY <1>7
<1> HIDE DEF f
<1>9. f[0] = start
  BY <1>8, <1>b
<1>10. ASSUME NEW n \in Nat PROVE f[n + 1] = Step(n + 1, f[n])
  <2>1. n + 1 \in Nat /\ n + 1 # 0 /\ (n + 1) - 1 = n
    OBVIOUS
  <2>2. Body(n + 1, f) = Step(n + 1, f[n])
    BY <1>b, <2>1
  <2> QED BY <1>8, <2>1, <2>2
<1> QED BY <1>f, <1>g, <1>s, <1>9, <1>10

\* The recursive definition of ElementsFrom, element by element.
LEMMA ElementsRule ==
    ASSUME NEW element, NEW s, NEW begin
    PROVE  /\ ElementsFrom(element, s, begin)[0] = Complete(<<>>, begin)
           /\ \A n \in Nat : ElementsFrom(element, s, begin)[n + 1] = NextElement(element, s, ElementsFrom(element, s, begin)[n])
<1> DEFINE start == Complete(<<>>, begin)
           Step(n, x) == NextElement(element, s, x)
           Body(n, g) == IF n = 0 THEN Complete(<<>>, begin) ELSE NextElement(element, s, g[n - 1])
           f == CHOOSE g : g = [n \in Nat |-> Body(n, g)]
           Part(g, n) == g = [i \in 0 .. n |-> IF i = 0 THEN start ELSE Step(i, g[i - 1])]
           Has == {n \in Nat : \E g : Part(g, n)}
<1>f. ElementsFrom(element, s, begin) = f
  BY DEF ElementsFrom
<1>g. \A n, x : Step(n, x) = NextElement(element, s, x)
  OBVIOUS
<1>s. start = Complete(<<>>, begin)
  OBVIOUS
<1>b. \A n \in Nat : \A g : Body(n, g) = IF n = 0 THEN start ELSE Step(n, g[n - 1])
  OBVIOUS
<1> HIDE DEF Step, start, Body
<1>1. 0 \in Has
  <2> DEFINE g == [i \in 0 .. 0 |-> start]
  <2>1. Part(g, 0)
    OBVIOUS
  <2> QED BY <2>1
<1>2. ASSUME NEW n \in Nat, n \in Has PROVE n + 1 \in Has
  <2>1. PICK g : Part(g, n)
    BY <1>2
  <2> DEFINE next == Step(n + 1, g[n])
             h == [i \in 0 .. n + 1 |-> IF i = n + 1 THEN next ELSE g[i]]
  <2>2. ASSUME NEW i \in 0 .. n + 1 PROVE h[i] = IF i = 0 THEN start ELSE Step(i, h[i - 1])
    <3>1. CASE i = n + 1
      <4>1. i # 0 /\ i - 1 = n /\ n \in 0 .. n + 1 /\ n # n + 1
        BY <3>1
      <4>2. h[i] = next /\ h[i - 1] = g[n]
        BY <3>1, <4>1
      <4> QED BY <3>1, <4>1, <4>2
    <3>2. CASE i # n + 1
      <4>1. i \in 0 .. n /\ h[i] = g[i] /\ (i # 0 => h[i - 1] = g[i - 1])
        BY <3>2
      <4> QED BY <2>1, <4>1
    <3> QED BY <3>1, <3>2
  <2> HIDE DEF next
  <2>3. Part(h, n + 1)
    BY <2>2
  <2> HIDE DEF h
  <2> QED BY <2>3
<1> HIDE DEF Has
<1>3. Nat \subseteq Has
  BY <1>1, <1>2, NatSetInduction
<1> DEFINE part(n) == CHOOSE g : Part(g, n)
           h == [n \in Nat |-> part(n)[n]]
<1>4. ASSUME NEW n \in Nat PROVE Part(part(n), n)
  BY <1>3 DEF Has
<1> HIDE DEF part
<1>5. ASSUME NEW n \in Nat PROVE part(n + 1)[n] = part(n)[n]
  <2> DEFINE Same == {i \in Nat : i <= n => part(n + 1)[i] = part(n)[i]}
  <2>1. Part(part(n), n) /\ Part(part(n + 1), n + 1)
    BY <1>4
  <2>2. 0 \in Same
    <3>1. 0 \in 0 .. n /\ 0 \in 0 .. n + 1
      OBVIOUS
    <3> QED BY <2>1, <3>1
  <2>3. ASSUME NEW i \in Nat, i \in Same PROVE i + 1 \in Same
    <3> SUFFICES ASSUME i + 1 <= n PROVE part(n + 1)[i + 1] = part(n)[i + 1]
      OBVIOUS
    <3>1. i + 1 \in 0 .. n /\ i + 1 \in 0 .. n + 1 /\ i + 1 # 0 /\ (i + 1) - 1 = i
      OBVIOUS
    <3>2. part(n + 1)[i] = part(n)[i]
      BY <2>3
    <3>3. /\ part(n + 1)[i + 1] = Step(i + 1, part(n + 1)[i])
          /\ part(n)[i + 1] = Step(i + 1, part(n)[i])
      BY <2>1, <3>1
    <3> QED BY <3>2, <3>3
  <2> HIDE DEF Same
  <2>4. n \in Same
    BY <2>2, <2>3, NatSetInduction
  <2> QED BY <2>4 DEF Same
<1>6. ASSUME NEW n \in Nat PROVE h[n] = Body(n, h)
  <2>1. n \in 0 .. n
    OBVIOUS
  <2>2. h[n] = IF n = 0 THEN start ELSE Step(n, part(n)[n - 1])
    BY <1>4, <2>1
  <2>3. ASSUME n # 0 PROVE part(n)[n - 1] = h[n - 1]
    <3>1. n - 1 \in Nat /\ (n - 1) + 1 = n
      BY <2>3
    <3>2. part((n - 1) + 1)[n - 1] = part(n - 1)[n - 1]
      BY <1>5, <3>1
    <3> QED BY <3>1, <3>2
  <2>4. Body(n, h) = IF n = 0 THEN start ELSE Step(n, h[n - 1])
    BY <1>b
  <2> QED BY <2>2, <2>3, <2>4
<1>7. h = [n \in Nat |-> Body(n, h)]
  BY <1>6
<1> HIDE DEF h
<1>8. f = [n \in Nat |-> Body(n, f)]
  BY <1>7
<1> HIDE DEF f
<1>9. f[0] = start
  BY <1>8, <1>b
<1>10. ASSUME NEW n \in Nat PROVE f[n + 1] = Step(n + 1, f[n])
  <2>1. n + 1 \in Nat /\ n + 1 # 0 /\ (n + 1) - 1 = n
    OBVIOUS
  <2>2. Body(n + 1, f) = Step(n + 1, f[n])
    BY <1>b, <2>1
  <2> QED BY <1>8, <2>1, <2>2
<1> QED BY <1>f, <1>g, <1>s, <1>9, <1>10

\* The recursive definition of ElementUpTo, depth by depth.
LEMMA ElementRule ==
    /\ ElementUpTo[0] = [s \in Input |-> ElementBy(Incomplete, s)]
    /\ \A n \in Nat : ElementUpTo[n + 1] = [s \in Input |-> ElementBy(parse_array(ElementUpTo[n], s), s)]
<1> DEFINE start == [s \in Input |-> ElementBy(Incomplete, s)]
           Step(n, x) == [s \in Input |-> ElementBy(parse_array(x, s), s)]
           Body(n, g) == [s \in Input |-> ElementBy(IF n = 0 THEN Incomplete ELSE parse_array(g[n - 1], s), s)]
           f == CHOOSE g : g = [n \in Nat |-> Body(n, g)]
           Part(g, n) == g = [i \in 0 .. n |-> IF i = 0 THEN start ELSE Step(i, g[i - 1])]
           Has == {n \in Nat : \E g : Part(g, n)}
<1>f. ElementUpTo = f
  BY DEF ElementUpTo
<1>g. \A n, x : Step(n, x) = [s \in Input |-> ElementBy(parse_array(x, s), s)]
  OBVIOUS
<1>s. start = [s \in Input |-> ElementBy(Incomplete, s)]
  OBVIOUS
<1>b. \A n \in Nat : \A g : Body(n, g) = IF n = 0 THEN start ELSE Step(n, g[n - 1])
  OBVIOUS
<1> HIDE DEF Step, start, Body
<1>1. 0 \in Has
  <2> DEFINE g == [i \in 0 .. 0 |-> start]
  <2>1. Part(g, 0)
    OBVIOUS
  <2> QED BY <2>1
<1>2. ASSUME NEW n \in Nat, n \in Has PROVE n + 1 \in Has
  <2>1. PICK g : Part(g, n)
    BY <1>2
  <2> DEFINE next == Step(n + 1, g[n])
             h == [i \in 0 .. n + 1 |-> IF i = n + 1 THEN next ELSE g[i]]
  <2>2. ASSUME NEW i \in 0 .. n + 1 PROVE h[i] = IF i = 0 THEN start ELSE Step(i, h[i - 1])
    <3>1. CASE i = n + 1
      <4>1. i # 0 /\ i - 1 = n /\ n \in 0 .. n + 1 /\ n # n + 1
        BY <3>1
      <4>2. h[i] = next /\ h[i - 1] = g[n]
        BY <3>1, <4>1
      <4> QED BY <3>1, <4>1, <4>2
    <3>2. CASE i # n + 1
      <4>1. i \in 0 .. n /\ h[i] = g[i] /\ (i # 0 => h[i - 1] = g[i - 1])
        BY <3>2
      <4> QED BY <2>1, <4>1
    <3> QED BY <3>1, <3>2
  <2> HIDE DEF next
  <2>3. Part(h, n + 1)
    BY <2>2
  <2> HIDE DEF h
  <2> QED BY <2>3
<1> HIDE DEF Has
<1>3. Nat \subseteq Has
  BY <1>1, <1>2, NatSetInduction
<1> DEFINE part(n) == CHOOSE g : Part(g, n)
           h == [n \in Nat |-> part(n)[n]]
<1>4. ASSUME NEW n \in Nat PROVE Part(part(n), n)
  BY <1>3 DEF Has
<1> HIDE DEF part
<1>5. ASSUME NEW n \in Nat PROVE part(n + 1)[n] = part(n)[n]
  <2> DEFINE Same == {i \in Nat : i <= n => part(n + 1)[i] = part(n)[i]}
  <2>1. Part(part(n), n) /\ Part(part(n + 1), n + 1)
    BY <1>4
  <2>2. 0 \in Same
    <3>1. 0 \in 0 .. n /\ 0 \in 0 .. n + 1
      OBVIOUS
    <3> QED BY <2>1, <3>1
  <2>3. ASSUME NEW i \in Nat, i \in Same PROVE i + 1 \in Same
    <3> SUFFICES ASSUME i + 1 <= n PROVE part(n + 1)[i + 1] = part(n)[i + 1]
      OBVIOUS
    <3>1. i + 1 \in 0 .. n /\ i + 1 \in 0 .. n + 1 /\ i + 1 # 0 /\ (i + 1) - 1 = i
      OBVIOUS
    <3>2. part(n + 1)[i] = part(n)[i]
      BY <2>3
    <3>3. /\ part(n + 1)[i + 1] = Step(i + 1, part(n + 1)[i])
          /\ part(n)[i + 1] = Step(i + 1, part(n)[i])
      BY <2>1, <3>1
    <3> QED BY <3>2, <3>3
  <2> HIDE DEF Same
  <2>4. n \in Same
    BY <2>2, <2>3, NatSetInduction
  <2> QED BY <2>4 DEF Same
<1>6. ASSUME NEW n \in Nat PROVE h[n] = Body(n, h)
  <2>1. n \in 0 .. n
    OBVIOUS
  <2>2. h[n] = IF n = 0 THEN start ELSE Step(n, part(n)[n - 1])
    BY <1>4, <2>1
  <2>3. ASSUME n # 0 PROVE part(n)[n - 1] = h[n - 1]
    <3>1. n - 1 \in Nat /\ (n - 1) + 1 = n
      BY <2>3
    <3>2. part((n - 1) + 1)[n - 1] = part(n - 1)[n - 1]
      BY <1>5, <3>1
    <3> QED BY <3>1, <3>2
  <2>4. Body(n, h) = IF n = 0 THEN start ELSE Step(n, h[n - 1])
    BY <1>b
  <2> QED BY <2>2, <2>3, <2>4
<1>7. h = [n \in Nat |-> Body(n, h)]
  BY <1>6
<1> HIDE DEF h
<1>8. f = [n \in Nat |-> Body(n, f)]
  BY <1>7
<1> HIDE DEF f
<1>9. f[0] = start
  BY <1>8, <1>b
<1>10. ASSUME NEW n \in Nat PROVE f[n + 1] = Step(n + 1, f[n])
  <2>1. n + 1 \in Nat /\ n + 1 # 0 /\ (n + 1) - 1 = n
    OBVIOUS
  <2>2. Body(n + 1, f) = Step(n + 1, f[n])
    BY <1>b, <2>1
  <2> QED BY <1>8, <2>1, <2>2
<1> QED BY <1>f, <1>g, <1>s, <1>9, <1>10

\* The recursive definition of ParseUpTo, result by result.
LEMMA ParseRule ==
    /\ ParseUpTo[0] = [s \in Input |-> Nothing]
    /\ \A n \in Nat : ParseUpTo[n + 1] = [s \in Input |-> Parsed(s, ParseUpTo[n])]
<1> DEFINE start == [s \in Input |-> Nothing]
           Step(n, x) == [s \in Input |-> Parsed(s, x)]
           Body(n, g) == [s \in Input |->
              IF n = 0 \/ s = <<>> THEN [ok |-> TRUE, results |-> <<>>]
              ELSE IF s[1] \notin ValueTypes THEN Only(FALSE, Found(Invalid(1)))
              ELSE LET found == Found(parse_value(s))
                   IN  IF found.state = "incomplete" THEN Only(TRUE, found)
                       ELSE Before(found, g[n - 1][From(s, found.end)])]
           f == CHOOSE g : g = [n \in Nat |-> Body(n, g)]
           Part(g, n) == g = [i \in 0 .. n |-> IF i = 0 THEN start ELSE Step(i, g[i - 1])]
           Has == {n \in Nat : \E g : Part(g, n)}
<1>f. ParseUpTo = f
  BY DEF ParseUpTo
<1>g. \A n, x : Step(n, x) = [s \in Input |-> Parsed(s, x)]
  OBVIOUS
<1>s. start = [s \in Input |-> Nothing]
  OBVIOUS
<1>b. \A n \in Nat : \A g : Body(n, g) = IF n = 0 THEN start ELSE Step(n, g[n - 1])
  BY DEF Nothing, Parsed
<1> HIDE DEF Step, start, Body
<1>1. 0 \in Has
  <2> DEFINE g == [i \in 0 .. 0 |-> start]
  <2>1. Part(g, 0)
    OBVIOUS
  <2> QED BY <2>1
<1>2. ASSUME NEW n \in Nat, n \in Has PROVE n + 1 \in Has
  <2>1. PICK g : Part(g, n)
    BY <1>2
  <2> DEFINE next == Step(n + 1, g[n])
             h == [i \in 0 .. n + 1 |-> IF i = n + 1 THEN next ELSE g[i]]
  <2>2. ASSUME NEW i \in 0 .. n + 1 PROVE h[i] = IF i = 0 THEN start ELSE Step(i, h[i - 1])
    <3>1. CASE i = n + 1
      <4>1. i # 0 /\ i - 1 = n /\ n \in 0 .. n + 1 /\ n # n + 1
        BY <3>1
      <4>2. h[i] = next /\ h[i - 1] = g[n]
        BY <3>1, <4>1
      <4> QED BY <3>1, <4>1, <4>2
    <3>2. CASE i # n + 1
      <4>1. i \in 0 .. n /\ h[i] = g[i] /\ (i # 0 => h[i - 1] = g[i - 1])
        BY <3>2
      <4> QED BY <2>1, <4>1
    <3> QED BY <3>1, <3>2
  <2> HIDE DEF next
  <2>3. Part(h, n + 1)
    BY <2>2
  <2> HIDE DEF h
  <2> QED BY <2>3
<1> HIDE DEF Has
<1>3. Nat \subseteq Has
  BY <1>1, <1>2, NatSetInduction
<1> DEFINE part(n) == CHOOSE g : Part(g, n)
           h == [n \in Nat |-> part(n)[n]]
<1>4. ASSUME NEW n \in Nat PROVE Part(part(n), n)
  BY <1>3 DEF Has
<1> HIDE DEF part
<1>5. ASSUME NEW n \in Nat PROVE part(n + 1)[n] = part(n)[n]
  <2> DEFINE Same == {i \in Nat : i <= n => part(n + 1)[i] = part(n)[i]}
  <2>1. Part(part(n), n) /\ Part(part(n + 1), n + 1)
    BY <1>4
  <2>2. 0 \in Same
    <3>1. 0 \in 0 .. n /\ 0 \in 0 .. n + 1
      OBVIOUS
    <3> QED BY <2>1, <3>1
  <2>3. ASSUME NEW i \in Nat, i \in Same PROVE i + 1 \in Same
    <3> SUFFICES ASSUME i + 1 <= n PROVE part(n + 1)[i + 1] = part(n)[i + 1]
      OBVIOUS
    <3>1. i + 1 \in 0 .. n /\ i + 1 \in 0 .. n + 1 /\ i + 1 # 0 /\ (i + 1) - 1 = i
      OBVIOUS
    <3>2. part(n + 1)[i] = part(n)[i]
      BY <2>3
    <3>3. /\ part(n + 1)[i + 1] = Step(i + 1, part(n + 1)[i])
          /\ part(n)[i + 1] = Step(i + 1, part(n)[i])
      BY <2>1, <3>1
    <3> QED BY <3>2, <3>3
  <2> HIDE DEF Same
  <2>4. n \in Same
    BY <2>2, <2>3, NatSetInduction
  <2> QED BY <2>4 DEF Same
<1>6. ASSUME NEW n \in Nat PROVE h[n] = Body(n, h)
  <2>1. n \in 0 .. n
    OBVIOUS
  <2>2. h[n] = IF n = 0 THEN start ELSE Step(n, part(n)[n - 1])
    BY <1>4, <2>1
  <2>3. ASSUME n # 0 PROVE part(n)[n - 1] = h[n - 1]
    <3>1. n - 1 \in Nat /\ (n - 1) + 1 = n
      BY <2>3
    <3>2. part((n - 1) + 1)[n - 1] = part(n - 1)[n - 1]
      BY <1>5, <3>1
    <3> QED BY <3>1, <3>2
  <2>4. Body(n, h) = IF n = 0 THEN start ELSE Step(n, h[n - 1])
    BY <1>b
  <2> QED BY <2>2, <2>3, <2>4
<1>7. h = [n \in Nat |-> Body(n, h)]
  BY <1>6
<1> HIDE DEF h
<1>8. f = [n \in Nat |-> Body(n, f)]
  BY <1>7
<1> HIDE DEF f
<1>9. f[0] = start
  BY <1>8, <1>b
<1>10. ASSUME NEW n \in Nat PROVE f[n + 1] = Step(n + 1, f[n])
  <2>1. n + 1 \in Nat /\ n + 1 # 0 /\ (n + 1) - 1 = n
    OBVIOUS
  <2>2. Body(n + 1, f) = Step(n + 1, f[n])
    BY <1>b, <2>1
  <2> QED BY <1>8, <2>1, <2>2
<1> QED BY <1>f, <1>g, <1>s, <1>9, <1>10

\* q begins with the first n bytes of s.
Agree(s, q, n) == n <= Len(s) /\ n <= Len(q) /\ \A i \in 1 .. n : q[i] = s[i]

\* Of some natural numbers, one is the least.
LEMMA LeastOf ==
    ASSUME NEW S, S \subseteq Nat, S # {}
    PROVE  \E x \in S : \A y \in S : x <= y
<1>1. Nat \ (Nat \ S) # {}
  OBVIOUS
<1>2. PICK x \in Nat \ (Nat \ S) : \A y \in Nat \ (Nat \ S) : ~(<<y, x>> \in OpToRel(<, Nat))
  BY <1>1, LeastOutside
<1>3. \A y \in S : ~(y < x)
  BY <1>2 DEF OpToRel
<1>4. x \in S /\ x \in Nat /\ \A y \in S : y \in Nat
  OBVIOUS
<1>5. \A y \in S : x <= y
  BY <1>3, <1>4
<1> QED BY <1>4, <1>5

\* What a digit stands for is a natural number.
LEMMA DigitIsNumber ==
    ASSUME NEW c, IsDigit(c)
    PROVE  Digit(c) \in Nat
<1>1. PICK j \in DOMAIN DigitCharacters : DigitCharacters[j] = c
  BY DEF IsDigit
<1>2. j \in 1 .. 10
  BY DEF DigitCharacters
<1>3. j - 1 \in 0 .. 9 /\ DigitCharacters[(j - 1) + 1] = c
  BY <1>1, <1>2
<1> QED BY <1>3 DEF Digit

\* The digits that a text begins with are counted.
LEMMA LeadingAreDigits ==
    ASSUME NEW text \in Input
    PROVE  /\ LeadingDigits(text) \in 0 .. Len(text)
           /\ \A i \in 1 .. LeadingDigits(text) : IsDigit(text[i])
<1> DEFINE IsCount(n) == /\ \A i \in 1 .. n : IsDigit(text[i])
                         /\ n < Len(text) => ~IsDigit(text[n + 1])
           Many == {n \in Nat : n <= Len(text) => \A i \in 1 .. n : IsDigit(text[i])}
<1>1. Len(text) \in Nat
  BY DEF Input
<1>2. \E n \in 0 .. Len(text) : IsCount(n)
  <2> SUFFICES ASSUME \A n \in 0 .. Len(text) : ~IsCount(n) PROVE FALSE
    OBVIOUS
  <2>1. 0 \in Many
    OBVIOUS
  <2>2. ASSUME NEW n \in Nat, n \in Many PROVE n + 1 \in Many
    <3> SUFFICES ASSUME n + 1 <= Len(text), NEW i \in 1 .. n + 1 PROVE IsDigit(text[i])
      OBVIOUS
    <3>1. n \in 0 .. Len(text) /\ n < Len(text) /\ \A j \in 1 .. n : IsDigit(text[j])
      BY <1>1, <2>2
    <3>2. IsDigit(text[n + 1])
      BY <3>1
    <3>3. i = n + 1 \/ i \in 1 .. n
      OBVIOUS
    <3> QED BY <3>1, <3>2, <3>3
  <2> HIDE DEF Many
  <2>3. Len(text) \in Many
    BY <1>1, <2>1, <2>2, NatSetInduction
  <2>4. IsCount(Len(text))
    BY <1>1, <2>3 DEF Many
  <2> QED BY <1>1, <2>4
<1> QED BY <1>2 DEF LeadingDigits

\* A text is an unsigned number or -1.
LEMMA UnsignedIsNumber ==
    ASSUME NEW text \in Input
    PROVE  Unsigned(text) \in Nat \cup {-1}
<1> DEFINE Good == {n \in Nat : n <= LeadingDigits(text) => NumberOf(text)[n] \in Nat}
<1>1. LeadingDigits(text) \in Nat /\ \A i \in 1 .. LeadingDigits(text) : Digit(text[i]) \in Nat
  BY LeadingAreDigits, DigitIsNumber DEF Input
<1>2. 0 \in Good
  BY NumberRule
<1>3. ASSUME NEW n \in Nat, n \in Good PROVE n + 1 \in Good
  <2> SUFFICES ASSUME n + 1 <= LeadingDigits(text) PROVE NumberOf(text)[n + 1] \in Nat
    OBVIOUS
  <2>1. NumberOf(text)[n] \in Nat /\ Digit(text[n + 1]) \in Nat
    BY <1>1, <1>3
  <2>2. NumberOf(text)[n + 1] = 10 * NumberOf(text)[n] + Digit(text[n + 1])
    BY NumberRule
  <2> QED BY <2>1, <2>2
<1> HIDE DEF Good
<1>4. LeadingDigits(text) \in Good
  BY <1>1, <1>2, <1>3, NatSetInduction
<1> QED BY <1>1, <1>4 DEF Good, Unsigned

--------------------------------------------------------------------------------

\* A line ends at the first CRLF, and what is behind it is behind its beginning.
LEMMA LineFacts ==
    ASSUME NEW s \in Input, NEW first \in Nat \ {0}, HasLine(s, first)
    PROVE  /\ LineEnd(s, first) \in first .. Len(s) - 1
           /\ s[LineEnd(s, first)] = CR /\ s[LineEnd(s, first) + 1] = LF
           /\ \A j \in LineEnds(s, first) : LineEnd(s, first) <= j
           /\ Behind(s, first) \in Nat /\ first < Behind(s, first) /\ Behind(s, first) <= Len(s)
           /\ Line(s, first) \in Input
<1>1. LineEnds(s, first) \subseteq Nat /\ LineEnds(s, first) # {} /\ Len(s) \in Nat
  BY DEF HasLine, LineEnds, Input
<1>2. /\ LineEnd(s, first) \in LineEnds(s, first)
      /\ \A j \in LineEnds(s, first) : LineEnd(s, first) <= j
  <2>1. PICK x \in LineEnds(s, first) : \A y \in LineEnds(s, first) : x <= y
    BY <1>1, LeastOf
  <2> QED BY <2>1 DEF LineEnd
<1>3. /\ LineEnd(s, first) \in first .. Len(s) - 1
      /\ s[LineEnd(s, first)] = CR /\ s[LineEnd(s, first) + 1] = LF
  BY <1>2 DEF LineEnds
<1>4. Line(s, first) \in Input
  <2>1. \A a \in 1 .. Len(s) + 1, b \in 0 .. Len(s) : SubSeq(s, a, b) \in Input
    BY SubSeqProperties DEF Input
  <2>2. first \in 1 .. Len(s) + 1 /\ LineEnd(s, first) - 1 \in 0 .. Len(s)
    BY <1>1, <1>3
  <2> QED BY <2>1, <2>2 DEF Line
<1> QED BY <1>1, <1>2, <1>3, <1>4 DEF Behind

\* A line is the same in bytes that begin like these, up to behind the line.
LEMMA SameLine ==
    ASSUME NEW s \in Input, NEW first \in Nat \ {0}, HasLine(s, first),
           NEW q \in Input, NEW n \in Nat, Agree(s, q, n), Behind(s, first) <= n
    PROVE  /\ HasLine(q, first)
           /\ Behind(q, first) = Behind(s, first) /\ Line(q, first) = Line(s, first)
<1>1. PICK l : l = LineEnd(s, first)
  OBVIOUS
<1>2. /\ l \in first .. Len(s) - 1 /\ l \in Nat /\ s[l] = CR /\ s[l + 1] = LF /\ l + 1 <= n
      /\ \A j \in LineEnds(s, first) : l <= j
  BY <1>1, LineFacts DEF Behind, Input
<1>3. Len(s) \in Nat /\ Len(q) \in Nat /\ n <= Len(s) /\ n <= Len(q) /\ \A i \in 1 .. n : q[i] = s[i]
  BY DEF Agree, Input
<1>4. l \in LineEnds(q, first)
  BY <1>2, <1>3 DEF LineEnds
<1>5. HasLine(q, first)
  BY <1>4 DEF HasLine
<1>6. PICK k : k = LineEnd(q, first)
  OBVIOUS
<1>7. /\ k \in first .. Len(q) - 1 /\ k \in Nat /\ q[k] = CR /\ q[k + 1] = LF
      /\ \A j \in LineEnds(q, first) : k <= j
  BY <1>5, <1>6, LineFacts DEF Input
<1>8. k <= l
  BY <1>4, <1>7
<1>9. k \in LineEnds(s, first)
  BY <1>2, <1>3, <1>7, <1>8 DEF LineEnds
<1>10. k = l
  BY <1>2, <1>7, <1>8, <1>9
<1>11. SubSeq(q, first, l - 1) = SubSeq(s, first, l - 1)
  <2>1. PICK a, b : a = SubSeq(q, first, l - 1) /\ b = SubSeq(s, first, l - 1)
    OBVIOUS
  <2>2. /\ first \in 1 .. Len(q) + 1 /\ first \in 1 .. Len(s) + 1 /\ first \in Nat
        /\ l - 1 \in first - 1 .. Len(q) /\ l - 1 \in first - 1 .. Len(s) /\ l - 1 \in Int
    BY <1>2, <1>3
  <2>3. /\ a \in Seq(Characters) /\ Len(a) = (l - 1) - first + 1
        /\ \A i \in 1 .. (l - 1) - first + 1 : a[i] = q[first + i - 1]
    BY <2>1, <2>2, SubSeqProperties DEF Input
  <2>4. /\ b \in Seq(Characters) /\ Len(b) = (l - 1) - first + 1
        /\ \A i \in 1 .. (l - 1) - first + 1 : b[i] = s[first + i - 1]
    BY <2>1, <2>2, SubSeqProperties DEF Input
  <2>5. \A i \in 1 .. (l - 1) - first + 1 : first + i - 1 \in 1 .. n
    BY <1>2, <1>3
  <2>6. \A i \in 1 .. Len(a) : a[i] = b[i]
    BY <1>3, <2>3, <2>4, <2>5
  <2>7. a = b
    BY <2>3, <2>4, <2>6, SeqEqual
  <2> QED BY <2>1, <2>7
<1> QED BY <1>1, <1>5, <1>6, <1>10, <1>11 DEF Line, Behind

\* The bytes from place n on.
LEMMA FromFacts ==
    ASSUME NEW s \in Input, NEW n \in 0 .. Len(s)
    PROVE  /\ From(s, n) \in Input /\ Len(From(s, n)) = Len(s) - n
           /\ \A i \in 1 .. Len(s) - n : From(s, n)[i] = s[n + i]
<1>1. Len(s) \in Nat /\ n \in Nat /\ n <= Len(s)
  BY DEF Input
<1>2. SubSeq(s, n + 1, Len(s)) \in Seq(Characters)
  BY <1>1, SubSeqProperties DEF Input
<1>3. Len(SubSeq(s, n + 1, Len(s))) = Len(s) - n
  BY <1>1 DEF Input
<1>4. ASSUME NEW i \in 1 .. Len(s) - n PROVE SubSeq(s, n + 1, Len(s))[i] = s[n + i]
  BY <1>1 DEF Input
<1> QED BY <1>2, <1>3, <1>4 DEF From, Input

\* Bytes that agree do so from any place on.
LEMMA AgreeFrom ==
    ASSUME NEW s \in Input, NEW q \in Input, NEW n \in Nat, NEW m \in Nat, Agree(s, q, n + m)
    PROVE  Agree(From(s, n), From(q, n), m)
<1>1. Len(s) \in Nat /\ Len(q) \in Nat /\ n + m <= Len(s) /\ n + m <= Len(q)
      /\ \A i \in 1 .. n + m : q[i] = s[i]
  BY DEF Agree, Input
<1>2. n \in 0 .. Len(s) /\ n \in 0 .. Len(q)
  BY <1>1
<1>3. ASSUME NEW i \in 1 .. m PROVE From(q, n)[i] = From(s, n)[i]
  <2>1. i \in 1 .. Len(s) - n /\ i \in 1 .. Len(q) - n /\ n + i \in 1 .. n + m
    BY <1>1
  <2>2. From(s, n)[i] = s[n + i]
    BY <1>2, <2>1, FromFacts
  <2>3. From(q, n)[i] = q[n + i]
    BY <1>2, <2>1, FromFacts
  <2> QED BY <1>1, <2>1, <2>2, <2>3
<1>4. Len(From(s, n)) = Len(s) - n /\ Len(From(q, n)) = Len(q) - n
  BY <1>2, FromFacts
<1> QED BY <1>1, <1>3, <1>4 DEF Agree

\* A result that is not incomplete, of the bytes s, and how many of them decide it:
\* behind what is given up one byte more was seen, if there is one.
IsDecision(r, s) ==
    \/ r.state = "complete" /\ r.end \in 1 .. Len(s)
    \/ r.state = "invalid" /\ r.end \in 0 .. Len(s)

Used(r, s) == IF r.state = "complete" \/ r.end = Len(s) THEN r.end ELSE r.end + 1

\* How many bytes a decision was taken on.
LEMMA UsedFacts ==
    ASSUME NEW s \in Input, NEW r, IsDecision(r, s), s # <<>>
    PROVE  /\ r.end \in 0 .. Len(s) /\ Used(r, s) \in 1 .. Len(s)
           /\ r.end <= Used(r, s) /\ Used(r, s) <= r.end + 1
           /\ r.state \in {"complete", "invalid"}
           /\ r.state = "complete" => Used(r, s) = r.end /\ r.end # 0
           /\ r.end < Used(r, s) => r.state = "invalid"
<1>1. Len(s) \in Nat /\ Len(s) # 0
  BY DEF Input
<1>2. r.end \in 0 .. Len(s) /\ r.state \in {"complete", "invalid"} /\ (r.state = "complete" => r.end # 0)
  BY <1>1 DEF IsDecision
<1> QED BY <1>1, <1>2 DEF Used

\* The three kinds of results are told apart.
LEMMA ResultStates ==
    /\ \A v, n : Complete(v, n).state = "complete" /\ Complete(v, n).end = n /\ Complete(v, n).value = v
    /\ \A n : Invalid(n).state = "invalid" /\ Invalid(n).end = n
    /\ Incomplete.state = "incomplete"
BY DEF Complete, Invalid, Incomplete

\* A result that ends where some line does is decided by the bytes up to there.
LEMMA EndsAtLine ==
    ASSUME NEW s \in Input, NEW first \in Nat \ {0}, HasLine(s, first),
           NEW r, r.end = Behind(s, first), r.state \in {"complete", "invalid"}
    PROVE  /\ IsDecision(r, s) /\ r.end > first
           /\ Used(r, s) \in Nat /\ Behind(s, first) <= Used(r, s)
<1>1. Behind(s, first) \in Nat /\ first < Behind(s, first) /\ Behind(s, first) <= Len(s) /\ Len(s) \in Nat
  BY LineFacts DEF Input
<1>2. IsDecision(r, s)
  BY <1>1 DEF IsDecision
<1> QED BY <1>1, <1>2 DEF Used

\* A simple string is decided by the bytes up to its CRLF.
LEMMA SimpleDecided ==
    ASSUME NEW s \in Input, parse_simple_string(s).state # "incomplete"
    PROVE  /\ IsDecision(parse_simple_string(s), s) /\ parse_simple_string(s).end > 0
           /\ \A q \in Input : Agree(s, q, Used(parse_simple_string(s), s)) =>
                 parse_simple_string(q) = parse_simple_string(s)
<1>1. PICK r : r = parse_simple_string(s)
  OBVIOUS
<1>2. HasLine(s, 2)
  BY ResultStates DEF parse_simple_string, parse_text
<1>3. r.end = Behind(s, 2) /\ r.state \in {"complete", "invalid"}
  BY <1>1, <1>2, ResultStates DEF parse_simple_string, parse_text
<1>4. /\ IsDecision(r, s) /\ r.end > 2
      /\ Used(r, s) \in Nat /\ Behind(s, 2) <= Used(r, s)
  BY <1>2, <1>3, EndsAtLine
<1>5. ASSUME NEW q \in Input, Agree(s, q, Used(r, s)) PROVE parse_simple_string(q) = r
  <2>1. HasLine(q, 2) /\ Behind(q, 2) = Behind(s, 2) /\ Line(q, 2) = Line(s, 2)
    BY <1>2, <1>4, <1>5, SameLine
  <2> QED BY <1>1, <1>2, <2>1 DEF parse_simple_string, parse_text
<1> QED BY <1>1, <1>3, <1>4, <1>5, LineFacts, <1>2

\* An error is decided by the bytes up to its CRLF.
LEMMA ErrorDecided ==
    ASSUME NEW s \in Input, parse_error(s).state # "incomplete"
    PROVE  /\ IsDecision(parse_error(s), s) /\ parse_error(s).end > 0
           /\ \A q \in Input : Agree(s, q, Used(parse_error(s), s)) => parse_error(q) = parse_error(s)
<1>1. PICK r : r = parse_error(s)
  OBVIOUS
<1>2. HasLine(s, 2)
  BY ResultStates DEF parse_error, parse_text
<1>3. r.end = Behind(s, 2) /\ r.state \in {"complete", "invalid"}
  BY <1>1, <1>2, ResultStates DEF parse_error, parse_text
<1>4. /\ IsDecision(r, s) /\ r.end > 2
      /\ Used(r, s) \in Nat /\ Behind(s, 2) <= Used(r, s)
  BY <1>2, <1>3, EndsAtLine
<1>5. ASSUME NEW q \in Input, Agree(s, q, Used(r, s)) PROVE parse_error(q) = r
  <2>1. HasLine(q, 2) /\ Behind(q, 2) = Behind(s, 2) /\ Line(q, 2) = Line(s, 2)
    BY <1>2, <1>4, <1>5, SameLine
  <2> QED BY <1>1, <1>2, <2>1 DEF parse_error, parse_text
<1> QED BY <1>1, <1>3, <1>4, <1>5, LineFacts, <1>2

\* An integer is decided by the bytes up to its CRLF.
LEMMA IntegerDecided ==
    ASSUME NEW s \in Input, parse_integer(s).state # "incomplete"
    PROVE  /\ IsDecision(parse_integer(s), s) /\ parse_integer(s).end > 0
           /\ \A q \in Input : Agree(s, q, Used(parse_integer(s), s)) => parse_integer(q) = parse_integer(s)
<1>1. PICK r : r = parse_integer(s)
  OBVIOUS
<1>2. HasLine(s, 2)
  BY ResultStates DEF parse_integer
<1>3. r.end = Behind(s, 2) /\ r.state \in {"complete", "invalid"}
  BY <1>1, <1>2, ResultStates DEF parse_integer
<1>4. /\ IsDecision(r, s) /\ r.end > 2
      /\ Used(r, s) \in Nat /\ Behind(s, 2) <= Used(r, s)
  BY <1>2, <1>3, EndsAtLine
<1>5. ASSUME NEW q \in Input, Agree(s, q, Used(r, s)) PROVE parse_integer(q) = r
  <2>1. HasLine(q, 2) /\ Behind(q, 2) = Behind(s, 2) /\ Line(q, 2) = Line(s, 2)
    BY <1>2, <1>4, <1>5, SameLine
  <2> QED BY <1>1, <1>2, <2>1 DEF parse_integer
<1> QED BY <1>1, <1>3, <1>4, <1>5, LineFacts, <1>2

\* A bulk string is decided by the bytes up to its last CRLF, or those that rule it out.
LEMMA BulkDecided ==
    ASSUME NEW s \in Input, parse_bulk_string(s).state # "incomplete"
    PROVE  /\ IsDecision(parse_bulk_string(s), s) /\ parse_bulk_string(s).end > 2
           /\ HasLine(s, 2) /\ Behind(s, 2) <= Used(parse_bulk_string(s), s)
           /\ \A q \in Input : Agree(s, q, Used(parse_bulk_string(s), s)) =>
                 parse_bulk_string(q) = parse_bulk_string(s)
<1>1. PICK r : r = parse_bulk_string(s)
  OBVIOUS
<1>2. HasLine(s, 2)
  BY ResultStates DEF parse_bulk_string
<1>3. PICK b, length : b = Behind(s, 2) /\ length = Unsigned(Line(s, 2))
  OBVIOUS
<1>4. b \in Nat /\ 2 < b /\ b <= Len(s) /\ Len(s) \in Nat /\ b + 1 \in Nat \ {0}
  BY <1>2, <1>3, LineFacts DEF Input
<1>5. r = bulk_content(s, length, b)
  BY <1>1, <1>2, <1>3 DEF parse_bulk_string
<1>6. CASE length = -1
  <2>1. r = Invalid(b) /\ r.end = Behind(s, 2) /\ r.state \in {"complete", "invalid"}
    BY <1>3, <1>5, <1>6, ResultStates DEF bulk_content
  <2>2. /\ IsDecision(r, s) /\ r.end > 2
        /\ Used(r, s) \in Nat /\ Behind(s, 2) <= Used(r, s)
    BY <1>2, <2>1, EndsAtLine
  <2>3. ASSUME NEW q \in Input, Agree(s, q, Used(r, s)) PROVE parse_bulk_string(q) = r
    <3>1. HasLine(q, 2) /\ Behind(q, 2) = b /\ Line(q, 2) = Line(s, 2)
      BY <1>2, <1>3, <2>2, <2>3, SameLine
    <3> QED BY <1>3, <1>6, <2>1, <3>1 DEF parse_bulk_string, bulk_content
  <2> QED BY <1>1, <1>2, <2>2, <2>3
<1>7. CASE length # -1
  <2>1. HasLine(s, b + 1)
    BY <1>1, <1>5, <1>7, ResultStates DEF bulk_content
  <2>2. r.end = Behind(s, b + 1) /\ r.state \in {"complete", "invalid"}
    BY <1>5, <1>7, <2>1, ResultStates DEF bulk_content
  <2>3. /\ IsDecision(r, s) /\ r.end > b + 1
        /\ Used(r, s) \in Nat /\ Behind(s, b + 1) <= Used(r, s)
    BY <1>4, <2>1, <2>2, EndsAtLine
  <2>4. r.end > 2 /\ b <= Used(r, s)
    <3>1. Behind(s, b + 1) \in Nat
      BY <1>4, <2>1, LineFacts
    <3> QED BY <1>4, <2>2, <2>3, <3>1
  <2>5. ASSUME NEW q \in Input, Agree(s, q, Used(r, s)) PROVE parse_bulk_string(q) = r
    <3>1. HasLine(q, 2) /\ Behind(q, 2) = b /\ Line(q, 2) = Line(s, 2)
      BY <1>2, <1>3, <2>3, <2>4, <2>5, SameLine
    <3>2. HasLine(q, b + 1) /\ Behind(q, b + 1) = Behind(s, b + 1) /\ Line(q, b + 1) = Line(s, b + 1)
      BY <1>4, <2>1, <2>3, <2>5, SameLine
    <3>3. parse_bulk_string(q) = bulk_content(q, length, b)
      BY <1>3, <3>1 DEF parse_bulk_string
    <3> QED BY <1>5, <1>7, <2>1, <3>2, <3>3 DEF bulk_content
  <2> QED BY <1>1, <1>2, <1>3, <2>3, <2>4, <2>5
<1> QED BY <1>6, <1>7

\* Null, as a value of its type is written.
NullOf(c) == <<c, "-", "1", CR, LF>>

\* Only the way to write null that begins like the bytes can be theirs.
LEMMA NullVariant ==
    ASSUME NEW s \in Input, s # <<>>, s[1] \in {"$", "*"}
    PROVE  parse_null(s) = check_null_variant(s, NullOf(s[1]))
<1> DEFINE bulk == <<"$", "-", "1", CR, LF>>
           array == <<"*", "-", "1", CR, LF>>
           null == <<"_", CR, LF>>
<1>1. 1 \in DOMAIN s
  BY DEF Input
<1>2. /\ 1 \in DOMAIN bulk /\ 1 \in DOMAIN array /\ 1 \in DOMAIN null
      /\ bulk[1] = "$" /\ array[1] = "*" /\ null[1] = "_"
  OBVIOUS
<1>3. check_null_variant(s, null) = Invalid(0)
  BY <1>1, <1>2 DEF check_null_variant
<1>4. CASE s[1] = "$"
  <2>1. check_null_variant(s, array) = Invalid(0)
    BY <1>1, <1>2, <1>4 DEF check_null_variant
  <2>2. parse_null(s) = UnlessInvalid(check_null_variant(s, bulk), Invalid(0))
    BY <1>3, <2>1, ResultStates DEF parse_null, UnlessInvalid
  <2>3. NullOf(s[1]) = bulk
    BY <1>4 DEF NullOf
  <2>4. check_null_variant(s, bulk).state = "invalid" => check_null_variant(s, bulk) = Invalid(0)
    BY ResultStates DEF check_null_variant
  <2> QED BY <2>2, <2>3, <2>4 DEF UnlessInvalid
<1>5. CASE s[1] = "*"
  <2>1. check_null_variant(s, bulk) = Invalid(0)
    BY <1>1, <1>2, <1>5 DEF check_null_variant
  <2>2. parse_null(s) = UnlessInvalid(check_null_variant(s, array), Invalid(0))
    BY <1>3, <2>1, ResultStates DEF parse_null, UnlessInvalid
  <2>3. NullOf(s[1]) = array
    BY <1>5 DEF NullOf
  <2>4. check_null_variant(s, array).state = "invalid" => check_null_variant(s, array) = Invalid(0)
    BY ResultStates DEF check_null_variant
  <2> QED BY <2>2, <2>3, <2>4 DEF UnlessInvalid
<1> QED BY <1>4, <1>5

\* The ways to write null that begin with a dollar sign or a star, byte by byte.
LEMMA NullFacts ==
    ASSUME NEW c
    PROVE  /\ DOMAIN NullOf(c) = 1 .. 5 /\ Len(NullOf(c)) = 5
           /\ NullOf(c)[1] = c /\ NullOf(c)[2] = "-" /\ NullOf(c)[3] = "1"
           /\ NullOf(c)[4] = CR /\ NullOf(c)[5] = LF
BY DEF NullOf

\* Null is decided by the bytes it is written with, and that bytes are not null by
\* the bytes up to the end of a line.
LEMMA NullDecided ==
    ASSUME NEW s \in Input, s # <<>>, s[1] \in {"$", "*"}
    PROVE  /\ parse_null(s).state \in {"complete", "invalid", "incomplete"}
           /\ parse_null(s).state = "complete" =>
                 /\ IsDecision(parse_null(s), s) /\ parse_null(s).end > 0
                 /\ \A q \in Input : Agree(s, q, Used(parse_null(s), s)) => parse_null(q) = parse_null(s)
           /\ parse_null(s).state = "invalid" /\ HasLine(s, 2) =>
                 \A q \in Input, n \in Nat :
                    Agree(s, q, n) /\ Behind(s, 2) <= n => parse_null(q).state = "invalid"
<1>1. PICK r, v : r = parse_null(s) /\ v = NullOf(s[1])
  OBVIOUS
<1>2. r = check_null_variant(s, v)
  BY <1>1, NullVariant
<1>3. DOMAIN v = 1 .. 5 /\ Len(v) = 5 /\ DOMAIN s = 1 .. Len(s) /\ Len(s) \in Nat /\ Len(s) # 0
  BY <1>1, NullFacts DEF Input
<1>4. r.state \in {"complete", "invalid", "incomplete"}
  BY <1>2, ResultStates DEF check_null_variant
<1>5. ASSUME NEW q \in Input, NEW n \in Nat, n # 0, Agree(s, q, n)
      PROVE  /\ parse_null(q) = check_null_variant(q, v)
             /\ DOMAIN q = 1 .. Len(q) /\ Len(q) \in Nat /\ n <= Len(q) /\ n <= Len(s)
             /\ \A i \in 1 .. n : q[i] = s[i]
  <2>1. /\ DOMAIN q = 1 .. Len(q) /\ Len(q) \in Nat /\ n <= Len(q) /\ n <= Len(s)
        /\ \A i \in 1 .. n : q[i] = s[i]
    BY <1>5 DEF Agree, Input
  <2>2. q # <<>> /\ q[1] = s[1]
    BY <1>5, <2>1
  <2> QED BY <1>1, <2>1, <2>2, NullVariant
<1>6. ASSUME r.state = "complete"
      PROVE  /\ IsDecision(r, s) /\ r.end > 0
             /\ \A q \in Input : Agree(s, q, Used(r, s)) => parse_null(q) = r
  <2>1. /\ \A i \in DOMAIN s \cap DOMAIN v : s[i] = v[i]
        /\ Len(s) >= 5 /\ r = Complete(Null, 5) /\ r.end = 5
    BY <1>2, <1>3, <1>6, ResultStates DEF check_null_variant
  <2>2. IsDecision(r, s) /\ Used(r, s) = 5
    BY <1>3, <1>6, <2>1 DEF IsDecision, Used
  <2>3. ASSUME NEW q \in Input, Agree(s, q, 5) PROVE parse_null(q) = r
    <3>1. /\ parse_null(q) = check_null_variant(q, v)
          /\ DOMAIN q = 1 .. Len(q) /\ Len(q) \in Nat /\ 5 <= Len(q)
          /\ \A i \in 1 .. 5 : q[i] = s[i]
      BY <1>5, <2>3
    <3>2. \A i \in 1 .. 5 : i \in DOMAIN s \cap DOMAIN v
      BY <1>3, <2>1
    <3>3. \A i \in DOMAIN q \cap DOMAIN v : q[i] = v[i]
      BY <1>3, <2>1, <3>1, <3>2
    <3> QED BY <1>3, <2>1, <3>1, <3>3 DEF check_null_variant
  <2> QED BY <2>1, <2>2, <2>3
<1>7. ASSUME r.state = "invalid", HasLine(s, 2), NEW q \in Input, NEW n \in Nat, Agree(s, q, n), Behind(s, 2) <= n
      PROVE  parse_null(q).state = "invalid"
  <2>1. PICK i \in DOMAIN s \cap DOMAIN v : s[i] # v[i]
    BY <1>2, <1>7, ResultStates DEF check_null_variant
  <2>2. PICK l : l = LineEnd(s, 2)
    OBVIOUS
  <2>3. l \in Nat /\ 2 <= l /\ l + 1 <= Len(s) /\ s[l] = CR /\ s[l + 1] = LF /\ l + 1 <= n
    BY <1>3, <1>7, <2>2, LineFacts DEF Behind
  <2>4. \E j \in 1 .. 5 : j <= l + 1 /\ s[j] # v[j]
    <3>1. CASE i <= l + 1
      BY <1>3, <2>1, <3>1
    <3>2. CASE ~(i <= l + 1)
      <4>1. l = 2 \/ l = 3
        BY <1>3, <2>1, <2>3, <3>2
      <4>2. v[2] # CR /\ v[3] # CR
        BY <1>1, NullFacts DEF CR
      <4> QED BY <2>3, <4>1, <4>2
    <3> QED BY <3>1, <3>2
  <2>5. PICK j \in 1 .. 5 : j <= l + 1 /\ s[j] # v[j]
    BY <2>4
  <2>6. /\ parse_null(q) = check_null_variant(q, v)
        /\ DOMAIN q = 1 .. Len(q) /\ Len(q) \in Nat /\ n <= Len(q)
        /\ \A k \in 1 .. n : q[k] = s[k]
    BY <1>5, <1>7, <2>3
  <2>7. j \in DOMAIN q \cap DOMAIN v /\ q[j] # v[j]
    BY <1>3, <2>3, <2>5, <2>6
  <2> QED BY <2>6, <2>7, ResultStates DEF check_null_variant
<1> QED BY <1>1, <1>4, <1>6, <1>7

\* An element of the function is decided by some of the bytes that it is given.
Decides(element) ==
    \A t \in Input : t # <<>> /\ element[t].state # "incomplete" => IsDecision(element[t], t)

\* What element decides of some bytes, other decides of those that begin like them,
\* up to a length.
DecidesLike(other, element, length) ==
    \A t, u \in Input :
       /\ t # <<>> /\ element[t].state # "incomplete"
       /\ Len(u) <= length /\ Agree(t, u, Used(element[t], t))
       => other[u] = element[t]

\* Bytes that agree do so when fewer of them are looked at.
LEMMA AgreeLess ==
    ASSUME NEW s \in Input, NEW q \in Input, NEW n \in Nat, NEW m \in Nat, m <= n, Agree(s, q, n)
    PROVE  Agree(s, q, m)
<1>1. Len(s) \in Nat /\ Len(q) \in Nat
  BY DEF Input
<1> QED BY <1>1 DEF Agree

\* Elements are decided by their bytes, when each one is.
LEMMA ElementsDecided ==
    ASSUME NEW E, NEW F, NEW m \in Nat, Decides(E), DecidesLike(F, E, m),
           NEW s \in Input, NEW begin \in 1 .. Len(s), NEW n \in Nat,
           ElementsFrom(E, s, begin)[n].state # "incomplete"
    PROVE  /\ IsDecision(ElementsFrom(E, s, begin)[n], s)
           /\ begin <= ElementsFrom(E, s, begin)[n].end
           /\ begin <= Used(ElementsFrom(E, s, begin)[n], s)
           /\ \A q \in Input :
                 Len(q) <= begin + m /\ Agree(s, q, Used(ElementsFrom(E, s, begin)[n], s)) =>
                    ElementsFrom(F, q, begin)[n] = ElementsFrom(E, s, begin)[n]
<1> DEFINE read(i) == ElementsFrom(E, s, begin)[i]
           Fine(i) == /\ IsDecision(read(i), s)
                      /\ begin <= read(i).end /\ begin <= Used(read(i), s)
                      /\ \A q \in Input :
                            Len(q) <= begin + m /\ Agree(s, q, Used(read(i), s)) =>
                               ElementsFrom(F, q, begin)[i] = read(i)
           Good == {i \in Nat : read(i).state # "incomplete" => Fine(i)}
<1>1. Len(s) \in Nat /\ begin \in Nat /\ begin # 0 /\ begin <= Len(s) /\ s # <<>>
  BY DEF Input
<1>2. 0 \in Good
  <2>1. read(0) = Complete(<<>>, begin) /\ \A q : ElementsFrom(F, q, begin)[0] = Complete(<<>>, begin)
    BY ElementsRule
  <2>2. IsDecision(read(0), s) /\ read(0).end = begin /\ Used(read(0), s) = begin
    BY <1>1, <2>1, ResultStates DEF IsDecision, Used
  <2> HIDE DEF read
  <2> QED BY <1>1, <2>1, <2>2
<1>3. ASSUME NEW i \in Nat, i \in Good PROVE i + 1 \in Good
  <2> SUFFICES ASSUME read(i + 1).state # "incomplete" PROVE Fine(i + 1)
    BY DEF Good
  <2>1. /\ read(i + 1) = NextElement(E, s, read(i))
        /\ \A q : ElementsFrom(F, q, begin)[i + 1] = NextElement(F, q, ElementsFrom(F, q, begin)[i])
    BY ElementsRule
  <2> HIDE DEF read
  <2>2. read(i).state # "incomplete"
    BY <2>1, ResultStates DEF NextElement
  <2>3. Fine(i)
    BY <1>3, <2>2
  <2>4. CASE read(i).state # "complete"
    <3>1. read(i + 1) = read(i)
      BY <2>1, <2>4 DEF NextElement
    <3>2. ASSUME NEW q \in Input, Len(q) <= begin + m, Agree(s, q, Used(read(i), s))
          PROVE  ElementsFrom(F, q, begin)[i + 1] = read(i)
      <4>1. ElementsFrom(F, q, begin)[i] = read(i)
        BY <2>3, <3>2
      <4> QED BY <2>1, <2>4, <4>1 DEF NextElement
    <3> QED BY <2>3, <3>1, <3>2
  <2>5. CASE read(i).state = "complete"
    <3>1. PICK e : e = read(i).end
      OBVIOUS
    <3>2. e \in Nat /\ begin <= e /\ e <= Len(s) /\ Used(read(i), s) = e
      BY <1>1, <2>3, <2>5, <3>1 DEF IsDecision, Used
    <3>3. e < Len(s)
      BY <1>1, <2>1, <2>5, <3>1, <3>2, ResultStates DEF NextElement
    <3>4. PICK t, x : t = From(s, e) /\ x = E[t]
      OBVIOUS
    <3>5. t \in Input /\ Len(t) = Len(s) - e /\ Len(t) \in Nat /\ Len(t) # 0 /\ t # <<>>
      BY <1>1, <3>2, <3>3, <3>4, FromFacts, SMTT(30) DEF Input
    <3>6. read(i + 1) = Following(read(i), x)
      BY <1>1, <2>1, <2>5, <3>1, <3>2, <3>3, <3>4 DEF NextElement
    <3>7. x.state # "incomplete"
      BY <3>6, ResultStates DEF Following
    <3>8. IsDecision(x, t)
      BY <3>4, <3>5, <3>7 DEF Decides
    <3>9. /\ x.end \in 0 .. Len(t) /\ Used(x, t) \in 1 .. Len(t)
          /\ x.state \in {"complete", "invalid"} /\ (x.state = "complete" => Used(x, t) = x.end)
      BY <3>5, <3>8, UsedFacts
    <3>10. read(i + 1).state = x.state /\ read(i + 1).end = e + x.end
      BY <3>1, <3>6, <3>9, ResultStates DEF Following
    <3>11. IsDecision(read(i + 1), s)
      BY <1>1, <3>2, <3>5, <3>8, <3>9, <3>10 DEF IsDecision
    <3>12. Used(read(i + 1), s) = e + Used(x, t)
      BY <1>1, <3>2, <3>5, <3>9, <3>10, SMTT(30) DEF Used
    <3>13. ASSUME NEW q \in Input, Len(q) <= begin + m, Agree(s, q, e + Used(x, t))
           PROVE  ElementsFrom(F, q, begin)[i + 1] = read(i + 1)
      <4>1. Used(x, t) \in Nat /\ e + Used(x, t) \in Nat /\ e <= e + Used(x, t) /\ Used(x, t) # 0
        BY <3>2, <3>5, <3>9
      <4>2. Agree(s, q, e)
        BY <3>2, <3>13, <4>1, AgreeLess
      <4>3. ElementsFrom(F, q, begin)[i] = read(i)
        BY <2>3, <3>2, <3>13, <4>2
      <4>4. e + Used(x, t) <= Len(q) /\ Len(q) \in Nat
        BY <3>13 DEF Agree, Input
      <4>5. e < Len(q) /\ e \in 0 .. Len(q)
        BY <3>2, <4>1, <4>4
      <4>6. From(q, e) \in Input /\ Len(From(q, e)) <= m
        BY <3>2, <3>13, <1>1, <4>4, <4>5, FromFacts
      <4>7. Agree(t, From(q, e), Used(x, t))
        BY <3>2, <3>4, <3>13, <4>1, AgreeFrom
      <4>8. F[From(q, e)] = x
        BY <3>4, <3>5, <3>7, <4>6, <4>7 DEF DecidesLike
      <4>9. NextElement(F, q, read(i)) = Following(read(i), x)
        BY <2>5, <3>1, <3>2, <4>4, <4>5, <4>8 DEF NextElement
      <4> QED BY <2>1, <3>6, <4>3, <4>9
    <3>14. begin <= read(i + 1).end /\ begin <= Used(read(i + 1), s)
      BY <1>1, <3>2, <3>5, <3>9, <3>10, <3>12
    <3> QED BY <3>11, <3>12, <3>13, <3>14
  <2> QED BY <2>4, <2>5
<1> HIDE DEF Good
<1>4. n \in Good
  BY <1>2, <1>3, NatSetInduction
<1> QED BY <1>4 DEF Good

\* An array is decided by its bytes, when each of its elements is.
LEMMA ArrayDecided ==
    ASSUME NEW E, NEW F, NEW m \in Nat, Decides(E), DecidesLike(F, E, m),
           NEW s \in Input, parse_array(E, s).state # "incomplete"
    PROVE  /\ IsDecision(parse_array(E, s), s) /\ parse_array(E, s).end > 2
           /\ HasLine(s, 2) /\ Behind(s, 2) <= Used(parse_array(E, s), s)
           /\ Used(parse_array(E, s), s) \in Nat
           /\ \A q \in Input :
                 Len(q) <= m + 1 /\ Agree(s, q, Used(parse_array(E, s), s)) =>
                    parse_array(F, q) = parse_array(E, s)
<1>1. PICK r : r = parse_array(E, s)
  OBVIOUS
<1>2. HasLine(s, 2)
  BY ResultStates DEF parse_array
<1>3. PICK b, count : b = Behind(s, 2) /\ count = Unsigned(Line(s, 2))
  OBVIOUS
<1>4. b \in Nat /\ 2 < b /\ b <= Len(s) /\ Len(s) \in Nat /\ b \in 1 .. Len(s) /\ s # <<>>
  BY <1>2, <1>3, LineFacts DEF Input
<1>5. count \in Nat \cup {-1}
  BY <1>2, <1>3, LineFacts, UnsignedIsNumber
<1>6. CASE count = -1
  <2>1. r = Invalid(b) /\ r.end = Behind(s, 2) /\ r.state \in {"complete", "invalid"}
    BY <1>1, <1>2, <1>3, <1>6, ResultStates DEF parse_array
  <2>2. /\ IsDecision(r, s) /\ r.end > 2
        /\ Used(r, s) \in Nat /\ Behind(s, 2) <= Used(r, s)
    BY <1>2, <2>1, EndsAtLine
  <2>3. ASSUME NEW q \in Input, Agree(s, q, Used(r, s)) PROVE parse_array(F, q) = r
    <3>1. HasLine(q, 2) /\ Behind(q, 2) = b /\ Line(q, 2) = Line(s, 2)
      BY <1>2, <1>3, <2>2, <2>3, SameLine
    <3> QED BY <1>3, <1>6, <2>1, <3>1 DEF parse_array
  <2> QED BY <1>1, <1>2, <2>2, <2>3
<1>7. CASE count # -1
  <2>1. PICK read : read = ElementsFrom(E, s, b)[count]
    OBVIOUS
  <2>2. r = AsArray(read)
    BY <1>1, <1>2, <1>3, <1>7, <2>1 DEF parse_array
  <2>3. read.state # "incomplete" /\ r.state = read.state
    BY <1>1, <2>2, ResultStates DEF AsArray
  <2>4. /\ IsDecision(read, s) /\ b <= read.end /\ b <= Used(read, s)
        /\ \A q \in Input : Len(q) <= b + m /\ Agree(s, q, Used(read, s)) =>
              ElementsFrom(F, q, b)[count] = read
    BY <1>4, <1>5, <1>7, <2>1, <2>3, ElementsDecided
  <2>5. r.end = read.end
    BY <2>2, <2>4, ResultStates DEF AsArray
  <2>6. IsDecision(r, s) /\ Used(r, s) = Used(read, s)
    BY <2>3, <2>4, <2>5 DEF IsDecision, Used
  <2>7. Used(r, s) \in Nat /\ r.end \in Nat
    BY <1>4, <2>6, UsedFacts
  <2>8. ASSUME NEW q \in Input, Len(q) <= m + 1, Agree(s, q, Used(r, s)) PROVE parse_array(F, q) = r
    <3>1. HasLine(q, 2) /\ Behind(q, 2) = b /\ Line(q, 2) = Line(s, 2)
      BY <1>2, <1>3, <2>4, <2>6, <2>7, <2>8, SameLine
    <3>2. Len(q) <= b + m
      BY <1>4, <2>8 DEF Input
    <3>3. ElementsFrom(F, q, b)[count] = read
      BY <2>4, <2>6, <2>8, <3>2
    <3> QED BY <1>3, <1>7, <2>2, <3>1, <3>3 DEF parse_array
  <2>9. r.end > 2
    BY <1>4, <2>4, <2>5, <2>7
  <2> QED BY <1>1, <1>2, <1>3, <2>4, <2>6, <2>7, <2>8, <2>9
<1> QED BY <1>6, <1>7

\* Which parse function reads an element.
LEMMA ElementCases ==
    ASSUME NEW a, NEW s
    PROVE  /\ s[1] = "$" => ElementBy(a, s) = UnlessInvalid(parse_null(s), parse_bulk_string(s))
           /\ s[1] = ":" => ElementBy(a, s) = parse_integer(s)
           /\ s[1] = "+" => ElementBy(a, s) = parse_simple_string(s)
           /\ s[1] = "-" => ElementBy(a, s) = parse_error(s)
           /\ s[1] = "*" => ElementBy(a, s) = a
           /\ s[1] \notin ValueTypes => ElementBy(a, s) = Invalid(0)
BY DEF ElementBy, ValueTypes

\* An element that is no array.
LEMMA PlainDecided ==
    ASSUME NEW s \in Input, s # <<>>, s[1] # "*", NEW a, ElementBy(a, s).state # "incomplete"
    PROVE  /\ IsDecision(ElementBy(a, s), s)
           /\ s[1] \in ValueTypes => ElementBy(a, s).end > 0
           /\ \A q \in Input : \A b : Agree(s, q, Used(ElementBy(a, s), s)) => ElementBy(b, q) = ElementBy(a, s)
<1>1. PICK r : r = ElementBy(a, s)
  OBVIOUS
<1>2. Len(s) \in Nat /\ Len(s) # 0
  BY DEF Input
<1>3. ASSUME NEW q \in Input, NEW n, n \in Nat, n # 0, Agree(s, q, n) PROVE q[1] = s[1] /\ q # <<>>
  <2>1. Len(q) \in Nat /\ n <= Len(q) /\ 1 \in 1 .. n
    BY <1>3 DEF Agree, Input
  <2> QED BY <1>3, <2>1 DEF Agree
<1>4. IsDecision(r, s) => Used(r, s) \in Nat /\ Used(r, s) # 0
  BY <1>2, UsedFacts
<1>5. CASE s[1] = ":"
  <2>1. r = parse_integer(s)
    BY <1>1, <1>5, ElementCases
  <2>2. IsDecision(r, s) /\ r.end > 0
        /\ \A q \in Input : Agree(s, q, Used(r, s)) => parse_integer(q) = r
    BY <1>1, <2>1, IntegerDecided
  <2>3. \A q \in Input : \A b : Agree(s, q, Used(r, s)) => ElementBy(b, q) = r
    BY <1>3, <1>4, <1>5, <2>2, ElementCases
  <2> QED BY <1>1, <2>2, <2>3
<1>6. CASE s[1] = "+"
  <2>1. r = parse_simple_string(s)
    BY <1>1, <1>6, ElementCases
  <2>2. IsDecision(r, s) /\ r.end > 0
        /\ \A q \in Input : Agree(s, q, Used(r, s)) => parse_simple_string(q) = r
    BY <1>1, <2>1, SimpleDecided
  <2>3. \A q \in Input : \A b : Agree(s, q, Used(r, s)) => ElementBy(b, q) = r
    BY <1>3, <1>4, <1>6, <2>2, ElementCases
  <2> QED BY <1>1, <2>2, <2>3
<1>7. CASE s[1] = "-"
  <2>1. r = parse_error(s)
    BY <1>1, <1>7, ElementCases
  <2>2. IsDecision(r, s) /\ r.end > 0
        /\ \A q \in Input : Agree(s, q, Used(r, s)) => parse_error(q) = r
    BY <1>1, <2>1, ErrorDecided
  <2>3. \A q \in Input : \A b : Agree(s, q, Used(r, s)) => ElementBy(b, q) = r
    BY <1>3, <1>4, <1>7, <2>2, ElementCases
  <2> QED BY <1>1, <2>2, <2>3
<1>8. CASE s[1] = "$"
  <2>1. r = UnlessInvalid(parse_null(s), parse_bulk_string(s))
    BY <1>1, <1>8, ElementCases
  <2>2. CASE parse_null(s).state = "invalid"
    <3>1. r = parse_bulk_string(s)
      BY <2>1, <2>2 DEF UnlessInvalid
    <3>2. /\ IsDecision(r, s) /\ r.end > 2 /\ HasLine(s, 2) /\ Behind(s, 2) <= Used(r, s)
          /\ \A q \in Input : Agree(s, q, Used(r, s)) => parse_bulk_string(q) = r
      BY <1>1, <3>1, BulkDecided
    <3>3. ASSUME NEW q \in Input, NEW b, Agree(s, q, Used(r, s)) PROVE ElementBy(b, q) = r
      <4>1. q[1] = "$" /\ parse_bulk_string(q) = r
        BY <1>3, <1>4, <1>8, <3>2, <3>3
      <4>2. parse_null(q).state = "invalid"
        BY <1>4, <1>8, <2>2, <3>2, <3>3, NullDecided
      <4> QED BY <4>1, <4>2, ElementCases DEF UnlessInvalid
    <3>4. r.end > 0
      BY <3>2, <1>2, UsedFacts
    <3> QED BY <1>1, <3>2, <3>3, <3>4
  <2>3. CASE parse_null(s).state # "invalid"
    <3>1. r = parse_null(s) /\ r.state = "complete"
      BY <1>1, <1>8, <2>1, <2>3, NullDecided DEF UnlessInvalid
    <3>2. /\ IsDecision(r, s) /\ r.end > 0
          /\ \A q \in Input : Agree(s, q, Used(r, s)) => parse_null(q) = r
      BY <1>8, <3>1, NullDecided
    <3>3. \A q \in Input : \A b : Agree(s, q, Used(r, s)) => ElementBy(b, q) = r
      BY <1>3, <1>4, <1>8, <3>1, <3>2, ElementCases DEF UnlessInvalid
    <3> QED BY <1>1, <3>2, <3>3
  <2> QED BY <2>2, <2>3
<1>9. CASE s[1] \notin ValueTypes
  <2>1. r = Invalid(0)
    BY <1>1, <1>9, ElementCases
  <2>2. IsDecision(r, s)
    BY <1>2, <2>1, ResultStates DEF IsDecision
  <2>3. \A q \in Input : \A b : Agree(s, q, Used(r, s)) => ElementBy(b, q) = r
    BY <1>3, <1>4, <1>9, <2>1, <2>2, ElementCases
  <2> QED BY <1>1, <1>9, <2>2, <2>3
<1> QED BY <1>5, <1>6, <1>7, <1>8, <1>9 DEF ValueTypes

\* What an element is decided to be does not depend on how deep it may be.
LEMMA ElementDecided ==
    ASSUME NEW n \in Nat
    PROVE  /\ Decides(ElementUpTo[n])
           /\ \A m \in Nat : DecidesLike(ElementUpTo[m], ElementUpTo[n], m)
           /\ \A t \in Input :
                 t # <<>> /\ ElementUpTo[n][t].state # "incomplete" =>
                    /\ t[1] \in ValueTypes => ElementUpTo[n][t].end > 0
                    /\ t[1] = "*" => HasLine(t, 2) /\ Behind(t, 2) <= Used(ElementUpTo[n][t], t)
<1> DEFINE Fine(t, i) ==
              /\ IsDecision(ElementUpTo[i][t], t)
              /\ t[1] \in ValueTypes => ElementUpTo[i][t].end > 0
              /\ t[1] = "*" => HasLine(t, 2) /\ Behind(t, 2) <= Used(ElementUpTo[i][t], t)
              /\ \A m \in Nat, u \in Input :
                    Len(u) <= m /\ Agree(t, u, Used(ElementUpTo[i][t], t)) =>
                       ElementUpTo[m][u] = ElementUpTo[i][t]
           Good == {i \in Nat : \A t \in Input :
                       t # <<>> /\ ElementUpTo[i][t].state # "incomplete" => Fine(t, i)}
<1>1. ASSUME NEW i \in Nat, NEW t \in Input PROVE \E a : ElementUpTo[i][t] = ElementBy(a, t)
  <2>1. CASE i = 0
    BY <2>1, ElementRule
  <2>2. CASE i # 0
    <3>1. i - 1 \in Nat /\ (i - 1) + 1 = i
      BY <2>2
    <3>2. ElementUpTo[(i - 1) + 1] = [s \in Input |-> ElementBy(parse_array(ElementUpTo[i - 1], s), s)]
      BY <3>1, ElementRule
    <3> QED BY <3>1, <3>2
  <2> QED BY <2>1, <2>2
<1>2. ASSUME NEW i \in Nat, NEW t \in Input, t # <<>>, t[1] # "*", ElementUpTo[i][t].state # "incomplete"
      PROVE  Fine(t, i)
  <2>1. PICK a : ElementUpTo[i][t] = ElementBy(a, t)
    BY <1>1
  <2>2. PICK r : r = ElementUpTo[i][t]
    OBVIOUS
  <2>3. /\ IsDecision(r, t) /\ (t[1] \in ValueTypes => r.end > 0)
        /\ \A q \in Input : \A b : Agree(t, q, Used(r, t)) => ElementBy(b, q) = r
    BY <1>2, <2>1, <2>2, PlainDecided
  <2>4. \A m \in Nat, u \in Input : Agree(t, u, Used(r, t)) => ElementUpTo[m][u] = r
    BY <1>1, <2>3
  <2> QED BY <1>2, <2>2, <2>3, <2>4
<1>3. 0 \in Good
  <2> SUFFICES ASSUME NEW t \in Input, t # <<>>, ElementUpTo[0][t].state # "incomplete" PROVE Fine(t, 0)
    BY DEF Good
  <2>1. t[1] # "*"
    BY ElementRule, ElementCases, ResultStates
  <2> QED BY <1>2, <2>1
<1>4. ASSUME NEW i \in Nat, i \in Good PROVE i + 1 \in Good
  <2> SUFFICES ASSUME NEW t \in Input, t # <<>>, ElementUpTo[i + 1][t].state # "incomplete" PROVE Fine(t, i + 1)
    BY DEF Good
  <2>1. CASE t[1] # "*"
    BY <1>2, <2>1
  <2>2. CASE t[1] = "*"
    <3>1. PICK E, r : E = ElementUpTo[i] /\ r = ElementUpTo[i + 1][t]
      OBVIOUS
    <3>2. r = parse_array(E, t)
      <4>1. ElementUpTo[i + 1] = [s \in Input |-> ElementBy(parse_array(E, s), s)]
        BY <3>1, ElementRule
      <4>2. r = ElementBy(parse_array(E, t), t)
        BY <3>1, <4>1
      <4> QED BY <2>2, <4>2, ElementCases
    <3>3. Decides(E)
      BY <1>4, <3>1 DEF Decides
    <3>4. \A m \in Nat : DecidesLike(ElementUpTo[m], E, m)
      BY <1>4, <3>1 DEF DecidesLike
    <3>5. /\ IsDecision(r, t) /\ r.end > 2
          /\ HasLine(t, 2) /\ Behind(t, 2) <= Used(r, t) /\ Used(r, t) \in Nat
      BY <3>1, <3>2, <3>3, <3>4, ArrayDecided
    <3>6. ASSUME NEW m \in Nat, NEW u \in Input, Len(u) <= m, Agree(t, u, Used(r, t))
          PROVE  ElementUpTo[m][u] = r
      <4>1. Used(r, t) \in 1 .. Len(t) /\ Len(u) \in Nat /\ Used(r, t) <= Len(u) /\ Len(t) \in Nat
        BY <3>5, <3>6, UsedFacts DEF Agree, Input
      <4>2. u[1] = "*" /\ m - 1 \in Nat /\ (m - 1) + 1 = m
        BY <2>2, <3>6, <4>1 DEF Agree
      <4>3. DecidesLike(ElementUpTo[m - 1], E, m - 1)
        BY <3>4, <4>2
      <4>4. Len(u) <= (m - 1) + 1
        BY <3>6, <4>2
      <4>5. parse_array(ElementUpTo[m - 1], u) = r
        BY <3>1, <3>2, <3>3, <3>6, <4>2, <4>3, <4>4, ArrayDecided
      <4>6. ElementUpTo[(m - 1) + 1] = [s \in Input |-> ElementBy(parse_array(ElementUpTo[m - 1], s), s)]
        BY <4>2, ElementRule
      <4> QED BY <4>2, <4>5, <4>6, ElementCases
    <3>7. r.end > 0
      BY <3>5, UsedFacts
    <3> QED BY <3>1, <3>5, <3>6, <3>7
  <2> QED BY <2>1, <2>2
<1>5. n \in Good
  <2> HIDE DEF Good
  <2> QED BY <1>3, <1>4, NatSetInduction
<1>6. ASSUME NEW t \in Input, t # <<>>, ElementUpTo[n][t].state # "incomplete" PROVE Fine(t, n)
  BY <1>5, <1>6 DEF Good
<1> HIDE DEF Good
<1> QED BY <1>6 DEF Decides, DecidesLike

\* Whether a value came to an end, and where, is decided by its own bytes: by those
\* it ends with, or by one more than are given up.
LEMMA ValueDecided ==
    ASSUME NEW s \in Input, s # <<>>, s[1] \in ValueTypes, parse_value(s).state # "incomplete"
    PROVE  /\ IsDecision(parse_value(s), s) /\ parse_value(s).end > 0
           /\ \A q \in Input : Agree(s, q, Used(parse_value(s), s)) => parse_value(q) = parse_value(s)
<1>1. PICK r, e : r = parse_value(s) /\ e = parse_element(s)
  OBVIOUS
<1>2. Len(s) \in Nat /\ Len(s) # 0 /\ e = ElementUpTo[Len(s)][s]
  BY <1>1 DEF Input, parse_element
<1>3. ASSUME e.state # "incomplete"
      PROVE  /\ IsDecision(e, s) /\ e.end > 0 /\ Used(e, s) \in Nat /\ Used(e, s) # 0
             /\ s[1] = "*" => HasLine(s, 2) /\ Behind(s, 2) <= Used(e, s)
             /\ \A q \in Input : Agree(s, q, Used(e, s)) => parse_element(q) = e
  <2>1. /\ IsDecision(e, s) /\ e.end > 0
        /\ s[1] = "*" => HasLine(s, 2) /\ Behind(s, 2) <= Used(e, s)
    BY <1>2, <1>3, ElementDecided DEF Decides
  <2>2. ASSUME NEW q \in Input, Agree(s, q, Used(e, s)) PROVE parse_element(q) = e
    <3>1. Len(q) \in Nat
      BY DEF Input
    <3>2. DecidesLike(ElementUpTo[Len(q)], ElementUpTo[Len(s)], Len(q))
      BY <1>2, <3>1, ElementDecided
    <3>3. ElementUpTo[Len(q)][q] = e
      BY <1>2, <1>3, <2>2, <3>1, <3>2 DEF DecidesLike
    <3> QED BY <3>3 DEF parse_element
  <2>3. Used(e, s) \in Nat /\ Used(e, s) # 0
    BY <1>2, <2>1, UsedFacts
  <2> QED BY <2>1, <2>2, <2>3
<1>4. ASSUME NEW q \in Input, NEW n \in Nat, n # 0, Agree(s, q, n) PROVE q[1] = s[1]
  BY <1>4 DEF Agree
<1>5. CASE s[1] # "*"
  <2>1. r = e
    BY <1>1, <1>5 DEF parse_value
  <2>2. \A q \in Input : Agree(s, q, Used(e, s)) => parse_value(q) = e
    BY <1>1, <1>3, <1>4, <1>5, <2>1 DEF parse_value
  <2> QED BY <1>1, <1>3, <2>1, <2>2
<1>6. CASE s[1] = "*"
  <2>1. r = UnlessInvalid(parse_null(s), e)
    BY <1>1, <1>6 DEF parse_value
  <2>2. CASE parse_null(s).state = "invalid"
    <3>1. r = e /\ e.state # "incomplete"
      BY <1>1, <2>1, <2>2 DEF UnlessInvalid
    <3>2. ASSUME NEW q \in Input, Agree(s, q, Used(e, s)) PROVE parse_value(q) = e
      <4>1. q[1] = "*" /\ parse_element(q) = e
        BY <1>3, <1>4, <1>6, <3>1, <3>2
      <4>2. parse_null(q).state = "invalid"
        BY <1>3, <1>6, <2>2, <3>1, <3>2, NullDecided
      <4> QED BY <4>1, <4>2 DEF parse_value, UnlessInvalid
    <3> QED BY <1>1, <1>3, <3>1, <3>2
  <2>3. CASE parse_null(s).state # "invalid"
    <3>1. r = parse_null(s) /\ r.state = "complete"
      BY <1>1, <1>6, <2>1, <2>3, NullDecided DEF UnlessInvalid
    <3>2. /\ IsDecision(r, s) /\ r.end > 0
          /\ \A q \in Input : Agree(s, q, Used(r, s)) => parse_null(q) = r
      BY <1>6, <3>1, NullDecided
    <3>3. Used(r, s) \in Nat /\ Used(r, s) # 0
      BY <1>2, <3>2, UsedFacts
    <3>4. ASSUME NEW q \in Input, Agree(s, q, Used(r, s)) PROVE parse_value(q) = r
      <4>1. q[1] = "*" /\ parse_null(q) = r
        BY <1>4, <1>6, <3>2, <3>3, <3>4
      <4> QED BY <3>1, <4>1 DEF parse_value, UnlessInvalid
    <3> QED BY <1>1, <3>2, <3>4
  <2> QED BY <2>2, <2>3
<1> QED BY <1>5, <1>6

\* What was found at the beginning is what was parsed.
LEMMA FoundFacts ==
    ASSUME NEW r
    PROVE  /\ Found(r).state = r.state /\ Found(r).begin = 0
           /\ r.state # "incomplete" => Found(r).end = r.end
           /\ r.state = "complete" => Found(r).value = r.value
BY DEF Found

\* The results that are sought are all there are.
LEMMA ParseEnough ==
    ASSUME NEW n \in Nat, NEW s \in Input, Len(s) <= n
    PROVE  ParseUpTo[n][s] = parse(s)
<1> DEFINE Good == {i \in Nat : \A t \in Input, m \in Nat :
                       Len(t) <= i /\ Len(t) <= m => ParseUpTo[i][t] = ParseUpTo[m][t]}
<1>1. ASSUME NEW m \in Nat PROVE ParseUpTo[m][<<>>] = Nothing
  <2>1. <<>> \in Input
    BY DEF Input
  <2>2. CASE m = 0
    BY <2>1, <2>2, ParseRule
  <2>3. CASE m # 0
    <3>1. m - 1 \in Nat /\ (m - 1) + 1 = m
      BY <2>3
    <3>2. ParseUpTo[(m - 1) + 1] = [t \in Input |-> Parsed(t, ParseUpTo[m - 1])]
      BY <3>1, ParseRule
    <3> QED BY <2>1, <3>1, <3>2 DEF Parsed
  <2> QED BY <2>2, <2>3
<1>2. 0 \in Good
  <2>1. ASSUME NEW t \in Input, Len(t) <= 0 PROVE t = <<>>
    BY <2>1 DEF Input
  <2> QED BY <1>1, <2>1
<1>3. ASSUME NEW i \in Nat, i \in Good PROVE i + 1 \in Good
  <2> SUFFICES ASSUME NEW t \in Input, NEW m \in Nat, Len(t) <= i + 1, Len(t) <= m
               PROVE  ParseUpTo[i + 1][t] = ParseUpTo[m][t]
    BY DEF Good
  <2>1. CASE t = <<>>
    BY <1>1, <2>1
  <2>2. CASE t # <<>>
    <3>1. Len(t) \in Nat /\ Len(t) # 0 /\ m - 1 \in Nat /\ (m - 1) + 1 = m
      BY <2>2 DEF Input
    <3>2. ParseUpTo[i + 1][t] = Parsed(t, ParseUpTo[i])
      BY ParseRule
    <3>3. ParseUpTo[(m - 1) + 1] = [u \in Input |-> Parsed(u, ParseUpTo[m - 1])]
      BY <3>1, ParseRule
    <3>4. ParseUpTo[m][t] = Parsed(t, ParseUpTo[m - 1])
      BY <3>1, <3>3
    <3>5. ASSUME t[1] \in ValueTypes, Found(parse_value(t)).state # "incomplete"
          PROVE  ParseUpTo[i][From(t, Found(parse_value(t)).end)]
                    = ParseUpTo[m - 1][From(t, Found(parse_value(t)).end)]
      <4>1. PICK e : e = parse_value(t).end
        OBVIOUS
      <4>2. parse_value(t).state # "incomplete" /\ Found(parse_value(t)).end = e
        BY <3>5, <4>1, FoundFacts
      <4>3. e \in 0 .. Len(t) /\ e > 0
        BY <2>2, <3>5, <4>1, <4>2, ValueDecided, UsedFacts
      <4>4. /\ From(t, e) \in Input /\ Len(From(t, e)) = Len(t) - e
            /\ Len(From(t, e)) <= i /\ Len(From(t, e)) <= m - 1
        BY <3>1, <4>3, FromFacts
      <4> QED BY <1>3, <3>1, <4>2, <4>4
    <3> QED BY <3>2, <3>4, <3>5 DEF Parsed
  <2> QED BY <2>1, <2>2
<1>4. n \in Good
  <2> HIDE DEF Good
  <2> QED BY <1>2, <1>3, NatSetInduction
<1>5. Len(s) \in Nat
  BY DEF Input
<1> QED BY <1>4, <1>5 DEF parse

\* The results of bytes: of the value that they begin with, and of what is behind it.
LEMMA ParseUnfolds ==
    /\ parse(<<>>) = [ok |-> TRUE, results |-> <<>>]
    /\ \A s \in Input : s # <<>> =>
          /\ s[1] \notin ValueTypes => parse(s) = Only(FALSE, Found(Invalid(1)))
          /\ s[1] \in ValueTypes /\ parse_value(s).state = "incomplete" =>
                parse(s) = Only(TRUE, Found(parse_value(s)))
          /\ s[1] \in ValueTypes /\ parse_value(s).state # "incomplete" =>
                parse(s) = Before(Found(parse_value(s)), parse(From(s, parse_value(s).end)))
<1>1. parse(<<>>) = Nothing
  <2>1. <<>> \in Input /\ Len(<<>>) = 0
    BY DEF Input
  <2> QED BY <2>1, ParseRule DEF parse
<1>2. ASSUME NEW s \in Input, s # <<>>
      PROVE  /\ s[1] \notin ValueTypes => parse(s) = Only(FALSE, Found(Invalid(1)))
             /\ s[1] \in ValueTypes /\ parse_value(s).state = "incomplete" =>
                   parse(s) = Only(TRUE, Found(parse_value(s)))
             /\ s[1] \in ValueTypes /\ parse_value(s).state # "incomplete" =>
                   parse(s) = Before(Found(parse_value(s)), parse(From(s, parse_value(s).end)))
  <2>1. PICK k : k \in Nat /\ k + 1 = Len(s)
    <3>1. Len(s) - 1 \in Nat /\ (Len(s) - 1) + 1 = Len(s)
      BY <1>2 DEF Input
    <3> QED BY <3>1
  <2>2. parse(s) = Parsed(s, ParseUpTo[k])
    <3>1. ParseUpTo[k + 1] = [t \in Input |-> Parsed(t, ParseUpTo[k])]
      BY <2>1, ParseRule
    <3> QED BY <2>1, <3>1 DEF parse
  <2>3. Found(parse_value(s)).state = parse_value(s).state
    BY FoundFacts
  <2>4. ASSUME s[1] \in ValueTypes, parse_value(s).state # "incomplete"
        PROVE  /\ Found(parse_value(s)).end = parse_value(s).end
               /\ ParseUpTo[k][From(s, parse_value(s).end)] = parse(From(s, parse_value(s).end))
    <3>1. PICK e : e = parse_value(s).end
      OBVIOUS
    <3>2. e \in 0 .. Len(s) /\ e > 0
      BY <1>2, <2>4, <3>1, ValueDecided, UsedFacts
    <3>3. From(s, e) \in Input /\ Len(From(s, e)) <= k
      BY <2>1, <3>2, FromFacts
    <3> QED BY <2>1, <2>4, <3>1, <3>3, ParseEnough, FoundFacts
  <2> QED BY <1>2, <2>2, <2>3, <2>4 DEF Parsed
<1> QED BY <1>1, <1>2 DEF Nothing

\* All the bytes, from the first one on.
LEMMA FromZero ==
    ASSUME NEW s \in Input
    PROVE  From(s, 0) = s
<1>1. Len(s) \in Nat /\ 0 \in 0 .. Len(s)
  BY DEF Input
<1>2. /\ From(s, 0) \in Input /\ Len(From(s, 0)) = Len(s)
      /\ \A i \in 1 .. Len(s) : From(s, 0)[i] = s[i]
  BY <1>1, FromFacts
<1> QED BY <1>2, SeqEqual DEF Input

\* Some bytes are left out, and then some more.
LEMMA FromFrom ==
    ASSUME NEW s \in Input, NEW n \in 0 .. Len(s), NEW m \in 0 .. Len(s) - n
    PROVE  From(From(s, n), m) = From(s, n + m)
<1>1. Len(s) \in Nat /\ n \in Nat /\ m \in Nat /\ n + m \in 0 .. Len(s)
  BY DEF Input
<1>2. PICK t, a, b : t = From(s, n) /\ a = From(From(s, n), m) /\ b = From(s, n + m)
  OBVIOUS
<1>3. t \in Input /\ Len(t) = Len(s) - n /\ \A i \in 1 .. Len(s) - n : t[i] = s[n + i]
  BY <1>2, FromFacts
<1>4. a \in Input /\ Len(a) = Len(t) - m /\ \A i \in 1 .. Len(t) - m : a[i] = t[m + i]
  <2>1. m \in 0 .. Len(t) /\ a = From(t, m)
    BY <1>1, <1>2, <1>3
  <2> QED BY <1>3, <2>1, FromFacts
<1>5. b \in Input /\ Len(b) = Len(s) - (n + m) /\ \A i \in 1 .. Len(s) - (n + m) : b[i] = s[(n + m) + i]
  BY <1>1, <1>2, FromFacts
<1>6. ASSUME NEW i \in 1 .. Len(a) PROVE a[i] = b[i]
  <2>1. m + i \in 1 .. Len(s) - n /\ n + (m + i) = (n + m) + i /\ i \in 1 .. Len(t) - m
        /\ i \in 1 .. Len(s) - (n + m)
    BY <1>1, <1>3, <1>4
  <2> QED BY <1>3, <1>4, <1>5, <2>1
<1>7. Len(a) = Len(b)
  BY <1>1, <1>3, <1>4, <1>5
<1> QED BY <1>2, <1>4, <1>5, <1>6, <1>7, SeqEqual DEF Input

\* The first n bytes, and that the others complete them.
LEMMA UpToFacts ==
    ASSUME NEW s \in Input, NEW n \in 0 .. Len(s)
    PROVE  /\ SubSeq(s, 1, n) \in Input /\ Len(SubSeq(s, 1, n)) = n
           /\ \A i \in 1 .. n : SubSeq(s, 1, n)[i] = s[i]
           /\ Agree(SubSeq(s, 1, n), s, n) /\ Agree(s, SubSeq(s, 1, n), n)
           /\ SubSeq(s, 1, n) \o From(s, n) = s
<1>1. Len(s) \in Nat /\ n \in Nat /\ n <= Len(s) /\ \A i \in 1 .. n : s[i] \in Characters
  BY DEF Input
<1>2. PICK p, t : p = SubSeq(s, 1, n) /\ t = From(s, n)
  OBVIOUS
<1>3. p \in Seq(Characters) /\ Len(p) = n /\ \A i \in 1 .. n : p[i] = s[i]
  BY <1>1, <1>2, SubSeqProperties
<1>4. t \in Seq(Characters) /\ Len(t) = Len(s) - n /\ \A i \in 1 .. Len(s) - n : t[i] = s[n + i]
  BY <1>2, FromFacts DEF Input
<1>5. PICK w : w = p \o t
  OBVIOUS
<1>6. /\ w \in Seq(Characters) /\ Len(w) = Len(p) + Len(t)
      /\ \A i \in 1 .. Len(p) + Len(t) : w[i] = IF i <= Len(p) THEN p[i] ELSE t[i - Len(p)]
  BY <1>3, <1>4, <1>5, ConcatProperties
<1>7. Len(w) = Len(s)
  BY <1>1, <1>3, <1>4, <1>6
<1>8. ASSUME NEW i \in 1 .. Len(w) PROVE w[i] = s[i]
  <2>1. CASE i <= n
    BY <1>1, <1>3, <1>6, <2>1
  <2>2. CASE ~(i <= n)
    <3>1. i - n \in 1 .. Len(s) - n /\ n + (i - n) = i
      BY <1>1, <1>7, <2>2
    <3>2. t[i - n] = s[i]
      BY <1>4, <3>1
    <3> QED BY <1>3, <1>6, <2>2, <3>2
  <2> QED BY <2>1, <2>2
<1>9. w = s
  BY <1>6, <1>7, <1>8, SeqEqual DEF Input
<1>10. Agree(p, s, n) /\ Agree(s, p, n)
  BY <1>1, <1>3 DEF Agree
<1> QED BY <1>2, <1>3, <1>5, <1>9, <1>10 DEF Input

\* The bytes up to a place, from an earlier one on.
LEMMA UpToFrom ==
    ASSUME NEW s \in Input, NEW n \in 0 .. Len(s), NEW e \in 0 .. n
    PROVE  From(SubSeq(s, 1, n), e) = SubSeq(From(s, e), 1, n - e)
<1>1. Len(s) \in Nat /\ n \in Nat /\ e \in Nat /\ e <= n /\ n <= Len(s) /\ e \in 0 .. Len(s)
  BY DEF Input
<1>2. PICK p, t, a, b : p = SubSeq(s, 1, n) /\ t = From(s, e) /\ a = From(p, e) /\ b = SubSeq(t, 1, n - e)
  OBVIOUS
<1>3. p \in Input /\ Len(p) = n /\ \A i \in 1 .. n : p[i] = s[i]
  BY <1>2, UpToFacts
<1>4. t \in Input /\ Len(t) = Len(s) - e /\ \A i \in 1 .. Len(s) - e : t[i] = s[e + i]
  BY <1>1, <1>2, FromFacts
<1>5. a \in Input /\ Len(a) = n - e /\ \A i \in 1 .. n - e : a[i] = p[e + i]
  <2>1. e \in 0 .. Len(p)
    BY <1>1, <1>3
  <2>2. /\ From(p, e) \in Input /\ Len(From(p, e)) = Len(p) - e
        /\ \A i \in 1 .. Len(p) - e : From(p, e)[i] = p[e + i]
    BY <1>3, <2>1, FromFacts
  <2> QED BY <1>2, <1>3, <2>2
<1>6. n - e \in 0 .. Len(t)
  BY <1>1, <1>4
<1>7. b \in Input /\ Len(b) = n - e /\ \A i \in 1 .. n - e : b[i] = t[i]
  BY <1>2, <1>4, <1>6, UpToFacts
<1>8. ASSUME NEW i \in 1 .. n - e PROVE a[i] = b[i]
  <2>1. e + i \in 1 .. n /\ i \in 1 .. Len(s) - e
    BY <1>1
  <2> QED BY <1>3, <1>4, <1>5, <1>7, <2>1
<1>9. a = b
  BY <1>5, <1>7, <1>8, SeqEqual DEF Input
<1> QED BY <1>2, <1>9

--------------------------------------------------------------------------------
\* Results, whose values are in V.
Results(V) == [state : {"complete", "invalid", "incomplete"}, begin : Nat, end : Nat, value : V]

\* Results whose values are some are results whose values are among more.
LEMMA ResultsOfMore ==
    ASSUME NEW V, NEW W, V \subseteq W, NEW results \in Seq(Results(V))
    PROVE  results \in Seq(Results(W))
<1>1. Results(V) \subseteq Results(W)
  BY DEF Results
<1> QED BY <1>1

\* The results of a value's bytes are it, and what was found behind it.
IsBefore(all, r, rest) ==
    /\ Len(all) = Len(rest) + 1
    /\ all[1].state = r.state /\ all[1].end = r.end
    /\ r.state = "complete" => all[1].value = r.value
    /\ \A i \in 1 .. Len(rest) :
          /\ all[i + 1].state = rest[i].state /\ all[i + 1].value = rest[i].value
          /\ all[i + 1].begin = rest[i].begin + r.end
          /\ all[i + 1].end = rest[i].end + r.end

\* The results with one more before them.
LEMMA BeforeFacts ==
    ASSUME NEW V, NEW rest, rest.results \in Seq(Results(V)),
           NEW found \in Results(V)
    PROVE  /\ Before(found, rest).ok = rest.ok
           /\ Before(found, rest).results \in Seq(Results(V))
           /\ Before(found, rest).results[1] = found
           /\ IsBefore(Before(found, rest).results, found, rest.results)
<1>1. PICK rr, e, n, sh : rr = rest.results /\ e = found.end /\ n = Len(rr) /\ sh = Shifted(rr, e)
  OBVIOUS
<1>2. n \in Nat /\ DOMAIN rr = 1 .. n /\ e \in Nat /\ \A i \in 1 .. n : rr[i] \in Results(V)
  <2>1. rr \in Seq(Results(V))
    BY <1>1
  <2>2. n \in Nat /\ DOMAIN rr = 1 .. n /\ \A i \in 1 .. n : rr[i] \in Results(V)
    BY <1>1, <2>1
  <2>3. e \in Nat
    BY <1>1 DEF Results
  <2> QED BY <2>2, <2>3
<1>3. sh = [i \in 1 .. n |-> [rr[i] EXCEPT !.begin = @ + e, !.end = @ + e]]
  BY <1>1, <1>2 DEF Shifted
<1>4. ASSUME NEW i \in 1 .. n
      PROVE  /\ sh[i] \in Results(V)
             /\ sh[i].state = rr[i].state /\ sh[i].value = rr[i].value
             /\ sh[i].begin = rr[i].begin + e /\ sh[i].end = rr[i].end + e
  <2>1. rr[i] \in Results(V)
    BY <1>2
  <2>2. PICK x : x = rr[i]
    OBVIOUS
  <2>3. sh[i] = [x EXCEPT !.begin = @ + e, !.end = @ + e]
    BY <1>3, <2>2
  <2>4. x \in Results(V) /\ x.begin + e \in Nat /\ x.end + e \in Nat
    BY <1>2, <2>1, <2>2 DEF Results
  <2> QED BY <2>2, <2>3, <2>4 DEF Results
<1>5. sh \in Seq(Results(V)) /\ Len(sh) = n
  <2>1. DOMAIN sh = 1 .. n /\ sh = [i \in 1 .. n |-> sh[i]]
    BY <1>3
  <2>2. sh \in [1 .. n -> Results(V)]
    BY <1>4, <2>1
  <2> QED BY <1>2, <2>2
<1>6. <<found>> \in Seq(Results(V)) /\ Len(<<found>>) = 1 /\ <<found>>[1] = found
  OBVIOUS
<1>7. PICK all : all = <<found>> \o sh
  OBVIOUS
<1>8. /\ all \in Seq(Results(V)) /\ Len(all) = 1 + n
      /\ \A i \in 1 .. 1 + n : all[i] = IF i <= 1 THEN <<found>>[i] ELSE sh[i - 1]
  BY <1>5, <1>6, <1>7, ConcatProperties
<1>9. all[1] = found /\ Len(all) = n + 1
  BY <1>2, <1>6, <1>8
<1>10. ASSUME NEW i \in 1 .. n PROVE all[i + 1] = sh[i]
  BY <1>2, <1>8
<1>11. Before(found, rest).results = all /\ Before(found, rest).ok = rest.ok
  BY <1>1, <1>7 DEF Before
<1>12. IsBefore(all, found, rr)
  <2>1. \A i \in 1 .. n : /\ all[i + 1].state = rr[i].state /\ all[i + 1].value = rr[i].value
                         /\ all[i + 1].begin = rr[i].begin + e /\ all[i + 1].end = rr[i].end + e
    BY <1>4, <1>10
  <2> QED BY <1>1, <1>9, <2>1 DEF IsBefore
<1> QED BY <1>1, <1>8, <1>9, <1>11, <1>12

\* What was found is a result.
LEMMA FoundIsResult ==
    ASSUME NEW s \in Input, s # <<>>, NEW r,
           r.state = "incomplete" \/ IsDecision(r, s)
    PROVE  /\ Found(r) \in Results({r.value, Null})
           /\ Found(r).end <= Len(s)
<1>1. Len(s) \in Nat
  BY DEF Input
<1>2. r.state # "incomplete" => r.end \in 0 .. Len(s) /\ r.state \in {"complete", "invalid"}
  BY UsedFacts
<1> QED BY <1>1, <1>2 DEF Found, Results

\* Results end within the bytes, a value takes one at least, and what is refused is
\* one of the bytes.
FineResults(s) ==
    /\ parse(s).ok \in BOOLEAN
    /\ \E V : parse(s).results \in Seq(Results(V))
    /\ \A i \in DOMAIN parse(s).results :
          /\ parse(s).results[i].end <= Len(s)
          /\ parse(s).results[i].state = "complete" => parse(s).results[i].end > 0
    /\ ~parse(s).ok => /\ parse(s).results # <<>>
                       /\ parse(s).results[Len(parse(s).results)].begin < Len(s)

\* A single result is fine: a value that is not complete, or a byte that is refused.
LEMMA OnlyFine ==
    ASSUME NEW s \in Input, s # <<>>, NEW ok \in BOOLEAN, NEW r,
           r.state = "incomplete" \/ IsDecision(r, s), r.state # "complete",
           parse(s) = Only(ok, Found(r))
    PROVE  FineResults(s)
<1>1. PICK f : f = Found(r)
  OBVIOUS
<1>2. f \in Results({r.value, Null}) /\ f.end <= Len(s) /\ f.begin = 0 /\ f.state = r.state
  BY <1>1, FoundIsResult, FoundFacts
<1>3. parse(s).ok = ok /\ parse(s).results = <<f>>
  BY <1>1 DEF Only
<1>4. Len(s) \in Nat /\ Len(s) # 0
  BY DEF Input
<1>5. <<f>> \in Seq(Results({r.value, Null})) /\ DOMAIN <<f>> = {1} /\ Len(<<f>>) = 1 /\ <<f>>[1] = f
  BY <1>2
<1> QED BY <1>2, <1>3, <1>4, <1>5 DEF FineResults

\* parse finds a value that came to an end, and before what is behind it.
LEMMA ParseBefore ==
    ASSUME NEW s \in Input, s # <<>>, s[1] \in ValueTypes, parse_value(s).state # "incomplete",
           FineResults(From(s, parse_value(s).end))
    PROVE  /\ parse(s).ok = parse(From(s, parse_value(s).end)).ok
           /\ IsBefore(parse(s).results, parse_value(s), parse(From(s, parse_value(s).end)).results)
           /\ \E V : /\ parse(s).results \in Seq(Results(V))
                     /\ parse(From(s, parse_value(s).end)).results \in Seq(Results(V))
<1>1. PICK r, e, f, p, rest :
         /\ r = parse_value(s) /\ e = r.end /\ f = Found(r)
         /\ p = parse(s) /\ rest = parse(From(s, e))
  OBVIOUS
<1>2. IsDecision(r, s)
  BY <1>1, ValueDecided
<1>3. f.end = e /\ f.state = r.state /\ f \in Results({r.value, Null})
      /\ (r.state = "complete" => f.value = r.value)
  BY <1>1, <1>2, FoundFacts, FoundIsResult
<1>4. PICK V : rest.results \in Seq(Results(V)) /\ f \in Results(V)
  <2>1. PICK W : rest.results \in Seq(Results(W))
    BY <1>1 DEF FineResults
  <2>2. rest.results \in Seq(Results(W \cup {r.value, Null})) /\ f \in Results(W \cup {r.value, Null})
    BY <1>3, <2>1, ResultsOfMore DEF Results
  <2> QED BY <2>2
<1>5. p = Before(f, rest)
  BY <1>1, ParseUnfolds
<1>6. /\ Before(f, rest).ok = rest.ok
      /\ Before(f, rest).results \in Seq(Results(V))
      /\ Before(f, rest).results[1] = f
      /\ IsBefore(Before(f, rest).results, f, rest.results)
  <2>1. rest.results \in Seq(Results(V))
    BY <1>4
  <2>2. f \in Results(V)
    BY <1>4
  <2> QED BY <2>1, <2>2, BeforeFacts
<1>7. IsBefore(p.results, r, rest.results)
  BY <1>1, <1>3, <1>5, <1>6 DEF IsBefore
<1> QED BY <1>1, <1>4, <1>5, <1>6, <1>7

\* Whatever the bytes, the results of parse are fine.
LEMMA ParseFine ==
    ASSUME NEW s \in Input
    PROVE  FineResults(s)
<1> DEFINE Good == {n \in Nat : \A t \in Input : Len(t) <= n => FineResults(t)}
<1>1. FineResults(<<>>)
  <2>1. parse(<<>>).ok = TRUE /\ parse(<<>>).results = <<>>
    BY ParseUnfolds
  <2>2. <<>> \in Seq(Results({Null})) /\ DOMAIN <<>> = {}
    OBVIOUS
  <2> QED BY <2>1, <2>2 DEF FineResults
<1>2. 0 \in Good
  <2>1. ASSUME NEW t \in Input, Len(t) <= 0 PROVE t = <<>>
    BY <2>1 DEF Input
  <2> QED BY <1>1, <2>1
<1>3. ASSUME NEW n \in Nat, n \in Good PROVE n + 1 \in Good
  <2> SUFFICES ASSUME NEW t \in Input, Len(t) <= n + 1, t # <<>> PROVE FineResults(t)
    BY <1>1 DEF Good
  <2>1. PICK r : r = parse_value(t)
    OBVIOUS
  <2>2. Len(t) \in Nat /\ Len(t) # 0
    BY DEF Input
  <2>3. CASE t[1] \notin ValueTypes
    <3>1. IsDecision(Invalid(1), t) /\ Invalid(1).state # "complete"
      BY <2>2, ResultStates DEF IsDecision
    <3> QED BY <2>3, <3>1, ParseUnfolds, OnlyFine
  <2>4. CASE t[1] \in ValueTypes /\ r.state = "incomplete"
    BY <2>1, <2>4, ParseUnfolds, OnlyFine
  <2>5. CASE t[1] \in ValueTypes /\ r.state # "incomplete"
    <3>1. PICK e, u : e = r.end /\ u = From(t, e)
      OBVIOUS
    <3>2. IsDecision(r, t) /\ e > 0 /\ e \in 0 .. Len(t)
      BY <2>1, <2>5, <3>1, ValueDecided, UsedFacts
    <3>3. u \in Input /\ Len(u) = Len(t) - e /\ Len(u) <= n
      BY <2>2, <3>1, <3>2, FromFacts
    <3>4. FineResults(u)
      BY <1>3, <3>3
    <3>5. PICK rest, p : rest = parse(u) /\ p = parse(t)
      OBVIOUS
    <3>6. p.ok = rest.ok /\ IsBefore(p.results, r, rest.results)
      BY <2>1, <2>5, <3>1, <3>4, <3>5, ParseBefore
    <3>7. PICK V : p.results \in Seq(Results(V)) /\ rest.results \in Seq(Results(V))
      BY <2>1, <2>5, <3>1, <3>4, <3>5, ParseBefore
    <3>8. PICK len : len = Len(rest.results)
      OBVIOUS
    <3>9. /\ len \in Nat /\ DOMAIN rest.results = 1 .. len /\ DOMAIN p.results = 1 .. len + 1
           /\ Len(p.results) = len + 1
           /\ \A i \in 1 .. len : rest.results[i].end \in Nat /\ rest.results[i].begin \in Nat
      <4>1. len \in Nat /\ DOMAIN rest.results = 1 .. len /\ \A i \in 1 .. len : rest.results[i] \in Results(V)
        BY <3>7, <3>8
      <4>2. DOMAIN p.results = 1 .. len + 1 /\ Len(p.results) = len + 1
        BY <3>6, <3>7, <3>8 DEF IsBefore
      <4> QED BY <4>1, <4>2 DEF Results
    <3>10. \A i \in 1 .. len :
              /\ rest.results[i].end <= Len(u)
              /\ rest.results[i].state = "complete" => rest.results[i].end > 0
      BY <3>4, <3>5, <3>9 DEF FineResults
    <3>11. ASSUME NEW i \in 1 .. len + 1
           PROVE  p.results[i].end <= Len(t) /\ (p.results[i].state = "complete" => p.results[i].end > 0)
      <4>1. CASE i = 1
        BY <2>2, <3>1, <3>2, <3>6, <4>1 DEF IsBefore
      <4>2. CASE i # 1
        <5>1. i - 1 \in 1 .. len /\ (i - 1) + 1 = i
          BY <3>9, <4>2
        <5>2. PICK j : j = i - 1
          OBVIOUS
        <5>3. j \in 1 .. len /\ j + 1 = i
          BY <5>1, <5>2
        <5>4. p.results[i].state = rest.results[j].state /\ p.results[i].end = rest.results[j].end + e
          BY <3>1, <3>6, <3>8, <5>3 DEF IsBefore
        <5>5. rest.results[j].end \in Nat /\ rest.results[j].end <= Len(t) - e
              /\ (rest.results[j].state = "complete" => rest.results[j].end > 0)
          BY <3>3, <3>9, <3>10, <5>3
        <5> QED BY <2>2, <3>2, <5>4, <5>5
      <4> QED BY <4>1, <4>2
    <3>12. ASSUME ~p.ok PROVE p.results # <<>> /\ p.results[Len(p.results)].begin < Len(t)
      <4>1. rest.results # <<>> /\ rest.results[len].begin < Len(u)
        BY <3>4, <3>5, <3>6, <3>8, <3>12 DEF FineResults
      <4>2. len \in 1 .. len
        BY <3>7, <3>8, <3>9, <4>1
      <4>3. p.results[len + 1].begin = rest.results[len].begin + e
        BY <3>1, <3>6, <3>8, <4>2 DEF IsBefore
      <4>4. p.results # <<>> /\ p.results[Len(p.results)].begin = rest.results[len].begin + e
        BY <3>9, <4>3
      <4>5. rest.results[len].begin \in Nat /\ rest.results[len].begin < Len(t) - e
        BY <3>3, <3>9, <4>1, <4>2
      <4>6. PICK last : last = rest.results[len].begin
        OBVIOUS
      <4>7. last + e < Len(t)
        BY <2>2, <3>2, <4>5, <4>6
      <4> QED BY <4>4, <4>6, <4>7
    <3>13. p.ok \in BOOLEAN
      BY <3>4, <3>5, <3>6 DEF FineResults
    <3> QED BY <3>5, <3>7, <3>9, <3>11, <3>12, <3>13 DEF FineResults
  <2> QED BY <2>1, <2>3, <2>4, <2>5
<1>4. Len(s) \in Nat
  BY DEF Input
<1>5. Len(s) \in Good
  <2> HIDE DEF Good
  <2> QED BY <1>2, <1>3, <1>4, NatSetInduction
<1> QED BY <1>5 DEF Good

AnswerTo(result) == IF result.state = "complete" THEN Reply(result.value) ELSE FormatError

\* How many results came to an end.
EndedCount(results) ==
    IF results # <<>> /\ results[Len(results)].state = "incomplete" THEN Len(results) - 1 ELSE Len(results)

\* The results that came to an end are the first ones.
LEMMA EndedFacts ==
    ASSUME NEW S, NEW results \in Seq(S)
    PROVE  /\ EndedCount(results) \in 0 .. Len(results)
           /\ Ended(results) \in Seq(S) /\ Len(Ended(results)) = EndedCount(results)
           /\ \A i \in 1 .. EndedCount(results) : Ended(results)[i] = results[i]
<1>1. Len(results) \in Nat /\ (results # <<>> => Len(results) # 0) /\ \A i \in 1 .. Len(results) : results[i] \in S
  OBVIOUS
<1>2. CASE results # <<>> /\ results[Len(results)].state = "incomplete"
  <2>1. PICK n : n = Len(results) - 1
    OBVIOUS
  <2>2. n \in Nat /\ n < Len(results)
    BY <1>1, <1>2, <2>1
  <2>3. Ended(results) = SubSeq(results, 1, n)
    BY <1>2, <2>1 DEF Ended, Last, Front
  <2>4. /\ SubSeq(results, 1, n) \in Seq(S) /\ Len(SubSeq(results, 1, n)) = n
        /\ \A i \in 1 .. n : SubSeq(results, 1, n)[i] = results[i]
    BY <1>1, <2>2, SubSeqProperties
  <2> QED BY <1>2, <2>1, <2>2, <2>3, <2>4 DEF EndedCount
<1>3. CASE ~(results # <<>> /\ results[Len(results)].state = "incomplete")
  <2>1. Ended(results) = results
    BY <1>3 DEF Ended, Last
  <2> QED BY <1>1, <1>3, <2>1 DEF EndedCount
<1> QED BY <1>2, <1>3

\* What on_read_done answers when no byte is refused, and what it leaves.
LEMMA AnsweredFacts ==
    ASSUME NEW s, NEW parsed, NEW V, parsed.results \in Seq(Results(V)), parsed.ok
    PROVE  Answered(s, parsed) =
             [answers |-> [i \in 1 .. EndedCount(parsed.results) |-> AnswerTo(parsed.results[i])],
              left    |-> From(s, IF EndedCount(parsed.results) = 0 THEN 0
                                  ELSE parsed.results[EndedCount(parsed.results)].end)]
<1>1. PICK k, ended : k = EndedCount(parsed.results) /\ ended = Ended(parsed.results)
  OBVIOUS
<1>2. /\ k \in Nat /\ ended \in Seq(Results(V)) /\ Len(ended) = k
      /\ \A i \in 1 .. k : ended[i] = parsed.results[i]
  BY <1>1, EndedFacts
<1>3. DOMAIN ended = 1 .. k
  BY <1>2
<1>4. Answers(ended) = [i \in 1 .. k |-> AnswerTo(parsed.results[i])]
  BY <1>2, <1>3 DEF Answers, AnswerTo
<1>5. (IF ended = <<>> THEN 0 ELSE Last(ended).end) = IF k = 0 THEN 0 ELSE parsed.results[k].end
  <2>1. CASE k = 0
    BY <1>2, <2>1
  <2>2. CASE k # 0
    <3>1. ended # <<>> /\ k \in 1 .. k
      BY <1>2, <2>2
    <3> QED BY <1>2, <2>2, <3>1 DEF Last
  <2> QED BY <2>1, <2>2
<1> QED BY <1>1, <1>4, <1>5 DEF Answered

\* Without bytes there is no answer, and nothing is left.
LEMMA DoneOfNothing == on_read_done(<<>>) = [answers |-> <<>>, left |-> <<>>]
<1>1. PICK p : p = parse(<<>>)
  OBVIOUS
<1>2. p.ok /\ p.results = <<>>
  BY <1>1, ParseUnfolds
<1>3. <<>> \in Seq(Results({Null})) /\ <<>> \in Input
  BY DEF Input
<1>4. EndedCount(<<>>) = 0 /\ From(<<>>, 0) = <<>>
  BY <1>3, FromZero DEF EndedCount
<1>5. Answered(<<>>, p) = [answers |-> [i \in 1 .. 0 |-> AnswerTo(p.results[i])], left |-> <<>>]
  BY <1>2, <1>3, <1>4, AnsweredFacts
<1>6. [i \in 1 .. 0 |-> AnswerTo(p.results[i])] = <<>>
  OBVIOUS
<1> QED BY <1>1, <1>5, <1>6 DEF on_read_done

\* A refused byte is answered by one error, and nothing else is answered.
LEMMA DoneOfRefused ==
    ASSUME NEW s, ~parse(s).ok
    PROVE  on_read_done(s).answers = <<FormatError>>
BY DEF on_read_done, Answered

\* A value that has not come to an end is left.
LEMMA DoneOfIncomplete ==
    ASSUME NEW s \in Input, s # <<>>, s[1] \in ValueTypes, parse_value(s).state = "incomplete"
    PROVE  parse(s).ok /\ on_read_done(s) = [answers |-> <<>>, left |-> s]
<1>1. PICK p, r : p = parse(s) /\ r = parse_value(s)
  OBVIOUS
<1>2. p = Only(TRUE, Found(r)) /\ r.state = "incomplete"
  BY <1>1, ParseUnfolds
<1>3. p.ok /\ p.results = <<Found(r)>>
  BY <1>2 DEF Only
<1>4. Found(r).state = "incomplete" /\ Found(r) \in Results({r.value, Null})
  BY <1>2, FoundFacts, FoundIsResult
<1>5. p.results \in Seq(Results({r.value, Null})) /\ EndedCount(p.results) = 0
  BY <1>3, <1>4 DEF EndedCount
<1>6. Answered(s, p) = [answers |-> [i \in 1 .. 0 |-> AnswerTo(p.results[i])], left |-> From(s, 0)]
  BY <1>3, <1>5, AnsweredFacts
<1>7. [i \in 1 .. 0 |-> AnswerTo(p.results[i])] = <<>>
  OBVIOUS
<1> QED BY <1>1, <1>3, <1>6, <1>7, FromZero DEF on_read_done

\* The answers to a value's result and to those behind it.
LEMMA AnswerBefore ==
    ASSUME NEW all, NEW r, NEW rr, IsBefore(all, r, rr), Len(rr) \in Nat, NEW k \in 0 .. Len(rr)
    PROVE  [i \in 1 .. k + 1 |-> AnswerTo(all[i])] = <<AnswerTo(r)>> \o [i \in 1 .. k |-> AnswerTo(rr[i])]
<1>1. PICK a, g, h : a = AnswerTo(r) /\ g = [i \in 1 .. k |-> AnswerTo(rr[i])]
                     /\ h = [i \in 1 .. k + 1 |-> AnswerTo(all[i])]
  OBVIOUS
<1>2. PICK S : S = {a} \cup {AnswerTo(rr[i]) : i \in 1 .. k} \cup {AnswerTo(all[i]) : i \in 1 .. k + 1}
  OBVIOUS
<1>3. /\ g \in Seq(S) /\ Len(g) = k /\ <<a>> \in Seq(S) /\ Len(<<a>>) = 1 /\ <<a>>[1] = a
      /\ h \in Seq(S) /\ Len(h) = k + 1 /\ k \in Nat
  <2>1. k \in Nat /\ \A i \in 1 .. k : AnswerTo(rr[i]) \in S
    BY <1>2
  <2>2. \A i \in 1 .. k + 1 : AnswerTo(all[i]) \in S
    BY <1>2
  <2>3. g \in [1 .. k -> S] /\ h \in [1 .. k + 1 -> S]
    BY <1>1, <2>1, <2>2
  <2>4. a \in S
    BY <1>2
  <2> QED BY <2>1, <2>3, <2>4
<1>4. /\ <<a>> \o g \in Seq(S) /\ Len(<<a>> \o g) = 1 + k
      /\ \A i \in 1 .. 1 + k : (<<a>> \o g)[i] = IF i <= 1 THEN <<a>>[i] ELSE g[i - 1]
  BY <1>3, ConcatProperties
<1>5. ASSUME NEW i \in 1 .. k + 1 PROVE h[i] = (<<a>> \o g)[i]
  <2>1. CASE i = 1
    <3>1. AnswerTo(all[1]) = a
      BY <1>1 DEF AnswerTo, IsBefore
    <3>2. h[1] = AnswerTo(all[1])
      BY <1>1, <1>3
    <3>3. (<<a>> \o g)[1] = a
      BY <1>3, <1>4
    <3> QED BY <2>1, <3>1, <3>2, <3>3
  <2>2. CASE i # 1
    <3>1. PICK j : j \in 1 .. k /\ j + 1 = i /\ j = i - 1
      <4>1. i - 1 \in 1 .. k /\ (i - 1) + 1 = i
        BY <1>3, <2>2
      <4> QED BY <4>1
    <3>2. AnswerTo(all[j + 1]) = AnswerTo(rr[j])
      BY <3>1 DEF AnswerTo, IsBefore
    <3>3. (<<a>> \o g)[i] = g[j]
      BY <1>3, <1>4, <2>2, <3>1
    <3> QED BY <1>1, <3>1, <3>2, <3>3
  <2> QED BY <2>1, <2>2
<1>6. h = <<a>> \o g
  <2>1. PICK c : c = <<a>> \o g
    OBVIOUS
  <2>2. h \in Seq(S) /\ c \in Seq(S) /\ Len(h) = Len(c)
    BY <1>3, <1>4, <2>1
  <2>3. \A i \in 1 .. Len(h) : h[i] = c[i]
    BY <1>3, <1>5, <2>1
  <2>4. h = c
    BY <2>2, <2>3, SeqEqual
  <2> QED BY <2>1, <2>4
<1> QED BY <1>1, <1>6

\* A value that came to an end is answered before what is behind it.
LEMMA DoneUnfolds ==
    ASSUME NEW s \in Input, s # <<>>, s[1] \in ValueTypes, parse_value(s).state # "incomplete",
           parse(From(s, parse_value(s).end)).ok
    PROVE  /\ parse(s).ok
           /\ on_read_done(s) =
                [answers |-> <<AnswerTo(parse_value(s))>>
                                \o on_read_done(From(s, parse_value(s).end)).answers,
                 left    |-> on_read_done(From(s, parse_value(s).end)).left]
<1>1. PICK r, e, u, p, rest :
         /\ r = parse_value(s) /\ e = r.end /\ u = From(s, e)
         /\ p = parse(s) /\ rest = parse(u)
  OBVIOUS
<1>2. /\ Len(s) \in Nat /\ IsDecision(r, s) /\ e > 0 /\ e \in 0 .. Len(s)
      /\ r.state # "incomplete"
  BY <1>1, ValueDecided, UsedFacts DEF Input
<1>3. u \in Input /\ Len(u) = Len(s) - e
  BY <1>1, <1>2, FromFacts
<1>4. FineResults(u)
  BY <1>3, ParseFine
<1>5. PICK rr, all, n : rr = rest.results /\ all = p.results /\ n = Len(rr)
  OBVIOUS
<1>6. p.ok = rest.ok /\ IsBefore(all, r, rr)
  BY <1>1, <1>4, <1>5, ParseBefore
<1>7. PICK V : all \in Seq(Results(V)) /\ rr \in Seq(Results(V))
  BY <1>1, <1>4, <1>5, ParseBefore
<1>8. /\ Len(all) = n + 1 /\ all[1].state = r.state /\ all[1].end = e
      /\ \A i \in 1 .. n : all[i + 1].state = rr[i].state /\ all[i + 1].end = rr[i].end + e
  BY <1>1, <1>5, <1>6 DEF IsBefore
<1>10. rest.ok /\ p.ok
  BY <1>1, <1>6
<1>11. n \in Nat /\ (rr = <<>> <=> n = 0) /\ DOMAIN rr = 1 .. n /\ all # <<>>
  BY <1>5, <1>7, <1>8
<1>12. PICK k : k = EndedCount(rr)
  OBVIOUS
<1>13. k \in 0 .. n /\ EndedCount(all) = k + 1
  <2>1. CASE n = 0
    BY <1>2, <1>5, <1>8, <1>11, <1>12, <2>1 DEF EndedCount
  <2>2. CASE n # 0
    <3>1. all[n + 1].state = rr[n].state
      BY <1>8, <1>11, <2>2
    <3> QED BY <1>5, <1>8, <1>11, <1>12, <2>2, <3>1 DEF EndedCount
  <2> QED BY <2>1, <2>2
<1>14. on_read_done(u) =
         [answers |-> [i \in 1 .. k |-> AnswerTo(rr[i])],
          left    |-> From(u, IF k = 0 THEN 0 ELSE rr[k].end)]
  <2>1. rest.results \in Seq(Results(V)) /\ rest.ok
    BY <1>5, <1>7, <1>10
  <2>2. Answered(u, rest) =
          [answers |-> [i \in 1 .. EndedCount(rest.results) |-> AnswerTo(rest.results[i])],
           left    |-> From(u, IF EndedCount(rest.results) = 0 THEN 0
                               ELSE rest.results[EndedCount(rest.results)].end)]
    BY <2>1, AnsweredFacts
  <2>3. on_read_done(u) = Answered(u, rest)
    BY <1>1 DEF on_read_done
  <2> QED BY <1>5, <1>12, <2>2, <2>3
<1>15. on_read_done(s) =
         [answers |-> [i \in 1 .. k + 1 |-> AnswerTo(all[i])],
          left    |-> From(s, IF k + 1 = 0 THEN 0 ELSE all[k + 1].end)]
  <2>1. p.results \in Seq(Results(V)) /\ p.ok /\ EndedCount(p.results) = k + 1
    BY <1>5, <1>7, <1>10, <1>13
  <2>2. Answered(s, p) =
          [answers |-> [i \in 1 .. k + 1 |-> AnswerTo(p.results[i])],
           left    |-> From(s, IF k + 1 = 0 THEN 0 ELSE p.results[k + 1].end)]
    BY <2>1, AnsweredFacts
  <2> QED BY <1>1, <1>5, <2>2 DEF on_read_done
<1>16. From(s, IF k + 1 = 0 THEN 0 ELSE all[k + 1].end) = From(u, IF k = 0 THEN 0 ELSE rr[k].end)
  <2>1. CASE k = 0
    <3>1. all[k + 1].end = e
      BY <1>8, <2>1
    <3> QED BY <1>1, <1>3, <2>1, <3>1, FromZero
  <2>2. CASE k # 0
    <3>1. k \in 1 .. n /\ all[k + 1].end = rr[k].end + e
      BY <1>8, <1>11, <1>13, <2>2
    <3>2. rr[k].end \in 0 .. Len(u)
      <4>1. rr[k] \in Results(V)
        BY <1>5, <1>7, <3>1
      <4>2. rr[k].end <= Len(u)
        BY <1>1, <1>4, <1>5, <1>11, <3>1 DEF FineResults
      <4> QED BY <4>1, <4>2, <1>2, <1>3 DEF Results
    <3>3. From(From(s, e), rr[k].end) = From(s, e + rr[k].end)
      BY <1>2, <1>3, <3>2, FromFrom
    <3>4. e + rr[k].end = rr[k].end + e /\ k + 1 # 0
      BY <1>2, <1>3, <1>11, <3>1, <3>2
    <3> QED BY <1>1, <2>2, <3>1, <3>3, <3>4
  <2> QED BY <2>1, <2>2
<1>17. [i \in 1 .. k + 1 |-> AnswerTo(all[i])] = <<AnswerTo(r)>> \o [i \in 1 .. k |-> AnswerTo(rr[i])]
  <2>1. Len(rr) \in Nat /\ k \in 0 .. Len(rr)
    BY <1>5, <1>11, <1>13
  <2> QED BY <1>6, <2>1, AnswerBefore, SMTT(30)
<1>18. on_read_done(s) = [answers |-> <<AnswerTo(r)>> \o on_read_done(u).answers,
                         left    |-> on_read_done(u).left]
  <2>1. /\ on_read_done(u).answers = [i \in 1 .. k |-> AnswerTo(rr[i])]
        /\ on_read_done(u).left = From(u, IF k = 0 THEN 0 ELSE rr[k].end)
    BY <1>14
  <2>2. on_read_done(s) = [answers |-> <<AnswerTo(r)>> \o [i \in 1 .. k |-> AnswerTo(rr[i])],
                           left    |-> From(u, IF k = 0 THEN 0 ELSE rr[k].end)]
    BY <1>15, <1>16, <1>17, Zenon
  <2> QED BY <2>1, <2>2
<1> QED BY <1>1, <1>10, <1>18

\* The answers to the first m results.
LEMMA FirstAnswers ==
    ASSUME NEW S, NEW results \in Seq(S), NEW m \in 0 .. Len(results)
    PROVE  Answers(SubSeq(results, 1, m)) = [i \in 1 .. m |-> AnswerTo(results[i])]
<1>1. m \in Nat /\ \A i \in 1 .. m : results[i] \in S
  OBVIOUS
<1>2. PICK first : first = SubSeq(results, 1, m)
  OBVIOUS
<1>3. first \in Seq(S) /\ Len(first) = m /\ \A i \in 1 .. m : first[i] = results[i]
  BY <1>1, <1>2, SubSeqProperties
<1>4. DOMAIN first = 1 .. m
  BY <1>3
<1>5. Answers(first) = [i \in 1 .. m |-> AnswerTo(results[i])]
  BY <1>3, <1>4 DEF Answers, AnswerTo
<1> QED BY <1>2, <1>5

\* The answers of one read are a sequence.
LEMMA DoneIsSequence ==
    ASSUME NEW s \in Input
    PROVE  \E S : on_read_done(s).answers \in Seq(S)
<1>1. CASE ~parse(s).ok
  <2>1. <<FormatError>> \in Seq({FormatError})
    OBVIOUS
  <2> QED BY <1>1, <2>1, DoneOfRefused
<1>2. CASE parse(s).ok
  <2>1. PICK p, k : p = parse(s) /\ k = EndedCount(p.results)
    OBVIOUS
  <2>2. PICK V : p.results \in Seq(Results(V))
    BY <2>1, ParseFine DEF FineResults
  <2>3. on_read_done(s) = [answers |-> [i \in 1 .. k |-> AnswerTo(p.results[i])],
                           left    |-> From(s, IF k = 0 THEN 0 ELSE p.results[k].end)]
    BY <1>2, <2>1, <2>2, AnsweredFacts DEF on_read_done
  <2>4. k \in Nat
    <3>1. EndedCount(p.results) \in 0 .. Len(p.results)
      BY <2>2, EndedFacts
    <3>2. Len(p.results) \in Nat
      BY <2>2
    <3> QED BY <2>1, <3>1, <3>2
  <2>5. on_read_done(s).answers = [i \in 1 .. k |-> AnswerTo(p.results[i])]
    BY <2>3
  <2>6. [i \in 1 .. k |-> AnswerTo(p.results[i])] \in Seq({AnswerTo(p.results[i]) : i \in 1 .. k})
    BY <2>4
  <2> QED BY <2>5, <2>6
<1> QED BY <1>1, <1>2

\* A read of cut bytes of s, and the rest: the first one answers the first m results,
\* what it leaves begins at place u, and with the rest it is as good as the whole.
CutFine(s, cut) ==
    LET first == on_read_done(SubSeq(s, 1, cut)) IN
    /\ parse(SubSeq(s, 1, cut)).ok
    /\ \E u \in 0 .. cut, m \in 0 .. Len(parse(s).results) :
          /\ first.left \o From(s, cut) = From(s, u)
          /\ first.answers = Answers(SubSeq(parse(s).results, 1, m))
          /\ parse(From(s, u)).ok = parse(s).ok
          /\ parse(s).ok =>
                /\ on_read_done(s).answers = first.answers \o on_read_done(From(s, u)).answers
                /\ on_read_done(s).left = on_read_done(From(s, u)).left
          /\ ~parse(s).ok =>
                /\ m < Len(parse(s).results)
                /\ \A i \in 1 .. Len(parse(s).results) :
                      parse(s).results[i].state = "complete" =>
                         (i <= m <=> parse(s).results[i].end <= cut)

\* Before the byte that is refused, if there is one.
InTime(s, cut) == parse(s).ok \/ cut <= parse(s).results[Len(parse(s).results)].begin

\* A cut is fine when the first read ends no value and leaves all of its bytes.
LEMMA NothingYet ==
    ASSUME NEW s \in Input, NEW cut \in 0 .. Len(s),
           parse(SubSeq(s, 1, cut)).ok,
           on_read_done(SubSeq(s, 1, cut)) = [answers |-> <<>>, left |-> SubSeq(s, 1, cut)],
           ~parse(s).ok => \A i \in DOMAIN parse(s).results :
              parse(s).results[i].state = "complete" => parse(s).results[i].end > cut
    PROVE  CutFine(s, cut)
<1>1. PICK first, p, results :
         first = on_read_done(SubSeq(s, 1, cut)) /\ p = SubSeq(s, 1, cut) /\ results = parse(s).results
  OBVIOUS
<1>2. first.answers = <<>> /\ first.left = p
  BY <1>1
<1>3. first.left \o From(s, cut) = From(s, 0) /\ From(s, 0) = s
  BY <1>1, <1>2, UpToFacts, FromZero, SMTT(30)
<1>4. PICK V : results \in Seq(Results(V))
  BY <1>1, ParseFine DEF FineResults
<1>5. Len(results) \in Nat /\ DOMAIN results = 1 .. Len(results) /\ (~parse(s).ok => Len(results) # 0)
  <2>1. ~parse(s).ok => results # <<>>
    BY <1>1, ParseFine DEF FineResults
  <2> QED BY <1>4, <2>1
<1>6. Answers(SubSeq(results, 1, 0)) = <<>>
  <2>1. Answers(SubSeq(results, 1, 0)) = [i \in 1 .. 0 |-> AnswerTo(results[i])]
    <3>1. 0 \in 0 .. Len(results)
      BY <1>5
    <3> QED BY <1>4, <3>1, FirstAnswers
  <2> QED BY <2>1
<1>7. on_read_done(s).answers = <<>> \o on_read_done(s).answers
  BY DoneIsSequence, ConcatEmptySeq
<1>8. \A i \in 1 .. Len(results) :
         ~parse(s).ok /\ results[i].state = "complete" => (i <= 0 <=> results[i].end <= cut)
  <2> SUFFICES ASSUME NEW i \in 1 .. Len(results), ~parse(s).ok, results[i].state = "complete"
               PROVE  ~(i <= 0) /\ ~(results[i].end <= cut)
    OBVIOUS
  <2>1. results[i].end > cut /\ results[i].end \in Nat /\ i \in 1 .. Len(results) /\ cut \in Nat
    <3>1. i \in 1 .. Len(results) /\ results[i].end > cut /\ cut \in Nat
      BY <1>1, <1>5 DEF Input
    <3>2. results[i] \in Results(V)
      BY <1>4
    <3> QED BY <3>1, <3>2 DEF Results
  <2> QED BY <2>1
<1>9. 0 \in 0 .. cut /\ 0 \in 0 .. Len(results) /\ (~parse(s).ok => 0 < Len(results))
  BY <1>5 DEF Input
<1> QED BY <1>1, <1>2, <1>3, <1>6, <1>7, <1>8, <1>9 DEF CutFine

\* A cut behind a value is fine, when every cut of what is behind the value is.
LEMMA CutBehindValue ==
    ASSUME NEW s \in Input, s # <<>>, s[1] \in ValueTypes, parse_value(s).state # "incomplete",
           NEW cut \in 0 .. Len(s), parse_value(s).end <= cut,
           parse_value(SubSeq(s, 1, cut)) = parse_value(s),
           InTime(s, cut),
           \A c \in 0 .. Len(From(s, parse_value(s).end)) :
              InTime(From(s, parse_value(s).end), c) => CutFine(From(s, parse_value(s).end), c)
    PROVE  CutFine(s, cut)
<1>1. PICK r, e, u, p, q :
         /\ r = parse_value(s) /\ e = r.end /\ u = From(s, e)
         /\ p = SubSeq(s, 1, cut) /\ q = SubSeq(u, 1, cut - e)
  OBVIOUS
<1>2. Len(s) \in Nat /\ IsDecision(r, s) /\ e > 0 /\ e \in 0 .. Len(s) /\ e <= cut /\ cut \in 0 .. Len(s)
  BY <1>1, ValueDecided, UsedFacts DEF Input
<1>3. u \in Input /\ Len(u) = Len(s) - e
  BY <1>1, <1>2, FromFacts
<1>4. p \in Input /\ p # <<>> /\ p[1] = s[1] /\ q = From(p, e)
  <2>1. p \in Input /\ Len(p) = cut /\ \A i \in 1 .. cut : p[i] = s[i]
    BY <1>1, UpToFacts
  <2>2. cut # 0 /\ 1 \in 1 .. cut /\ e \in 0 .. cut
    BY <1>2
  <2>3. q = From(p, e)
    BY <1>1, <2>2, UpToFrom
  <2> QED BY <2>1, <2>2, <2>3
<1>5. PICK all, rr, n : all = parse(s).results /\ rr = parse(u).results /\ n = Len(rr)
  OBVIOUS
<1>6. FineResults(u)
  BY <1>3, ParseFine
<1>7. parse(s).ok = parse(u).ok /\ IsBefore(all, r, rr)
  BY <1>1, <1>5, <1>6, ParseBefore
<1>8. PICK V : all \in Seq(Results(V)) /\ rr \in Seq(Results(V))
  BY <1>1, <1>5, <1>6, ParseBefore
<1>9. n \in Nat /\ DOMAIN rr = 1 .. n /\ Len(all) = n + 1 /\ DOMAIN all = 1 .. n + 1
      /\ \A i \in 1 .. n : rr[i].begin \in Nat /\ rr[i].end \in Nat
  <2>1. n \in Nat /\ DOMAIN rr = 1 .. n /\ \A i \in 1 .. n : rr[i] \in Results(V)
    BY <1>5, <1>8
  <2>2. Len(all) = n + 1 /\ DOMAIN all = 1 .. n + 1
    BY <1>5, <1>7, <1>8 DEF IsBefore
  <2> QED BY <2>1, <2>2 DEF Results
<1>10. all[1].state = r.state /\ all[1].end = e
       /\ \A i \in 1 .. n : /\ all[i + 1].state = rr[i].state
                            /\ all[i + 1].begin = rr[i].begin + e /\ all[i + 1].end = rr[i].end + e
  BY <1>1, <1>5, <1>7 DEF IsBefore
<1>11. cut - e \in 0 .. Len(u) /\ InTime(u, cut - e)
  <2>1. cut - e \in 0 .. Len(u)
    BY <1>2, <1>3
  <2>2. ASSUME ~parse(u).ok PROVE cut - e <= rr[n].begin
    <3>1. rr # <<>>
      BY <1>5, <1>6, <2>2 DEF FineResults
    <3>2. n \in 1 .. n
      BY <1>5, <1>8, <1>9, <3>1
    <3>3. cut <= all[n + 1].begin
      BY <1>5, <1>7, <1>9, <2>2 DEF InTime
    <3> QED BY <1>2, <1>9, <1>10, <3>2, <3>3
  <2> QED BY <1>5, <2>1, <2>2 DEF InTime
<1>12. CutFine(u, cut - e)
  BY <1>1, <1>11
<1>13. PICK first, done, behind :
          first = on_read_done(q) /\ done = on_read_done(u) /\ behind = From(u, cut - e)
  OBVIOUS
<1>14. parse(q).ok
  BY <1>1, <1>12 DEF CutFine
<1>a. PICK v \in 0 .. cut - e, m \in 0 .. Len(parse(u).results) :
         /\ on_read_done(SubSeq(u, 1, cut - e)).left \o From(u, cut - e) = From(u, v)
         /\ on_read_done(SubSeq(u, 1, cut - e)).answers = Answers(SubSeq(parse(u).results, 1, m))
         /\ parse(From(u, v)).ok = parse(u).ok
         /\ parse(u).ok =>
               /\ on_read_done(u).answers
                     = on_read_done(SubSeq(u, 1, cut - e)).answers \o on_read_done(From(u, v)).answers
               /\ on_read_done(u).left = on_read_done(From(u, v)).left
         /\ ~parse(u).ok =>
               /\ m < Len(parse(u).results)
               /\ \A i \in 1 .. Len(parse(u).results) :
                     parse(u).results[i].state = "complete" =>
                        (i <= m <=> parse(u).results[i].end <= cut - e)
  BY <1>12, Zenon DEF CutFine
<1>15. /\ m \in 0 .. n
       /\ first.left \o behind = From(u, v)
       /\ first.answers = Answers(SubSeq(rr, 1, m))
       /\ parse(From(u, v)).ok = parse(u).ok
       /\ parse(u).ok => /\ done.answers = first.answers \o on_read_done(From(u, v)).answers
                         /\ done.left = on_read_done(From(u, v)).left
       /\ ~parse(u).ok => /\ m < n
                          /\ \A i \in 1 .. n : rr[i].state = "complete" =>
                                (i <= m <=> rr[i].end <= cut - e)
  BY <1>1, <1>5, <1>13, <1>a, ZenonT(60)
<1>16. /\ parse(p).ok
       /\ on_read_done(p) = [answers |-> <<AnswerTo(r)>> \o first.answers, left |-> first.left]
  BY <1>1, <1>4, <1>13, <1>14, DoneUnfolds
<1>17. parse(u).ok => on_read_done(s) = [answers |-> <<AnswerTo(r)>> \o done.answers, left |-> done.left]
  BY <1>1, <1>13, DoneUnfolds
<1>18. From(u, v) = From(s, e + v) /\ e + v \in 0 .. cut /\ behind = From(s, cut)
  <2>1. v \in 0 .. Len(s) - e /\ cut - e \in 0 .. Len(s) - e /\ e + (cut - e) = cut /\ e + v \in 0 .. cut
    BY <1>2
  <2> QED BY <1>1, <1>2, <1>13, <2>1, FromFrom
<1>19. <<AnswerTo(r)>> \o first.answers = Answers(SubSeq(all, 1, m + 1))
  <2>1. Answers(SubSeq(rr, 1, m)) = [i \in 1 .. m |-> AnswerTo(rr[i])]
    BY <1>5, <1>8, FirstAnswers
  <2>2. m + 1 \in 0 .. Len(all) /\ m \in 0 .. Len(rr) /\ Len(rr) \in Nat
    BY <1>5, <1>9
  <2>3. Answers(SubSeq(all, 1, m + 1)) = [i \in 1 .. m + 1 |-> AnswerTo(all[i])]
    BY <1>8, <2>2, FirstAnswers
  <2>4. [i \in 1 .. m + 1 |-> AnswerTo(all[i])] = <<AnswerTo(r)>> \o [i \in 1 .. m |-> AnswerTo(rr[i])]
    <3>1. IsBefore(all, r, rr)
      BY <1>7
    <3>2. Len(rr) \in Nat
      BY <2>2
    <3>3. \A k \in 0 .. Len(rr) :
             [i \in 1 .. k + 1 |-> AnswerTo(all[i])] = <<AnswerTo(r)>> \o [i \in 1 .. k |-> AnswerTo(rr[i])]
      BY <3>1, <3>2, AnswerBefore, SMTT(30)
    <3> QED BY <2>2, <3>3
  <2> QED BY <1>15, <2>1, <2>3, <2>4
<1>20. ASSUME parse(s).ok
       PROVE  /\ on_read_done(s).answers = (<<AnswerTo(r)>> \o first.answers) \o on_read_done(From(s, e + v)).answers
              /\ on_read_done(s).left = on_read_done(From(s, e + v)).left
  <2>1. PICK t : t = on_read_done(From(u, v))
    OBVIOUS
  <2>2. /\ on_read_done(s).answers = <<AnswerTo(r)>> \o (first.answers \o t.answers)
        /\ on_read_done(s).left = t.left
    <3>1. parse(u).ok
      BY <1>7, <1>20
    <3>2. done.answers = first.answers \o t.answers /\ done.left = t.left
      BY <1>15, <2>1, <3>1
    <3>3. on_read_done(s) = [answers |-> <<AnswerTo(r)>> \o done.answers, left |-> done.left]
      BY <1>17, <3>1
    <3>4. on_read_done(s).answers = <<AnswerTo(r)>> \o done.answers /\ on_read_done(s).left = done.left
      BY <3>3
    <3> QED BY <3>2, <3>4
  <2>3. PICK S1 : first.answers \in Seq(S1)
    <3>1. q \in Input
      BY <1>1, <1>3, <1>11, UpToFacts
    <3> QED BY <1>13, <3>1, DoneIsSequence
  <2>4. PICK S2 : t.answers \in Seq(S2)
    <3>1. v \in 0 .. Len(u)
      BY <1>2, <1>3
    <3>2. From(u, v) \in Input
      BY <1>3, <3>1, FromFacts
    <3> QED BY <2>1, <3>2, DoneIsSequence
  <2>5. PICK S : S = S1 \cup S2 \cup {AnswerTo(r)}
    OBVIOUS
  <2>6. first.answers \in Seq(S) /\ t.answers \in Seq(S) /\ <<AnswerTo(r)>> \in Seq(S)
    BY <2>3, <2>4, <2>5
  <2>7. (<<AnswerTo(r)>> \o first.answers) \o t.answers = <<AnswerTo(r)>> \o (first.answers \o t.answers)
    <3>1. \A x, y, z \in Seq(S) : (x \o y) \o z = x \o (y \o z)
      BY ConcatAssociative, SMTT(30)
    <3> QED BY <2>6, <3>1
  <2> QED BY <1>18, <2>1, <2>2, <2>7
<1>21. ASSUME ~parse(s).ok, NEW i \in 1 .. n + 1, all[i].state = "complete"
       PROVE  i <= m + 1 <=> all[i].end <= cut
  <2>1. CASE i = 1
    BY <1>2, <1>10, <2>1
  <2>2. CASE i # 1
    <3>1. i - 1 \in 1 .. n /\ (i - 1) + 1 = i
      BY <1>9, <2>2
    <3>2. PICK j : j = i - 1
      OBVIOUS
    <3>3. j \in 1 .. n /\ j + 1 = i
      BY <3>1, <3>2
    <3>4. all[i].state = rr[j].state /\ all[i].end = rr[j].end + e /\ rr[j].end \in Nat
      BY <1>9, <1>10, <3>3
    <3>5. j <= m <=> rr[j].end <= cut - e
      BY <1>7, <1>15, <1>21, <3>3, <3>4
    <3> QED BY <1>2, <3>3, <3>4, <3>5
  <2> QED BY <2>1, <2>2
<1>22. /\ on_read_done(p).answers = Answers(SubSeq(all, 1, m + 1))
       /\ on_read_done(p).left \o From(s, cut) = From(s, e + v)
  BY <1>15, <1>16, <1>18, <1>19
<1>23. parse(From(s, e + v)).ok = parse(s).ok
  BY <1>7, <1>15, <1>18
<1>24. m + 1 \in 0 .. Len(all) /\ (~parse(s).ok => m + 1 < Len(all))
  BY <1>7, <1>9, <1>15
<1>25. /\ parse(s).ok =>
             /\ on_read_done(s).answers = on_read_done(p).answers \o on_read_done(From(s, e + v)).answers
             /\ on_read_done(s).left = on_read_done(From(s, e + v)).left
       /\ ~parse(s).ok => \A i \in 1 .. Len(all) : all[i].state = "complete" =>
             (i <= m + 1 <=> all[i].end <= cut)
  BY <1>9, <1>19, <1>20, <1>21, <1>22
<1> QED BY <1>1, <1>5, <1>16, <1>18, <1>22, <1>23, <1>24, <1>25 DEF CutFine

\* A first byte that begins no value is all that parse finds.
LEMMA RefusedByte ==
    ASSUME NEW s \in Input, s # <<>>, s[1] \notin ValueTypes
    PROVE  ~parse(s).ok /\ Len(parse(s).results) = 1 /\ parse(s).results[1].begin = 0
<1>1. parse(s) = Only(FALSE, Found(Invalid(1)))
  BY ParseUnfolds
<1> QED BY <1>1, FoundFacts DEF Only

\* Wherever bytes are cut before the one that is refused, the rest makes up for it.
LEMMA CutsFine ==
    ASSUME NEW s \in Input, NEW cut \in 0 .. Len(s), InTime(s, cut)
    PROVE  CutFine(s, cut)
<1> DEFINE Good == {n \in Nat : \A t \in Input : \A c \in 0 .. Len(t) :
                       Len(t) <= n /\ InTime(t, c) => CutFine(t, c)}
<1>1. ASSUME NEW t \in Input, NEW c \in 0 .. Len(t), InTime(t, c),
             \A u \in Input : \A d \in 0 .. Len(u) : Len(u) < Len(t) /\ InTime(u, d) => CutFine(u, d)
      PROVE  CutFine(t, c)
  <2>1. PICK p : p = SubSeq(t, 1, c)
    OBVIOUS
  <2>2. /\ p \in Input /\ Len(p) = c /\ Len(t) \in Nat /\ c \in Nat /\ c <= Len(t)
        /\ Agree(p, t, c) /\ Agree(t, p, c) /\ \A i \in 1 .. c : p[i] = t[i]
    BY <2>1, UpToFacts DEF Input
  <2>3. PICK all : all = parse(t).results
    OBVIOUS
  <2>4. PICK W : all \in Seq(Results(W))
    BY <2>3, ParseFine DEF FineResults
  <2>5. \A i \in 1 .. Len(all) : all[i].end \in Nat /\ (all[i].state = "complete" => all[i].end > 0)
    <3>1. \A i \in 1 .. Len(all) : all[i] \in Results(W) /\ i \in DOMAIN all
      BY <2>4
    <3> QED BY <2>3, <3>1, ParseFine DEF FineResults, Results
  <2>6. DOMAIN all = 1 .. Len(all)
    BY <2>4
  <2>7. CASE c = 0
    <3>1. p = <<>>
      BY <2>2, <2>7
    <3>2. parse(p).ok /\ on_read_done(p) = [answers |-> <<>>, left |-> p]
      BY <3>1, ParseUnfolds, DoneOfNothing
    <3> QED BY <2>1, <2>3, <2>5, <2>6, <2>7, <3>2, NothingYet
  <2>8. CASE c # 0
    <3>1. p # <<>> /\ t # <<>> /\ p[1] = t[1]
      BY <2>2, <2>8
    <3>2. t[1] \in ValueTypes
      BY <1>1, <2>2, <2>8, <3>1, RefusedByte DEF InTime
    <3>3. CASE parse_value(p).state = "incomplete"
      <4>1. parse(p).ok /\ on_read_done(p) = [answers |-> <<>>, left |-> p]
        BY <2>2, <3>1, <3>2, <3>3, DoneOfIncomplete
      <4>2. ASSUME ~parse(t).ok, NEW i \in 1 .. Len(all), all[i].state = "complete"
            PROVE  all[i].end > c
        <5>1. PICK r, e, u : r = parse_value(t) /\ e = r.end /\ u = From(t, e)
          OBVIOUS
        <5>2. r.state # "incomplete"
          BY <3>1, <3>2, <4>2, <5>1, DoneOfIncomplete
        <5>3. /\ IsDecision(r, t) /\ e > 0
              /\ \A q \in Input : Agree(t, q, Used(r, t)) => parse_value(q) = r
          BY <3>1, <3>2, <5>1, <5>2, ValueDecided
        <5>4. /\ e \in 0 .. Len(t) /\ Used(r, t) \in 1 .. Len(t) /\ Used(r, t) <= e + 1
              /\ (r.state = "complete" => Used(r, t) = e)
          BY <3>1, <5>1, <5>3, UsedFacts
        <5>5. Used(r, t) > c
          <6> SUFFICES ASSUME Used(r, t) <= c PROVE FALSE
            BY <2>2, <5>4
          <6>1. Used(r, t) \in Nat
            BY <2>2, <5>4
          <6>2. Agree(t, p, Used(r, t))
            BY <2>2, <6>1, AgreeLess
          <6>3. parse_value(p) = r
            BY <2>2, <5>3, <6>2
          <6> QED BY <3>3, <5>2, <6>3
        <5>6. u \in Input
          BY <5>1, <5>4, FromFacts
        <5>7. FineResults(u)
          BY <5>6, ParseFine
        <5>8. IsBefore(all, r, parse(u).results)
          BY <2>3, <3>1, <3>2, <5>1, <5>2, <5>7, ParseBefore
        <5>9. PICK rr : rr = parse(u).results
          OBVIOUS
        <5>10. PICK V : rr \in Seq(Results(V))
          BY <5>7, <5>9 DEF FineResults
        <5>11. CASE i = 1
          BY <4>2, <5>1, <5>4, <5>5, <5>8, <5>11 DEF IsBefore
        <5>12. CASE i # 1
          <6>1. PICK j : j = i - 1
            OBVIOUS
          <6>2. Len(rr) \in Nat /\ Len(all) = Len(rr) + 1
            BY <5>8, <5>9, <5>10 DEF IsBefore
          <6>3. j \in 1 .. Len(rr) /\ j + 1 = i /\ j \in DOMAIN rr
            BY <5>10, <5>12, <6>1, <6>2
          <6>4. all[i].state = rr[j].state /\ all[i].end = rr[j].end + e
            BY <5>1, <5>8, <5>9, <6>3 DEF IsBefore
          <6>5. rr[j].end > 0
            BY <4>2, <5>7, <5>9, <6>3, <6>4 DEF FineResults
          <6>6. rr[j].end \in Nat
            <7>1. rr[j] \in Results(V)
              BY <5>10, <6>3
            <7> QED BY <7>1 DEF Results
          <6> QED BY <2>2, <5>4, <5>5, <6>4, <6>5, <6>6
        <5> QED BY <5>11, <5>12
      <4> QED BY <2>1, <2>3, <2>6, <4>1, <4>2, NothingYet
    <3>4. CASE parse_value(p).state # "incomplete"
      <4>1. PICK r, e, u : r = parse_value(p) /\ e = r.end /\ u = From(t, e)
        OBVIOUS
      <4>2. /\ IsDecision(r, p) /\ e > 0
            /\ \A q \in Input : Agree(p, q, Used(r, p)) => parse_value(q) = r
        BY <2>2, <3>1, <3>2, <3>4, <4>1, ValueDecided
      <4>3. Used(r, p) \in 1 .. c /\ e \in 0 .. c
        BY <2>2, <3>1, <4>1, <4>2, UsedFacts
      <4>4. Agree(p, t, Used(r, p))
        <5>1. Used(r, p) \in Nat /\ Used(r, p) <= c
          BY <2>2, <4>3
        <5> QED BY <2>2, <5>1, AgreeLess
      <4>5. parse_value(t) = r
        BY <4>2, <4>4
      <4>6. u \in Input /\ Len(u) < Len(t) /\ e <= c
        <5>1. e \in 0 .. Len(t) /\ e <= c
          BY <2>2, <4>3
        <5>2. u \in Input /\ Len(u) = Len(t) - e
          BY <4>1, <5>1, FromFacts
        <5> QED BY <2>2, <4>2, <5>1, <5>2
      <4>7. \A d \in 0 .. Len(u) : InTime(u, d) => CutFine(u, d)
        BY <1>1, <4>6
      <4> QED BY <1>1, <2>1, <3>1, <3>2, <3>4, <4>1, <4>5, <4>6, <4>7, CutBehindValue
    <3> QED BY <3>3, <3>4
  <2> QED BY <2>7, <2>8
<1>2. 0 \in Good
  <2> SUFFICES ASSUME NEW t \in Input, NEW c \in 0 .. Len(t), Len(t) <= 0, InTime(t, c) PROVE CutFine(t, c)
    OBVIOUS
  <2>1. \A u \in Input : ~(Len(u) < Len(t))
    BY DEF Input
  <2> QED BY <1>1, <2>1
<1>3. ASSUME NEW n \in Nat, n \in Good PROVE n + 1 \in Good
  <2> SUFFICES ASSUME NEW t \in Input, NEW c \in 0 .. Len(t), Len(t) <= n + 1, InTime(t, c)
               PROVE  CutFine(t, c)
    BY DEF Good
  <2>1. \A u \in Input : Len(u) < Len(t) => Len(u) <= n
    BY DEF Input
  <2>2. \A u \in Input : \A d \in 0 .. Len(u) : Len(u) < Len(t) /\ InTime(u, d) => CutFine(u, d)
    BY <1>3, <2>1
  <2> HIDE DEF Good
  <2> QED BY <1>1, <2>2
<1>4. Len(s) \in Nat
  BY DEF Input
<1>5. Len(s) \in Good
  <2> HIDE DEF Good
  <2> QED BY <1>2, <1>3, <1>4, NatSetInduction
<1> QED BY <1>4, <1>5 DEF Good

\* What comes of two reads, next to what comes of one.
LEMMA TwoReads ==
    ASSUME NEW s \in Input, NEW cut \in 1 .. Len(s)
    PROVE  /\ parse(s).ok => ReadTwice(s, cut) = Answered(s, parse(s))
           /\ ~parse(s).ok /\ cut <= Last(parse(s).results).begin =>
                 \E n \in 0 .. Len(parse(s).results) - 1 :
                    /\ ReadTwice(s, cut).answers = Answers(SubSeq(parse(s).results, 1, n)) \o <<FormatError>>
                    /\ \A i \in DOMAIN parse(s).results :
                          parse(s).results[i].state = "complete" =>
                             (i <= n <=> parse(s).results[i].end <= cut)
<1>1. PICK p, rest, first, results :
         /\ p = SubSeq(s, 1, cut) /\ rest = From(s, cut)
         /\ first = on_read_done(p) /\ results = parse(s).results
  OBVIOUS
<1>2. Len(s) \in Nat /\ cut \in Nat /\ cut <= Len(s) /\ cut \in 0 .. Len(s)
  BY DEF Input
<1>3. rest \in Input /\ Len(rest) = Len(s) - cut
  BY <1>1, <1>2, FromFacts
<1>4. PICK V : results \in Seq(Results(V))
  BY <1>1, ParseFine DEF FineResults
<1>5. Len(results) \in Nat /\ DOMAIN results = 1 .. Len(results)
  BY <1>4
<1>6. CASE rest = <<>>
  <2>1. cut = Len(s)
    BY <1>2, <1>3, <1>6
  <2>2. p = s
    <3>1. p \o rest = s /\ p \in Input
      BY <1>1, <1>2, UpToFacts
    <3>2. p \o <<>> = p
      BY <3>1, ConcatEmptySeq DEF Input
    <3> QED BY <1>6, <3>1, <3>2
  <2>3. ReadTwice(s, cut) = Answered(s, parse(s))
    BY <1>1, <1>6, <2>2 DEF ReadTwice, AnsweredAfter, on_read_done
  <2>4. parse(s).ok \/ ~(cut <= Last(results).begin)
    <3> SUFFICES ASSUME ~parse(s).ok PROVE ~(cut <= Last(results).begin)
      OBVIOUS
    <3>1. results # <<>> /\ results[Len(results)].begin < Len(s)
      BY <1>1, ParseFine DEF FineResults
    <3>2. Len(results) \in 1 .. Len(results)
      BY <1>4, <3>1
    <3>3. results[Len(results)].begin \in Nat
      <4>1. results[Len(results)] \in Results(V)
        BY <1>4, <3>2
      <4> QED BY <4>1 DEF Results
    <3> QED BY <1>2, <2>1, <3>1, <3>3 DEF Last
  <2> QED BY <1>1, <2>3, <2>4
<1>7. CASE rest # <<>>
  <2>1. PICK second : second = on_read_done(first.left \o rest)
    OBVIOUS
  <2>2. ReadTwice(s, cut) = [answers |-> first.answers \o second.answers, left |-> second.left]
    BY <1>1, <1>7, <2>1 DEF ReadTwice, AnsweredAfter
  <2>3. ReadTwice(s, cut).answers = first.answers \o second.answers
    <3>1. PICK both : both = first.answers \o second.answers
      OBVIOUS
    <3>2. ReadTwice(s, cut) = [answers |-> both, left |-> second.left]
      BY <2>2, <3>1
    <3>3. ReadTwice(s, cut).answers = both
      BY <3>2
    <3> QED BY <3>1, <3>3
  <2> SUFFICES ASSUME InTime(s, cut)
               PROVE  /\ parse(s).ok => ReadTwice(s, cut) = Answered(s, parse(s))
                      /\ ~parse(s).ok =>
                            \E n \in 0 .. Len(results) - 1 :
                               /\ ReadTwice(s, cut).answers = Answers(SubSeq(results, 1, n)) \o <<FormatError>>
                               /\ \A i \in DOMAIN results :
                                     results[i].state = "complete" => (i <= n <=> results[i].end <= cut)
    BY <1>1 DEF InTime, Last
  <2>4. CutFine(s, cut)
    BY <1>2, CutsFine
  <2>5. PICK u \in 0 .. cut, m \in 0 .. Len(parse(s).results) :
          /\ on_read_done(SubSeq(s, 1, cut)).left \o From(s, cut) = From(s, u)
          /\ on_read_done(SubSeq(s, 1, cut)).answers = Answers(SubSeq(parse(s).results, 1, m))
          /\ parse(From(s, u)).ok = parse(s).ok
          /\ parse(s).ok =>
                /\ on_read_done(s).answers
                      = on_read_done(SubSeq(s, 1, cut)).answers \o on_read_done(From(s, u)).answers
                /\ on_read_done(s).left = on_read_done(From(s, u)).left
          /\ ~parse(s).ok =>
                /\ m < Len(parse(s).results)
                /\ \A i \in 1 .. Len(parse(s).results) :
                      parse(s).results[i].state = "complete" =>
                         (i <= m <=> parse(s).results[i].end <= cut)
    BY <2>4, Zenon DEF CutFine
  <2>6. /\ m \in 0 .. Len(results) /\ first.left \o rest = From(s, u)
        /\ first.answers = Answers(SubSeq(results, 1, m))
        /\ parse(From(s, u)).ok = parse(s).ok /\ second = on_read_done(From(s, u))
    BY <1>1, <2>1, <2>5
  <2>7. ASSUME parse(s).ok PROVE ReadTwice(s, cut) = Answered(s, parse(s))
    <3>1. on_read_done(s).answers = first.answers \o second.answers /\ on_read_done(s).left = second.left
      BY <1>1, <2>5, <2>6, <2>7
    <3>2. on_read_done(s) = [answers |-> on_read_done(s).answers, left |-> on_read_done(s).left]
      BY <2>7 DEF on_read_done, Answered
    <3> QED BY <2>2, <3>1, <3>2 DEF on_read_done
  <2>8. ASSUME ~parse(s).ok
        PROVE  \E n \in 0 .. Len(results) - 1 :
                  /\ ReadTwice(s, cut).answers = Answers(SubSeq(results, 1, n)) \o <<FormatError>>
                  /\ \A i \in DOMAIN results :
                        results[i].state = "complete" => (i <= n <=> results[i].end <= cut)
    <3>1. second.answers = <<FormatError>>
      BY <2>6, <2>8, DoneOfRefused
    <3>2. m < Len(results) /\ m \in 0 .. Len(results) - 1
      BY <1>1, <1>5, <2>5, <2>6, <2>8
    <3>3. \A i \in 1 .. Len(results) : results[i].state = "complete" => (i <= m <=> results[i].end <= cut)
      BY <1>1, <2>5, <2>8
    <3> QED BY <1>5, <2>3, <2>6, <3>1, <3>2, <3>3
  <2> QED BY <2>7, <2>8
<1> QED BY <1>6, <1>7

--------------------------------------------------------------------------------
\* What is written of values is read: numbers, then lines, plain values, and arrays.

LastDigit(n) == <<DigitCharacters[(n % 10) + 1]>>

\* The first n parts, one after the other, for each n.
Joined(parts) ==
    LET first[n \in Nat] == IF n = 0 THEN <<>> ELSE first[n - 1] \o parts[n] IN first

\* The recursive definition of DigitsUpTo, digit by digit.
LEMMA DigitsRule ==
    /\ DigitsUpTo[0] = [n \in Nat |-> <<>> \o LastDigit(n)]
    /\ \A k \in Nat : DigitsUpTo[k + 1] =
          [n \in Nat |-> (IF n < 10 THEN <<>> ELSE DigitsUpTo[k][n \div 10]) \o LastDigit(n)]
<1> DEFINE start == [m \in Nat |-> <<>> \o LastDigit(m)]
           Step(n, x) == [m \in Nat |-> (IF m < 10 THEN <<>> ELSE x[m \div 10]) \o LastDigit(m)]
           Body(n, g) == [m \in Nat |->
              (IF n = 0 \/ m < 10 THEN <<>> ELSE g[n - 1][m \div 10])
              \o <<DigitCharacters[(m % 10) + 1]>>]
           f == CHOOSE g : g = [n \in Nat |-> Body(n, g)]
           Part(g, n) == g = [i \in 0 .. n |-> IF i = 0 THEN start ELSE Step(i, g[i - 1])]
           Has == {n \in Nat : \E g : Part(g, n)}
<1>f. DigitsUpTo = f
  BY DEF DigitsUpTo
<1>g. \A n, x : Step(n, x) = [m \in Nat |-> (IF m < 10 THEN <<>> ELSE x[m \div 10]) \o LastDigit(m)]
  OBVIOUS
<1>s. start = [m \in Nat |-> <<>> \o LastDigit(m)]
  OBVIOUS
<1>b. \A n \in Nat : \A g : Body(n, g) = IF n = 0 THEN start ELSE Step(n, g[n - 1])
  BY DEF LastDigit
<1> HIDE DEF Step, start, Body
<1>1. 0 \in Has
  <2> DEFINE g == [i \in 0 .. 0 |-> start]
  <2>1. Part(g, 0)
    OBVIOUS
  <2> QED BY <2>1
<1>2. ASSUME NEW n \in Nat, n \in Has PROVE n + 1 \in Has
  <2>1. PICK g : Part(g, n)
    BY <1>2
  <2> DEFINE next == Step(n + 1, g[n])
             h == [i \in 0 .. n + 1 |-> IF i = n + 1 THEN next ELSE g[i]]
  <2>2. ASSUME NEW i \in 0 .. n + 1 PROVE h[i] = IF i = 0 THEN start ELSE Step(i, h[i - 1])
    <3>1. CASE i = n + 1
      <4>1. i # 0 /\ i - 1 = n /\ n \in 0 .. n + 1 /\ n # n + 1
        BY <3>1
      <4>2. h[i] = next /\ h[i - 1] = g[n]
        BY <3>1, <4>1
      <4> QED BY <3>1, <4>1, <4>2
    <3>2. CASE i # n + 1
      <4>1. i \in 0 .. n /\ h[i] = g[i] /\ (i # 0 => h[i - 1] = g[i - 1])
        BY <3>2
      <4> QED BY <2>1, <4>1
    <3> QED BY <3>1, <3>2
  <2> HIDE DEF next
  <2>3. Part(h, n + 1)
    BY <2>2
  <2> HIDE DEF h
  <2> QED BY <2>3
<1> HIDE DEF Has
<1>3. Nat \subseteq Has
  BY <1>1, <1>2, NatSetInduction
<1> DEFINE part(n) == CHOOSE g : Part(g, n)
           h == [n \in Nat |-> part(n)[n]]
<1>4. ASSUME NEW n \in Nat PROVE Part(part(n), n)
  BY <1>3 DEF Has
<1> HIDE DEF part
<1>5. ASSUME NEW n \in Nat PROVE part(n + 1)[n] = part(n)[n]
  <2> DEFINE Same == {i \in Nat : i <= n => part(n + 1)[i] = part(n)[i]}
  <2>1. Part(part(n), n) /\ Part(part(n + 1), n + 1)
    BY <1>4
  <2>2. 0 \in Same
    <3>1. 0 \in 0 .. n /\ 0 \in 0 .. n + 1
      OBVIOUS
    <3> QED BY <2>1, <3>1
  <2>3. ASSUME NEW i \in Nat, i \in Same PROVE i + 1 \in Same
    <3> SUFFICES ASSUME i + 1 <= n PROVE part(n + 1)[i + 1] = part(n)[i + 1]
      OBVIOUS
    <3>1. i + 1 \in 0 .. n /\ i + 1 \in 0 .. n + 1 /\ i + 1 # 0 /\ (i + 1) - 1 = i
      OBVIOUS
    <3>2. part(n + 1)[i] = part(n)[i]
      BY <2>3
    <3>3. /\ part(n + 1)[i + 1] = Step(i + 1, part(n + 1)[i])
          /\ part(n)[i + 1] = Step(i + 1, part(n)[i])
      BY <2>1, <3>1
    <3> QED BY <3>2, <3>3
  <2> HIDE DEF Same
  <2>4. n \in Same
    BY <2>2, <2>3, NatSetInduction
  <2> QED BY <2>4 DEF Same
<1>6. ASSUME NEW n \in Nat PROVE h[n] = Body(n, h)
  <2>1. n \in 0 .. n
    OBVIOUS
  <2>2. h[n] = IF n = 0 THEN start ELSE Step(n, part(n)[n - 1])
    BY <1>4, <2>1
  <2>3. ASSUME n # 0 PROVE part(n)[n - 1] = h[n - 1]
    <3>1. n - 1 \in Nat /\ (n - 1) + 1 = n
      BY <2>3
    <3>2. part((n - 1) + 1)[n - 1] = part(n - 1)[n - 1]
      BY <1>5, <3>1
    <3> QED BY <3>1, <3>2
  <2>4. Body(n, h) = IF n = 0 THEN start ELSE Step(n, h[n - 1])
    BY <1>b
  <2> QED BY <2>2, <2>3, <2>4
<1>7. h = [n \in Nat |-> Body(n, h)]
  BY <1>6
<1> HIDE DEF h
<1>8. f = [n \in Nat |-> Body(n, f)]
  BY <1>7
<1> HIDE DEF f
<1>9. f[0] = start
  BY <1>8, <1>b
<1>10. ASSUME NEW n \in Nat PROVE f[n + 1] = Step(n + 1, f[n])
  <2>1. n + 1 \in Nat /\ n + 1 # 0 /\ (n + 1) - 1 = n
    OBVIOUS
  <2>2. Body(n + 1, f) = Step(n + 1, f[n])
    BY <1>b, <2>1
  <2> QED BY <1>8, <2>1, <2>2
<1> QED BY <1>f, <1>g, <1>s, <1>9, <1>10

\* The recursive definition of UpTo, depth by depth.
LEMMA UpToRule ==
    ASSUME NEW plain
    PROVE  /\ UpTo(plain)[0] = plain
           /\ \A n \in Nat : UpTo(plain)[n + 1] = plain \cup [type : {"array"}, items : Seq(UpTo(plain)[n])]
<1> DEFINE start == plain
           Step(n, x) == plain \cup [type : {"array"}, items : Seq(x)]
           Body(n, g) == IF n = 0 THEN plain ELSE plain \cup [type : {"array"}, items : Seq(g[n - 1])]
           f == CHOOSE g : g = [n \in Nat |-> Body(n, g)]
           Part(g, n) == g = [i \in 0 .. n |-> IF i = 0 THEN start ELSE Step(i, g[i - 1])]
           Has == {n \in Nat : \E g : Part(g, n)}
<1>f. UpTo(plain) = f
  BY DEF UpTo
<1>g. \A n, x : Step(n, x) = plain \cup [type : {"array"}, items : Seq(x)]
  OBVIOUS
<1>s. start = plain
  OBVIOUS
<1>b. \A n \in Nat : \A g : Body(n, g) = IF n = 0 THEN start ELSE Step(n, g[n - 1])
  OBVIOUS
<1> HIDE DEF Step, start, Body
<1>1. 0 \in Has
  <2> DEFINE g == [i \in 0 .. 0 |-> start]
  <2>1. Part(g, 0)
    OBVIOUS
  <2> QED BY <2>1
<1>2. ASSUME NEW n \in Nat, n \in Has PROVE n + 1 \in Has
  <2>1. PICK g : Part(g, n)
    BY <1>2
  <2> DEFINE next == Step(n + 1, g[n])
             h == [i \in 0 .. n + 1 |-> IF i = n + 1 THEN next ELSE g[i]]
  <2>2. ASSUME NEW i \in 0 .. n + 1 PROVE h[i] = IF i = 0 THEN start ELSE Step(i, h[i - 1])
    <3>1. CASE i = n + 1
      <4>1. i # 0 /\ i - 1 = n /\ n \in 0 .. n + 1 /\ n # n + 1
        BY <3>1
      <4>2. h[i] = next /\ h[i - 1] = g[n]
        BY <3>1, <4>1
      <4> QED BY <3>1, <4>1, <4>2
    <3>2. CASE i # n + 1
      <4>1. i \in 0 .. n /\ h[i] = g[i] /\ (i # 0 => h[i - 1] = g[i - 1])
        BY <3>2
      <4> QED BY <2>1, <4>1
    <3> QED BY <3>1, <3>2
  <2> HIDE DEF next
  <2>3. Part(h, n + 1)
    BY <2>2
  <2> HIDE DEF h
  <2> QED BY <2>3
<1> HIDE DEF Has
<1>3. Nat \subseteq Has
  BY <1>1, <1>2, NatSetInduction
<1> DEFINE part(n) == CHOOSE g : Part(g, n)
           h == [n \in Nat |-> part(n)[n]]
<1>4. ASSUME NEW n \in Nat PROVE Part(part(n), n)
  BY <1>3 DEF Has
<1> HIDE DEF part
<1>5. ASSUME NEW n \in Nat PROVE part(n + 1)[n] = part(n)[n]
  <2> DEFINE Same == {i \in Nat : i <= n => part(n + 1)[i] = part(n)[i]}
  <2>1. Part(part(n), n) /\ Part(part(n + 1), n + 1)
    BY <1>4
  <2>2. 0 \in Same
    <3>1. 0 \in 0 .. n /\ 0 \in 0 .. n + 1
      OBVIOUS
    <3> QED BY <2>1, <3>1
  <2>3. ASSUME NEW i \in Nat, i \in Same PROVE i + 1 \in Same
    <3> SUFFICES ASSUME i + 1 <= n PROVE part(n + 1)[i + 1] = part(n)[i + 1]
      OBVIOUS
    <3>1. i + 1 \in 0 .. n /\ i + 1 \in 0 .. n + 1 /\ i + 1 # 0 /\ (i + 1) - 1 = i
      OBVIOUS
    <3>2. part(n + 1)[i] = part(n)[i]
      BY <2>3
    <3>3. /\ part(n + 1)[i + 1] = Step(i + 1, part(n + 1)[i])
          /\ part(n)[i + 1] = Step(i + 1, part(n)[i])
      BY <2>1, <3>1
    <3> QED BY <3>2, <3>3
  <2> HIDE DEF Same
  <2>4. n \in Same
    BY <2>2, <2>3, NatSetInduction
  <2> QED BY <2>4 DEF Same
<1>6. ASSUME NEW n \in Nat PROVE h[n] = Body(n, h)
  <2>1. n \in 0 .. n
    OBVIOUS
  <2>2. h[n] = IF n = 0 THEN start ELSE Step(n, part(n)[n - 1])
    BY <1>4, <2>1
  <2>3. ASSUME n # 0 PROVE part(n)[n - 1] = h[n - 1]
    <3>1. n - 1 \in Nat /\ (n - 1) + 1 = n
      BY <2>3
    <3>2. part((n - 1) + 1)[n - 1] = part(n - 1)[n - 1]
      BY <1>5, <3>1
    <3> QED BY <3>1, <3>2
  <2>4. Body(n, h) = IF n = 0 THEN start ELSE Step(n, h[n - 1])
    BY <1>b
  <2> QED BY <2>2, <2>3, <2>4
<1>7. h = [n \in Nat |-> Body(n, h)]
  BY <1>6
<1> HIDE DEF h
<1>8. f = [n \in Nat |-> Body(n, f)]
  BY <1>7
<1> HIDE DEF f
<1>9. f[0] = start
  BY <1>8, <1>b
<1>10. ASSUME NEW n \in Nat PROVE f[n + 1] = Step(n + 1, f[n])
  <2>1. n + 1 \in Nat /\ n + 1 # 0 /\ (n + 1) - 1 = n
    OBVIOUS
  <2>2. Body(n + 1, f) = Step(n + 1, f[n])
    BY <1>b, <2>1
  <2> QED BY <1>8, <2>1, <2>2
<1> QED BY <1>f, <1>g, <1>s, <1>9, <1>10

\* The recursive definition of GenerateUpTo, depth by depth.
LEMMA GenerateRule ==
    /\ GenerateUpTo[0] = [value \in UpTo(PlainValues)[0] |-> GenerateBy(<<>>, value)]
    /\ \A n \in Nat : GenerateUpTo[n + 1] =
          [value \in UpTo(PlainValues)[n + 1] |-> GenerateBy(GenerateUpTo[n], value)]
<1> DEFINE start == [value \in UpTo(PlainValues)[0] |-> GenerateBy(<<>>, value)]
           Step(n, x) == [value \in UpTo(PlainValues)[n] |-> GenerateBy(x, value)]
           Body(n, g) == [value \in UpTo(PlainValues)[n] |-> GenerateBy(IF n = 0 THEN <<>> ELSE g[n - 1], value)]
           f == CHOOSE g : g = [n \in Nat |-> Body(n, g)]
           Part(g, n) == g = [i \in 0 .. n |-> IF i = 0 THEN start ELSE Step(i, g[i - 1])]
           Has == {n \in Nat : \E g : Part(g, n)}
<1>f. GenerateUpTo = f
  BY DEF GenerateUpTo
<1>g. \A n, x : Step(n, x) = [value \in UpTo(PlainValues)[n] |-> GenerateBy(x, value)]
  OBVIOUS
<1>s. start = [value \in UpTo(PlainValues)[0] |-> GenerateBy(<<>>, value)]
  OBVIOUS
<1>b. \A n \in Nat : \A g : Body(n, g) = IF n = 0 THEN start ELSE Step(n, g[n - 1])
  OBVIOUS
<1> HIDE DEF Step, start, Body
<1>1. 0 \in Has
  <2> DEFINE g == [i \in 0 .. 0 |-> start]
  <2>1. Part(g, 0)
    OBVIOUS
  <2> QED BY <2>1
<1>2. ASSUME NEW n \in Nat, n \in Has PROVE n + 1 \in Has
  <2>1. PICK g : Part(g, n)
    BY <1>2
  <2> DEFINE next == Step(n + 1, g[n])
             h == [i \in 0 .. n + 1 |-> IF i = n + 1 THEN next ELSE g[i]]
  <2>2. ASSUME NEW i \in 0 .. n + 1 PROVE h[i] = IF i = 0 THEN start ELSE Step(i, h[i - 1])
    <3>1. CASE i = n + 1
      <4>1. i # 0 /\ i - 1 = n /\ n \in 0 .. n + 1 /\ n # n + 1
        BY <3>1
      <4>2. h[i] = next /\ h[i - 1] = g[n]
        BY <3>1, <4>1
      <4> QED BY <3>1, <4>1, <4>2
    <3>2. CASE i # n + 1
      <4>1. i \in 0 .. n /\ h[i] = g[i] /\ (i # 0 => h[i - 1] = g[i - 1])
        BY <3>2
      <4> QED BY <2>1, <4>1
    <3> QED BY <3>1, <3>2
  <2> HIDE DEF next
  <2>3. Part(h, n + 1)
    BY <2>2
  <2> HIDE DEF h
  <2> QED BY <2>3
<1> HIDE DEF Has
<1>3. Nat \subseteq Has
  BY <1>1, <1>2, NatSetInduction
<1> DEFINE part(n) == CHOOSE g : Part(g, n)
           h == [n \in Nat |-> part(n)[n]]
<1>4. ASSUME NEW n \in Nat PROVE Part(part(n), n)
  BY <1>3 DEF Has
<1> HIDE DEF part
<1>5. ASSUME NEW n \in Nat PROVE part(n + 1)[n] = part(n)[n]
  <2> DEFINE Same == {i \in Nat : i <= n => part(n + 1)[i] = part(n)[i]}
  <2>1. Part(part(n), n) /\ Part(part(n + 1), n + 1)
    BY <1>4
  <2>2. 0 \in Same
    <3>1. 0 \in 0 .. n /\ 0 \in 0 .. n + 1
      OBVIOUS
    <3> QED BY <2>1, <3>1
  <2>3. ASSUME NEW i \in Nat, i \in Same PROVE i + 1 \in Same
    <3> SUFFICES ASSUME i + 1 <= n PROVE part(n + 1)[i + 1] = part(n)[i + 1]
      OBVIOUS
    <3>1. i + 1 \in 0 .. n /\ i + 1 \in 0 .. n + 1 /\ i + 1 # 0 /\ (i + 1) - 1 = i
      OBVIOUS
    <3>2. part(n + 1)[i] = part(n)[i]
      BY <2>3
    <3>3. /\ part(n + 1)[i + 1] = Step(i + 1, part(n + 1)[i])
          /\ part(n)[i + 1] = Step(i + 1, part(n)[i])
      BY <2>1, <3>1
    <3> QED BY <3>2, <3>3
  <2> HIDE DEF Same
  <2>4. n \in Same
    BY <2>2, <2>3, NatSetInduction
  <2> QED BY <2>4 DEF Same
<1>6. ASSUME NEW n \in Nat PROVE h[n] = Body(n, h)
  <2>1. n \in 0 .. n
    OBVIOUS
  <2>2. h[n] = IF n = 0 THEN start ELSE Step(n, part(n)[n - 1])
    BY <1>4, <2>1
  <2>3. ASSUME n # 0 PROVE part(n)[n - 1] = h[n - 1]
    <3>1. n - 1 \in Nat /\ (n - 1) + 1 = n
      BY <2>3
    <3>2. part((n - 1) + 1)[n - 1] = part(n - 1)[n - 1]
      BY <1>5, <3>1
    <3> QED BY <3>1, <3>2
  <2>4. Body(n, h) = IF n = 0 THEN start ELSE Step(n, h[n - 1])
    BY <1>b
  <2> QED BY <2>2, <2>3, <2>4
<1>7. h = [n \in Nat |-> Body(n, h)]
  BY <1>6
<1> HIDE DEF h
<1>8. f = [n \in Nat |-> Body(n, f)]
  BY <1>7
<1> HIDE DEF f
<1>9. f[0] = start
  BY <1>8, <1>b
<1>10. ASSUME NEW n \in Nat PROVE f[n + 1] = Step(n + 1, f[n])
  <2>1. n + 1 \in Nat /\ n + 1 # 0 /\ (n + 1) - 1 = n
    OBVIOUS
  <2>2. Body(n + 1, f) = Step(n + 1, f[n])
    BY <1>b, <2>1
  <2> QED BY <1>8, <2>1, <2>2
<1> QED BY <1>f, <1>g, <1>s, <1>9, <1>10

\* Parts one after the other, as a function of how many.
LEMMA JoinedRule ==
    ASSUME NEW parts
    PROVE  /\ Joined(parts)[0] = <<>>
           /\ \A n \in Nat : Joined(parts)[n + 1] = Joined(parts)[n] \o parts[n + 1]
<1> DEFINE start == <<>>
           Step(n, x) == x \o parts[n]
           Body(n, g) == IF n = 0 THEN <<>> ELSE g[n - 1] \o parts[n]
           f == CHOOSE g : g = [n \in Nat |-> Body(n, g)]
           Part(g, n) == g = [i \in 0 .. n |-> IF i = 0 THEN start ELSE Step(i, g[i - 1])]
           Has == {n \in Nat : \E g : Part(g, n)}
<1>f. Joined(parts) = f
  BY DEF Joined
<1>g. \A n, x : Step(n, x) = x \o parts[n]
  OBVIOUS
<1>s. start = <<>>
  OBVIOUS
<1>b. \A n \in Nat : \A g : Body(n, g) = IF n = 0 THEN start ELSE Step(n, g[n - 1])
  OBVIOUS
<1> HIDE DEF Step, start, Body
<1>1. 0 \in Has
  <2> DEFINE g == [i \in 0 .. 0 |-> start]
  <2>1. Part(g, 0)
    OBVIOUS
  <2> QED BY <2>1
<1>2. ASSUME NEW n \in Nat, n \in Has PROVE n + 1 \in Has
  <2>1. PICK g : Part(g, n)
    BY <1>2
  <2> DEFINE next == Step(n + 1, g[n])
             h == [i \in 0 .. n + 1 |-> IF i = n + 1 THEN next ELSE g[i]]
  <2>2. ASSUME NEW i \in 0 .. n + 1 PROVE h[i] = IF i = 0 THEN start ELSE Step(i, h[i - 1])
    <3>1. CASE i = n + 1
      <4>1. i # 0 /\ i - 1 = n /\ n \in 0 .. n + 1 /\ n # n + 1
        BY <3>1
      <4>2. h[i] = next /\ h[i - 1] = g[n]
        BY <3>1, <4>1
      <4> QED BY <3>1, <4>1, <4>2
    <3>2. CASE i # n + 1
      <4>1. i \in 0 .. n /\ h[i] = g[i] /\ (i # 0 => h[i - 1] = g[i - 1])
        BY <3>2
      <4> QED BY <2>1, <4>1
    <3> QED BY <3>1, <3>2
  <2> HIDE DEF next
  <2>3. Part(h, n + 1)
    BY <2>2
  <2> HIDE DEF h
  <2> QED BY <2>3
<1> HIDE DEF Has
<1>3. Nat \subseteq Has
  BY <1>1, <1>2, NatSetInduction
<1> DEFINE part(n) == CHOOSE g : Part(g, n)
           h == [n \in Nat |-> part(n)[n]]
<1>4. ASSUME NEW n \in Nat PROVE Part(part(n), n)
  BY <1>3 DEF Has
<1> HIDE DEF part
<1>5. ASSUME NEW n \in Nat PROVE part(n + 1)[n] = part(n)[n]
  <2> DEFINE Same == {i \in Nat : i <= n => part(n + 1)[i] = part(n)[i]}
  <2>1. Part(part(n), n) /\ Part(part(n + 1), n + 1)
    BY <1>4
  <2>2. 0 \in Same
    <3>1. 0 \in 0 .. n /\ 0 \in 0 .. n + 1
      OBVIOUS
    <3> QED BY <2>1, <3>1
  <2>3. ASSUME NEW i \in Nat, i \in Same PROVE i + 1 \in Same
    <3> SUFFICES ASSUME i + 1 <= n PROVE part(n + 1)[i + 1] = part(n)[i + 1]
      OBVIOUS
    <3>1. i + 1 \in 0 .. n /\ i + 1 \in 0 .. n + 1 /\ i + 1 # 0 /\ (i + 1) - 1 = i
      OBVIOUS
    <3>2. part(n + 1)[i] = part(n)[i]
      BY <2>3
    <3>3. /\ part(n + 1)[i + 1] = Step(i + 1, part(n + 1)[i])
          /\ part(n)[i + 1] = Step(i + 1, part(n)[i])
      BY <2>1, <3>1
    <3> QED BY <3>2, <3>3
  <2> HIDE DEF Same
  <2>4. n \in Same
    BY <2>2, <2>3, NatSetInduction
  <2> QED BY <2>4 DEF Same
<1>6. ASSUME NEW n \in Nat PROVE h[n] = Body(n, h)
  <2>1. n \in 0 .. n
    OBVIOUS
  <2>2. h[n] = IF n = 0 THEN start ELSE Step(n, part(n)[n - 1])
    BY <1>4, <2>1
  <2>3. ASSUME n # 0 PROVE part(n)[n - 1] = h[n - 1]
    <3>1. n - 1 \in Nat /\ (n - 1) + 1 = n
      BY <2>3
    <3>2. part((n - 1) + 1)[n - 1] = part(n - 1)[n - 1]
      BY <1>5, <3>1
    <3> QED BY <3>1, <3>2
  <2>4. Body(n, h) = IF n = 0 THEN start ELSE Step(n, h[n - 1])
    BY <1>b
  <2> QED BY <2>2, <2>3, <2>4
<1>7. h = [n \in Nat |-> Body(n, h)]
  BY <1>6
<1> HIDE DEF h
<1>8. f = [n \in Nat |-> Body(n, f)]
  BY <1>7
<1> HIDE DEF f
<1>9. f[0] = start
  BY <1>8, <1>b
<1>10. ASSUME NEW n \in Nat PROVE f[n + 1] = Step(n + 1, f[n])
  <2>1. n + 1 \in Nat /\ n + 1 # 0 /\ (n + 1) - 1 = n
    OBVIOUS
  <2>2. Body(n + 1, f) = Step(n + 1, f[n])
    BY <1>b, <2>1
  <2> QED BY <1>8, <2>1, <2>2
<1> QED BY <1>f, <1>g, <1>s, <1>9, <1>10

\* The ten digits are characters, each stands for its number, and none ends a line.
LEMMA TenDigits ==
    ASSUME NEW j \in 0 .. 9, NEW c, c = DigitCharacters[j + 1]
    PROVE  /\ c \in Characters /\ IsDigit(c) /\ Digit(c) = j
           /\ c # "-" /\ c # CR /\ c # LF
<1>1. j + 1 \in DOMAIN DigitCharacters
  BY DEF DigitCharacters
<1>2. c \in Characters /\ IsDigit(c)
  BY <1>1, GeneratorAssumption DEF IsDigit
<1>3. ASSUME NEW i \in 0 .. 9, DigitCharacters[i + 1] = c PROVE i = j
  BY <1>3 DEF DigitCharacters
<1>4. Digit(c) = j
  BY <1>3 DEF Digit
<1>5. c # "-" /\ c # CR /\ c # LF
  BY DEF DigitCharacters, CR, LF
<1> QED BY <1>2, <1>4, <1>5

\* A digit is none of the characters that end a line or begin a negative number.
LEMMA DigitIsPlain ==
    ASSUME NEW c, IsDigit(c)
    PROVE  c # "-" /\ c # CR /\ c # LF
<1>1. PICK i \in DOMAIN DigitCharacters : DigitCharacters[i] = c
  BY DEF IsDigit
<1>2. i - 1 \in 0 .. 9 /\ (i - 1) + 1 = i
  BY DEF DigitCharacters
<1> QED BY <1>1, <1>2, TenDigits

\* What is divided by ten, and what remains.
LEMMA Tens ==
    ASSUME NEW n \in Nat
    PROVE  /\ n % 10 \in 0 .. 9 /\ n \div 10 \in Nat
           /\ n = 10 * (n \div 10) + (n % 10)
           /\ n >= 10 => n \div 10 < n
           /\ n < 10 => n % 10 = n
OBVIOUS

\* A text with one more character.
HasOneMore(u, t, c) ==
    /\ u \in Input /\ Len(u) = Len(t) + 1 /\ Len(t) \in Nat
    /\ u[Len(t) + 1] = c
    /\ \A i \in 1 .. Len(t) : u[i] = t[i]
    /\ NumberOf(u)[Len(t) + 1] = 10 * NumberOf(t)[Len(t)] + Digit(c)

LEMMA OneMore == \A t \in Input, c \in Characters : HasOneMore(t \o <<c>>, t, c)
<1> SUFFICES ASSUME NEW t \in Input, NEW c \in Characters, NEW u, u = t \o <<c>>
             PROVE  HasOneMore(u, t, c)
  OBVIOUS
<1>1. /\ u \in Input /\ Len(u) = Len(t) + 1 /\ Len(t) \in Nat
      /\ u[Len(t) + 1] = c
      /\ \A i \in 1 .. Len(t) : u[i] = t[i]
  BY DEF Input
<1> DEFINE Same == {n \in Nat : n <= Len(t) => NumberOf(u)[n] = NumberOf(t)[n]}
<1>2. 0 \in Same
  BY NumberRule
<1>3. ASSUME NEW n \in Nat, n \in Same PROVE n + 1 \in Same
  <2> SUFFICES ASSUME n + 1 <= Len(t) PROVE NumberOf(u)[n + 1] = NumberOf(t)[n + 1]
    OBVIOUS
  <2>1. NumberOf(u)[n] = NumberOf(t)[n] /\ u[n + 1] = t[n + 1]
    BY <1>1, <1>3
  <2>2. NumberOf(u)[n + 1] = 10 * NumberOf(u)[n] + Digit(u[n + 1])
    BY NumberRule
  <2>3. NumberOf(t)[n + 1] = 10 * NumberOf(t)[n] + Digit(t[n + 1])
    BY NumberRule
  <2> QED BY <2>1, <2>2, <2>3
<1> HIDE DEF Same
<1>4. Len(t) \in Same
  BY <1>1, <1>2, <1>3, NatSetInduction
<1>5. NumberOf(u)[Len(t)] = NumberOf(t)[Len(t)]
  BY <1>1, <1>4 DEF Same
<1>6. NumberOf(u)[Len(t) + 1] = 10 * NumberOf(u)[Len(t)] + Digit(u[Len(t) + 1])
  BY <1>1, NumberRule
<1> QED BY <1>1, <1>5, <1>6 DEF HasOneMore

\* A text of digits that are the number n.
IsNumber(t, n) ==
    /\ t \in Input /\ t # <<>> /\ \A i \in 1 .. Len(t) : IsDigit(t[i])
    /\ NumberOf(t)[Len(t)] = n

\* The digits of a number are it.
LEMMA DigitsAreNumber ==
    ASSUME NEW n \in Nat
    PROVE  IsNumber(DigitsUpTo[n][n], n)
<1> DEFINE Good == {k \in Nat : \A m \in Nat : m <= k => IsNumber(DigitsUpTo[k][m], m)}
<1>1. ASSUME NEW m \in Nat, m < 10, NEW t, t = <<>> \o LastDigit(m) PROVE IsNumber(t, m)
  <2>1. m \in 0 .. 9 /\ m % 10 = m
    BY <1>1, Tens
  <2>2. PICK c : c = DigitCharacters[m + 1]
    OBVIOUS
  <2>3. c \in Characters /\ IsDigit(c) /\ Digit(c) = m
    BY <2>1, <2>2, TenDigits
  <2>4. <<>> \in Input /\ Len(<<>>) = 0 /\ t = <<>> \o <<c>>
    BY <1>1, <2>1, <2>2 DEF Input, LastDigit
  <2>5. /\ t \in Input /\ Len(t) = 1 /\ t[1] = c
        /\ NumberOf(t)[1] = 10 * NumberOf(<<>>)[0] + Digit(c)
    <3>1. HasOneMore(<<>> \o <<c>>, <<>>, c)
      BY <2>3, <2>4, OneMore
    <3> QED BY <2>4, <3>1 DEF HasOneMore
  <2>6. NumberOf(t)[1] = m
    BY <2>3, <2>5, NumberRule, SMTT(30)
  <2> QED BY <2>3, <2>5, <2>6, SMTT(30) DEF IsNumber
<1>2. 0 \in Good
  <2> SUFFICES ASSUME NEW m \in Nat, m <= 0 PROVE IsNumber(DigitsUpTo[0][m], m)
    OBVIOUS
  <2>1. DigitsUpTo[0][m] = <<>> \o LastDigit(m)
    BY DigitsRule
  <2> QED BY <1>1, <2>1
<1>3. ASSUME NEW k \in Nat, k \in Good PROVE k + 1 \in Good
  <2> SUFFICES ASSUME NEW m \in Nat, m <= k + 1 PROVE IsNumber(DigitsUpTo[k + 1][m], m)
    OBVIOUS
  <2>1. DigitsUpTo[k + 1][m] = (IF m < 10 THEN <<>> ELSE DigitsUpTo[k][m \div 10]) \o LastDigit(m)
    BY DigitsRule
  <2>2. CASE m < 10
    BY <1>1, <2>1, <2>2
  <2>3. CASE ~(m < 10)
    <3>1. PICK d, j : d = m \div 10 /\ j = m % 10
      OBVIOUS
    <3>2. j \in 0 .. 9 /\ d \in Nat /\ m = 10 * d + j /\ d <= k
      BY <2>3, <3>1, Tens
    <3>3. PICK c, t, u : c = DigitCharacters[j + 1] /\ t = DigitsUpTo[k][d] /\ u = DigitsUpTo[k + 1][m]
      OBVIOUS
    <3>4. c \in Characters /\ IsDigit(c) /\ Digit(c) = j
      BY <3>2, <3>3, TenDigits
    <3>5. IsNumber(t, d)
      BY <1>3, <3>2, <3>3
    <3>6. u = t \o <<c>>
      BY <2>1, <2>3, <3>1, <3>3 DEF LastDigit
    <3>7. t \in Input /\ NumberOf(t)[Len(t)] = d /\ \A i \in 1 .. Len(t) : IsDigit(t[i])
      BY <3>5 DEF IsNumber
    <3>8. /\ u \in Input /\ Len(u) = Len(t) + 1 /\ Len(t) \in Nat
          /\ u[Len(t) + 1] = c
          /\ \A i \in 1 .. Len(t) : u[i] = t[i]
          /\ NumberOf(u)[Len(t) + 1] = 10 * NumberOf(t)[Len(t)] + Digit(c)
      <4>1. HasOneMore(t \o <<c>>, t, c)
        BY <3>4, <3>7, OneMore
      <4> QED BY <3>6, <4>1 DEF HasOneMore
    <3>9. NumberOf(u)[Len(u)] = m
      BY <3>2, <3>4, <3>7, <3>8
    <3>10. \A i \in 1 .. Len(u) : IsDigit(u[i])
      BY <3>4, <3>7, <3>8
    <3>11. u # <<>>
      BY <3>8
    <3> QED BY <3>3, <3>8, <3>9, <3>10, <3>11 DEF IsNumber
  <2> QED BY <2>2, <2>3
<1> HIDE DEF Good
<1>4. n \in Good
  BY <1>2, <1>3, NatSetInduction
<1> QED BY <1>4 DEF Good

\* Such a text is read as its number.
LEMMA NumberIsRead ==
    ASSUME NEW t, NEW n \in Nat, IsNumber(t, n)
    PROVE  Unsigned(t) = n
<1>1. /\ t \in Input /\ Len(t) \in Nat /\ Len(t) # 0
      /\ \A i \in 1 .. Len(t) : IsDigit(t[i])
      /\ NumberOf(t)[Len(t)] = n
  BY DEF IsNumber, Input
<1>2. PICK k : k = LeadingDigits(t)
  OBVIOUS
<1>3. k \in 0 .. Len(t) /\ (k < Len(t) => ~IsDigit(t[k + 1]))
  <2> DEFINE IsCount(m) == /\ \A i \in 1 .. m : IsDigit(t[i])
                           /\ m < Len(t) => ~IsDigit(t[m + 1])
  <2>1. \E m \in 0 .. Len(t) : IsCount(m)
    <3>1. Len(t) \in 0 .. Len(t) /\ IsCount(Len(t))
      BY <1>1
    <3> QED BY <3>1
  <2>2. k = CHOOSE m \in 0 .. Len(t) : IsCount(m)
    BY <1>2 DEF LeadingDigits
  <2>3. k \in 0 .. Len(t) /\ IsCount(k)
    BY <2>1, <2>2
  <2> QED BY <2>3
<1>4. k = Len(t)
  BY <1>1, <1>3
<1> QED BY <1>1, <1>2, <1>4 DEF Unsigned

\* What is written of an integer is read as it.
LEMMA IntegerIsRead ==
    ASSUME NEW n \in Int, NEW t, t = DigitsOf(n)
    PROVE  /\ t \in Input /\ t # <<>> /\ \A i \in 1 .. Len(t) : t[i] # CR /\ t[i] # LF
           /\ NumberIn(t) = Integer(n)
<1>1. CASE n >= 0
  <2>1. n \in Nat /\ t = DigitsUpTo[n][n]
    BY <1>1 DEF DigitsOf
  <2>2. IsNumber(t, n)
    BY <2>1, DigitsAreNumber
  <2>3. Unsigned(t) = n
    BY <2>1, <2>2, NumberIsRead
  <2>4. /\ t \in Input /\ t # <<>> /\ Len(t) \in Nat /\ Len(t) # 0
        /\ \A i \in 1 .. Len(t) : IsDigit(t[i])
    BY <2>2 DEF IsNumber, Input
  <2>5. \A i \in 1 .. Len(t) : t[i] # CR /\ t[i] # LF /\ t[i] # "-"
    BY <2>4, DigitIsPlain
  <2>6. t[1] # "-"
    BY <2>4, <2>5
  <2>7. NumberIn(t) = Integer(n)
    BY <2>1, <2>3, <2>6 DEF NumberIn
  <2> QED BY <2>4, <2>5, <2>7
<1>2. CASE n < 0
  <2>1. PICK m, u : m = -n /\ u = DigitsUpTo[m][m]
    OBVIOUS
  <2>2. m \in Nat /\ m # 0 /\ -m = n /\ m # -1 /\ t = <<"-">> \o u
    <3>1. m \in Nat /\ m # 0 /\ -m = n /\ m # -1
      BY <1>2, <2>1
    <3>2. t = <<"-">> \o DigitsUpTo[-n][-n]
      BY <1>2, Zenon DEF DigitsOf
    <3> QED BY <2>1, <3>1, <3>2
  <2>3. IsNumber(u, m)
    BY <2>1, <2>2, DigitsAreNumber
  <2>4. Unsigned(u) = m
    BY <2>2, <2>3, NumberIsRead
  <2>5. u \in Input /\ Len(u) \in Nat /\ \A i \in 1 .. Len(u) : IsDigit(u[i])
    BY <2>3 DEF IsNumber, Input
  <2>6. /\ t \in Input /\ Len(t) = Len(u) + 1 /\ t[1] = "-" /\ \A i \in 1 .. Len(u) : t[i + 1] = u[i]
    <3>1. "-" \in Characters
      BY GeneratorAssumption
    <3>2. <<"-">> \in Seq(Characters) /\ Len(<<"-">>) = 1 /\ <<"-">>[1] = "-"
      BY <3>1
    <3>3. u \in Seq(Characters)
      BY <2>5 DEF Input
    <3>4. /\ t \in Seq(Characters) /\ Len(t) = 1 + Len(u)
          /\ \A i \in 1 .. 1 + Len(u) : t[i] = IF i <= 1 THEN <<"-">>[i] ELSE u[i - 1]
      BY <2>2, <3>2, <3>3, ConcatProperties
    <3> QED BY <2>5, <3>2, <3>4 DEF Input
  <2>7. Tail(t) = u
    <3>1. t \in Seq(Characters) /\ t # <<>> /\ u \in Seq(Characters)
      BY <2>5, <2>6 DEF Input
    <3>2. Tail(t) \in Seq(Characters) /\ Len(Tail(t)) = Len(u) /\ \A i \in 1 .. Len(u) : Tail(t)[i] = u[i]
      BY <2>5, <2>6, <3>1
    <3> QED BY <3>1, <3>2, SeqEqual
  <2>8. t # <<>>
    BY <2>5, <2>6
  <2>9. NumberIn(t) = Integer(-m)
    <3>1. Unsigned(Tail(t)) = m
      BY <2>4, <2>7
    <3> QED BY <2>2, <2>6, <2>8, <3>1, Zenon DEF NumberIn
  <2>10. ASSUME NEW i \in 1 .. Len(t) PROVE t[i] # CR /\ t[i] # LF
    <3>1. CASE i = 1
      BY <2>6, <3>1 DEF CR, LF
    <3>2. CASE i # 1
      <4>1. i - 1 \in 1 .. Len(u) /\ (i - 1) + 1 = i
        BY <2>5, <2>6, <3>2
      <4>2. t[i] = u[i - 1] /\ IsDigit(u[i - 1])
        BY <2>5, <2>6, <4>1
      <4> QED BY <4>2, DigitIsPlain
    <3> QED BY <3>1, <3>2
  <2> QED BY <2>2, <2>6, <2>8, <2>9, <2>10
<1> QED BY <1>1, <1>2

\* The bytes t are in s, behind a place.
StandsAt(s, place, t) == place + Len(t) <= Len(s) /\ \A i \in 1 .. Len(t) : s[place + i] = t[i]

\* The bytes of two parts.
LEMMA TwoParts ==
    ASSUME NEW a \in Input, NEW b \in Input, NEW s, s = a \o b
    PROVE  /\ s \in Input /\ Len(s) = Len(a) + Len(b) /\ Len(a) \in Nat /\ Len(b) \in Nat
           /\ StandsAt(s, 0, a) /\ StandsAt(s, Len(a), b) /\ Agree(a, s, Len(a))
<1>1. a \in Seq(Characters) /\ b \in Seq(Characters)
  BY DEF Input
<1>2. /\ s \in Seq(Characters) /\ Len(s) = Len(a) + Len(b)
      /\ \A i \in 1 .. Len(a) + Len(b) : s[i] = IF i <= Len(a) THEN a[i] ELSE b[i - Len(a)]
  BY <1>1, ConcatProperties
<1>3. Len(a) \in Nat /\ Len(b) \in Nat
  BY <1>1
<1>4. ASSUME NEW i \in 1 .. Len(a) PROVE s[i] = a[i] /\ s[0 + i] = a[i]
  BY <1>2, <1>3
<1>5. ASSUME NEW i \in 1 .. Len(b) PROVE s[Len(a) + i] = b[i]
  BY <1>2, <1>3
<1> QED BY <1>2, <1>3, <1>4, <1>5 DEF StandsAt, Agree, Input

\* A line behind a place, and where it ends.
LEMMA LineStands ==
    ASSUME NEW s \in Input, NEW t \in Input, NEW place \in Nat,
           StandsAt(s, place, t), StandsAt(s, place + Len(t), <<CR, LF>>),
           ~\E i \in 2 .. Len(t) : t[i - 1] = CR /\ t[i] = LF
    PROVE  /\ HasLine(s, place + 1) /\ Line(s, place + 1) = t
           /\ Behind(s, place + 1) = place + Len(t) + 2
<1>1. PICK n, first, e : n = Len(t) /\ first = place + 1 /\ e = place + n + 1
  OBVIOUS
<1>2. n \in Nat /\ Len(s) \in Nat /\ first \in Nat \ {0} /\ e \in Nat /\ e + 1 <= Len(s)
      /\ s[e] = CR /\ s[e + 1] = LF /\ \A i \in 1 .. n : s[place + i] = t[i]
  <2>1. n \in Nat /\ Len(s) \in Nat /\ first \in Nat \ {0} /\ e \in Nat
    BY <1>1 DEF Input
  <2>2. Len(<<CR, LF>>) = 2 /\ <<CR, LF>>[1] = CR /\ <<CR, LF>>[2] = LF
    OBVIOUS
  <2>3. place + n + 2 <= Len(s) /\ \A i \in 1 .. 2 : s[place + n + i] = <<CR, LF>>[i]
    BY <1>1, <2>2 DEF StandsAt
  <2>4. s[place + n + 1] = CR /\ s[place + n + 2] = LF
    BY <2>2, <2>3
  <2>5. place + n + 2 = e + 1
    BY <1>1, <2>1
  <2> QED BY <1>1, <2>1, <2>3, <2>4, <2>5 DEF StandsAt
<1>a. n \in Nat /\ first = place + 1 /\ e = place + n + 1 /\ e + 1 <= Len(s) /\ Len(s) \in Nat
  BY <1>1, <1>2
<1>3. e \in LineEnds(s, first)
  BY <1>1, <1>2 DEF LineEnds
<1>4. ASSUME NEW j \in LineEnds(s, first) PROVE e <= j
  <2>1. j \in Nat /\ first <= j /\ s[j] = CR /\ s[j + 1] = LF
    BY <1>2 DEF LineEnds
  <2> SUFFICES ASSUME j < e PROVE FALSE
    BY <1>2, <2>1
  <2>2. PICK i : i = j - place
    OBVIOUS
  <2>3. i \in 1 .. n /\ place + i = j /\ place + (i + 1) = j + 1
    BY <1>a, <2>1, <2>2, SMTT(30)
  <2>4. t[i] = CR
    BY <1>2, <2>1, <2>3
  <2>5. CASE i = n
    <3>1. j + 1 = e
      BY <1>1, <1>2, <2>3, <2>5
    <3> QED BY <1>2, <2>1, <3>1 DEF CR, LF
  <2>6. CASE i # n
    <3>1. i + 1 \in 2 .. n /\ i + 1 \in 1 .. n /\ (i + 1) - 1 = i
      BY <1>2, <2>3, <2>6, SMTT(30)
    <3>2. t[i + 1] = LF
      BY <1>2, <2>1, <2>3, <3>1
    <3> QED BY <1>1, <2>4, <3>1, <3>2
  <2> QED BY <2>5, <2>6
<1>5. HasLine(s, first)
  BY <1>3 DEF HasLine
<1>6. PICK l : l = LineEnd(s, first)
  OBVIOUS
<1>7. l \in Nat /\ l \in LineEnds(s, first) /\ \A j \in LineEnds(s, first) : l <= j
  <2>1. /\ l \in first .. Len(s) - 1 /\ s[l] = CR /\ s[l + 1] = LF
        /\ \A j \in LineEnds(s, first) : l <= j
    BY <1>2, <1>5, <1>6, LineFacts
  <2> QED BY <1>2, <2>1 DEF LineEnds
<1>8. l = e
  BY <1>2, <1>3, <1>4, <1>7
<1>9. SubSeq(s, first, e - 1) = t
  <2>1. PICK u : u = SubSeq(s, first, e - 1)
    OBVIOUS
  <2>2. first \in 1 .. Len(s) + 1 /\ e - 1 \in first - 1 .. Len(s) /\ (e - 1) - first + 1 = n
    <3>1. PICK size : size = Len(s)
      OBVIOUS
    <3>2. n \in Nat /\ first = place + 1 /\ e = first + n /\ e + 1 <= size /\ size \in Nat
      BY <1>a, <3>1
    <3>3. first \in 1 .. size + 1 /\ e - 1 \in first - 1 .. size /\ (e - 1) - first + 1 = n
      BY <3>2
    <3> QED BY <3>1, <3>3
  <2>3. /\ u \in Seq(Characters) /\ Len(u) = n
        /\ \A i \in 1 .. n : u[i] = s[first + i - 1]
    BY <2>1, <2>2, SubSeqProperties DEF Input
  <2>4. ASSUME NEW i \in 1 .. n PROVE u[i] = t[i]
    <3>1. first + i - 1 = place + i
      BY <1>1, <1>2
    <3> QED BY <1>2, <2>3, <3>1
  <2>5. u = t
    BY <1>1, <2>3, <2>4, SeqEqual DEF Input
  <2> QED BY <2>1, <2>5
<1>10. Line(s, first) = t
  BY <1>6, <1>8, <1>9 DEF Line
<1>11. Behind(s, first) = place + Len(t) + 2
  BY <1>1, <1>2, <1>6, <1>8 DEF Behind
<1> QED BY <1>1, <1>5, <1>10, <1>11

\* A text that is in a line up to its end.
InLine(t) == t \in Input /\ ~\E i \in 2 .. Len(t) : t[i - 1] = CR /\ t[i] = LF

\* A character, and a line.
WithHead(c, t) == <<c>> \o t \o <<CR, LF>>

IsHeaded(s, c, t) ==
    /\ s \in Input /\ Len(s) = Len(t) + 3 /\ Len(t) \in Nat /\ s # <<>> /\ s[1] = c
    /\ \A i \in 1 .. Len(t) : s[1 + i] = t[i]
    /\ HasLine(s, 2) /\ Line(s, 2) = t /\ Behind(s, 2) = Len(s)

LEMMA HeadedLine ==
    ASSUME NEW c \in Characters, NEW t, InLine(t)
    PROVE  IsHeaded(WithHead(c, t), c, t)
<1> DEFINE s == WithHead(c, t)
<1>0. t \in Input /\ s = <<c>> \o t \o <<CR, LF>> /\ ~\E i \in 2 .. Len(t) : t[i - 1] = CR /\ t[i] = LF
  BY DEF InLine, WithHead
<1> HIDE DEF s
<1>1. PICK h, a, end : h = <<c>> /\ a = <<c>> \o t /\ end = <<CR, LF>>
  OBVIOUS
<1>2. h \in Input /\ Len(h) = 1 /\ h[1] = c
  BY <1>1 DEF Input
<1>3. CR \in Characters /\ LF \in Characters
  BY GeneratorAssumption
<1>4. end \in Input /\ Len(end) = 2
  BY <1>1, <1>3 DEF Input
<1>5. /\ a \in Input /\ Len(a) = 1 + Len(t) /\ Len(t) \in Nat
      /\ StandsAt(a, 0, h) /\ StandsAt(a, 1, t)
  BY <1>0, <1>1, <1>2, TwoParts
<1>6. s = a \o end
  BY <1>0, <1>1
<1>7. /\ s \in Input /\ Len(s) = Len(a) + 2
      /\ StandsAt(s, Len(a), end) /\ Agree(a, s, Len(a))
  <2>1. /\ s \in Input /\ Len(s) = Len(a) + Len(end)
        /\ StandsAt(s, Len(a), end) /\ Agree(a, s, Len(a))
    BY <1>4, <1>5, <1>6, TwoParts
  <2> QED BY <1>4, <2>1
<1>8. s[1] = c /\ \A i \in 1 .. Len(t) : s[1 + i] = t[i]
  <2>1. a[0 + 1] = h[1] /\ \A i \in 1 .. Len(t) : a[1 + i] = t[i]
    BY <1>2, <1>5 DEF StandsAt
  <2>2. \A i \in 1 .. Len(a) : s[i] = a[i]
    BY <1>7 DEF Agree
  <2>3. \A i \in 1 .. Len(t) : 1 + i \in 1 .. Len(a)
    BY <1>5
  <2>4. 1 \in 1 .. Len(a) /\ 0 + 1 = 1
    BY <1>5
  <2> QED BY <1>2, <2>1, <2>2, <2>3, <2>4
<1>9. StandsAt(s, 1, t)
  BY <1>5, <1>7, <1>8 DEF StandsAt
<1>10. /\ HasLine(s, 1 + 1) /\ Line(s, 1 + 1) = t /\ Behind(s, 1 + 1) = 1 + Len(t) + 2
  <2>1. StandsAt(s, 1 + Len(t), <<CR, LF>>)
    BY <1>1, <1>5, <1>7
  <2>2. 1 \in Nat
    OBVIOUS
  <2> QED BY <1>0, <1>7, <1>9, <2>1, <2>2, LineStands
<1>11. 1 + 1 = 2 /\ 1 + Len(t) + 2 = Len(s) /\ s # <<>>
  BY <1>5, <1>7
<1>12. IsHeaded(s, c, t)
  BY <1>5, <1>7, <1>8, <1>10, <1>11 DEF IsHeaded
<1> QED BY <1>12 DEF s

\* What is written of a value, by its type.
LEMMA GenerateCases ==
    ASSUME NEW g, NEW v
    PROVE  /\ v.type = "bulk" =>
                GenerateBy(g, v) = WithHead("$", DigitsOf(Len(v.text))) \o v.text \o <<CR, LF>>
           /\ v.type = "simple" => GenerateBy(g, v) = WithHead("+", v.text)
           /\ v.type = "error" => GenerateBy(g, v) = WithHead("-", v.text)
           /\ v.type = "integer" => GenerateBy(g, v) = WithHead(":", DigitsOf(v.number))
           /\ v.type = "array" =>
                GenerateBy(g, v) = WithHead("*", DigitsOf(Len(v.items)))
                                   \o FlattenSeq([i \in DOMAIN v.items |-> g[v.items[i]]])
BY DEF GenerateBy, WithHead

\* Wherever these bytes stand, the value is read from them, and they are its bytes.
Reads(g, v) ==
    /\ g \in Input /\ g # <<>> /\ g[1] \in ValueTypes
    /\ g[1] = "*" => Len(g) >= 2 /\ g[2] # "-"
    /\ \A m \in Nat : \A u \in Input :
          Len(u) <= m /\ Agree(g, u, Len(g)) => ElementUpTo[m][u] = Complete(v, Len(g))

\* A line that bytes begin with.
LEMMA HeadIsRead ==
    ASSUME NEW c \in Characters, NEW t, InLine(t), NEW h, h = WithHead(c, t),
           NEW u \in Input, Agree(h, u, Len(h))
    PROVE  /\ h \in Input /\ h # <<>> /\ h[1] = c
           /\ u # <<>> /\ u[1] = c /\ \A i \in 1 .. Len(t) : u[1 + i] = t[i]
           /\ HasLine(u, 2) /\ Line(u, 2) = t /\ Behind(u, 2) = Len(h)
<1>0. IsHeaded(h, c, t)
  BY HeadedLine
<1>1. /\ h \in Input /\ Len(h) = Len(t) + 3 /\ Len(t) \in Nat /\ h # <<>> /\ h[1] = c
      /\ \A i \in 1 .. Len(t) : h[1 + i] = t[i]
      /\ HasLine(h, 2) /\ Line(h, 2) = t /\ Behind(h, 2) = Len(h)
  BY <1>0 DEF IsHeaded
<1>2. Len(h) <= Len(u) /\ \A i \in 1 .. Len(h) : u[i] = h[i]
  BY DEF Agree
<1>3. 1 \in 1 .. Len(h) /\ \A i \in 1 .. Len(t) : 1 + i \in 1 .. Len(h)
  BY <1>1
<1>4. u # <<>>
  BY <1>1, <1>2
<1>5. Len(h) \in Nat /\ Behind(h, 2) <= Len(h) /\ 2 \in Nat \ {0}
  BY <1>1
<1>6. HasLine(u, 2) /\ Behind(u, 2) = Behind(h, 2) /\ Line(u, 2) = Line(h, 2)
  BY <1>1, <1>5, SameLine
<1> QED BY <1>1, <1>2, <1>3, <1>4, <1>6

\* The plain values that are read, by type.
LEMMA ReadableCases ==
    ASSUME NEW v \in ReadablePlain
    PROVE  \/ /\ v.type = "bulk" /\ v = BulkString(v.text) /\ v.text \in Input
              /\ ~\E i \in 2 .. Len(v.text) : v.text[i - 1] = CR /\ v.text[i] = LF
           \/ /\ \/ v.type = "simple" /\ v = SimpleString(v.text)
                 \/ v.type = "error" /\ v = ErrorValue(v.text)
              /\ v.text \in Input /\ \A i \in 1 .. Len(v.text) : v.text[i] \notin {CR, LF}
           \/ v.type = "integer" /\ v.number \in Int /\ v = Integer(v.number)
<1>1. CASE v \in [type : {"bulk"}, text : {text \in Input : ~\E i \in 2 .. Len(text) : text[i - 1] = CR /\ text[i] = LF}]
  BY <1>1 DEF BulkString
<1>2. CASE v \in [type : {"simple", "error"}, text : {text \in Input : ~\E i \in DOMAIN text : text[i] \in {CR, LF}}]
  <2>1. v.type \in {"simple", "error"} /\ v.text \in Input
        /\ ~\E i \in DOMAIN v.text : v.text[i] \in {CR, LF}
    BY <1>2
  <2>2. DOMAIN v.text = 1 .. Len(v.text)
    BY <2>1 DEF Input
  <2>3. v = [type |-> v.type, text |-> v.text]
    BY <1>2
  <2> QED BY <2>1, <2>2, <2>3 DEF SimpleString, ErrorValue
<1>3. CASE v \in [type : {"integer"}, number : Int]
  BY <1>3 DEF Integer
<1> QED BY <1>1, <1>2, <1>3 DEF ReadablePlain, PlainOf

\* A character that stands for a type.
LEMMA TypeCharacters ==
    /\ {"$", "*", ":", "+", "-"} \subseteq Characters /\ CR \in Characters /\ LF \in Characters
    /\ {"$", ":", "+", "-"} \subseteq ValueTypes \ {"*"} /\ "*" \in ValueTypes
BY GeneratorAssumption DEF ValueTypes

\* Simple strings, errors and integers are a line.
LEMMA LinesAreRead ==
    ASSUME NEW v \in ReadablePlain, v.type # "bulk", NEW x, NEW g, g = GenerateBy(x, v)
    PROVE  /\ g \in Input /\ g # <<>> /\ g[1] \in ValueTypes \ {"*"}
           /\ \A u \in Input : \A a : Agree(g, u, Len(g)) => ElementBy(a, u) = Complete(v, Len(g))
<1>1. CASE v.type = "simple"
  <2>1. v = SimpleString(v.text) /\ v.text \in Input /\ \A i \in 1 .. Len(v.text) : v.text[i] \notin {CR, LF}
    BY <1>1, ReadableCases
  <2>2. g = WithHead("+", v.text)
    BY <1>1, GenerateCases
  <2>3. InLine(v.text)
    BY <2>1 DEF InLine
  <2>4. g \in Input /\ g # <<>> /\ g[1] = "+"
    <3>1. "+" \in Characters
      BY TypeCharacters
    <3>2. IsHeaded(g, "+", v.text)
      BY <2>2, <2>3, <3>1, HeadedLine
    <3> QED BY <3>2 DEF IsHeaded
  <2>5. ASSUME NEW u \in Input, NEW a, Agree(g, u, Len(g)) PROVE ElementBy(a, u) = Complete(v, Len(g))
    <3>1. u[1] = "+" /\ HasLine(u, 2) /\ Line(u, 2) = v.text /\ Behind(u, 2) = Len(g)
      BY <2>2, <2>3, <2>5, TypeCharacters, HeadIsRead
    <3>2. ~\E i \in DOMAIN Line(u, 2) : Line(u, 2)[i] \in {CR, LF}
      BY <2>1, <3>1 DEF Input
    <3>3. parse_simple_string(u) = Complete(v, Len(g))
      BY <2>1, <3>1, <3>2 DEF parse_simple_string, parse_text
    <3> QED BY <3>1, <3>3, ElementCases
  <2> QED BY <2>4, <2>5, TypeCharacters
<1>2. CASE v.type = "error"
  <2>1. v = ErrorValue(v.text) /\ v.text \in Input /\ \A i \in 1 .. Len(v.text) : v.text[i] \notin {CR, LF}
    BY <1>2, ReadableCases
  <2>2. g = WithHead("-", v.text)
    BY <1>2, GenerateCases
  <2>3. InLine(v.text)
    BY <2>1 DEF InLine
  <2>4. g \in Input /\ g # <<>> /\ g[1] = "-"
    <3>1. "-" \in Characters
      BY TypeCharacters
    <3>2. IsHeaded(g, "-", v.text)
      BY <2>2, <2>3, <3>1, HeadedLine
    <3> QED BY <3>2 DEF IsHeaded
  <2>5. ASSUME NEW u \in Input, NEW a, Agree(g, u, Len(g)) PROVE ElementBy(a, u) = Complete(v, Len(g))
    <3>1. u[1] = "-" /\ HasLine(u, 2) /\ Line(u, 2) = v.text /\ Behind(u, 2) = Len(g)
      BY <2>2, <2>3, <2>5, TypeCharacters, HeadIsRead
    <3>2. ~\E i \in DOMAIN Line(u, 2) : Line(u, 2)[i] \in {CR, LF}
      BY <2>1, <3>1 DEF Input
    <3>3. parse_error(u) = Complete(v, Len(g))
      BY <2>1, <3>1, <3>2 DEF parse_error, parse_text
    <3> QED BY <3>1, <3>3, ElementCases
  <2> QED BY <2>4, <2>5, TypeCharacters
<1>3. CASE v.type = "integer"
  <2>1. v = Integer(v.number) /\ v.number \in Int
    BY <1>3, ReadableCases
  <2>2. PICK t : t = DigitsOf(v.number)
    OBVIOUS
  <2>3. t \in Input /\ t # <<>> /\ (\A i \in 1 .. Len(t) : t[i] # CR /\ t[i] # LF) /\ NumberIn(t) = v
    BY <2>1, <2>2, IntegerIsRead
  <2>4. g = WithHead(":", t)
    BY <1>3, <2>2, GenerateCases
  <2>5. InLine(t)
    BY <2>3 DEF InLine
  <2>6. g \in Input /\ g # <<>> /\ g[1] = ":"
    <3>1. ":" \in Characters
      BY TypeCharacters
    <3>2. IsHeaded(g, ":", t)
      BY <2>4, <2>5, <3>1, HeadedLine
    <3> QED BY <3>2 DEF IsHeaded
  <2>7. v # Null
    BY <1>3 DEF Null
  <2>8. ASSUME NEW u \in Input, NEW a, Agree(g, u, Len(g)) PROVE ElementBy(a, u) = Complete(v, Len(g))
    <3>1. u[1] = ":" /\ HasLine(u, 2) /\ Line(u, 2) = t /\ Behind(u, 2) = Len(g)
      BY <2>4, <2>5, <2>8, TypeCharacters, HeadIsRead
    <3>2. parse_integer(u) = Complete(v, Len(g))
      BY <2>3, <2>7, <3>1 DEF parse_integer
    <3> QED BY <3>1, <3>2, ElementCases
  <2> QED BY <2>6, <2>8, TypeCharacters
<1> QED BY <1>1, <1>2, <1>3, ReadableCases

\* How many there are, as it is written and read.
LEMMA CountIsRead ==
    ASSUME NEW n \in Nat, NEW t, t = DigitsOf(n)
    PROVE  InLine(t) /\ t \in Input /\ Len(t) \in Nat \ {0} /\ t[1] # "-" /\ Unsigned(t) = n
<1>1. t = DigitsUpTo[n][n]
  <2>1. ~(n < 0)
    OBVIOUS
  <2> QED BY <2>1 DEF DigitsOf
<1>2. IsNumber(t, n)
  BY <1>1, DigitsAreNumber
<1>3. t \in Input /\ t # <<>> /\ \A i \in 1 .. Len(t) : IsDigit(t[i])
  BY <1>2 DEF IsNumber
<1>4. Unsigned(t) = n
  BY <1>2, NumberIsRead
<1>5. Len(t) \in Nat \ {0}
  BY <1>3 DEF Input
<1>6. \A i \in 1 .. Len(t) : t[i] # "-" /\ t[i] # CR /\ t[i] # LF
  BY <1>3, DigitIsPlain
<1>7. InLine(t)
  BY <1>3, <1>5, <1>6 DEF InLine
<1>8. t[1] # "-"
  BY <1>5, <1>6
<1> QED BY <1>3, <1>4, <1>5, <1>7, <1>8

\* Bytes that go on with no minus sign are not null.
LEMMA NotNull ==
    ASSUME NEW u \in Input, u # <<>>, u[1] \in {"$", "*"}, Len(u) >= 2, u[2] # "-"
    PROVE  parse_null(u).state = "invalid"
<1>1. parse_null(u) = check_null_variant(u, NullOf(u[1]))
  BY NullVariant
<1>2. 2 \in DOMAIN u
  BY DEF Input
<1>3. 2 \in DOMAIN NullOf(u[1]) /\ NullOf(u[1])[2] = "-"
  BY NullFacts
<1>4. check_null_variant(u, NullOf(u[1])) = Invalid(0)
  BY <1>2, <1>3 DEF check_null_variant
<1> QED BY <1>1, <1>4, ResultStates

\* What stands in bytes stands in longer ones.
LEMMA StandsLonger ==
    ASSUME NEW a \in Input, NEW u \in Input, Agree(a, u, Len(a)),
           NEW place \in Nat, NEW t \in Input, StandsAt(a, place, t)
    PROVE  StandsAt(u, place, t)
<1>1. Len(a) \in Nat /\ Len(u) \in Nat /\ Len(t) \in Nat
  BY DEF Input
<1>2. place + Len(t) <= Len(a) /\ \A i \in 1 .. Len(t) : a[place + i] = t[i]
  BY DEF StandsAt
<1>3. Len(a) <= Len(u) /\ \A i \in 1 .. Len(a) : u[i] = a[i]
  BY DEF Agree
<1>4. \A i \in 1 .. Len(t) : place + i \in 1 .. Len(a)
  BY <1>1, <1>2
<1> QED BY <1>1, <1>2, <1>3, <1>4 DEF StandsAt

\* Bytes that begin with bytes that begin with others.
LEMMA AgreeLonger ==
    ASSUME NEW a \in Input, NEW b \in Input, NEW u \in Input,
           Agree(a, b, Len(a)), Agree(b, u, Len(b))
    PROVE  Agree(a, u, Len(a))
<1>1. Len(a) \in Nat /\ Len(b) \in Nat /\ Len(u) \in Nat
  BY DEF Input
<1>2. \A i \in 1 .. Len(a) : i \in 1 .. Len(b)
  BY <1>1 DEF Agree
<1> QED BY <1>1, <1>2 DEF Agree

\* A bulk string is a line with a length, and a text of this length.
LEMMA BulkIsRead ==
    ASSUME NEW v \in ReadablePlain, v.type = "bulk", NEW x, NEW g, g = GenerateBy(x, v)
    PROVE  /\ g \in Input /\ g # <<>> /\ g[1] \in ValueTypes \ {"*"}
           /\ \A u \in Input : \A a : Agree(g, u, Len(g)) => ElementBy(a, u) = Complete(v, Len(g))
<1>1. PICK text, n, t, h, b, end :
         text = v.text /\ n = Len(text) /\ t = DigitsOf(n) /\ h = WithHead("$", t)
         /\ b = h \o text /\ end = <<CR, LF>>
  OBVIOUS
<1>2. v = BulkString(text) /\ InLine(text) /\ text \in Input /\ n \in Nat
  <2>1. v = BulkString(text) /\ text \in Input
        /\ ~\E i \in 2 .. Len(text) : text[i - 1] = CR /\ text[i] = LF
    BY <1>1, ReadableCases
  <2> QED BY <1>1, <2>1 DEF InLine, Input
<1>3. InLine(t) /\ t \in Input /\ Len(t) \in Nat \ {0} /\ t[1] # "-" /\ Unsigned(t) = n
  BY <1>1, <1>2, CountIsRead
<1>4. "$" \in Characters /\ end \in Input /\ Len(end) = 2
  BY <1>1, TypeCharacters DEF Input
<1>5. h \in Input /\ h # <<>> /\ h[1] = "$" /\ Len(h) = Len(t) + 3
  <2>1. IsHeaded(h, "$", t)
    BY <1>1, <1>3, <1>4, HeadedLine
  <2> QED BY <2>1 DEF IsHeaded
<1>6. /\ b \in Input /\ Len(b) = Len(h) + Len(text) /\ Len(h) \in Nat
      /\ StandsAt(b, Len(h), text) /\ Agree(h, b, Len(h))
  BY <1>1, <1>2, <1>5, TwoParts
<1>7. g = b \o end
  BY <1>1, GenerateCases
<1>8. /\ g \in Input /\ Len(g) = Len(b) + 2
      /\ StandsAt(g, Len(b), end) /\ Agree(b, g, Len(b))
  <2>1. /\ g \in Input /\ Len(g) = Len(b) + Len(end)
        /\ StandsAt(g, Len(b), end) /\ Agree(b, g, Len(b))
    BY <1>4, <1>6, <1>7, TwoParts
  <2> QED BY <1>4, <2>1
<1>9. ASSUME NEW u \in Input, Agree(g, u, Len(g)), NEW a
      PROVE  u[1] = "$" /\ ElementBy(a, u) = Complete(v, Len(g))
  <2>1. Agree(b, u, Len(b))
    BY <1>6, <1>8, <1>9, AgreeLonger
  <2>2. Agree(h, u, Len(h))
    BY <1>5, <1>6, <2>1, AgreeLonger
  <2>3. /\ u # <<>> /\ u[1] = "$" /\ \A i \in 1 .. Len(t) : u[1 + i] = t[i]
        /\ HasLine(u, 2) /\ Line(u, 2) = t /\ Behind(u, 2) = Len(h)
    BY <1>1, <1>3, <1>4, <2>2, HeadIsRead
  <2>4. StandsAt(u, Len(h), text)
    BY <1>2, <1>6, <2>1, StandsLonger
  <2>5. StandsAt(u, Len(h) + Len(text), <<CR, LF>>)
    <3>1. Len(b) \in Nat
      BY <1>6 DEF Input
    <3>2. StandsAt(u, Len(b), end)
      BY <1>4, <1>8, <1>9, <3>1, StandsLonger
    <3> QED BY <1>1, <1>6, <3>2
  <2>6. /\ HasLine(u, Len(h) + 1) /\ Line(u, Len(h) + 1) = text
        /\ Behind(u, Len(h) + 1) = Len(h) + Len(text) + 2
    <3>1. ~\E i \in 2 .. Len(text) : text[i - 1] = CR /\ text[i] = LF
      BY <1>2 DEF InLine
    <3> QED BY <1>2, <1>6, <2>4, <2>5, <3>1, LineStands
  <2>7. Len(h) + Len(text) + 2 = Len(g)
    BY <1>1, <1>2, <1>6, <1>8
  <2>8. bulk_content(u, n, Len(h)) = Complete(v, Len(g))
    <3>1. n # -1 /\ Len(text) = n
      BY <1>1, <1>2
    <3> QED BY <1>2, <2>6, <2>7, <3>1 DEF bulk_content
  <2>9. parse_bulk_string(u) = Complete(v, Len(g))
    BY <1>3, <2>3, <2>8 DEF parse_bulk_string
  <2>10. parse_null(u).state = "invalid"
    <3>1. 1 \in 1 .. Len(t) /\ 1 + 1 = 2
      BY <1>3
    <3>2. u[2] # "-"
      BY <1>3, <2>3, <3>1
    <3>3. Len(u) >= 2
      BY <1>3, <1>5, <2>2 DEF Agree, Input
    <3> QED BY <2>3, <3>2, <3>3, NotNull
  <2>11. ElementBy(a, u) = UnlessInvalid(parse_null(u), parse_bulk_string(u))
    BY <2>3, ElementCases
  <2> QED BY <2>3, <2>9, <2>10, <2>11 DEF UnlessInvalid
<1>10. g # <<>> /\ g[1] = "$"
  <2>1. Len(g) \in Nat \ {0} /\ Agree(g, g, Len(g))
    <3>1. Len(b) \in Nat
      BY <1>6 DEF Input
    <3>2. Len(g) \in Nat \ {0}
      BY <1>8, <3>1
    <3> QED BY <3>2 DEF Agree
  <2> QED BY <1>8, <1>9, <2>1
<1> QED BY <1>8, <1>9, <1>10, TypeCharacters

\* Every plain value is read.
LEMMA PlainIsRead ==
    ASSUME NEW v \in ReadablePlain, NEW x
    PROVE  Reads(GenerateBy(x, v), v)
<1>1. PICK g : g = GenerateBy(x, v)
  OBVIOUS
<1>2. /\ g \in Input /\ g # <<>> /\ g[1] \in ValueTypes \ {"*"}
      /\ \A u \in Input : \A a : Agree(g, u, Len(g)) => ElementBy(a, u) = Complete(v, Len(g))
  <2>1. CASE v.type = "bulk"
    BY <1>1, <2>1, BulkIsRead
  <2>2. CASE v.type # "bulk"
    BY <1>1, <2>2, LinesAreRead
  <2> QED BY <2>1, <2>2
<1>3. ASSUME NEW m \in Nat, NEW u \in Input, Agree(g, u, Len(g))
      PROVE  ElementUpTo[m][u] = Complete(v, Len(g))
  <2>1. CASE m = 0
    BY <1>2, <1>3, <2>1, ElementRule
  <2>2. CASE m # 0
    <3>1. m - 1 \in Nat /\ (m - 1) + 1 = m
      BY <2>2
    <3>2. ElementUpTo[(m - 1) + 1] = [s \in Input |-> ElementBy(parse_array(ElementUpTo[m - 1], s), s)]
      BY <3>1, ElementRule
    <3> QED BY <1>2, <1>3, <3>1, <3>2
  <2> QED BY <2>1, <2>2
<1> QED BY <1>1, <1>2, <1>3 DEF Reads

\* The library's definition of FlattenSeq is the parts one after the other.
LEMMA FlattenIsJoined ==
    ASSUME NEW parts \in Seq(Input)
    PROVE  FlattenSeq(parts) = Joined(parts)[Len(parts)]
<1>0. Len(parts) \in Nat /\ \A i \in 1 .. Len(parts) : parts[i] \in Seq(Characters)
  BY DEF Input
<1>1. CASE Len(parts) = 0
  <2>1. parts = <<>>
    BY <1>1
  <2>2. FlattenSeq(parts) = parts
    BY <1>1 DEF FlattenSeq
  <2> QED BY <1>1, <2>1, <2>2, JoinedRule
<1>2. CASE Len(parts) # 0
  <2> DEFINE L == Len(parts)
             Body(i, g) == IF i = 1 THEN parts[i] ELSE g[i - 1] \o parts[i]
             f == CHOOSE g : g = [i \in 1 .. L |-> Body(i, g)]
             h == [i \in 1 .. L |-> Joined(parts)[i]]
  <2>1. FlattenSeq(parts) = f[L]
    BY <1>2 DEF FlattenSeq
  <2>2. L \in Nat \ {0}
    BY <1>0, <1>2
  <2> HIDE DEF L
  <2>3. Joined(parts)[1] = parts[1]
    <3>1. Joined(parts)[0 + 1] = <<>> \o parts[0 + 1]
      BY JoinedRule
    <3>2. parts[1] \in Seq(Characters)
      BY <1>0, <2>2 DEF L
    <3>3. <<>> \o parts[1] = parts[1]
      BY <3>2, ConcatEmptySeq
    <3> QED BY <3>1, <3>3
  <2>4. ASSUME NEW i \in 1 .. L PROVE Joined(parts)[i] = IF i = 1 THEN parts[i] ELSE Joined(parts)[i - 1] \o parts[i]
    <3>1. CASE i = 1
      BY <2>3, <3>1
    <3>2. CASE i # 1
      <4>1. i - 1 \in Nat /\ (i - 1) + 1 = i
        BY <2>2
      <4>2. Joined(parts)[(i - 1) + 1] = Joined(parts)[i - 1] \o parts[(i - 1) + 1]
        BY <4>1, JoinedRule
      <4> QED BY <3>2, <4>1, <4>2
    <3> QED BY <3>1, <3>2
  <2>5. h = [i \in 1 .. L |-> Body(i, h)]
    <3>1. ASSUME NEW i \in 1 .. L PROVE h[i] = Body(i, h)
      <4>1. i # 1 => i - 1 \in 1 .. L
        BY <2>2
      <4> QED BY <2>4, <4>1
    <3> QED BY <3>1
  <2>6. f = [i \in 1 .. L |-> Body(i, f)]
    <3> HIDE DEF h, Body
    <3> QED BY <2>5
  <2> HIDE DEF f
  <2> DEFINE Same == {n \in Nat : n + 1 <= L => f[n + 1] = Joined(parts)[n + 1]}
  <2>7. 0 \in Same
    <3>1. 1 \in 1 .. L /\ 0 + 1 = 1
      BY <2>2
    <3> QED BY <2>3, <2>6, <3>1
  <2>8. ASSUME NEW n \in Nat, n \in Same PROVE n + 1 \in Same
    <3> SUFFICES ASSUME (n + 1) + 1 <= L PROVE f[(n + 1) + 1] = Joined(parts)[(n + 1) + 1]
      OBVIOUS
    <3>1. (n + 1) + 1 \in 1 .. L /\ (n + 1) + 1 # 1 /\ ((n + 1) + 1) - 1 = n + 1 /\ n + 1 <= L
      BY <2>2
    <3>2. f[n + 1] = Joined(parts)[n + 1]
      BY <2>8, <3>1
    <3>3. f[(n + 1) + 1] = f[n + 1] \o parts[(n + 1) + 1]
      BY <2>6, <3>1
    <3>4. Joined(parts)[(n + 1) + 1] = Joined(parts)[n + 1] \o parts[(n + 1) + 1]
      BY <2>4, <3>1
    <3> QED BY <3>2, <3>3, <3>4
  <2> HIDE DEF Same
  <2>9. Nat \subseteq Same
    BY <2>7, <2>8, NatSetInduction
  <2>10. L - 1 \in Same /\ (L - 1) + 1 = L
    BY <2>2, <2>9
  <2>11. f[L] = Joined(parts)[L]
    BY <2>2, <2>10 DEF Same
  <2> QED BY <2>1, <2>11 DEF L
<1> QED BY <1>1, <1>2

\* Where the first n parts begin in what is joined of them.
PartsStand(parts, n) ==
    /\ Joined(parts)[n] \in Input
    /\ \A i \in 0 .. n - 1 :
          /\ Joined(parts)[i] \in Input
          /\ Len(Joined(parts)[i + 1]) = Len(Joined(parts)[i]) + Len(parts[i + 1])
          /\ StandsAt(Joined(parts)[n], Len(Joined(parts)[i]), parts[i + 1])

\* Each part stands behind those before it.
LEMMA JoinedFacts ==
    ASSUME NEW parts \in Seq(Input), NEW m \in 0 .. Len(parts)
    PROVE  PartsStand(parts, m)
<1> DEFINE Good == {n \in Nat : n <= Len(parts) => PartsStand(parts, n)}
<1>0. Len(parts) \in Nat
  OBVIOUS
<1>1. 0 \in Good
  <2>1. Joined(parts)[0] \in Input
    <3>1. <<>> \in Input
      BY DEF Input
    <3>2. Joined(parts)[0] = <<>>
      BY JoinedRule
    <3> QED BY <3>1, <3>2
  <2>2. \A i \in 0 .. 0 - 1 : FALSE
    OBVIOUS
  <2> QED BY <2>1, <2>2 DEF PartsStand
<1>2. ASSUME NEW n \in Nat, n \in Good PROVE n + 1 \in Good
  <2> SUFFICES ASSUME n + 1 <= Len(parts) PROVE PartsStand(parts, n + 1)
    OBVIOUS
  <2>1. PartsStand(parts, n)
    BY <1>0, <1>2
  <2>2. PICK a, b, s : a = Joined(parts)[n] /\ b = parts[n + 1] /\ s = Joined(parts)[n + 1]
    OBVIOUS
  <2>3. s = a \o b
    BY <2>2, JoinedRule
  <2>4. a \in Input /\ b \in Input
    BY <2>1, <2>2 DEF PartsStand
  <2>5. s \in Input /\ Len(s) = Len(a) + Len(b) /\ StandsAt(s, Len(a), b) /\ Agree(a, s, Len(a))
    BY <2>3, <2>4, TwoParts
  <2>6. ASSUME NEW i \in 0 .. (n + 1) - 1
        PROVE  /\ Joined(parts)[i] \in Input
               /\ Len(Joined(parts)[i + 1]) = Len(Joined(parts)[i]) + Len(parts[i + 1])
               /\ StandsAt(s, Len(Joined(parts)[i]), parts[i + 1])
    <3>1. CASE i = n
      BY <2>2, <2>4, <2>5, <3>1
    <3>2. CASE i # n
      <4>1. i \in 0 .. n - 1 /\ i + 1 \in 1 .. Len(parts)
        BY <1>0, <3>2
      <4>2. /\ Joined(parts)[i] \in Input
            /\ Len(Joined(parts)[i + 1]) = Len(Joined(parts)[i]) + Len(parts[i + 1])
            /\ StandsAt(a, Len(Joined(parts)[i]), parts[i + 1])
        BY <2>1, <2>2, <4>1 DEF PartsStand
      <4>3. Len(Joined(parts)[i]) \in Nat /\ parts[i + 1] \in Input
        BY <4>1, <4>2 DEF Input
      <4>4. StandsAt(s, Len(Joined(parts)[i]), parts[i + 1])
        BY <2>4, <2>5, <4>2, <4>3, StandsLonger
      <4> QED BY <4>2, <4>4
    <3> QED BY <3>1, <3>2
  <2> QED BY <2>2, <2>5, <2>6 DEF PartsStand
<1> HIDE DEF Good
<1>3. Nat \subseteq Good
  BY <1>1, <1>2, NatSetInduction
<1>4. m \in Good
  BY <1>0, <1>3
<1> QED BY <1>0, <1>4 DEF Good

\* What stands in bytes that stand in bytes.
LEMMA StandsWithin ==
    ASSUME NEW u \in Input, NEW s \in Input, NEW t \in Input, NEW place \in Nat, NEW l \in Nat,
           StandsAt(u, place, s), StandsAt(s, l, t)
    PROVE  StandsAt(u, place + l, t)
<1>1. Len(u) \in Nat /\ Len(s) \in Nat /\ Len(t) \in Nat
  BY DEF Input
<1>2. place + Len(s) <= Len(u) /\ \A i \in 1 .. Len(s) : u[place + i] = s[i]
  BY DEF StandsAt
<1>3. l + Len(t) <= Len(s) /\ \A i \in 1 .. Len(t) : s[l + i] = t[i]
  BY DEF StandsAt
<1>4. \A i \in 1 .. Len(t) : l + i \in 1 .. Len(s) /\ place + l + i = place + (l + i)
  BY <1>1, <1>3
<1>5. place + l + Len(t) <= Len(u)
  BY <1>1, <1>2, <1>3
<1> QED BY <1>2, <1>3, <1>4, <1>5 DEF StandsAt

\* Where bytes stand, the bytes from there on begin with them.
LEMMA FromStands ==
    ASSUME NEW u \in Input, NEW t \in Input, NEW place \in Nat, StandsAt(u, place, t)
    PROVE  /\ From(u, place) \in Input /\ Len(From(u, place)) = Len(u) - place
           /\ place + Len(t) <= Len(u) /\ Len(u) \in Nat /\ Len(t) \in Nat
           /\ Agree(t, From(u, place), Len(t))
<1>1. Len(u) \in Nat /\ Len(t) \in Nat
  BY DEF Input
<1>2. place + Len(t) <= Len(u) /\ \A i \in 1 .. Len(t) : u[place + i] = t[i]
  BY DEF StandsAt
<1>3. place \in 0 .. Len(u)
  BY <1>1, <1>2
<1>4. /\ From(u, place) \in Input /\ Len(From(u, place)) = Len(u) - place
      /\ \A i \in 1 .. Len(u) - place : From(u, place)[i] = u[place + i]
  BY <1>3, FromFacts
<1>5. \A i \in 1 .. Len(t) : i \in 1 .. Len(u) - place
  BY <1>1, <1>2
<1>6. Len(t) <= Len(u) - place /\ Len(t) <= Len(t)
  BY <1>1, <1>2
<1>7. Agree(t, From(u, place), Len(t))
  BY <1>2, <1>4, <1>5, <1>6 DEF Agree
<1> QED BY <1>1, <1>2, <1>4, <1>7

\* Elements that are read are added.
LEMMA FollowingComplete ==
    ASSUME NEW value, NEW place, NEW next, NEW length
    PROVE  Following(Complete(value, place), Complete(next, length)) =
             Complete(Append(value, next), place + length)
BY ResultStates DEF Following

\* The elements of an array, when each one is read from its part.
LEMMA ItemsAreRead ==
    ASSUME NEW S, NEW items \in Seq(S), NEW parts \in Seq(Input), Len(parts) = Len(items),
           \A i \in 1 .. Len(items) : Reads(parts[i], items[i]),
           NEW u \in Input, NEW place \in Nat, StandsAt(u, place, Joined(parts)[Len(parts)]),
           NEW k \in Nat, Len(u) <= place + k
    PROVE  ElementsFrom(ElementUpTo[k], u, place)[Len(items)] =
             Complete(items, place + Len(Joined(parts)[Len(parts)]))
<1> DEFINE N == Len(items)
           Good == {n \in Nat : n <= N =>
                       ElementsFrom(ElementUpTo[k], u, place)[n] =
                          Complete(SubSeq(items, 1, n), place + Len(Joined(parts)[n]))}
<1>0. N \in Nat /\ Len(parts) = N /\ N \in 0 .. Len(parts) /\ Len(u) \in Nat
  BY DEF Input
<1> HIDE DEF N
<1>1. PartsStand(parts, N)
  BY <1>0, JoinedFacts
<1>2. Joined(parts)[N] \in Input /\ StandsAt(u, place, Joined(parts)[N])
  BY <1>0, <1>1 DEF PartsStand
<1>3. 0 \in Good
  <2>1. SubSeq(items, 1, 0) = <<>>
    OBVIOUS
  <2>2. Joined(parts)[0] = <<>>
    BY JoinedRule
  <2>3. place + Len(<<>>) = place
    OBVIOUS
  <2>4. ElementsFrom(ElementUpTo[k], u, place)[0] = Complete(<<>>, place)
    BY ElementsRule
  <2> QED BY <2>1, <2>2, <2>3, <2>4
<1>4. ASSUME NEW n \in Nat, n \in Good PROVE n + 1 \in Good
  <2> SUFFICES ASSUME n + 1 <= N
               PROVE  ElementsFrom(ElementUpTo[k], u, place)[n + 1] =
                         Complete(SubSeq(items, 1, n + 1), place + Len(Joined(parts)[n + 1]))
    OBVIOUS
  <2>1. PICK read, part, item, e :
           /\ read = Complete(SubSeq(items, 1, n), e) /\ part = parts[n + 1]
           /\ item = items[n + 1] /\ e = place + Len(Joined(parts)[n])
    OBVIOUS
  <2>2. ElementsFrom(ElementUpTo[k], u, place)[n] = read
    BY <1>0, <1>4, <2>1
  <2>3. n \in 0 .. N - 1 /\ n + 1 \in 1 .. N
    BY <1>0
  <2>4. /\ Joined(parts)[n] \in Input /\ StandsAt(Joined(parts)[N], Len(Joined(parts)[n]), part)
        /\ Len(Joined(parts)[n + 1]) = Len(Joined(parts)[n]) + Len(part)
    BY <1>1, <2>1, <2>3 DEF PartsStand
  <2>5. Reads(part, item)
    BY <2>1, <2>3 DEF N
  <2>6. /\ part \in Input /\ part # <<>>
        /\ \A t \in Input : Len(t) <= k /\ Agree(part, t, Len(part)) =>
              ElementUpTo[k][t] = Complete(item, Len(part))
    BY <2>5 DEF Reads
  <2>7. Len(part) \in Nat \ {0} /\ Len(Joined(parts)[n]) \in Nat
    BY <2>4, <2>6 DEF Input
  <2>8. e \in Nat /\ StandsAt(u, e, part)
    BY <1>2, <2>1, <2>4, <2>6, <2>7, StandsWithin
  <2>9. /\ From(u, e) \in Input /\ Len(From(u, e)) = Len(u) - e /\ e + Len(part) <= Len(u)
        /\ Agree(part, From(u, e), Len(part))
    BY <2>6, <2>8, FromStands
  <2>10. Len(u) - e <= k /\ ~(e >= Len(u))
    <3>1. PICK j, l, size : j = Len(Joined(parts)[n]) /\ l = Len(part) /\ size = Len(u)
      OBVIOUS
    <3>2. j \in Nat /\ l \in Nat \ {0} /\ size \in Nat
      BY <1>0, <2>7, <3>1
    <3>3. e = place + j /\ e + l <= size /\ size <= place + k
      BY <2>1, <2>9, <3>1
    <3>4. size - e <= k /\ ~(e >= size)
      BY <3>2, <3>3
    <3> QED BY <3>1, <3>4
  <2>11. ElementUpTo[k][From(u, e)] = Complete(item, Len(part))
    BY <2>6, <2>9, <2>10
  <2>12. read.state = "complete" /\ read.end = e
    BY <2>1, ResultStates
  <2>13. NextElement(ElementUpTo[k], u, read) = Following(read, Complete(item, Len(part)))
    BY <2>10, <2>11, <2>12 DEF NextElement
  <2>14. Following(read, Complete(item, Len(part))) = Complete(Append(SubSeq(items, 1, n), item), e + Len(part))
    <3>1. PICK value : value = SubSeq(items, 1, n)
      OBVIOUS
    <3>2. read = Complete(value, e)
      BY <2>1, <3>1
    <3>3. Following(Complete(value, e), Complete(item, Len(part))) = Complete(Append(value, item), e + Len(part))
      BY FollowingComplete
    <3> QED BY <3>1, <3>2, <3>3
  <2>15. Append(SubSeq(items, 1, n), item) = SubSeq(items, 1, n + 1)
    BY <1>0, <2>1, <2>3 DEF N
  <2>16. e + Len(part) = place + Len(Joined(parts)[n + 1])
    <3>1. PICK j, l : j = Len(Joined(parts)[n]) /\ l = Len(part)
      OBVIOUS
    <3>2. j \in Nat /\ l \in Nat
      BY <2>7, <3>1
    <3>3. e = place + j /\ Len(Joined(parts)[n + 1]) = j + l
      BY <2>1, <2>4, <3>1
    <3>4. place + j + l = place + (j + l)
      BY <3>2
    <3> QED BY <3>1, <3>3, <3>4
  <2>17. ElementsFrom(ElementUpTo[k], u, place)[n + 1] = NextElement(ElementUpTo[k], u, read)
    <3>1. \A i \in Nat : ElementsFrom(ElementUpTo[k], u, place)[i + 1] =
             NextElement(ElementUpTo[k], u, ElementsFrom(ElementUpTo[k], u, place)[i])
      BY ElementsRule
    <3> QED BY <2>2, <3>1
  <2> QED BY <2>13, <2>14, <2>15, <2>16, <2>17
<1> HIDE DEF Good
<1>5. Nat \subseteq Good
  BY <1>3, <1>4, NatSetInduction
<1>6. ElementsFrom(ElementUpTo[k], u, place)[N] = Complete(SubSeq(items, 1, N), place + Len(Joined(parts)[N]))
  BY <1>0, <1>5 DEF Good
<1>7. SubSeq(items, 1, N) = items
  BY DEF N
<1> QED BY <1>0, <1>6, <1>7 DEF N

\* An array is a line with a number, and so many elements.
LEMMA ArrayIsRead ==
    ASSUME NEW S, NEW items \in Seq(S), NEW parts \in Seq(Input), Len(parts) = Len(items),
           \A i \in 1 .. Len(items) : Reads(parts[i], items[i]),
           NEW g, g = WithHead("*", DigitsOf(Len(items))) \o FlattenSeq(parts)
    PROVE  Reads(g, Array(items))
<1>1. PICK n, t, h, f :
         n = Len(items) /\ t = DigitsOf(n) /\ h = WithHead("*", t) /\ f = Joined(parts)[Len(parts)]
  OBVIOUS
<1>2. n \in Nat /\ Len(parts) = n /\ n \in 0 .. Len(parts)
  BY <1>1
<1>3. InLine(t) /\ t \in Input /\ Len(t) \in Nat \ {0} /\ t[1] # "-" /\ Unsigned(t) = n
  BY <1>1, <1>2, CountIsRead
<1>4. "*" \in Characters /\ "*" \in ValueTypes
  BY TypeCharacters
<1>5. h \in Input /\ h # <<>> /\ h[1] = "*" /\ Len(h) = Len(t) + 3
  <2>1. IsHeaded(h, "*", t)
    BY <1>1, <1>3, <1>4, HeadedLine
  <2> QED BY <2>1 DEF IsHeaded
<1>6. f \in Input
  <2>1. PartsStand(parts, n)
    BY <1>2, JoinedFacts
  <2> QED BY <1>1, <1>2, <2>1 DEF PartsStand
<1>7. g = h \o f
  BY <1>1, FlattenIsJoined
<1>8. /\ g \in Input /\ Len(g) = Len(h) + Len(f) /\ Len(h) \in Nat /\ Len(f) \in Nat
      /\ StandsAt(g, Len(h), f) /\ Agree(h, g, Len(h))
  BY <1>5, <1>6, <1>7, TwoParts
<1>9. Len(h) \in Nat \ {0} /\ Len(g) \in Nat \ {0}
  BY <1>3, <1>5, <1>8
<1>10. ASSUME NEW u \in Input, Agree(g, u, Len(g))
       PROVE  /\ u # <<>> /\ u[1] = "*" /\ \A i \in 1 .. Len(t) : u[1 + i] = t[i]
              /\ HasLine(u, 2) /\ Line(u, 2) = t /\ Behind(u, 2) = Len(h)
  <2>1. Agree(h, u, Len(h))
    BY <1>5, <1>8, <1>10, AgreeLonger
  <2> QED BY <1>1, <1>3, <1>4, <2>1, HeadIsRead
<1>11. g # <<>> /\ g[1] = "*" /\ Len(g) >= 2 /\ g[2] # "-"
  <2>1. Agree(g, g, Len(g))
    BY <1>9 DEF Agree
  <2>2. g # <<>> /\ g[1] = "*" /\ \A i \in 1 .. Len(t) : g[1 + i] = t[i]
    BY <1>8, <1>10, <2>1
  <2>3. 1 \in 1 .. Len(t) /\ 1 + 1 = 2
    BY <1>3
  <2>4. Len(g) >= 2
    BY <1>3, <1>5, <1>8
  <2> QED BY <1>3, <2>2, <2>3, <2>4
<1>12. ASSUME NEW m \in Nat, NEW u \in Input, Len(u) <= m, Agree(g, u, Len(g))
       PROVE  ElementUpTo[m][u] = Complete(Array(items), Len(g))
  <2>1. PICK k : k = m - 1
    OBVIOUS
  <2>2. Len(u) \in Nat /\ Len(g) <= Len(u)
    BY <1>12 DEF Agree, Input
  <2>3. k \in Nat /\ k + 1 = m /\ Len(u) <= Len(h) + k
    <3>1. PICK a, b, c : a = Len(u) /\ b = Len(g) /\ c = Len(h)
      OBVIOUS
    <3>2. a \in Nat /\ b \in Nat \ {0} /\ c \in Nat \ {0} /\ b <= a /\ a <= m /\ k = m - 1
      BY <1>9, <1>12, <2>1, <2>2, <3>1
    <3>3. k \in Nat /\ k + 1 = m /\ a <= c + k
      BY <3>2
    <3> QED BY <3>1, <3>3
  <2>4. u[1] = "*" /\ HasLine(u, 2) /\ Line(u, 2) = t /\ Behind(u, 2) = Len(h)
    BY <1>10, <1>12
  <2>5. ElementUpTo[m][u] = ElementBy(parse_array(ElementUpTo[k], u), u)
    <3>1. ElementUpTo[k + 1] = [s \in Input |-> ElementBy(parse_array(ElementUpTo[k], s), s)]
      BY <2>3, ElementRule
    <3> QED BY <2>3, <3>1
  <2>6. ElementBy(parse_array(ElementUpTo[k], u), u) = parse_array(ElementUpTo[k], u)
    BY <2>4, ElementCases
  <2>7. StandsAt(u, Len(h), Joined(parts)[Len(parts)])
    BY <1>1, <1>6, <1>8, <1>12, StandsLonger
  <2>8. ElementsFrom(ElementUpTo[k], u, Len(h))[n] = Complete(items, Len(g))
    <3>1. ElementsFrom(ElementUpTo[k], u, Len(h))[Len(items)] =
             Complete(items, Len(h) + Len(Joined(parts)[Len(parts)]))
      <4>1. PICK place : place = Len(h)
        OBVIOUS
      <4>2. place \in Nat /\ k \in Nat /\ Len(u) <= place + k
        BY <1>9, <2>3, <4>1
      <4>3. StandsAt(u, place, Joined(parts)[Len(parts)])
        BY <2>7, <4>1
      <4>4. ElementsFrom(ElementUpTo[k], u, place)[Len(items)] =
              Complete(items, place + Len(Joined(parts)[Len(parts)]))
        BY <4>2, <4>3, ItemsAreRead
      <4> QED BY <4>1, <4>4
    <3> QED BY <1>1, <1>8, <3>1
  <2>9. parse_array(ElementUpTo[k], u) = AsArray(ElementsFrom(ElementUpTo[k], u, Len(h))[n])
    <3>1. n # -1
      BY <1>2
    <3> QED BY <1>3, <2>4, <3>1 DEF parse_array
  <2>10. AsArray(Complete(items, Len(g))) = Complete(Array(items), Len(g))
    BY ResultStates DEF AsArray
  <2> QED BY <2>5, <2>6, <2>8, <2>9, <2>10
<1> QED BY <1>4, <1>8, <1>11, <1>12 DEF Reads

\* The values that are read are values that are written.
LEMMA ReadableIsPlain == ReadablePlain \subseteq PlainValues
BY DEF ReadablePlain, PlainValues, PlainOf

\* Every value is read from what is generated of it, up to every depth.
LEMMA ValuesAreRead ==
    ASSUME NEW depth \in Nat, NEW value \in UpTo(ReadablePlain)[depth]
    PROVE  value \in UpTo(PlainValues)[depth] /\ Reads(GenerateUpTo[depth][value], value)
<1> DEFINE Good == {d \in Nat : \A v \in UpTo(ReadablePlain)[d] :
                       v \in UpTo(PlainValues)[d] /\ Reads(GenerateUpTo[d][v], v)}
<1>1. 0 \in Good
  <2>1. ASSUME NEW v \in UpTo(ReadablePlain)[0]
        PROVE  v \in UpTo(PlainValues)[0] /\ Reads(GenerateUpTo[0][v], v)
    <3>1. v \in ReadablePlain
      BY UpToRule
    <3>2. v \in UpTo(PlainValues)[0]
      BY <3>1, UpToRule, ReadableIsPlain
    <3>3. GenerateUpTo[0][v] = GenerateBy(<<>>, v)
      BY <3>2, GenerateRule
    <3> QED BY <3>1, <3>2, <3>3, PlainIsRead
  <2> QED BY <2>1
<1>2. ASSUME NEW d \in Nat, d \in Good PROVE d + 1 \in Good
  <2>1. ASSUME NEW v \in UpTo(ReadablePlain)[d + 1]
        PROVE  v \in UpTo(PlainValues)[d + 1] /\ Reads(GenerateUpTo[d + 1][v], v)
    <3>1. UpTo(PlainValues)[d + 1] = PlainValues \cup [type : {"array"}, items : Seq(UpTo(PlainValues)[d])]
      BY UpToRule
    <3>2. v \in ReadablePlain \cup [type : {"array"}, items : Seq(UpTo(ReadablePlain)[d])]
      BY UpToRule
    <3>3. ASSUME v \in UpTo(PlainValues)[d + 1]
          PROVE  GenerateUpTo[d + 1][v] = GenerateBy(GenerateUpTo[d], v)
      <4>1. GenerateUpTo[d + 1] =
               [x \in UpTo(PlainValues)[d + 1] |-> GenerateBy(GenerateUpTo[d], x)]
        BY GenerateRule
      <4> QED BY <3>3, <4>1
    <3>4. CASE v \in ReadablePlain
      <4>1. v \in UpTo(PlainValues)[d + 1]
        BY <3>1, <3>4, ReadableIsPlain
      <4> QED BY <3>3, <3>4, <4>1, PlainIsRead
    <3>5. CASE v \in [type : {"array"}, items : Seq(UpTo(ReadablePlain)[d])]
      <4>1. PICK items \in Seq(UpTo(ReadablePlain)[d]) : items = v.items /\ v = Array(items) /\ v.type = "array"
        BY <3>5 DEF Array
      <4>2. \A i \in 1 .. Len(items) :
               items[i] \in UpTo(PlainValues)[d] /\ Reads(GenerateUpTo[d][items[i]], items[i])
        BY <1>2
      <4>3. items \in Seq(UpTo(PlainValues)[d])
        BY <4>2
      <4>4. v \in UpTo(PlainValues)[d + 1]
        BY <3>1, <4>1, <4>3 DEF Array
      <4>5. PICK parts : parts = [i \in DOMAIN items |-> GenerateUpTo[d][items[i]]]
        OBVIOUS
      <4>6. \A i \in 1 .. Len(items) : parts[i] \in Input /\ Reads(parts[i], items[i])
        BY <4>2, <4>5 DEF Reads
      <4>7. parts \in Seq(Input) /\ Len(parts) = Len(items)
        <5>1. PICK n : n = Len(items)
          OBVIOUS
        <5>2. n \in Nat /\ DOMAIN items = 1 .. n
          BY <5>1
        <5>3. parts = [i \in 1 .. n |-> parts[i]]
          BY <4>5, <5>2
        <5>4. \A i \in 1 .. n : parts[i] \in Input
          BY <4>6, <5>1
        <5>5. parts \in [1 .. n -> Input]
          BY <5>3, <5>4
        <5> QED BY <5>1, <5>2, <5>5
      <4>8. GenerateBy(GenerateUpTo[d], v) = WithHead("*", DigitsOf(Len(items))) \o FlattenSeq(parts)
        BY <4>1, <4>5, GenerateCases
      <4>9. Reads(GenerateBy(GenerateUpTo[d], v), Array(items))
        BY <4>6, <4>7, <4>8, ArrayIsRead
      <4> QED BY <3>3, <4>1, <4>4, <4>9
    <3> QED BY <3>2, <3>4, <3>5
  <2> QED BY <2>1
<1> HIDE DEF Good
<1>3. Nat \subseteq Good
  BY <1>1, <1>2, NatSetInduction
<1> QED BY <1>3 DEF Good

\* A value is read where a command may be.
LEMMA ValueIsRead ==
    ASSUME NEW g, NEW v, Reads(g, v), NEW u \in Input, Agree(g, u, Len(g))
    PROVE  /\ u # <<>> /\ u[1] \in ValueTypes /\ parse_value(u) = Complete(v, Len(g))
           /\ Len(g) \in Nat
<1>1. /\ g \in Input /\ g # <<>> /\ g[1] \in ValueTypes
      /\ g[1] = "*" => Len(g) >= 2 /\ g[2] # "-"
      /\ \A m \in Nat : \A t \in Input :
            Len(t) <= m /\ Agree(g, t, Len(g)) => ElementUpTo[m][t] = Complete(v, Len(g))
  BY DEF Reads
<1>2. Len(g) \in Nat \ {0} /\ Len(u) \in Nat
  BY <1>1 DEF Input
<1>3. Len(g) <= Len(u) /\ \A i \in 1 .. Len(g) : u[i] = g[i]
  BY DEF Agree
<1>4. u # <<>> /\ u[1] = g[1]
  BY <1>2, <1>3
<1>5. parse_element(u) = Complete(v, Len(g))
  <2>1. Len(u) <= Len(u)
    BY <1>2
  <2> QED BY <1>1, <1>2, <2>1 DEF parse_element
<1>6. CASE u[1] = "*"
  <2>1. Len(u) >= 2 /\ u[2] # "-"
    BY <1>1, <1>2, <1>3, <1>4, <1>6
  <2>2. parse_null(u).state = "invalid"
    BY <1>4, <1>6, <2>1, NotNull
  <2> QED BY <1>1, <1>2, <1>4, <1>5, <1>6, <2>2 DEF parse_value, UnlessInvalid
<1>7. CASE u[1] # "*"
  BY <1>1, <1>2, <1>4, <1>5, <1>7 DEF parse_value
<1> QED BY <1>6, <1>7

\* An answer before others.
LEMMA ReplyBefore ==
    ASSUME NEW values, NEW j \in Nat, NEW k \in Nat
    PROVE  <<Reply(values[j + 1])>> \o [i \in 1 .. k |-> Reply(values[(j + 1) + i])] =
              [i \in 1 .. k + 1 |-> Reply(values[j + i])]
<1>1. PICK S : S = {Reply(values[i]) : i \in Nat}
  OBVIOUS
<1>2. PICK f, one, all : /\ one = <<Reply(values[j + 1])>>
                         /\ f = [i \in 1 .. k |-> Reply(values[(j + 1) + i])]
                         /\ all = [i \in 1 .. k + 1 |-> Reply(values[j + i])]
  OBVIOUS
<1>3. one \in Seq(S) /\ Len(one) = 1 /\ one[1] = Reply(values[j + 1])
  BY <1>1, <1>2
<1>4. f \in Seq(S) /\ Len(f) = k
  <2>1. \A i \in 1 .. k : (j + 1) + i \in Nat
    OBVIOUS
  <2>2. f \in [1 .. k -> S]
    BY <1>1, <1>2, <2>1
  <2> QED BY <2>2
<1>5. all \in Seq(S) /\ Len(all) = k + 1
  <2>1. \A i \in 1 .. k + 1 : j + i \in Nat
    OBVIOUS
  <2>2. all \in [1 .. k + 1 -> S]
    BY <1>1, <1>2, <2>1
  <2> QED BY <2>2
<1>6. /\ one \o f \in Seq(S) /\ Len(one \o f) = 1 + k
      /\ \A i \in 1 .. 1 + k : (one \o f)[i] = IF i <= 1 THEN one[i] ELSE f[i - 1]
  <2>1. /\ one \o f \in Seq(S) /\ Len(one \o f) = Len(one) + Len(f)
        /\ \A i \in 1 .. Len(one) + Len(f) :
              (one \o f)[i] = IF i <= Len(one) THEN one[i] ELSE f[i - Len(one)]
    BY <1>3, <1>4, ConcatProperties
  <2> QED BY <1>3, <1>4, <2>1
<1>7. ASSUME NEW i \in 1 .. k + 1 PROVE (one \o f)[i] = all[i]
  <2>1. CASE i = 1
    BY <1>2, <1>3, <1>6, <2>1
  <2>2. CASE i # 1
    <3>1. i - 1 \in 1 .. k /\ (j + 1) + (i - 1) = j + i /\ ~(i <= 1) /\ i \in 1 .. 1 + k
      BY <2>2
    <3>2. f[i - 1] = Reply(values[(j + 1) + (i - 1)])
      BY <1>2, <3>1
    <3>3. (one \o f)[i] = f[i - 1]
      BY <1>6, <3>1
    <3> QED BY <1>2, <3>1, <3>2, <3>3
  <2> QED BY <2>1, <2>2
<1>8. one \o f = all
  <2>1. Len(one \o f) = Len(all)
    BY <1>5, <1>6
  <2> QED BY <1>5, <1>6, <1>7, <2>1, SeqEqual
<1> QED BY <1>2, <1>8

\* Values one after the other are answered, each once and in order.
LEMMA JoinedIsAnswered ==
    ASSUME NEW S, NEW values \in Seq(S), NEW parts \in Seq(Input), Len(parts) = Len(values),
           \A i \in 1 .. Len(values) : Reads(parts[i], values[i]),
           NEW s, s = Joined(parts)[Len(parts)]
    PROVE  /\ s \in Input /\ parse(s).ok
           /\ on_read_done(s) = [answers |-> [i \in 1 .. Len(values) |-> Reply(values[i])], left |-> <<>>]
<1>1. PICK N : N = Len(values)
  OBVIOUS
<1>2. N \in Nat /\ Len(parts) = N /\ s = Joined(parts)[N]
  BY <1>1
<1>3. PartsStand(parts, N)
  BY <1>2, JoinedFacts
<1>4. s \in Input /\ Len(s) \in Nat
  BY <1>2, <1>3 DEF PartsStand, Input
<1> DEFINE rest(n) == From(s, Len(Joined(parts)[n]))
           Good == {k \in Nat : \A n \in Nat : n + k = N =>
                      /\ parse(rest(n)).ok
                      /\ on_read_done(rest(n)) =
                            [answers |-> [i \in 1 .. k |-> Reply(values[n + i])], left |-> <<>>]}
<1>5. 0 \in Good
  <2>1. rest(N) = <<>>
    <3>1. Len(s) \in 0 .. Len(s)
      BY <1>4
    <3>2. From(s, Len(s)) \in Input /\ Len(From(s, Len(s))) = Len(s) - Len(s)
      BY <1>4, <3>1, FromFacts
    <3>3. Len(s) - Len(s) = 0
      BY <1>4
    <3>4. From(s, Len(s)) = <<>>
      BY <3>2, <3>3 DEF Input
    <3> QED BY <1>2, <3>4
  <2>2. parse(<<>>).ok
    BY ParseUnfolds
  <2>3. [i \in 1 .. 0 |-> Reply(values[N + i])] = <<>>
    OBVIOUS
  <2>4. \A n \in Nat : n + 0 = N => n = N
    BY <1>2
  <2> QED BY <2>1, <2>2, <2>3, <2>4, DoneOfNothing
<1>6. ASSUME NEW k \in Nat, k \in Good PROVE k + 1 \in Good
  <2> SUFFICES ASSUME NEW n \in Nat, n + (k + 1) = N
               PROVE  /\ parse(rest(n)).ok
                      /\ on_read_done(rest(n)) =
                           [answers |-> [i \in 1 .. k + 1 |-> Reply(values[n + i])], left |-> <<>>]
    OBVIOUS
  <2>1. PICK q, behind, part, e, l : q = rest(n) /\ behind = rest(n + 1) /\ part = parts[n + 1]
                                     /\ e = Len(Joined(parts)[n]) /\ l = Len(part)
    OBVIOUS
  <2>2. n \in 0 .. N - 1 /\ n + 1 \in 1 .. N /\ n + 1 \in Nat /\ (n + 1) + k = N
    BY <1>2
  <2>3. /\ parse(behind).ok
        /\ on_read_done(behind) = [answers |-> [i \in 1 .. k |-> Reply(values[(n + 1) + i])], left |-> <<>>]
    BY <1>6, <2>1, <2>2
  <2>4. Reads(part, values[n + 1])
    BY <1>1, <2>1, <2>2
  <2>5. /\ Joined(parts)[n] \in Input /\ StandsAt(s, e, part)
        /\ Len(Joined(parts)[n + 1]) = e + l
    BY <1>2, <1>3, <2>1, <2>2 DEF PartsStand
  <2>6. part \in Input /\ l \in Nat /\ e \in Nat
    BY <2>1, <2>4, <2>5 DEF Reads, Input
  <2>7. /\ q \in Input /\ Len(q) = Len(s) - e /\ e + l <= Len(s)
        /\ Agree(part, q, Len(part))
    <3>1. q = From(s, e)
      BY <2>1
    <3>2. /\ From(s, e) \in Input /\ Len(From(s, e)) = Len(s) - e
          /\ e + Len(part) <= Len(s) /\ Agree(part, From(s, e), Len(part))
      BY <1>4, <2>5, <2>6, FromStands
    <3>3. Len(part) = l
      BY <2>1
    <3> QED BY <3>1, <3>2, <3>3
  <2>8. q # <<>> /\ q[1] \in ValueTypes /\ parse_value(q) = Complete(values[n + 1], l)
    BY <2>1, <2>4, <2>7, ValueIsRead
  <2>9. From(q, l) = behind
    <3>1. e \in 0 .. Len(s) /\ l \in 0 .. Len(s) - e
      BY <1>4, <2>6, <2>7
    <3>2. From(From(s, e), l) = From(s, e + l)
      BY <1>4, <3>1, FromFrom
    <3> QED BY <2>1, <2>5, <3>2
  <2>10. /\ parse_value(q).state = "complete" /\ parse_value(q).end = l
         /\ parse_value(q).value = values[n + 1]
    BY <2>8, ResultStates
  <2>11. /\ parse(q).ok
         /\ on_read_done(q) = [answers |-> <<AnswerTo(parse_value(q))>> \o on_read_done(behind).answers,
                               left    |-> on_read_done(behind).left]
    <3>1. parse(From(q, parse_value(q).end)).ok
      BY <2>3, <2>9, <2>10
    <3>2. /\ parse(q).ok
          /\ on_read_done(q) =
               [answers |-> <<AnswerTo(parse_value(q))>> \o on_read_done(From(q, parse_value(q).end)).answers,
                left    |-> on_read_done(From(q, parse_value(q).end)).left]
      BY <2>7, <2>8, <2>10, <3>1, DoneUnfolds
    <3> QED BY <2>9, <2>10, <3>2
  <2>12. AnswerTo(parse_value(q)) = Reply(values[n + 1])
    BY <2>10 DEF AnswerTo
  <2>13. <<Reply(values[n + 1])>> \o on_read_done(behind).answers =
            [i \in 1 .. k + 1 |-> Reply(values[n + i])]
    BY <2>3, ReplyBefore
  <2>14. on_read_done(behind).left = <<>>
    BY <2>3
  <2> QED BY <2>1, <2>11, <2>12, <2>13, <2>14
<1> HIDE DEF Good, rest
<1>7. Nat \subseteq Good
  BY <1>5, <1>6, NatSetInduction
<1>8. N \in Good /\ 0 + N = N
  BY <1>2, <1>7
<1>9. /\ parse(rest(0)).ok
      /\ on_read_done(rest(0)) = [answers |-> [i \in 1 .. N |-> Reply(values[0 + i])], left |-> <<>>]
  BY <1>8 DEF Good
<1>10. rest(0) = s
  <2>1. Len(Joined(parts)[0]) = 0
    <3>1. Joined(parts)[0] = <<>>
      BY JoinedRule
    <3>2. Len(<<>>) = 0
      OBVIOUS
    <3> QED BY <3>1, <3>2
  <2> QED BY <1>4, <2>1, FromZero DEF rest
<1>11. [i \in 1 .. N |-> Reply(values[0 + i])] = [i \in 1 .. N |-> Reply(values[i])]
  <2>1. \A i \in 1 .. N : 0 + i = i
    OBVIOUS
  <2> QED BY <2>1
<1> QED BY <1>1, <1>4, <1>9, <1>10, <1>11

\* A list of values, and what is written of it.
LEMMA WrittenIsAnswered ==
    ASSUME NEW values \in Seq(UpTo(ReadablePlain)[Depth])
    PROVE  /\ parse(Written(values)).ok
           /\ on_read_done(Written(values)) =
                [answers |-> [i \in DOMAIN values |-> Reply(values[i])], left |-> <<>>]
<1>1. PICK n : n = Len(values)
  OBVIOUS
<1>2. n \in Nat /\ DOMAIN values = 1 .. n
  BY <1>1
<1>3. PICK parts : parts = [i \in DOMAIN values |-> generate(values[i])]
  OBVIOUS
<1>4. ASSUME NEW i \in 1 .. n PROVE Reads(parts[i], values[i])
  <2>1. values[i] \in UpTo(ReadablePlain)[Depth]
    BY <1>1
  <2>2. Depth \in Nat
    BY GeneratorAssumption
  <2>3. Reads(GenerateUpTo[Depth][values[i]], values[i])
    BY <2>1, <2>2, ValuesAreRead
  <2> QED BY <1>2, <1>3, <2>3 DEF generate
<1>5. parts \in Seq(Input) /\ Len(parts) = n
  <2>1. \A i \in 1 .. n : parts[i] \in Input
    BY <1>4 DEF Reads
  <2>2. parts = [i \in 1 .. n |-> parts[i]]
    BY <1>2, <1>3
  <2>3. parts \in [1 .. n -> Input]
    BY <2>1, <2>2
  <2> QED BY <1>2, <2>3
<1>6. Written(values) = Joined(parts)[Len(parts)]
  <2>1. Written(values) = FlattenSeq(parts)
    BY <1>3 DEF Written
  <2> QED BY <1>5, <2>1, FlattenIsJoined
<1>7. /\ parse(Written(values)).ok
      /\ on_read_done(Written(values)) =
           [answers |-> [i \in 1 .. Len(values) |-> Reply(values[i])], left |-> <<>>]
  BY <1>1, <1>4, <1>5, <1>6, JoinedIsAnswered
<1> QED BY <1>1, <1>2, <1>7

--------------------------------------------------------------------------------
\* A command is of one kind only.
LEMMA KindsDiffer ==
    /\ \A c \in Sized : c \notin Expires /\ c \notin Ranges /\ "bytes" \notin DOMAIN c
    /\ \A c \in Expires : c \notin Ranges /\ "bytes" \notin DOMAIN c
    /\ \A c \in Ranges : "bytes" \notin DOMAIN c
<1>1. \A c \in Sized : DOMAIN c = {"name", "size"}
  BY DEF Sized
<1>2. \A c \in Expires : DOMAIN c = {"option", "n", "clock"}
  BY DEF Expires
<1>3. \A c \in Ranges : DOMAIN c = {"list", "from", "to"}
  BY DEF Ranges
<1>4. /\ "n" \notin {"name", "size"} /\ "list" \notin {"name", "size"}
      /\ "list" \notin {"option", "n", "clock"}
      /\ "bytes" \notin {"name", "size"} /\ "bytes" \notin {"option", "n", "clock"}
      /\ "bytes" \notin {"list", "from", "to"}
  OBVIOUS
<1>5. "n" \in {"option", "n", "clock"} /\ "list" \in {"list", "from", "to"}
  OBVIOUS
<1> QED BY <1>1, <1>2, <1>3, <1>4, <1>5, Zenon

\* The bytes of a request, and the place where they are cut.
LEMMA SentFacts ==
    ASSUME NEW c \in Sent
    PROVE  /\ c.bytes \in Input /\ c.cut \in 1 .. Len(c.bytes)
           /\ "bytes" \in DOMAIN c
<1>1. PICK s \in Bytes : c \in [bytes : {s}, cut : 1 .. Len(s)]
  BY DEF Sent
<1>2. c.bytes = s /\ c.cut \in 1 .. Len(s) /\ DOMAIN c = {"bytes", "cut"}
  BY <1>1
<1> QED BY <1>2, BytesAssumption

\* What a client sends, and the four properties of what has been made of it.
Right ==
    /\ request \in Requests \cup Sent
    /\ ArgumentsArePresent /\ ExpiryIsAhead /\ RangeSelects /\ CutsDontMatter

\* Nothing was processed at first.
LEMMA InitRight == CommandsInit => Right
BY DEF CommandsInit, Right, ArgumentsArePresent, ExpiryIsAhead, RangeSelects, CutsDontMatter,
       Processed, BytesProcessed

\* What a step makes of a request is right.
LEMMA NextRight == Right /\ [CommandsNext]_argumentVars => Right'
<1> SUFFICES ASSUME Right, [CommandsNext]_argumentVars PROVE Right'
  OBVIOUS
<1>1. CASE ProcessSized
  <2>1. /\ request' = request /\ request \in Sized
        /\ ~Processed(Expires)' /\ ~Processed(Ranges)' /\ ~BytesProcessed'
    BY <1>1, KindsDiffer DEF ProcessSized, Processed, BytesProcessed
  <2>2. ArgumentsArePresent'
    <3> SUFFICES ASSUME outcome' # Refused, request # [name |-> "SET", size |-> 4]
                 PROVE  outcome'.lastRead <= request.size
      BY <2>1 DEF ArgumentsArePresent
    <3>1. /\ HasArguments(request.name, request.size)
          /\ outcome' = [lastRead |-> LastRead(request.name, request.size)]
      BY <1>1 DEF ProcessSized
    <3>2. /\ request.name \in Names /\ request.size \in 1 .. MaxSize
          /\ request = [name |-> request.name, size |-> request.size]
      BY <2>1 DEF Sized
    <3>3. LastRead(request.name, request.size) <= request.size
      BY <3>1, <3>2, SizedRight
    <3> QED BY <3>1, <3>3
  <2> QED BY <2>1, <2>2 DEF Right, ExpiryIsAhead, RangeSelects, CutsDontMatter
<1>2. CASE ProcessSet
  <2>1. /\ request' = request /\ request \in Expires
        /\ outcome' = Expiry(request.option, request.n, request.clock)
        /\ ~Processed(Sized)' /\ ~Processed(Ranges)' /\ ~BytesProcessed'
    BY <1>2, KindsDiffer DEF ProcessSet, Processed, BytesProcessed
  <2>2. /\ request.option \in Options /\ request.n \in 0 .. Word - 1
        /\ request.clock \in 0 .. Word - 1
    BY <2>1 DEF Expires
  <2>3. ExpiryIsAhead'
    <3> DEFINE exact == Exact(request.option, request.n, request.clock)
    <3>1. IF request.option \in {"EXAT", "PXAT"} /\ exact <= request.clock THEN outcome' = Refused
          ELSE outcome'.ok /\ (exact < Word => outcome'.time = exact
                                               /\ outcome'.time >= request.clock)
      BY <2>1, <2>2, ExpiryRight
    <3> QED BY <2>1, <3>1, Zenon DEF ExpiryIsAhead
  <2> QED BY <2>1, <2>3 DEF Right, ArgumentsArePresent, RangeSelects, CutsDontMatter
<1>3. CASE ProcessLRange
  <2>1. /\ request' = request /\ request \in Ranges
        /\ outcome' = [list |-> GetList(request.list, request.from, request.to)]
        /\ ~Processed(Sized)' /\ ~Processed(Expires)' /\ ~BytesProcessed'
    BY <1>3, KindsDiffer DEF ProcessLRange, Processed, BytesProcessed
  <2>2. request.list \in Lists /\ request.from \in Ints /\ request.to \in Ints
    BY <2>1 DEF Ranges
  <2>3. outcome'.list = GetList(request.list, request.from, request.to)
    BY <2>1
  <2>4. RangeSelects'
    <3> DEFINE given == outcome'.list
    <3>1. /\ {given[i] : i \in DOMAIN given} = Selected(request.list, request.from, request.to)
          /\ \A i, j \in DOMAIN given : i < j => given[i] < given[j]
      BY <2>2, <2>3, RangeRight, Zenon
    <3> QED BY <2>1, <3>1, Zenon DEF RangeSelects
  <2> QED BY <2>1, <2>4 DEF Right, ArgumentsArePresent, ExpiryIsAhead, CutsDontMatter
<1>4. CASE ProcessBytes
  <2>1. /\ request' = request /\ "bytes" \in DOMAIN request
        /\ outcome' = ReadTwice(request.bytes, request.cut)
    BY <1>4 DEF ProcessBytes
  <2>2. request \in Sent
    BY <2>1, KindsDiffer DEF Right, Requests
  <2>3. ~Processed(Sized)' /\ ~Processed(Expires)' /\ ~Processed(Ranges)'
    BY <2>1, KindsDiffer DEF Processed
  <2>4. CutsDontMatter'
    <3>1. PICK s, cut, done : s = request.bytes /\ cut = request.cut /\ done = outcome'
      OBVIOUS
    <3>2. s \in Input /\ cut \in 1 .. Len(s)
      BY <2>2, <3>1, SentFacts
    <3>3. /\ parse(s).ok => done = Answered(s, parse(s))
          /\ ~parse(s).ok /\ cut <= Last(parse(s).results).begin =>
                \E n \in 0 .. Len(parse(s).results) - 1 :
                   /\ done.answers = Answers(SubSeq(parse(s).results, 1, n)) \o <<FormatError>>
                   /\ \A i \in DOMAIN parse(s).results :
                         parse(s).results[i].state = "complete" =>
                            (i <= n <=> parse(s).results[i].end <= cut)
      <4>1. done = ReadTwice(s, cut)
        BY <2>1, <3>1
      <4> QED BY <3>2, <4>1, TwoReads
    <3> QED BY <2>1, <3>1, <3>3, Zenon DEF CutsDontMatter
  <2> QED BY <2>1, <2>3, <2>4 DEF Right, ArgumentsArePresent, ExpiryIsAhead, RangeSelects
<1>5. CASE UNCHANGED argumentVars
  BY <1>5 DEF argumentVars, Right, ArgumentsArePresent, ExpiryIsAhead, RangeSelects, CutsDontMatter,
              Processed, BytesProcessed
<1> QED BY <1>1, <1>2, <1>3, <1>4, <1>5 DEF CommandsNext, ArgumentsNext

\* process never reads an element that a command has not, but for the one known SET
\* (CommandProcessor.cpp:60-288), whatever the size of the command.
THEOREM ArgumentsAreRead == CommandsSpec => []ArgumentsArePresent
<1>1. Right => ArgumentsArePresent
  BY DEF Right
<1> QED BY <1>1, InitRight, NextRight, PTL DEF CommandsSpec

\* SET refuses exactly the timestamps that are not ahead of the clock, and stores any
\* other one that fits as it was meant (CommandProcessor.cpp:138-171), for every width of
\* the numbers, clock and value.
THEOREM ExpiryIsExact == CommandsSpec => []ExpiryIsAhead
<1>1. Right => ExpiryIsAhead
  BY DEF Right
<1> QED BY <1>1, InitRight, NextRight, PTL DEF CommandsSpec

\* get_list gives exactly the elements that LRANGE selects, in their order
\* (DictionaryManager.cpp:288-322), for every list and offsets that fit in an int.
THEOREM RangesAreExact == CommandsSpec => []RangeSelects
<1>1. Right => RangeSelects
  BY DEF Right
<1> QED BY <1>1, InitRight, NextRight, PTL DEF CommandsSpec

\* Wherever TCP cuts bytes in two, the server answers them and keeps what is left as if
\* they had come at once; and if one is refused, the values that ended in the first read
\* are answered, and no others (RespParser.cpp and Server.cpp:47-116), for any bytes.
THEOREM CutsNeverMatter == CommandsSpec => []CutsDontMatter
<1>1. Right => CutsDontMatter
  BY DEF Right
<1> QED BY <1>1, InitRight, NextRight, PTL DEF CommandsSpec

\* What answers to bytes however they are cut answers to what is written.
LEMMA CutsAndWritten == CutsDontMatter => WrittenIsRead
<1> SUFFICES ASSUME CutsDontMatter, BytesProcessed, NEW m \in Messages, m.bytes = request.bytes
             PROVE  outcome = [answers |-> [i \in DOMAIN m.values |-> Reply(m.values[i])], left |-> <<>>]
  BY DEF WrittenIsRead
<1>1. m.values \in Seq(UpTo(ReadablePlain)[Depth]) /\ request.bytes = Written(m.values)
  BY DEF Messages
<1>2. parse(request.bytes).ok
  BY <1>1, WrittenIsAnswered
<1>3. outcome = on_read_done(request.bytes)
  BY <1>2 DEF CutsDontMatter, on_read_done
<1> QED BY <1>1, <1>3, WrittenIsAnswered

\* Values that are written one after the other are read back as they are, each once
\* and in order, and nothing is left, wherever the bytes are cut (RespParser.cpp:389
\* and :230, and RespGenerator.cpp): of every depth, and of any texts and numbers.
THEOREM WrittenIsAlwaysRead == CommandsSpec => []WrittenIsRead
<1>1. CommandsSpec => []CutsDontMatter
  BY CutsNeverMatter
<1> QED BY <1>1, CutsAndWritten, PTL

================================================================================
