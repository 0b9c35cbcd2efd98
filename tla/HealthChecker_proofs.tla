-------------------------- MODULE HealthChecker_proofs --------------------------
(***************************************************************************)
(* Proofs about HealthChecker, for any backends and any number of rounds:  *)
(* no entry outlives its checks, and checks that do not overlap find their *)
(* own connections.                                                        *)
(***************************************************************************)
EXTENDS HealthChecker, TLAPS

Registered == {"writing", "awaiting", "readDone", "removing"}

\* Of checks that do not overlap, each has the id of its backend to itself.
Owns(c) ==
    /\ phase[c] = "connecting" => lbClients[c[1]] = NoLbClient
    /\ phase[c] \in Registered => lbClients[c[1]] = c
    /\ phase[c] = "awaiting" => target[c] = c
    /\ phase[c] # "idle" => \A d \in Checks : d[1] = c[1] /\ phase[d] # "idle" => d = c

Serial == ~overlap => ~crashed /\ \A c \in Checks : Owns(c)

IInv == TypeOK /\ NoLeakedEntry /\ Serial

--------------------------------------------------------------------------------
LEMMA CheckShape ==
    ASSUME NEW c \in Checks
    PROVE  c[1] \in Servers /\ c[2] \in Rounds /\ c = <<c[1], c[2]>> /\ c # NoLbClient
BY NoCheckAssumption DEF Checks

LEMMA InitIInv == Init => IInv
<1> SUFFICES ASSUME Init PROVE IInv
  OBVIOUS
<1>1. TypeOK
  BY DEF Init, TypeOK, EmptyRegistry, Phases
<1>2. NoLeakedEntry
  BY DEF Init, NoLeakedEntry, EmptyRegistry
<1>3. \A c \in Checks : phase[c] = "idle"
  BY DEF Init
<1>4. Serial
  BY <1>3 DEF Init, Serial, Owns, Registered
<1> QED BY <1>1, <1>2, <1>4 DEF IInv

\* An entry whose check stays under way is not left behind.
LEMMA EntryKept ==
    ASSUME TypeOK, NoLeakedEntry, NEW c \in Checks, NEW p \in Registered,
           phase[c] \in Registered \/ lbClients[c[1]] = NoLbClient,
           phase' = [phase EXCEPT ![c] = p], lbClients' = lbClients
    PROVE  NoLeakedEntry'
<1> SUFFICES ASSUME NEW s \in Servers, lbClients[s] # NoLbClient
             PROVE  \E r \in Rounds : phase'[<<s, r>>] \in Registered
  BY DEF NoLeakedEntry, Registered
<1>1. PICK r \in Rounds : phase[<<s, r>>] \in Registered
  BY DEF NoLeakedEntry, Registered
<1>2. <<s, r>> \in Checks
  BY DEF Checks
<1> QED BY <1>1, <1>2 DEF TypeOK

LEMMA StepIInv == IInv /\ [Next]_vars => IInv'
<1> SUFFICES ASSUME IInv, [Next]_vars PROVE IInv'
  OBVIOUS
<1>t. TypeOK /\ NoLeakedEntry /\ Serial
  BY DEF IInv
<1>1. ASSUME OnTimer PROVE IInv'
  <2>1. PICK r \in Rounds :
           /\ \A s \in Servers : phase[<<s, r>>] = "idle"
           /\ phase' = [c \in Checks |-> IF c[2] = r THEN "connecting" ELSE phase[c]]
           /\ target' = [c \in Checks |-> IF c[2] = r THEN NoLbClient ELSE target[c]]
           /\ wire' = [c \in Checks |-> IF c[2] = r THEN "none" ELSE wire[c]]
    BY <1>1 DEF OnTimer
  <2>2. /\ overlap \/ \A c \in Checks : phase[c] = "idle"
        /\ UNCHANGED <<up, available, lbClients, readFailed, crashed, overlap>>
    BY <1>1 DEF OnTimer
  <2>3. TypeOK'
    BY <1>t, <2>1, <2>2 DEF TypeOK, Phases
  <2>4. NoLeakedEntry'
    <3> SUFFICES ASSUME NEW s \in Servers, lbClients[s] # NoLbClient
                 PROVE  \E q \in Rounds : phase'[<<s, q>>] \in Registered
      BY <2>2 DEF NoLeakedEntry, Registered
    <3>1. PICK q \in Rounds : phase[<<s, q>>] \in Registered
      BY <1>t DEF NoLeakedEntry, Registered
    <3>2. <<s, q>> \in Checks /\ q # r
      BY <2>1, <3>1 DEF Checks, Registered
    <3> QED BY <2>1, <3>1, <3>2
  <2>5. Serial'
    <3> SUFFICES ASSUME ~overlap PROVE ~crashed' /\ \A c \in Checks : Owns(c)'
      BY <2>2 DEF Serial
    <3>1. \A d \in Checks : phase[d] = "idle"
      BY <2>2
    <3>2. \A s \in Servers : lbClients[s] = NoLbClient
      BY <1>t, <3>1 DEF NoLeakedEntry, Checks
    <3>3. \A d \in Checks : phase'[d] = IF d[2] = r THEN "connecting" ELSE "idle"
      BY <2>1, <3>1
    <3>4. ~crashed'
      BY <1>t, <2>2 DEF Serial
    <3>5. ASSUME NEW c \in Checks PROVE Owns(c)'
      <4>1. \A d \in Checks : d[1] = c[1] /\ d[2] = c[2] => d = c
        BY DEF Checks
      <4> QED BY <2>2, <3>2, <3>3, <4>1, CheckShape DEF Owns, Registered
    <3> QED BY <3>4, <3>5
  <2> QED BY <2>3, <2>4, <2>5 DEF IInv
<1>2. ASSUME NEW c \in Checks, OnConnectFailed(c) PROVE IInv'
  <2>1. /\ phase[c] = "connecting" /\ phase' = [phase EXCEPT ![c] = "idle"]
        /\ available' = [available EXCEPT ![c[1]] = FALSE]
        /\ UNCHANGED <<up, lbClients, target, wire, readFailed, crashed, overlap>>
    BY <1>2 DEF OnConnectFailed
  <2>2. TypeOK'
    BY <1>t, <2>1 DEF TypeOK, Phases
  <2>3. NoLeakedEntry'
    <3> SUFFICES ASSUME NEW s \in Servers, lbClients[s] # NoLbClient
                 PROVE  \E r \in Rounds : phase'[<<s, r>>] \in Registered
      BY <2>1 DEF NoLeakedEntry, Registered
    <3>1. PICK r \in Rounds : phase[<<s, r>>] \in Registered
      BY <1>t DEF NoLeakedEntry, Registered
    <3>2. <<s, r>> \in Checks /\ <<s, r>> # c
      BY <2>1, <3>1 DEF Checks, Registered
    <3> QED BY <1>t, <2>1, <3>1, <3>2 DEF TypeOK
  <2>4. Serial'
    BY <1>t, <2>1 DEF TypeOK, Serial, Owns, Registered
  <2> QED BY <2>2, <2>3, <2>4 DEF IInv
<1>3. ASSUME NEW c \in Checks, OnConnectDone(c) PROVE IInv'
  <2>1. /\ phase[c] = "connecting" /\ phase' = [phase EXCEPT ![c] = "writing"]
        /\ wire' = [wire EXCEPT ![c] = "open"]
        /\ lbClients' = IF lbClients[c[1]] = NoLbClient
                        THEN [lbClients EXCEPT ![c[1]] = c] ELSE lbClients
        /\ UNCHANGED <<up, available, target, readFailed, crashed, overlap>>
    BY <1>3 DEF OnConnectDone, AddLbClient
  <2>2. TypeOK'
    BY <1>t, <2>1 DEF TypeOK, Phases
  <2>3. NoLeakedEntry'
    <3> SUFFICES ASSUME NEW s \in Servers, lbClients'[s] # NoLbClient
                 PROVE  \E r \in Rounds : phase'[<<s, r>>] \in Registered
      BY DEF NoLeakedEntry, Registered
    <3>1. CASE s = c[1]
      <4>1. phase'[c] = "writing"
        BY <1>t, <2>1 DEF TypeOK
      <4>2. c = <<s, c[2]>> /\ c[2] \in Rounds
        BY <3>1, CheckShape
      <4>3. phase'[<<s, c[2]>>] = "writing"
        BY <4>1, <4>2
      <4> QED BY <4>2, <4>3 DEF Registered
    <3>2. CASE s # c[1]
      <4>1. lbClients[s] # NoLbClient
        BY <1>t, <2>1, <3>2 DEF TypeOK
      <4>2. PICK r \in Rounds : phase[<<s, r>>] \in Registered
        BY <1>t, <4>1 DEF NoLeakedEntry, Registered
      <4>3. <<s, r>> \in Checks /\ <<s, r>> # c
        BY <3>2 DEF Checks
      <4> QED BY <1>t, <2>1, <4>2, <4>3 DEF TypeOK
    <3> QED BY <3>1, <3>2
  <2>4. Serial'
    <3> SUFFICES ASSUME ~overlap, NEW d \in Checks PROVE ~crashed' /\ Owns(d)'
      BY <2>1 DEF Serial
    <3>1. ~crashed /\ Owns(c) /\ Owns(d)
      BY <1>t DEF Serial
    <3>2. lbClients' = [lbClients EXCEPT ![c[1]] = c] /\ lbClients[c[1]] = NoLbClient
      BY <2>1, <3>1 DEF Owns
    <3>3. CASE d = c
      BY <1>t, <2>1, <3>1, <3>2, <3>3, CheckShape DEF TypeOK, Owns
    <3>4. CASE d # c
      <4>1. phase[d] # "idle" => d[1] # c[1]
        BY <2>1, <3>1, <3>4 DEF Owns
      <4> QED BY <1>t, <2>1, <3>1, <3>2, <3>4, <4>1, CheckShape DEF TypeOK, Owns, Registered
    <3> QED BY <3>3, <3>4
  <2> QED BY <2>2, <2>3, <2>4 DEF IInv
<1>4. ASSUME NEW c \in Checks, OnServerWriteDone(c) PROVE IInv'
  <2>1. /\ phase[c] = "writing" /\ phase' = [phase EXCEPT ![c] = "awaiting"]
        /\ lbClients[c[1]] # NoLbClient
        /\ target' = [target EXCEPT ![c] = lbClients[c[1]]]
        /\ UNCHANGED <<up, available, lbClients, wire, readFailed, crashed, overlap>>
    BY <1>4 DEF OnServerWriteDone, GetLbClient
  <2>2. TypeOK'
    BY <1>t, <2>1, CheckShape DEF TypeOK, Phases
  <2>3. NoLeakedEntry'
    BY <1>t, <2>1, EntryKept DEF Registered
  <2>4. Serial'
    BY <1>t, <2>1 DEF TypeOK, Serial, Owns, Registered
  <2> QED BY <2>2, <2>3, <2>4 DEF IInv
<1>5. ASSUME NEW c \in Checks, OnServerWriteOrphan(c) PROVE IInv'
  <2>1. /\ phase[c] = "writing" /\ lbClients[c[1]] = NoLbClient /\ crashed' = TRUE
        /\ UNCHANGED <<up, available, lbClients, phase, target, wire, readFailed, overlap>>
    BY <1>5 DEF OnServerWriteOrphan, GetLbClient
  <2>2. TypeOK' /\ NoLeakedEntry'
    BY <1>t, <2>1 DEF TypeOK, NoLeakedEntry
  <2>3. overlap
    BY <1>t, <2>1, CheckShape DEF Serial, Owns, Registered
  <2> QED BY <2>1, <2>2, <2>3 DEF IInv, Serial
<1>6. ASSUME NEW c \in Checks, ReadCompletes(c) PROVE IInv'
  <2>1. /\ phase[c] = "awaiting" /\ phase' = [phase EXCEPT ![c] = "readDone"]
        /\ UNCHANGED <<up, available, lbClients, target, crashed, overlap>>
        /\ \/ wire' = [wire EXCEPT ![target[c]] = "drained"] \/ wire' = wire
        /\ \E failed \in BOOLEAN : readFailed' = [readFailed EXCEPT ![c] = failed]
    BY <1>6 DEF ReadCompletes
  <2>2. TypeOK'
    BY <1>t, <2>1 DEF TypeOK, Phases
  <2>3. NoLeakedEntry'
    BY <1>t, <2>1, EntryKept DEF Registered
  <2>4. Serial'
    BY <1>t, <2>1 DEF TypeOK, Serial, Owns, Registered
  <2> QED BY <2>2, <2>3, <2>4 DEF IInv
<1>7. ASSUME NEW c \in Checks, OnServerReadDone(c) PROVE IInv'
  <2>1. /\ phase[c] = "readDone"
        /\ UNCHANGED <<up, lbClients, target, wire, readFailed, crashed, overlap>>
    BY <1>7 DEF OnServerReadDone
  <2>2. CASE /\ lbClients[c[1]] # NoLbClient
             /\ available' = [available EXCEPT ![lbClients[c[1]][1]] = ~readFailed[c]]
             /\ phase' = [phase EXCEPT ![c] = "removing"]
    <3>1. TypeOK'
      BY <1>t, <2>1, <2>2 DEF TypeOK, Phases
    <3>2. NoLeakedEntry'
      BY <1>t, <2>1, <2>2, EntryKept DEF Registered
    <3>3. Serial'
      BY <1>t, <2>1, <2>2 DEF TypeOK, Serial, Owns, Registered
    <3> QED BY <3>1, <3>2, <3>3 DEF IInv
  <2>3. CASE /\ lbClients[c[1]] = NoLbClient
             /\ available' = available
             /\ phase' = [phase EXCEPT ![c] = "idle"]
    <3>1. TypeOK'
      BY <1>t, <2>1, <2>3 DEF TypeOK, Phases
    <3>2. NoLeakedEntry'
      <4> SUFFICES ASSUME NEW s \in Servers, lbClients[s] # NoLbClient
                   PROVE  \E r \in Rounds : phase'[<<s, r>>] \in Registered
        BY <2>1 DEF NoLeakedEntry, Registered
      <4>1. PICK r \in Rounds : phase[<<s, r>>] \in Registered
        BY <1>t DEF NoLeakedEntry, Registered
      <4>2. <<s, r>> \in Checks /\ <<s, r>> # c
        BY <2>3 DEF Checks
      <4> QED BY <1>t, <2>3, <4>1, <4>2 DEF TypeOK
    <3>3. Serial'
      BY <1>t, <2>1, <2>3 DEF TypeOK, Serial, Owns, Registered
    <3> QED BY <3>1, <3>2, <3>3 DEF IInv
  <2> QED BY <1>7, <2>2, <2>3 DEF OnServerReadDone, GetLbClient
<1>8. ASSUME NEW c \in Checks, OnServerReadRemove(c) PROVE IInv'
  <2>1. /\ phase[c] = "removing" /\ phase' = [phase EXCEPT ![c] = "idle"]
        /\ lbClients' = [lbClients EXCEPT ![c[1]] = NoLbClient]
        /\ UNCHANGED <<up, available, target, wire, readFailed, crashed, overlap>>
    BY <1>8 DEF OnServerReadRemove, RemoveLbClient
  <2>2. TypeOK'
    BY <1>t, <2>1 DEF TypeOK, Phases
  <2>3. NoLeakedEntry'
    <3> SUFFICES ASSUME NEW s \in Servers, lbClients'[s] # NoLbClient
                 PROVE  \E r \in Rounds : phase'[<<s, r>>] \in Registered
      BY DEF NoLeakedEntry, Registered
    <3>1. s # c[1] /\ lbClients[s] # NoLbClient
      BY <1>t, <2>1 DEF TypeOK
    <3>2. PICK r \in Rounds : phase[<<s, r>>] \in Registered
      BY <1>t, <3>1 DEF NoLeakedEntry, Registered
    <3>3. <<s, r>> \in Checks /\ <<s, r>> # c
      BY <3>1 DEF Checks
    <3> QED BY <1>t, <2>1, <3>2, <3>3 DEF TypeOK
  <2>4. Serial'
    <3> SUFFICES ASSUME ~overlap, NEW d \in Checks PROVE ~crashed' /\ Owns(d)'
      BY <2>1 DEF Serial
    <3>1. ~crashed /\ Owns(c) /\ Owns(d)
      BY <1>t DEF Serial
    <3>2. CASE d = c
      BY <1>t, <2>1, <3>1, <3>2 DEF TypeOK, Owns, Registered
    <3>3. CASE d # c
      <4>1. phase[d] # "idle" => d[1] # c[1]
        BY <2>1, <3>1, <3>3 DEF Owns
      <4> QED BY <1>t, <2>1, <3>1, <3>3, <4>1, CheckShape DEF TypeOK, Owns, Registered
    <3> QED BY <3>2, <3>3
  <2> QED BY <2>2, <2>3, <2>4 DEF IInv
<1>9. ASSUME NEW c \in Checks, Backend(c) PROVE IInv'
  <2>1. /\ UNCHANGED <<up, available, lbClients, phase, target, readFailed, crashed, overlap>>
        /\ \E w \in {"reply", "eof", "finished"} : wire' = [wire EXCEPT ![c] = w]
    BY <1>9 DEF Backend, BackendReplies, BackendCloses
  <2> QED BY <1>t, <2>1 DEF IInv, TypeOK, NoLeakedEntry, Serial, Owns
<1>10. ASSUME NEW s \in Servers, BackendFlips(s) PROVE IInv'
  BY <1>t, <1>10 DEF BackendFlips, IInv, TypeOK, NoLeakedEntry, Serial, Owns
<1>11. CASE UNCHANGED vars
  BY <1>t, <1>11 DEF vars, IInv, TypeOK, NoLeakedEntry, Serial, Owns
<1> QED BY <1>1, <1>2, <1>3, <1>4, <1>5, <1>6, <1>7, <1>8, <1>9, <1>10, <1>11
         DEF Next, Handler

--------------------------------------------------------------------------------
LEMMA Inductive == Spec => []IInv
BY InitIInv, StepIInv, PTL DEF Spec

\* Every variable of the health checker keeps its type; a read that is under way has
\* an LbClient that it was started on (HealthChecker.cpp:100-122).
THEOREM HealthTypeCorrect == Spec => []TypeOK
<1>1. IInv => TypeOK
  BY DEF IInv
<1> QED BY <1>1, Inductive, PTL

\* However rounds of checks overlap, the registry holds an LbClient for a backend
\* only while some check of that backend is under way (HealthChecker.cpp:65-148).
THEOREM NoEntryLeaks == Spec => []NoLeakedEntry
<1>1. IInv => NoLeakedEntry
  BY DEF IInv
<1> QED BY <1>1, Inductive, PTL

\* When every round ends before the next, each write handler finds the LbClient of
\* its own check, and none goes through a null LbClientPtr (HealthChecker.cpp:100-122).
THEOREM SerialRoundsFind == Spec => []FoundWhenSerial
<1>1. IInv => FoundWhenSerial
  BY DEF IInv, Serial, Owns, FoundWhenSerial, Registered
<1> QED BY <1>1, Inductive, PTL

================================================================================
