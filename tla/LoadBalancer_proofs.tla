-------------------------- MODULE LoadBalancer_proofs --------------------------
(***************************************************************************)
(* Proofs about LoadBalancer for every set of users and number of          *)
(* backends: type correctness; that the balancer serves every request      *)
(* that shares its backend with no other; whose reply a user may get, how  *)
(* often it is written to, and which failures leave an entry behind.       *)
(***************************************************************************)
EXTENDS LoadBalancer, TLAPS

\* The backend of a request that has one, and the LbClient that it reads from.
Chosen ==
    \A u \in Users :
       /\ phase[u] = "connecting" \/ UsesBackend(u) => server[u] \in Servers
       /\ phase[u] \in {"awaiting", "readDone", "removing"} => target[u] \in Users

\* The typed part of the state that a write to a user changes.
UsersTyped ==
    /\ users \subseteq Users
    /\ toUser \in [Users -> Nat]
    /\ writeBuffer \in [Users -> Payload]
    /\ sent \in [Users -> Seq(Payload)]

LEMMA PayloadsTyped ==
    /\ Unavailable \in Payload /\ Internal \in Payload
    /\ ErrorText \in Payload /\ Blank \in Payload
    /\ \A u \in Users : Reply(u) \in Payload
  BY DEF Payload

LEMMA WriteTyped ==
    ASSUME UsersTyped, NEW u \in Users, NEW p \in Payload,
           WriteToUser(u, p) \/ WriteToUserIfKnown(u, p)
    PROVE  UsersTyped'
<1>1. CASE WriteToUser(u, p)
  BY <1>1 DEF UsersTyped, WriteToUser
<1>2. CASE UNCHANGED userVars
  BY <1>2 DEF UsersTyped, userVars
<1> QED BY <1>1, <1>2 DEF WriteToUserIfKnown

LEMMA ReadTyped ==
    ASSUME TypeOK, Chosen, NEW u \in Users, phase[u] = "writing",
           ReadFromRegistered(u)
    PROVE  /\ phase' \in [Users -> Phases]
           /\ target' \in [Users -> Users \cup {NoLbClient}]
           /\ readBuffer' \in [Users -> Payload]
           /\ \A v \in Users : v # u => phase'[v] = phase[v] /\ target'[v] = target[v]
           /\ phase'[u] = "ended" \/ (phase'[u] = "awaiting" /\ target'[u] \in Users)
<1>1. lbClients[server[u]] \in Users \cup {NoLbClient}
  BY DEF TypeOK, Chosen, UsesBackend
<1>2. CASE lbClients[server[u]] = NoLbClient
  <2>1. /\ phase' = [phase EXCEPT ![u] = "ended"]
        /\ target' = target /\ readBuffer' = readBuffer
    BY <1>2 DEF ReadFromRegistered, GetLbClient
  <2> QED BY <2>1 DEF TypeOK, Phases
<1>3. CASE lbClients[server[u]] # NoLbClient
  <2>1. PICK t \in Users : t = lbClients[server[u]]
    BY <1>1, <1>3
  <2>2. /\ phase' = [phase EXCEPT ![u] = "awaiting"]
        /\ target' = [target EXCEPT ![u] = t]
        /\ readBuffer' = [readBuffer EXCEPT ![t] = Blank]
    BY <1>3, <2>1 DEF ReadFromRegistered, GetLbClient
  <2>3. readBuffer' \in [Users -> Payload]
    BY <2>2, PayloadsTyped DEF TypeOK
  <2> QED BY <2>2, <2>3 DEF TypeOK, Phases
<1> QED BY <1>2, <1>3

LEMMA NextAvailableTyped ==
    ASSUME TypeOK, NEW s, IsNextAvailable(last, available, s)
    PROVE  s \in Servers
  BY NServersAssumption DEF TypeOK, IsNextAvailable, After, Servers

LEMMA TypeStep == TypeOK /\ Chosen /\ [Next]_vars => TypeOK' /\ Chosen'
<1> SUFFICES ASSUME TypeOK, Chosen, [Next]_vars PROVE TypeOK' /\ Chosen'
  OBVIOUS
<1>t. UsersTyped
  BY DEF TypeOK, UsersTyped
<1> USE DEF TypeOK, Chosen, UsesBackend, Phases, requestVars, socketVars,
            healthVars
<1>1. ASSUME NEW u \in Users, NEW error \in BOOLEAN, HandleAccept(u, error)
      PROVE  TypeOK' /\ Chosen'
  <2>1. /\ UNCHANGED <<lbClients, server, target, wire, readBuffer, readFailed>>
        /\ UNCHANGED <<toUser, writeBuffer, sent, available, last>>
    BY <1>1 DEF HandleAccept
  <2>2. /\ phase' \in [Users -> Phases]
        /\ users' \subseteq Users
        /\ \A v \in Users : phase'[v] # phase[v]
              => phase'[v] \in {"ended", "reading", "accepting"}
    <3>1. PICK next \in {"ended", "reading"} :
             \/ phase' = [phase EXCEPT ![u] = next] /\ users' \subseteq users
             \/ \E v \in Unborn : /\ phase' = [phase EXCEPT ![u] = next, ![v] = "accepting"]
                                  /\ users' \subseteq users \cup {v}
      BY <1>1 DEF HandleAccept
    <3>2. users \subseteq Users /\ phase \in [Users -> Phases] /\ next \in Phases
      OBVIOUS
    <3>3. CASE phase' = [phase EXCEPT ![u] = next] /\ users' \subseteq users
      BY <3>2, <3>3
    <3>4. CASE \E v \in Unborn : /\ phase' = [phase EXCEPT ![u] = next, ![v] = "accepting"]
                                 /\ users' \subseteq users \cup {v}
      <4>1. PICK v \in Users : /\ phase' = [phase EXCEPT ![u] = next, ![v] = "accepting"]
                               /\ users' \subseteq users \cup {v}
        BY <3>4 DEF Unborn
      <4>2. "accepting" \in Phases
        OBVIOUS
      <4> HIDE DEF Phases
      <4>3. phase' \in [Users -> Phases]
        BY <3>2, <4>1, <4>2
      <4>4. \A w \in Users : phase'[w] # phase[w] => phase'[w] \in {next, "accepting"}
        BY <3>2, <4>1
      <4> QED BY <3>1, <3>2, <4>1, <4>3, <4>4
    <3> QED BY <3>1, <3>3, <3>4
  <2>3. TypeOK'
    BY <2>1, <2>2 DEF TypeOK
  <2>4. Chosen'
    BY <2>1, <2>2 DEF Chosen, UsesBackend
  <2> QED BY <2>3, <2>4
<1>2. ASSUME NEW u \in Users, OnClientReadFailed(u)
      PROVE  TypeOK' /\ Chosen'
  BY <1>2 DEF OnClientReadFailed, RemoveUser
<1>3. ASSUME NEW u \in Users, OnClientReadNoServer(u)
      PROVE  TypeOK' /\ Chosen'
  <2>1. UsersTyped'
    BY <1>t, <1>3, WriteTyped, PayloadsTyped DEF OnClientReadNoServer
  <2> QED BY <1>3, <2>1 DEF OnClientReadNoServer, UsersTyped
<1>4. ASSUME NEW u \in Users, OnClientReadDone(u)
      PROVE  TypeOK' /\ Chosen'
  BY <1>4, NextAvailableTyped DEF OnClientReadDone, userVars
<1>5. ASSUME NEW u \in Users, OnConnectFailed(u)
      PROVE  TypeOK' /\ Chosen'
  <2>1. UsersTyped'
    BY <1>t, <1>5, WriteTyped, PayloadsTyped DEF OnConnectFailed
  <2> QED BY <1>5, <2>1 DEF OnConnectFailed, UsersTyped
<1>6. ASSUME NEW u \in Users, OnConnectDone(u)
      PROVE  TypeOK' /\ Chosen'
  BY <1>6 DEF OnConnectDone, AddLbClient, userVars
<1>7. ASSUME NEW u \in Users, OnServerWriteDone(u)
      PROVE  TypeOK' /\ Chosen'
  BY <1>7, ReadTyped DEF OnServerWriteDone, userVars
<1>8. ASSUME NEW u \in Users, OnServerWriteFailed(u)
      PROVE  TypeOK' /\ Chosen'
  <2>1. CASE u \notin users
    BY <1>8, <2>1 DEF OnServerWriteFailed, userVars
  <2>2. CASE u \in users
    <3>1. UsersTyped'
      BY <1>t, <1>8, <2>2, WriteTyped, PayloadsTyped DEF OnServerWriteFailed
    <3> QED BY <1>8, <2>2, <3>1, ReadTyped DEF OnServerWriteFailed, UsersTyped
  <2> QED BY <2>1, <2>2
<1>9. ASSUME NEW u \in Users, ReadCompletes(u)
      PROVE  TypeOK' /\ Chosen'
  <2>1. target[u] \in Users
    BY <1>9 DEF ReadCompletes
  <2>2. CASE wire[target[u]] = "reply"
    <3>1. readBuffer' = [readBuffer EXCEPT ![target[u]] = Reply(target[u])]
      BY <1>9, <2>2 DEF ReadCompletes
    <3>2. readBuffer' \in [Users -> Payload]
      BY <2>1, <3>1, PayloadsTyped
    <3> QED BY <1>9, <2>1, <2>2, <3>2 DEF ReadCompletes, userVars
  <2>3. CASE wire[target[u]] # "reply"
    BY <1>9, <2>1, <2>3 DEF ReadCompletes, userVars
  <2> QED BY <2>2, <2>3
<1>10. ASSUME NEW u \in Users, OnServerReadUserGone(u)
       PROVE  TypeOK' /\ Chosen'
  BY <1>10 DEF OnServerReadUserGone, userVars
<1>11. ASSUME NEW u \in Users, OnServerReadDone(u)
       PROVE  TypeOK' /\ Chosen'
  <2>1. UsersTyped'
    BY <1>t, <1>11, WriteTyped, PayloadsTyped DEF OnServerReadDone
  <2> QED BY <1>11, <2>1 DEF OnServerReadDone, UsersTyped
<1>12. ASSUME NEW u \in Users, OnServerReadRemove(u)
       PROVE  TypeOK' /\ Chosen'
  BY <1>12 DEF OnServerReadRemove, RemoveLbClient, userVars
<1>13. ASSUME NEW u \in Users, OnClientWriteDone(u)
       PROVE  TypeOK' /\ Chosen'
  BY <1>13 DEF OnClientWriteDone
<1>14. ASSUME NEW u \in Users, Backend(u)
       PROVE  TypeOK' /\ Chosen'
  BY <1>14 DEF Backend, BackendReplies, BackendCloses, userVars
<1>15. ASSUME NEW s \in Servers, NEW healthy \in BOOLEAN, HealthVerdict(s, healthy)
       PROVE  TypeOK' /\ Chosen'
  BY <1>15 DEF HealthVerdict, userVars
<1>16. CASE UNCHANGED vars
  BY <1>16 DEF vars, userVars
<1> QED
  BY <1>1, <1>2, <1>3, <1>4, <1>5, <1>6, <1>7, <1>8, <1>9, <1>10, <1>11, <1>12,
     <1>13, <1>14, <1>15, <1>16 DEF Next, Handler

LEMMA TypeInit == Init => TypeOK /\ Chosen
<1> SUFFICES ASSUME Init PROVE TypeOK /\ Chosen
  OBVIOUS
<1>1. TypeOK
  BY NServersAssumption, PayloadsTyped
  DEF Init, TypeOK, Phases, Servers, EmptyRegistry
<1>2. Chosen
  BY DEF Init, Chosen, UsesBackend
<1> QED BY <1>1, <1>2

\* Type correctness: every field of every UserClient and LbClient, the registry
\* and the health checker's cursor keep their types (TypeOK).
THEOREM TypeCorrect == Spec => []TypeOK
<1>1. Spec => [](TypeOK /\ Chosen)
  BY TypeInit, TypeStep, PTL DEF Spec
<1> QED BY <1>1, PTL

--------------------------------------------------------------------------------
\* Before its connect callback, a request has not used its connection and nothing
\* was written to its user.
Fresh ==
    \A u \in Users :
       /\ phase[u] \in {"new", "accepting", "reading"} => server[u] = NoServer
       /\ phase[u] \in {"new", "accepting", "reading", "connecting"}
          => wire[u] = "none" /\ toUser[u] = 0 /\ sent[u] = <<>>
       /\ phase[u] \in {"accepting", "reading"} => u \in users

\* A read is always started on a connection to the request's own backend.
SameServer ==
    \A u \in Users :
       phase[u] \in {"awaiting", "readDone", "removing"}
       => server[target[u]] = server[u]

\* What holds of a request whose backend was chosen for no other request, at
\* every point of its way.
Served(u) ==
    /\ phase[u] = "writing" => lbClients[server[u]] = u
    /\ wire[u] \in {"drained", "finished"} => phase[u] \in {"readDone", "removing", "ended"}
    /\ phase[u] = "readDone" => \/ readFailed[u] /\ wire[u] = "eof"
                                \/ ~readFailed[u] /\ readBuffer[u] = Reply(u)
    /\ Answers(u) \subseteq {Reply(u), Unavailable} \/ wire[u] = "eof"
    /\ phase[u] \in {"removing", "ended"} => sent[u] # <<>> \/ toUser[u] > 0

AloneServed == \A u \in Users : server[u] # NoServer /\ Alone(u) => Served(u)

IInv ==
    /\ TypeOK
    /\ Chosen
    /\ Fresh
    /\ RegistryMatchesServer
    /\ SameServer
    /\ UserKeptUntilAnswered
    /\ AloneServed

\* What a step does to the payloads that users were sent or are being sent.
LEMMA AnswersWrite ==
    ASSUME TypeOK, NEW u \in Users, NEW p, WriteToUser(u, p)
    PROVE  /\ toUser'[u] > 0
           /\ Answers(u)' \subseteq Answers(u) \cup {p}
           /\ \A v \in Users : v # u => /\ Answers(v)' = Answers(v)
                                        /\ toUser'[v] = toUser[v]
  BY DEF TypeOK, WriteToUser, Answers

LEMMA AnswersSame ==
    ASSUME UNCHANGED <<toUser, writeBuffer, sent>>
    PROVE  \A v \in Users : Answers(v)' = Answers(v)
  BY DEF Answers

LEMMA AnswersDone ==
    ASSUME TypeOK, NEW u \in Users, OnClientWriteDone(u)
    PROVE  /\ sent'[u] # <<>>
           /\ \A v \in Users : /\ Answers(v)' \subseteq Answers(v)
                               /\ v # u => sent'[v] = sent[v] /\ toUser'[v] = toUser[v]
<1>1. sent'[u] = Append(sent[u], writeBuffer[u]) /\ writeBuffer[u] \in Answers(u)
  BY DEF TypeOK, OnClientWriteDone, Answers
<1>2. sent[u] \in Seq(Payload) /\ writeBuffer[u] \in Payload
  BY DEF TypeOK
<1>3. {sent'[u][i] : i \in DOMAIN sent'[u]} \subseteq Answers(u)
  BY <1>1, <1>2 DEF Answers
<1>4. Answers(u)' \subseteq Answers(u)
  BY <1>1, <1>3 DEF Answers, OnClientWriteDone
<1>5. \A v \in Users : v # u => /\ sent'[v] = sent[v]
                                /\ toUser'[v] = toUser[v]
                                /\ Answers(v)' = Answers(v)
  BY DEF TypeOK, OnClientWriteDone, Answers
<1>6. sent'[u] # <<>>
  BY <1>1, <1>2
<1> QED BY <1>4, <1>5, <1>6

LEMMA AloneSame ==
    ASSUME server' = server
    PROVE  \A v \in Users : Alone(v)' <=> Alone(v)
  BY DEF Alone

\* The parts of IInv, apart from the types, that the steps of a request preserve.
Parts == Fresh /\ RegistryMatchesServer /\ SameServer /\ UserKeptUntilAnswered

\* A step that leaves the choice of backends alone preserves AloneServed when it
\* preserves Served for every request that has a backend to itself.
LEMMA AloneStep ==
    ASSUME AloneServed, server' = server,
           \A v \in Users : server[v] # NoServer /\ Alone(v) /\ Served(v) => Served(v)'
    PROVE  AloneServed'
  BY AloneSame DEF AloneServed

\* on_server_write_done reads from a connection to the request's own backend, and
\* from its own connection if it has the backend to itself.
LEMMA ReadsOwnBackend ==
    ASSUME IInv, NEW u \in Users, phase[u] = "writing", ReadFromRegistered(u)
    PROVE  /\ phase' \in [Users -> Phases]
           /\ \A v \in Users : v # u => phase'[v] = phase[v] /\ target'[v] = target[v]
           /\ \/ phase'[u] = "ended" /\ readBuffer' = readBuffer /\ ~Alone(u)
              \/ /\ phase'[u] = "awaiting"
                 /\ target'[u] \in Users
                 /\ server[target'[u]] = server[u]
                 /\ wire[target'[u]] # "none"
                 /\ \A v \in Users : v # target'[u] => readBuffer'[v] = readBuffer[v]
<1>1. server[u] \in Servers /\ server[u] # NoServer
  BY DEF IInv, Chosen, UsesBackend, Servers, NoServer
<1>2. lbClients[server[u]] \in Users \cup {NoLbClient}
  BY <1>1 DEF IInv, TypeOK
<1>3. /\ phase' \in [Users -> Phases]
      /\ \A v \in Users : v # u => phase'[v] = phase[v] /\ target'[v] = target[v]
  BY ReadTyped DEF IInv
<1>4. CASE lbClients[server[u]] = NoLbClient
  <2>1. phase'[u] = "ended" /\ readBuffer' = readBuffer
    BY <1>4 DEF ReadFromRegistered, GetLbClient, IInv, TypeOK
  <2>2. ~Alone(u)
    BY <1>1, <1>4, NoLbClientAssumption DEF IInv, AloneServed, Served
  <2> QED BY <1>3, <2>1, <2>2
<1>5. CASE lbClients[server[u]] # NoLbClient
  <2>1. PICK t \in Users : t = lbClients[server[u]]
    BY <1>2, <1>5
  <2>2. /\ phase'[u] = "awaiting"
        /\ target'[u] = t
        /\ \A v \in Users : v # t => readBuffer'[v] = readBuffer[v]
    BY <1>5, <2>1 DEF ReadFromRegistered, GetLbClient, IInv, TypeOK
  <2>3. server[t] = server[u] /\ wire[t] # "none"
    BY <1>1, <1>5, <2>1 DEF IInv, RegistryMatchesServer
  <2> QED BY <1>3, <2>2, <2>3
<1> QED BY <1>4, <1>5

LEMMA InitIInv == Init => IInv
<1> SUFFICES ASSUME Init PROVE IInv
  OBVIOUS
<1>1. TypeOK /\ Chosen
  BY TypeInit
<1>2. Parts /\ AloneServed
  BY DEF Init, Parts, Fresh, RegistryMatchesServer, SameServer, EmptyRegistry,
         UserKeptUntilAnswered, UsesBackend, AloneServed
<1> QED BY <1>1, <1>2 DEF IInv, Parts

LEMMA StepIInv == IInv /\ [Next]_vars => IInv'
<1> SUFFICES ASSUME IInv, [Next]_vars PROVE Parts' /\ AloneServed'
  BY TypeStep DEF IInv, Parts
<1>t. TypeOK /\ Chosen /\ Fresh /\ RegistryMatchesServer /\ SameServer
      /\ UserKeptUntilAnswered /\ AloneServed
  BY DEF IInv
<1> USE DEF requestVars, socketVars, healthVars
<1>1. ASSUME NEW u \in Users, NEW error \in BOOLEAN, HandleAccept(u, error)
      PROVE  Parts' /\ AloneServed'
  <2>1. Parts'
    <3> USE <1>t, <1>1 DEF HandleAccept, Unborn, TypeOK
    <3>1. Fresh'
      BY DEF Fresh
    <3>2. RegistryMatchesServer'
      BY DEF RegistryMatchesServer
    <3>3. SameServer'
      BY DEF SameServer
    <3>4. UserKeptUntilAnswered'
      BY DEF UserKeptUntilAnswered, UsesBackend
    <3> QED BY <3>1, <3>2, <3>3, <3>4 DEF Parts
  <2>2. \A v \in Users : server[v] # NoServer => phase'[v] = phase[v]
    BY <1>t, <1>1 DEF HandleAccept, Unborn, TypeOK, Fresh
  <2>3. AloneServed'
    BY <1>t, <1>1, <2>2, AloneStep, AnswersSame DEF HandleAccept, Served
  <2> QED BY <2>1, <2>3
<1>2. ASSUME NEW u \in Users, OnClientReadFailed(u)
      PROVE  Parts' /\ AloneServed'
  <2>1. Parts'
    BY <1>t, <1>2 DEF Parts, OnClientReadFailed, RemoveUser, TypeOK, Fresh, SameServer,
       RegistryMatchesServer, UserKeptUntilAnswered, UsesBackend
  <2>2. \A v \in Users : server[v] # NoServer => phase'[v] = phase[v]
    BY <1>t, <1>2 DEF OnClientReadFailed, TypeOK, Fresh
  <2>3. AloneServed'
    BY <1>t, <1>2, <2>2, AloneStep, AnswersSame DEF OnClientReadFailed, RemoveUser, Served
  <2> QED BY <2>1, <2>3
<1>3. ASSUME NEW u \in Users, OnClientReadNoServer(u)
      PROVE  Parts' /\ AloneServed'
  <2>1. WriteToUser(u, Unavailable)
    BY <1>t, <1>3 DEF OnClientReadNoServer, WriteToUserIfKnown, Fresh
  <2>2. Parts'
    BY <1>t, <1>3, <2>1 DEF Parts, OnClientReadNoServer, WriteToUser, TypeOK, Fresh,
       SameServer, RegistryMatchesServer, UserKeptUntilAnswered, UsesBackend
  <2>3. server[u] = NoServer
    BY <1>t, <1>3 DEF OnClientReadNoServer, Fresh
  <2>4. ASSUME NEW v \in Users, server[v] # NoServer, Served(v)
        PROVE  Served(v)'
    <3>1. v # u
      BY <2>3, <2>4
    <3>2. Answers(v)' = Answers(v) /\ toUser'[v] = toUser[v]
      BY <1>t, <2>1, <3>1, AnswersWrite
    <3>3. phase'[v] = phase[v] /\ sent' = sent
          /\ UNCHANGED <<lbClients, server, wire, readBuffer, readFailed>>
      BY <1>t, <1>3, <2>1, <3>1 DEF OnClientReadNoServer, WriteToUser, TypeOK
    <3> QED BY <2>4, <3>2, <3>3 DEF Served
  <2>5. AloneServed'
    BY <1>t, <1>3, <2>4, AloneStep DEF OnClientReadNoServer
  <2> QED BY <2>2, <2>5
<1>4. ASSUME NEW u \in Users, OnClientReadDone(u)
      PROVE  Parts' /\ AloneServed'
  <2>1. PICK s \in Servers : server' = [server EXCEPT ![u] = s]
    BY <1>4 DEF OnClientReadDone
  <2>2. server[u] = NoServer /\ wire[u] = "none" /\ toUser[u] = 0 /\ sent[u] = <<>>
    BY <1>t, <1>4 DEF OnClientReadDone, Fresh
  <2>3. Parts'
    <3> USE <1>t, <1>4, <2>1, <2>2 DEF OnClientReadDone, userVars, TypeOK
    <3>1. Fresh'
      BY DEF Fresh
    <3>2. RegistryMatchesServer'
      BY DEF RegistryMatchesServer
    <3>3. SameServer'
      BY DEF SameServer, Chosen, UsesBackend, Servers, NoServer
    <3>4. UserKeptUntilAnswered'
      BY DEF UserKeptUntilAnswered, UsesBackend, Fresh
    <3> QED BY <3>1, <3>2, <3>3, <3>4 DEF Parts
  <2>4. ASSUME NEW v \in Users, v # u, server'[v] # NoServer, Alone(v)'
        PROVE  Served(v)'
    <3>1. server[v] # NoServer /\ Alone(v)
      BY <1>t, <2>1, <2>2, <2>4 DEF TypeOK, Alone
    <3>2. Served(v)
      BY <1>t, <3>1 DEF AloneServed
    <3> QED BY <1>t, <1>4, <2>1, <2>4, <3>2, AnswersSame
            DEF OnClientReadDone, userVars, TypeOK, Served
  <2>5. Served(u)'
    <3>1. Answers(u)' = {}
      BY <1>4, <2>2 DEF OnClientReadDone, userVars, Answers
    <3> QED BY <1>t, <1>4, <2>2, <3>1 DEF OnClientReadDone, TypeOK, Served
  <2> QED BY <2>3, <2>4, <2>5 DEF AloneServed
<1>5. ASSUME NEW u \in Users, OnConnectFailed(u)
      PROVE  Parts' /\ AloneServed'
  <2>1. WriteToUser(u, Unavailable)
    BY <1>t, <1>5 DEF OnConnectFailed, WriteToUserIfKnown, Fresh, UserKeptUntilAnswered
  <2>2. Parts'
    BY <1>t, <1>5, <2>1 DEF Parts, OnConnectFailed, WriteToUser, TypeOK, Fresh,
       SameServer, RegistryMatchesServer, UserKeptUntilAnswered, UsesBackend
  <2>3. wire[u] = "none"
    BY <1>t, <1>5 DEF OnConnectFailed, Fresh
  <2>4. ASSUME NEW v \in Users, Served(v)
        PROVE  Served(v)'
    <3>1. CASE v = u
      <4>1. Answers(u)' \subseteq Answers(u) \cup {Unavailable} /\ toUser'[u] > 0
        BY <1>t, <2>1, AnswersWrite
      <4>2. phase'[u] = "ended" /\ wire' = wire
        BY <1>t, <1>5 DEF OnConnectFailed, TypeOK
      <4> QED BY <2>3, <2>4, <3>1, <4>1, <4>2 DEF Served
    <3>2. CASE v # u
      <4>1. Answers(v)' = Answers(v) /\ toUser'[v] = toUser[v]
        BY <1>t, <2>1, <3>2, AnswersWrite
      <4>2. phase'[v] = phase[v] /\ sent' = sent
            /\ UNCHANGED <<lbClients, server, wire, readBuffer, readFailed>>
        BY <1>t, <1>5, <2>1, <3>2 DEF OnConnectFailed, WriteToUser, TypeOK
      <4> QED BY <2>4, <4>1, <4>2 DEF Served
    <3> QED BY <3>1, <3>2
  <2>5. AloneServed'
    BY <1>t, <1>5, <2>4, AloneStep DEF OnConnectFailed
  <2> QED BY <2>2, <2>5
<1>6. ASSUME NEW u \in Users, OnConnectDone(u)
      PROVE  Parts' /\ AloneServed'
  <2>1. server[u] \in Servers /\ wire[u] = "none"
    BY <1>t, <1>6 DEF OnConnectDone, Chosen, Fresh
  <2>2. Parts'
    BY <1>t, <1>6, <2>1 DEF Parts, OnConnectDone, AddLbClient, userVars, TypeOK, Fresh,
       SameServer, RegistryMatchesServer, UserKeptUntilAnswered, UsesBackend
  <2>3. ASSUME NEW v \in Users, server[v] # NoServer, Alone(v), Served(v)
        PROVE  Served(v)'
    <3>1. CASE v = u
      <4>1. lbClients[server[u]] = NoLbClient
        BY <1>t, <2>1, <2>3, <3>1 DEF RegistryMatchesServer, TypeOK, Alone
      <4> QED BY <1>t, <1>6, <2>1, <2>3, <3>1, <4>1, AnswersSame
              DEF OnConnectDone, AddLbClient, userVars, TypeOK, Served
    <3>2. CASE v # u
      BY <1>t, <1>6, <2>1, <2>3, <3>2, AnswersSame
      DEF OnConnectDone, AddLbClient, userVars, TypeOK, Served, Alone
    <3> QED BY <3>1, <3>2
  <2>4. AloneServed'
    BY <1>t, <1>6, <2>3, AloneStep DEF OnConnectDone
  <2> QED BY <2>2, <2>4
<1>7. ASSUME NEW u \in Users, OnServerWriteDone(u)
      PROVE  Parts' /\ AloneServed'
  <2>1. phase[u] = "writing" /\ ReadFromRegistered(u) /\ server' = server
        /\ UNCHANGED <<wire, users, toUser, writeBuffer, sent, lbClients, readFailed>>
    BY <1>7 DEF OnServerWriteDone, userVars
  <2>2. /\ phase' \in [Users -> Phases]
        /\ \A v \in Users : v # u => phase'[v] = phase[v] /\ target'[v] = target[v]
        /\ \/ phase'[u] = "ended" /\ readBuffer' = readBuffer /\ ~Alone(u)
           \/ /\ phase'[u] = "awaiting"
              /\ target'[u] \in Users
              /\ server[target'[u]] = server[u]
              /\ wire[target'[u]] # "none"
              /\ \A v \in Users : v # target'[u] => readBuffer'[v] = readBuffer[v]
    BY <2>1, ReadsOwnBackend
  <2>3. Parts'
    <3>1. Fresh'
      BY <1>t, <2>1, <2>2 DEF Fresh
    <3>2. RegistryMatchesServer'
      BY <1>t, <2>1 DEF RegistryMatchesServer
    <3>3. SameServer'
      BY <1>t, <2>1, <2>2 DEF SameServer
    <3>4. UserKeptUntilAnswered'
      BY <1>t, <2>1, <2>2 DEF UserKeptUntilAnswered, UsesBackend
    <3> QED BY <3>1, <3>2, <3>3, <3>4 DEF Parts
  <2>4. ASSUME NEW v \in Users, Alone(v), Served(v)
        PROVE  Served(v)'
    <3>1. Answers(v)' = Answers(v)
      BY <2>1, AnswersSame
    <3>2. CASE v = u
      BY <2>1, <2>2, <2>4, <3>1, <3>2 DEF Served
    <3>3. CASE v # u
      <4>1. readBuffer'[v] = readBuffer[v]
        BY <2>2, <2>4, <3>3 DEF Alone
      <4> QED BY <2>1, <2>2, <2>4, <3>1, <3>3, <4>1 DEF Served
    <3> QED BY <3>2, <3>3
  <2> QED BY <1>t, <2>1, <2>3, <2>4, AloneStep
<1>8. ASSUME NEW u \in Users, OnServerWriteFailed(u)
      PROVE  Parts' /\ AloneServed'
  <2>1. phase[u] = "writing" /\ server' = server /\ wire' = [wire EXCEPT ![u] = "eof"]
        /\ UNCHANGED <<lbClients, readFailed>> /\ wire[u] # "none"
    BY <1>8 DEF OnServerWriteFailed
  <2>2. CASE u \notin users
    <3>1. sent[u] # <<>>
      BY <1>t, <2>1, <2>2 DEF UserKeptUntilAnswered, UsesBackend
    <3>2. phase' = [phase EXCEPT ![u] = "ended"] /\ UNCHANGED <<target, readBuffer>>
          /\ UNCHANGED <<users, toUser, writeBuffer, sent>>
      BY <1>8, <2>2 DEF OnServerWriteFailed, userVars
    <3>3. Parts'
      BY <1>t, <2>1, <3>2 DEF Parts, TypeOK, Fresh,
         SameServer, RegistryMatchesServer, UserKeptUntilAnswered, UsesBackend
    <3>4. ASSUME NEW v \in Users, Alone(v), Served(v)
          PROVE  Served(v)'
      BY <1>t, <2>1, <3>1, <3>2, <3>4, AnswersSame DEF Served, TypeOK
    <3> QED BY <1>t, <2>1, <3>3, <3>4, AloneStep
  <2>3. CASE u \in users
    <3>1. WriteToUser(u, ErrorText) /\ ReadFromRegistered(u)
      BY <1>8, <2>3 DEF OnServerWriteFailed
    <3>2. /\ phase' \in [Users -> Phases]
          /\ \A v \in Users : v # u => phase'[v] = phase[v] /\ target'[v] = target[v]
          /\ \/ phase'[u] = "ended" /\ readBuffer' = readBuffer /\ ~Alone(u)
             \/ /\ phase'[u] = "awaiting"
                /\ target'[u] \in Users
                /\ server[target'[u]] = server[u]
                /\ wire[target'[u]] # "none"
                /\ \A v \in Users : v # target'[u] => readBuffer'[v] = readBuffer[v]
      BY <2>1, <3>1, ReadsOwnBackend
    <3>3. Parts'
      <4>1. Fresh'
        BY <1>t, <2>1, <3>1, <3>2 DEF Fresh, TypeOK, WriteToUser
      <4>2. RegistryMatchesServer'
        BY <1>t, <2>1 DEF RegistryMatchesServer, TypeOK
      <4>3. SameServer'
        BY <1>t, <2>1, <3>2 DEF SameServer
      <4>4. UserKeptUntilAnswered'
        BY <1>t, <2>1, <3>1, <3>2 DEF UserKeptUntilAnswered, UsesBackend, WriteToUser
      <4> QED BY <4>1, <4>2, <4>3, <4>4 DEF Parts
    <3>4. ASSUME NEW v \in Users, Alone(v), Served(v)
          PROVE  Served(v)'
      <4>1. CASE v = u
        <5>1. wire'[u] = "eof" /\ toUser'[u] > 0
          BY <1>t, <2>1, <3>1, AnswersWrite DEF TypeOK
        <5> QED BY <3>2, <4>1, <5>1 DEF Served
      <4>2. CASE v # u
        <5>1. readBuffer'[v] = readBuffer[v] /\ phase'[v] = phase[v]
          BY <3>2, <3>4, <4>2 DEF Alone
        <5>2. Answers(v)' = Answers(v) /\ toUser'[v] = toUser[v] /\ sent'[v] = sent[v]
          BY <1>t, <3>1, <4>2, AnswersWrite DEF WriteToUser
        <5>3. wire'[v] = wire[v]
          BY <1>t, <2>1, <4>2 DEF TypeOK
        <5> QED BY <2>1, <3>4, <5>1, <5>2, <5>3 DEF Served
      <4> QED BY <4>1, <4>2
    <3> QED BY <1>t, <2>1, <3>3, <3>4, AloneStep
  <2> QED BY <2>2, <2>3
<1>9. ASSUME NEW u \in Users, ReadCompletes(u)
      PROVE  Parts' /\ AloneServed'
  <2>1. /\ phase[u] = "awaiting" /\ phase' = [phase EXCEPT ![u] = "readDone"]
        /\ target[u] \in Users /\ server[target[u]] = server[u]
        /\ UNCHANGED <<server, target, users, toUser, writeBuffer, sent, lbClients>>
    BY <1>t, <1>9 DEF ReadCompletes, userVars, Chosen, SameServer
  <2>2. \/ /\ wire[target[u]] = "reply"
           /\ wire' = [wire EXCEPT ![target[u]] = "drained"]
           /\ readBuffer' = [readBuffer EXCEPT ![target[u]] = Reply(target[u])]
           /\ readFailed' = [readFailed EXCEPT ![u] = FALSE]
        \/ /\ wire[target[u]] \in {"finished", "eof"}
           /\ readFailed' = [readFailed EXCEPT ![u] = TRUE]
           /\ wire' = wire /\ readBuffer' = readBuffer
    BY <1>9 DEF ReadCompletes
  <2>3. Parts'
    BY <1>t, <2>1, <2>2 DEF Parts, TypeOK, Fresh,
       SameServer, RegistryMatchesServer, UserKeptUntilAnswered, UsesBackend
  <2>4. ASSUME NEW v \in Users, Alone(v), Served(v)
        PROVE  Served(v)'
    <3>1. CASE v = u
      <4>1. target[u] = u
        BY <2>1, <2>4, <3>1 DEF Alone
      <4> QED BY <1>t, <2>1, <2>2, <2>4, <3>1, <4>1, AnswersSame DEF Served, TypeOK
    <3>2. CASE v # u
      <4>1. target[u] # v
        BY <2>1, <2>4, <3>2 DEF Alone
      <4> QED BY <1>t, <2>1, <2>2, <2>4, <3>2, <4>1, AnswersSame DEF Served, TypeOK
    <3> QED BY <3>1, <3>2
  <2> QED BY <1>t, <2>1, <2>3, <2>4, AloneStep
<1>10. ASSUME NEW u \in Users, OnServerReadUserGone(u)
       PROVE  Parts' /\ AloneServed'
  <2>1. sent[u] # <<>>
    BY <1>t, <1>10 DEF OnServerReadUserGone, UserKeptUntilAnswered, UsesBackend
  <2>2. Parts'
    BY <1>t, <1>10 DEF OnServerReadUserGone, userVars, Parts, TypeOK, Fresh,
       SameServer, RegistryMatchesServer, UserKeptUntilAnswered, UsesBackend
  <2>3. ASSUME NEW v \in Users, Served(v)
        PROVE  Served(v)'
    BY <1>t, <1>10, <2>1, <2>3, AnswersSame
    DEF OnServerReadUserGone, userVars, Served, TypeOK
  <2> QED BY <1>t, <1>10, <2>2, <2>3, AloneStep DEF OnServerReadUserGone
<1>11. ASSUME NEW u \in Users, OnServerReadDone(u)
       PROVE  Parts' /\ AloneServed'
  <2> DEFINE p == IF readFailed[u] THEN Internal ELSE readBuffer[target[u]]
  <2>1. /\ phase[u] = "readDone" /\ phase' = [phase EXCEPT ![u] = "removing"]
        /\ WriteToUser(u, p)
        /\ UNCHANGED <<server, target, wire, readBuffer, readFailed, lbClients>>
    BY <1>11 DEF OnServerReadDone
  <2>2. Parts'
    BY <1>t, <2>1 DEF WriteToUser, Parts, TypeOK, Fresh,
       SameServer, RegistryMatchesServer, UserKeptUntilAnswered, UsesBackend
  <2>3. ASSUME NEW v \in Users, Alone(v), Served(v)
        PROVE  Served(v)'
    <3>1. CASE v = u
      <4>1. target[u] = u
        BY <1>t, <2>1, <2>3, <3>1 DEF SameServer, Chosen, Alone
      <4>2. p = Reply(u) \/ wire[u] = "eof"
        BY <2>1, <2>3, <3>1, <4>1 DEF Served
      <4>3. Answers(u)' \subseteq Answers(u) \cup {p} /\ toUser'[u] > 0
        BY <1>t, <2>1, AnswersWrite
      <4>4. phase'[u] = "removing"
        BY <1>t, <2>1 DEF TypeOK
      <4> QED BY <2>1, <2>3, <3>1, <4>2, <4>3, <4>4 DEF Served
    <3>2. CASE v # u
      <4>1. Answers(v)' = Answers(v) /\ toUser'[v] = toUser[v] /\ phase'[v] = phase[v]
        BY <1>t, <2>1, <3>2, AnswersWrite DEF TypeOK
      <4> QED BY <2>1, <2>3, <4>1 DEF Served, WriteToUser
    <3> QED BY <3>1, <3>2
  <2> QED BY <1>t, <2>1, <2>2, <2>3, AloneStep
<1>12. ASSUME NEW u \in Users, OnServerReadRemove(u)
       PROVE  Parts' /\ AloneServed'
  <2>1. /\ phase[u] = "removing" /\ phase' = [phase EXCEPT ![u] = "ended"]
        /\ server[target[u]] = server[u]
        /\ lbClients' = RemoveLbClient(lbClients, server[u])
        /\ UNCHANGED <<server, target, readFailed, wire, readBuffer>>
        /\ UNCHANGED <<users, toUser, writeBuffer, sent>>
    BY <1>t, <1>12 DEF OnServerReadRemove, SameServer, userVars
  <2>2. Parts'
    BY <1>t, <2>1 DEF RemoveLbClient, Parts, TypeOK, Fresh,
       SameServer, RegistryMatchesServer, UserKeptUntilAnswered, UsesBackend
  <2>3. ASSUME NEW v \in Users, server[v] # NoServer, Alone(v), Served(v)
        PROVE  Served(v)'
    <3>1. CASE v = u
      BY <1>t, <2>1, <2>3, <3>1, AnswersSame DEF Served, TypeOK
    <3>2. CASE v # u
      <4>1. server[v] # server[u] /\ server[v] \in Servers
        BY <1>t, <2>3, <3>2 DEF Alone, TypeOK
      <4>2. lbClients'[server[v]] = lbClients[server[v]] /\ phase'[v] = phase[v]
        BY <1>t, <2>1, <3>2, <4>1 DEF RemoveLbClient, TypeOK
      <4> QED BY <2>1, <2>3, <4>2, AnswersSame DEF Served
    <3> QED BY <3>1, <3>2
  <2> QED BY <1>t, <2>1, <2>2, <2>3, AloneStep
<1>13. ASSUME NEW u \in Users, OnClientWriteDone(u)
       PROVE  Parts' /\ AloneServed'
  <2>1. /\ UNCHANGED <<server, target, phase, readFailed, wire, readBuffer, lbClients>>
        /\ users' = users \ {u} /\ toUser[u] > 0
    BY <1>13 DEF OnClientWriteDone
  <2>2. Parts'
    BY <1>t, <1>13, <2>1, AnswersDone DEF Parts, Fresh,
       SameServer, RegistryMatchesServer, UserKeptUntilAnswered, UsesBackend
  <2>3. ASSUME NEW v \in Users, Served(v)
        PROVE  Served(v)'
    BY <1>t, <1>13, <2>1, <2>3, AnswersDone DEF Served
  <2> QED BY <1>t, <2>1, <2>2, <2>3, AloneStep
<1>14. ASSUME NEW u \in Users, Backend(u)
       PROVE  Parts' /\ AloneServed'
  <2>1. /\ UNCHANGED <<server, target, phase, readFailed, readBuffer, lbClients>>
        /\ UNCHANGED <<users, toUser, writeBuffer, sent>>
    BY <1>14 DEF Backend, BackendReplies, BackendCloses, userVars
  <2>2. \/ wire[u] = "open" /\ wire' = [wire EXCEPT ![u] = "reply"]
        \/ wire[u] = "open" /\ wire' = [wire EXCEPT ![u] = "eof"]
        \/ wire[u] = "drained" /\ wire' = [wire EXCEPT ![u] = "finished"]
    BY <1>14 DEF Backend, BackendReplies, BackendCloses
  <2>3. Parts'
    BY <1>t, <2>1, <2>2 DEF Parts, TypeOK, Fresh,
       SameServer, RegistryMatchesServer, UserKeptUntilAnswered, UsesBackend
  <2>4. ASSUME NEW v \in Users, Served(v)
        PROVE  Served(v)'
    BY <1>t, <2>1, <2>2, <2>4, AnswersSame DEF Served, TypeOK
  <2> QED BY <1>t, <2>1, <2>3, <2>4, AloneStep
<1>15. ASSUME NEW s \in Servers, NEW healthy \in BOOLEAN, HealthVerdict(s, healthy)
       PROVE  Parts' /\ AloneServed'
  BY <1>t, <1>15 DEF HealthVerdict, userVars, Parts, Fresh, SameServer,
     RegistryMatchesServer, UserKeptUntilAnswered, UsesBackend, AloneServed, Served,
     Alone, Answers
<1>16. CASE UNCHANGED vars
  <2>1. /\ UNCHANGED <<users, phase, lbClients, server, target, wire, readBuffer>>
        /\ UNCHANGED <<readFailed, toUser, writeBuffer, sent>>
    BY <1>16 DEF vars, userVars
  <2>2. Parts'
    BY <1>t, <2>1 DEF Parts, Fresh, SameServer, RegistryMatchesServer,
       UserKeptUntilAnswered, UsesBackend
  <2>3. ASSUME NEW v \in Users, Served(v)
        PROVE  Served(v)'
    BY <2>1, <2>3, AnswersSame DEF Served
  <2> QED BY <1>t, <2>1, <2>2, <2>3, AloneStep
<1> QED
  BY <1>1, <1>2, <1>3, <1>4, <1>5, <1>6, <1>7, <1>8, <1>9, <1>10, <1>11, <1>12,
     <1>13, <1>14, <1>15, <1>16 DEF Next, Handler

LEMMA IInvImplies == IInv => AloneIsServed
<1> SUFFICES ASSUME IInv, NEW u \in Users, server[u] # NoServer, Alone(u),
                    phase[u] = "ended"
             PROVE  /\ Answers(u) # {}
                    /\ Answers(u) \subseteq {Reply(u), Unavailable} \/ wire[u] = "eof"
  BY DEF AloneIsServed
<1>1. Served(u)
  BY DEF IInv, AloneServed
<1>2. CASE toUser[u] > 0
  BY <1>1, <1>2 DEF Served, Answers
<1>3. CASE sent[u] # <<>>
  <2>1. sent[u] \in Seq(Payload)
    BY DEF IInv, TypeOK
  <2>2. 1 \in DOMAIN sent[u]
    BY <1>3, <2>1
  <2> QED BY <1>1, <2>2 DEF Served, Answers
<1> QED BY <1>1, <1>2, <1>3 DEF Served

\* A request whose backend served no other request is answered, and with its own
\* reply or a 503 unless its connection to the backend died: whatever the threads
\* of the pool, the backends and the health checker do.
THEOREM ServedWhenAlone == Spec => []AloneIsServed
<1>1. Spec => []IInv
  BY InitIInv, StepIInv, PTL DEF Spec
<1> QED BY <1>1, IInvImplies, PTL

\* The registry's entry for a backend is a connection to that backend.
THEOREM RegistryMatches == Spec => []RegistryMatchesServer
<1>1. Spec => []IInv
  BY InitIInv, StepIInv, PTL DEF Spec
<1>2. IInv => RegistryMatchesServer
  BY DEF IInv
<1> QED BY <1>1, <1>2, PTL

\* No handler of a request that is under way finds the UserClient missing before
\* some write to it has completed.
THEOREM UserKept == Spec => []UserKeptUntilAnswered
<1>1. Spec => []IInv
  BY InitIInv, StepIInv, PTL DEF Spec
<1>2. IInv => UserKeptUntilAnswered
  BY DEF IInv
<1> QED BY <1>1, <1>2, PTL

--------------------------------------------------------------------------------
(***************************************************************************)
(* Whose reply a user gets, how many writes it gets, and who leaves an     *)
(* entry in the registry.                                                  *)
(***************************************************************************)

\* A connection's buffer holds its own backend's reply, and a reply that was written
\* to a user is that of a connection to the user's own backend.
Sources ==
    /\ \A u \in Users : readBuffer[u] \in {Reply(u), Blank}
    /\ \A u, v \in Users :
          Reply(v) \in Answers(u) => server[u] # NoServer /\ server[v] = server[u]

Before == {"new", "accepting", "reading", "connecting", "writing"}
Late   == {"removing", "ended"}

\* The writes to a user, under way or completed.
Writes(u) == Len(sent[u]) + toUser[u]

\* A user was written to before its request's read has ended only if the write to the
\* backend failed.
Counts ==
    \A u \in Users :
       /\ Writes(u) \in Nat
       /\ phase[u] \in Before => Writes(u) = 0
       /\ phase[u] \in {"awaiting", "readDone"} => Writes(u) = 0 \/ (Writes(u) = 1 /\ wire[u] = "eof")
       /\ Writes(u) <= 1 \/ (Writes(u) = 2 /\ wire[u] = "eof")

\* Replies and messages differ, and so do the replies of two connections.
LEMMA RepliesDiffer ==
    \A u, v \in Users :
       /\ Reply(u) = Reply(v) => u = v
       /\ Reply(u) \notin {Unavailable, Internal, ErrorText, Blank}
  BY DEF Reply, Unavailable, Internal, ErrorText, Blank

LEMMA WritesMore ==
    ASSUME TypeOK, NEW u \in Users, NEW p, WriteToUser(u, p)
    PROVE  /\ Writes(u)' = Writes(u) + 1
           /\ \A v \in Users : v # u => Writes(v)' = Writes(v)
<1>1. /\ sent' = sent /\ toUser'[u] = toUser[u] + 1
      /\ \A v \in Users : v # u => toUser'[v] = toUser[v]
  BY DEF WriteToUser, TypeOK
<1>2. Len(sent[u]) \in Nat /\ toUser[u] \in Nat
  BY DEF TypeOK
<1> QED BY <1>1, <1>2 DEF Writes

LEMMA WritesSame ==
    ASSUME UNCHANGED <<toUser, sent>>
    PROVE  \A v \in Users : Writes(v)' = Writes(v)
  BY DEF Writes

LEMMA WritesDone ==
    ASSUME TypeOK, NEW u \in Users, OnClientWriteDone(u)
    PROVE  \A v \in Users : Writes(v)' = Writes(v)
<1>1. /\ sent'[u] = Append(sent[u], writeBuffer[u]) /\ toUser'[u] = toUser[u] - 1
      /\ \A v \in Users : v # u => sent'[v] = sent[v] /\ toUser'[v] = toUser[v]
  BY DEF OnClientWriteDone, TypeOK
<1>2. sent[u] \in Seq(Payload) /\ writeBuffer[u] \in Payload /\ toUser[u] \in Nat
  BY DEF TypeOK
<1>3. Len(sent'[u]) = Len(sent[u]) + 1 /\ Len(sent[u]) \in Nat
  BY <1>1, <1>2
<1>4. Writes(u)' = Len(sent'[u]) + toUser'[u] /\ Writes(u) = Len(sent[u]) + toUser[u]
  BY DEF Writes
<1> DEFINE n == Len(sent[u])
           t == toUser[u]
<1>5. n \in Nat /\ t \in Nat /\ Writes(u) = n + t /\ Writes(u)' = (n + 1) + (t - 1)
  BY <1>1, <1>2, <1>3, <1>4
<1> HIDE DEF n, t
<1>7. Writes(u)' = Writes(u)
  BY <1>5
<1>6. \A v \in Users : v # u => Writes(v)' = Writes(v)
  BY <1>1 DEF Writes
<1> QED BY <1>6, <1>7

\* What may change about user v in a step: the payloads that it was sent, its
\* backend, its connection's buffer.
Sourced(v) ==
    /\ server'[v] = server[v] \/ server[v] = NoServer
    /\ readBuffer'[v] \in {readBuffer[v], Reply(v), Blank}
    /\ \A p \in Answers(v)' :
          \/ p \in Answers(v) \cup {Unavailable, Internal, ErrorText}
          \/ phase[v] = "readDone" /\ p = readBuffer[target[v]]

\* The stages of its request, the writes to it and whether its connection failed.
Counted(v) ==
    /\ wire[v] = "eof" => wire'[v] = "eof"
    /\ phase'[v] \in Before => phase[v] \in Before
    /\ phase'[v] \in {"awaiting", "readDone"} => phase[v] \notin Late
    /\ \/ Writes(v)' = Writes(v)
       \/ /\ Writes(v)' = Writes(v) + 1
          /\ \/ phase[v] \in Before /\ phase'[v] = "ended"
             \/ phase[v] \in Before /\ phase'[v] = "awaiting" /\ wire'[v] = "eof"
             \/ phase[v] = "readDone" /\ phase'[v] = "removing"

\* Every step changes no more than that about any user.
LEMMA StepBounds ==
    ASSUME IInv, [Next]_vars
    PROVE  \A v \in Users : Sourced(v) /\ Counted(v)
<1>t. TypeOK /\ Chosen /\ Fresh
  BY DEF IInv
<1> DEFINE Q == \A v \in Users : Sourced(v) /\ Counted(v)
<1> DEFINE Quiet == UNCHANGED <<toUser, writeBuffer, sent>>
<1>q. ASSUME Quiet, NEW v \in Users
      PROVE  Answers(v)' = Answers(v) /\ Writes(v)' = Writes(v)
  BY <1>q, AnswersSame, WritesSame
<1>1. ASSUME NEW u \in Users, NEW error \in BOOLEAN, HandleAccept(u, error)
      PROVE  Q
  <2>1. /\ Quiet /\ UNCHANGED <<server, wire, readBuffer>>
        /\ phase[u] = "accepting"
    BY <1>1 DEF HandleAccept, socketVars
  <2>2. \A v \in Users : phase'[v] # phase[v] => phase[v] \in {"new", "accepting"}
    BY <1>t, <1>1 DEF HandleAccept, Unborn, TypeOK
  <2> QED BY <1>q, <2>1, <2>2 DEF Sourced, Counted, Before, Late
<1>2. ASSUME NEW u \in Users, OnClientReadFailed(u)
      PROVE  Q
  <2>1. Quiet /\ UNCHANGED <<server, wire, readBuffer>>
    BY <1>2 DEF OnClientReadFailed, RemoveUser, socketVars
  <2>2. /\ phase[u] = "reading" /\ phase'[u] = "ended"
        /\ \A v \in Users : v # u => phase'[v] = phase[v]
    BY <1>t, <1>2 DEF OnClientReadFailed, TypeOK
  <2> QED BY <1>q, <2>1, <2>2 DEF Sourced, Counted, Before, Late
<1>3. ASSUME NEW u \in Users, OnClientReadNoServer(u) \/ OnConnectFailed(u)
      PROVE  Q
  <2>1. /\ UNCHANGED <<server, wire, readBuffer>>
        /\ phase[u] \in {"reading", "connecting"} /\ phase'[u] = "ended"
        /\ \A v \in Users : v # u => phase'[v] = phase[v]
    BY <1>t, <1>3 DEF OnClientReadNoServer, OnConnectFailed, socketVars, TypeOK
  <2>2. CASE WriteToUser(u, Unavailable)
    BY <1>t, <2>1, <2>2, AnswersWrite, WritesMore DEF Sourced, Counted, Before, Late
  <2>3. CASE UNCHANGED userVars
    BY <1>q, <2>1, <2>3 DEF userVars, Sourced, Counted, Before, Late
  <2> QED BY <1>3, <2>2, <2>3 DEF OnClientReadNoServer, OnConnectFailed, WriteToUserIfKnown
<1>4. ASSUME NEW u \in Users, OnClientReadDone(u)
      PROVE  Q
  <2>1. Quiet /\ UNCHANGED <<wire, readBuffer>>
    BY <1>4 DEF OnClientReadDone, userVars, socketVars
  <2>2. /\ phase[u] = "reading" /\ phase'[u] = "connecting" /\ server[u] = NoServer
        /\ \A v \in Users : v # u => phase'[v] = phase[v] /\ server'[v] = server[v]
    BY <1>t, <1>4 DEF OnClientReadDone, TypeOK, Fresh
  <2> QED BY <1>q, <2>1, <2>2 DEF Sourced, Counted, Before, Late
<1>6. ASSUME NEW u \in Users, OnConnectDone(u)
      PROVE  Q
  <2>1. Quiet /\ UNCHANGED <<server, readBuffer>>
    BY <1>6 DEF OnConnectDone, userVars
  <2>2. /\ phase[u] = "connecting" /\ phase'[u] = "writing" /\ wire[u] = "none"
        /\ \A v \in Users : v # u => phase'[v] = phase[v] /\ wire'[v] = wire[v]
    BY <1>t, <1>6 DEF OnConnectDone, TypeOK, Fresh
  <2> QED BY <1>q, <2>1, <2>2 DEF Sourced, Counted, Before, Late
<1>r. ASSUME NEW u \in Users, phase[u] = "writing", ReadFromRegistered(u)
      PROVE  /\ \A v \in Users : readBuffer'[v] \in {readBuffer[v], Blank}
             /\ phase'[u] \in {"ended", "awaiting"}
             /\ \A v \in Users : v # u => phase'[v] = phase[v]
  BY <1>t, <1>r DEF ReadFromRegistered, TypeOK
<1>7. ASSUME NEW u \in Users, OnServerWriteDone(u)
      PROVE  Q
  <2>1. Quiet /\ UNCHANGED <<server, wire>> /\ phase[u] = "writing"
    BY <1>7 DEF OnServerWriteDone, userVars
  <2> QED BY <1>q, <1>r, <1>7, <2>1 DEF OnServerWriteDone, Sourced, Counted, Before, Late
<1>8. ASSUME NEW u \in Users, OnServerWriteFailed(u)
      PROVE  Q
  <2>1. /\ phase[u] = "writing" /\ server' = server
        /\ wire'[u] = "eof" /\ \A v \in Users : v # u => wire'[v] = wire[v]
    BY <1>t, <1>8 DEF OnServerWriteFailed, TypeOK
  <2>2. CASE u \notin users
    <3>1. /\ Quiet /\ readBuffer' = readBuffer /\ phase'[u] = "ended"
          /\ \A v \in Users : v # u => phase'[v] = phase[v]
      BY <1>t, <1>8, <2>2 DEF OnServerWriteFailed, userVars, TypeOK
    <3> QED BY <1>q, <2>1, <3>1 DEF Sourced, Counted, Before, Late
  <2>3. CASE u \in users
    <3>1. WriteToUser(u, ErrorText) /\ ReadFromRegistered(u)
      BY <1>8, <2>3 DEF OnServerWriteFailed
    <3> QED BY <1>t, <1>r, <2>1, <3>1, AnswersWrite, WritesMore
            DEF Sourced, Counted, Before, Late
  <2> QED BY <2>2, <2>3
<1>9. ASSUME NEW u \in Users, ReadCompletes(u)
      PROVE  Q
  <2>1. Quiet /\ server' = server
    BY <1>9 DEF ReadCompletes, userVars
  <2>2. /\ phase[u] = "awaiting" /\ phase'[u] = "readDone" /\ target[u] \in Users
        /\ \A v \in Users : v # u => phase'[v] = phase[v]
    BY <1>t, <1>9 DEF ReadCompletes, TypeOK, Chosen
  <2>3. \A v \in Users : /\ wire[v] = "eof" => wire'[v] = "eof"
                         /\ readBuffer'[v] \in {readBuffer[v], Reply(v)}
    BY <1>t, <1>9, <2>2 DEF ReadCompletes, socketVars, TypeOK
  <2> QED BY <1>q, <2>1, <2>2, <2>3 DEF Sourced, Counted, Before, Late
<1>10. ASSUME NEW u \in Users, OnServerReadUserGone(u) \/ OnServerReadRemove(u)
       PROVE  Q
  <2>1. Quiet /\ UNCHANGED <<server, wire, readBuffer>>
    BY <1>10 DEF OnServerReadUserGone, OnServerReadRemove, userVars, socketVars
  <2>2. /\ phase[u] \in {"readDone", "removing"} /\ phase'[u] = "ended"
        /\ \A v \in Users : v # u => phase'[v] = phase[v]
    BY <1>t, <1>10 DEF OnServerReadUserGone, OnServerReadRemove, TypeOK
  <2> QED BY <1>q, <2>1, <2>2 DEF Sourced, Counted, Before, Late
<1>11. ASSUME NEW u \in Users, OnServerReadDone(u)
       PROVE  Q
  <2>1. UNCHANGED <<server, wire, readBuffer>>
    BY <1>11 DEF OnServerReadDone, socketVars
  <2>2. /\ phase[u] = "readDone" /\ phase'[u] = "removing"
        /\ \A v \in Users : v # u => phase'[v] = phase[v]
    BY <1>t, <1>11 DEF OnServerReadDone, TypeOK
  <2>3. PICK p \in {Internal, readBuffer[target[u]]} : WriteToUser(u, p)
    BY <1>11 DEF OnServerReadDone
  <2> QED BY <1>t, <2>1, <2>2, <2>3, AnswersWrite, WritesMore
          DEF Sourced, Counted, Before, Late
<1>13. ASSUME NEW u \in Users, OnClientWriteDone(u)
       PROVE  Q
  <2>1. UNCHANGED <<server, wire, readBuffer, phase>>
    BY <1>13 DEF OnClientWriteDone, requestVars, socketVars
  <2> QED BY <1>t, <1>13, <2>1, AnswersDone, WritesDone DEF Sourced, Counted, Before, Late
<1>14. ASSUME NEW u \in Users, Backend(u)
       PROVE  Q
  <2>1. Quiet /\ UNCHANGED <<server, phase, readBuffer>>
    BY <1>14 DEF Backend, BackendReplies, BackendCloses, userVars, requestVars
  <2>2. \A v \in Users : wire[v] = "eof" => wire'[v] = "eof"
    BY <1>t, <1>14 DEF Backend, BackendReplies, BackendCloses, TypeOK
  <2> QED BY <1>q, <2>1, <2>2 DEF Sourced, Counted, Before, Late
<1>15. CASE (\E s \in Servers, healthy \in BOOLEAN : HealthVerdict(s, healthy)) \/ UNCHANGED vars
  <2>1. Quiet /\ UNCHANGED <<server, phase, readBuffer, wire>>
    BY <1>15 DEF HealthVerdict, vars, userVars, requestVars, socketVars
  <2> QED BY <1>q, <2>1 DEF Sourced, Counted, Before, Late
<1> QED
  BY <1>1, <1>2, <1>3, <1>4, <1>6, <1>7, <1>8, <1>9, <1>10, <1>11, <1>13, <1>14, <1>15
  DEF Next, Handler

LEMMA SourcesStep == IInv /\ Sources /\ [Next]_vars => Sources'
<1> SUFFICES ASSUME IInv, Sources, [Next]_vars PROVE Sources'
  OBVIOUS
<1>1. \A v \in Users : Sourced(v)
  BY StepBounds
<1>2. \A u \in Users : readBuffer'[u] \in {Reply(u), Blank}
  BY <1>1 DEF Sourced, Sources
<1>3. ASSUME NEW u \in Users, NEW v \in Users, Reply(v) \in Answers(u)'
      PROVE  server[u] # NoServer /\ server[v] = server[u]
  <2>1. CASE Reply(v) \in Answers(u)
    BY <2>1 DEF Sources
  <2>2. CASE phase[u] = "readDone" /\ Reply(v) = readBuffer[target[u]]
    <3>1. /\ target[u] \in Users /\ server[u] \in Servers
          /\ server[target[u]] = server[u]
      BY <2>2 DEF IInv, Chosen, SameServer, UsesBackend
    <3>2. target[u] = v
      BY <2>2, <3>1, RepliesDiffer DEF Sources
    <3> QED BY <3>1, <3>2 DEF Servers, NoServer
  <2> QED BY <1>1, <1>3, <2>1, <2>2, RepliesDiffer DEF Sourced
<1>4. ASSUME NEW u \in Users, NEW v \in Users, Reply(v) \in Answers(u)'
      PROVE  server'[u] # NoServer /\ server'[v] = server'[u]
  BY <1>1, <1>3, <1>4 DEF Sourced
<1> QED BY <1>2, <1>4 DEF Sources

LEMMA CountsStep == IInv /\ Counts /\ [Next]_vars => Counts'
<1> SUFFICES ASSUME IInv, Counts, [Next]_vars, NEW u \in Users
             PROVE  /\ Writes(u)' \in Nat
                    /\ phase'[u] \in Before => Writes(u)' = 0
                    /\ phase'[u] \in {"awaiting", "readDone"}
                       => Writes(u)' = 0 \/ (Writes(u)' = 1 /\ wire'[u] = "eof")
                    /\ Writes(u)' <= 1 \/ (Writes(u)' = 2 /\ wire'[u] = "eof")
  BY DEF Counts
<1>1. Counted(u)
  BY StepBounds
<1>2. phase[u] \in Before \cup Late \cup {"awaiting", "readDone"}
  BY DEF IInv, TypeOK, Phases, Before, Late
<1> DEFINE w  == Writes(u)
           w1 == Writes(u)'
<1>3. /\ w \in Nat
      /\ phase[u] \in Before => w = 0
      /\ phase[u] \in {"awaiting", "readDone"} => w = 0 \/ (w = 1 /\ wire[u] = "eof")
      /\ w <= 1 \/ (w = 2 /\ wire[u] = "eof")
  BY DEF Counts
<1>4. /\ wire[u] = "eof" => wire'[u] = "eof"
      /\ phase'[u] \in Before => phase[u] \in Before
      /\ phase'[u] \in {"awaiting", "readDone"} => phase[u] \notin Late
      /\ \/ w1 = w
         \/ /\ w1 = w + 1
            /\ \/ phase[u] \in Before /\ phase'[u] = "ended"
               \/ phase[u] \in Before /\ phase'[u] = "awaiting" /\ wire'[u] = "eof"
               \/ phase[u] = "readDone" /\ phase'[u] = "removing"
  BY <1>1 DEF Counted
<1> HIDE DEF w, w1
<1>5. /\ w1 \in Nat
      /\ phase'[u] \in Before => w1 = 0
      /\ phase'[u] \in {"awaiting", "readDone"} => w1 = 0 \/ (w1 = 1 /\ wire'[u] = "eof")
      /\ w1 <= 1 \/ (w1 = 2 /\ wire'[u] = "eof")
  BY <1>2, <1>3, <1>4 DEF Before, Late
<1> QED BY <1>5 DEF w1

\* What a step may do to user v: a user whose backend is chosen is not registered
\* again, and when its request stops using the backend, the backend's entry is gone
\* or its connection failed and its user is unknown.
Leaves(v) ==
    /\ v \in users' => v \in users \/ server[v] = NoServer
    /\ UsesBackend(v)
       => \/ UsesBackend(v)'
          \/ lbClients'[server[v]] = NoLbClient
          \/ wire'[v] = "eof" /\ v \notin users'

\* An entry that appears is that of a request on its way.
Enters(s) ==
    \/ lbClients'[s] \in {lbClients[s], NoLbClient}
    \/ \E u \in Users : server'[u] = s /\ UsesBackend(u)'

LEMMA StepLeaves ==
    ASSUME IInv, Counts, [Next]_vars
    PROVE  (\A v \in Users : Leaves(v)) /\ (\A s \in Servers : Enters(s))
<1>t. TypeOK /\ Chosen /\ Fresh /\ SameServer /\ UserKeptUntilAnswered
  BY DEF IInv
<1> DEFINE Q == (\A v \in Users : Leaves(v)) /\ (\A s \in Servers : Enters(s))
<1>c. \A u \in Users : UsesBackend(u) => server[u] \in Servers
  BY <1>t DEF Chosen
<1>1. ASSUME NEW u \in Users, NEW error \in BOOLEAN, HandleAccept(u, error)
      PROVE  Q
  <2>1. UNCHANGED <<server, wire, lbClients>>
    BY <1>1 DEF HandleAccept, socketVars
  <2>2. \A v \in Users : phase'[v] # phase[v] => phase[v] \in {"new", "accepting"}
    BY <1>t, <1>1 DEF HandleAccept, Unborn, TypeOK
  <2>3. \A v \in Users : v \in users' => v \in users \/ phase[v] = "new"
    BY <1>1 DEF HandleAccept, Unborn
  <2> QED BY <1>t, <2>1, <2>2, <2>3 DEF Leaves, Enters, UsesBackend, Fresh
<1>2. ASSUME NEW u \in Users,
             \/ OnClientReadFailed(u) \/ OnClientReadNoServer(u)
             \/ OnClientReadDone(u) \/ OnConnectFailed(u)
      PROVE  Q
  <2>1. lbClients' = lbClients /\ users' \subseteq users
    BY <1>2 DEF OnClientReadFailed, OnClientReadNoServer, OnClientReadDone,
       OnConnectFailed, RemoveUser, WriteToUserIfKnown, WriteToUser, userVars
  <2>2. /\ phase[u] \in {"reading", "connecting"}
        /\ \A v \in Users : v # u => phase'[v] = phase[v]
    BY <1>t, <1>2 DEF OnClientReadFailed, OnClientReadNoServer, OnClientReadDone,
       OnConnectFailed, TypeOK
  <2> QED BY <2>1, <2>2 DEF Leaves, Enters, UsesBackend
<1>3. ASSUME NEW u \in Users, OnConnectDone(u)
      PROVE  Q
  <2>1. /\ UNCHANGED <<server, users>> /\ phase[u] = "connecting"
        /\ phase'[u] = "writing" /\ \A v \in Users : v # u => phase'[v] = phase[v]
    BY <1>t, <1>3 DEF OnConnectDone, userVars, TypeOK
  <2>2. \A s \in Servers : lbClients'[s] = lbClients[s] \/ s = server[u]
    BY <1>t, <1>3 DEF OnConnectDone, AddLbClient, TypeOK
  <2> QED BY <2>1, <2>2 DEF Leaves, Enters, UsesBackend
<1>r. ASSUME NEW u \in Users, phase[u] = "writing", ReadFromRegistered(u)
      PROVE  /\ phase'[u] = "awaiting" \/ lbClients[server[u]] = NoLbClient
             /\ \A v \in Users : v # u => phase'[v] = phase[v]
  BY <1>t, <1>r DEF ReadFromRegistered, GetLbClient, TypeOK
<1>4. ASSUME NEW u \in Users, OnServerWriteDone(u)
      PROVE  Q
  <2>1. UNCHANGED <<server, users, lbClients>> /\ phase[u] = "writing"
    BY <1>4 DEF OnServerWriteDone, userVars
  <2> QED BY <1>r, <1>4, <2>1 DEF OnServerWriteDone, Leaves, Enters, UsesBackend
<1>5. ASSUME NEW u \in Users, OnServerWriteFailed(u)
      PROVE  Q
  <2>1. UNCHANGED <<server, lbClients>> /\ phase[u] = "writing" /\ wire'[u] = "eof"
    BY <1>t, <1>5 DEF OnServerWriteFailed, TypeOK
  <2>2. CASE u \notin users
    <3>1. users' = users /\ \A v \in Users : v # u => phase'[v] = phase[v]
      BY <1>t, <1>5, <2>2 DEF OnServerWriteFailed, userVars, TypeOK
    <3> QED BY <2>1, <2>2, <3>1 DEF Leaves, Enters, UsesBackend
  <2>3. CASE u \in users
    <3>1. users' = users /\ ReadFromRegistered(u)
      BY <1>5, <2>3 DEF OnServerWriteFailed, WriteToUser
    <3> QED BY <1>r, <2>1, <3>1 DEF Leaves, Enters, UsesBackend
  <2> QED BY <2>2, <2>3
<1>6. ASSUME NEW u \in Users, ReadCompletes(u) \/ OnServerReadDone(u)
      PROVE  Q
  <2>1. UNCHANGED <<server, users, lbClients>>
    BY <1>6 DEF ReadCompletes, OnServerReadDone, WriteToUser, userVars
  <2>2. /\ phase'[u] \in {"readDone", "removing"}
        /\ \A v \in Users : v # u => phase'[v] = phase[v]
    BY <1>t, <1>6 DEF ReadCompletes, OnServerReadDone, TypeOK
  <2> QED BY <2>1, <2>2 DEF Leaves, Enters, UsesBackend
<1>7. ASSUME NEW u \in Users, OnServerReadUserGone(u)
      PROVE  Q
  <2>1. /\ UNCHANGED <<server, wire, users, lbClients>>
        /\ phase[u] = "readDone" /\ u \notin users
        /\ \A v \in Users : v # u => phase'[v] = phase[v]
    BY <1>t, <1>7 DEF OnServerReadUserGone, userVars, socketVars, TypeOK
  <2>2. sent[u] # <<>> /\ sent[u] \in Seq(Payload) /\ toUser[u] \in Nat
    BY <1>t, <2>1 DEF UserKeptUntilAnswered, UsesBackend, TypeOK
  <2>3. Len(sent[u]) \in Nat /\ Len(sent[u]) # 0
    BY <2>2
  <2>4. Writes(u) = Len(sent[u]) + toUser[u]
    BY DEF Writes
  <2>5. Writes(u) # 0
    BY <2>2, <2>3, <2>4
  <2>6. wire[u] = "eof"
    BY <2>1, <2>5 DEF Counts
  <2> QED BY <2>1, <2>6 DEF Leaves, Enters, UsesBackend
<1>8. ASSUME NEW u \in Users, OnServerReadRemove(u)
      PROVE  Q
  <2>1. /\ UNCHANGED <<server, users>>
        /\ phase[u] = "removing" /\ server[target[u]] = server[u]
        /\ \A v \in Users : v # u => phase'[v] = phase[v]
    BY <1>t, <1>8 DEF OnServerReadRemove, userVars, SameServer, TypeOK
  <2>2. server[u] \in Servers
    BY <1>c, <2>1 DEF UsesBackend
  <2>3. /\ lbClients'[server[u]] = NoLbClient
        /\ \A s \in Servers : lbClients'[s] \in {lbClients[s], NoLbClient}
    BY <1>t, <1>8, <2>1, <2>2 DEF OnServerReadRemove, RemoveLbClient, TypeOK
  <2> QED BY <2>1, <2>3 DEF Leaves, Enters, UsesBackend
<1>9. ASSUME NEW u \in Users, OnClientWriteDone(u) \/ Backend(u)
      PROVE  Q
  <2>1. UNCHANGED <<server, phase, lbClients>> /\ users' \subseteq users
    BY <1>9 DEF OnClientWriteDone, Backend, BackendReplies, BackendCloses,
       requestVars, userVars
  <2> QED BY <2>1 DEF Leaves, Enters, UsesBackend
<1>10. CASE (\E s \in Servers, healthy \in BOOLEAN : HealthVerdict(s, healthy)) \/ UNCHANGED vars
  <2>1. UNCHANGED <<server, phase, lbClients, users>>
    BY <1>10 DEF HealthVerdict, vars, requestVars, userVars
  <2> QED BY <2>1 DEF Leaves, Enters, UsesBackend
<1> QED
  BY <1>1, <1>2, <1>3, <1>4, <1>5, <1>6, <1>7, <1>8, <1>9, <1>10 DEF Next, Handler

LEMMA LeakStep ==
    IInv /\ Counts /\ LeakOnlyAfterFailure /\ [Next]_vars => LeakOnlyAfterFailure'
<1> SUFFICES ASSUME IInv, Counts, LeakOnlyAfterFailure, [Next]_vars, NEW s \in Servers,
                    lbClients'[s] # NoLbClient,
                    \A u \in Users : server'[u] = s => ~UsesBackend(u)'
             PROVE  \E u \in Users : server'[u] = s /\ wire'[u] = "eof" /\ u \notin users'
  BY DEF LeakOnlyAfterFailure
<1>1. \A v \in Users : Leaves(v) /\ Sourced(v) /\ Counted(v)
  BY StepBounds, StepLeaves
<1>2. lbClients[s] # NoLbClient
  BY StepLeaves DEF Enters
<1>3. s # NoServer
  BY DEF Servers, NoServer
<1>4. CASE \E u \in Users : server[u] = s /\ UsesBackend(u)
  BY <1>1, <1>3, <1>4 DEF Leaves, Sourced
<1>5. CASE \A u \in Users : server[u] = s => ~UsesBackend(u)
  <2>1. PICK u \in Users : server[u] = s /\ wire[u] = "eof" /\ u \notin users
    BY <1>2, <1>5 DEF LeakOnlyAfterFailure
  <2> QED BY <1>1, <1>3, <2>1 DEF Leaves, Sourced, Counted
<1> QED BY <1>4, <1>5

LEMMA InitLater == Init => Sources /\ Counts /\ LeakOnlyAfterFailure
<1> SUFFICES ASSUME Init PROVE Sources /\ Counts /\ LeakOnlyAfterFailure
  OBVIOUS
<1>1. \A u \in Users : sent[u] = <<>> /\ toUser[u] = 0 /\ readBuffer[u] = Blank
  BY DEF Init
<1>2. \A u \in Users : Answers(u) = {} /\ Writes(u) = 0
  BY <1>1 DEF Answers, Writes
<1>3. \A u \in Users : phase[u] \in {"new", "accepting"}
  BY DEF Init
<1>4. LeakOnlyAfterFailure
  BY DEF Init, EmptyRegistry, LeakOnlyAfterFailure
<1>5. Sources
  BY <1>1, <1>2 DEF Sources
<1>6. Counts
  <2>1. 0 \in Nat /\ 0 <= 1
    OBVIOUS
  <2>2. \A u \in Users : Writes(u) \in Nat /\ Writes(u) = 0 /\ Writes(u) <= 1
    BY <1>2, <2>1
  <2> QED BY <1>2, <1>3, <2>2 DEF Counts
<1> QED BY <1>4, <1>5, <1>6

LEMMA Later == Spec => [](IInv /\ Sources /\ Counts /\ LeakOnlyAfterFailure)
  BY InitIInv, InitLater, StepIInv, SourcesStep, CountsStep, LeakStep, PTL DEF Spec

\* A reply that a user is sent comes from the backend that was chosen for it, even
\* when requests that overlap take each other's replies.
THEOREM RepliesFromChosenServer == Spec => []AnswerFromChosenServer
<1>1. Sources => AnswerFromChosenServer
  BY DEF Sources, AnswerFromChosenServer
<1> QED BY <1>1, Later, PTL

\* No user is written to three times, and only one whose connection to the backend
\* died is written to twice.
THEOREM TwoAnswersNeedFailure == Spec => []TwoAnswersOnlyAfterFailure
<1>1. Counts => TwoAnswersOnlyAfterFailure
  <2> SUFFICES ASSUME Counts, NEW u \in Users
               PROVE  /\ Len(sent[u]) + toUser[u] <= 2
                      /\ Len(sent[u]) + toUser[u] = 2 => wire[u] = "eof"
    BY DEF TwoAnswersOnlyAfterFailure
  <2>1. Writes(u) \in Nat /\ (Writes(u) <= 1 \/ (Writes(u) = 2 /\ wire[u] = "eof"))
    BY DEF Counts
  <2>2. Writes(u) = Len(sent[u]) + toUser[u]
    BY DEF Writes
  <2> QED BY <2>1, <2>2
<1> QED BY <1>1, Later, PTL

\* An entry that no request is going to remove was left behind by a request whose
\* write to its backend failed.
THEOREM LeaksNeedFailure == Spec => []LeakOnlyAfterFailure
  BY Later, PTL

================================================================================
