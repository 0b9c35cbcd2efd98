------------------------------ MODULE LoadBalancer ------------------------------
(***************************************************************************)
(* The life of a request in the load balancer (LoadBalancer.cpp,           *)
(* UserClient*.cpp, LbClient*.cpp).  Every asio completion handler runs on *)
(* some thread of the pool, with no strand: handlers of different requests *)
(* interleave, and one handler interleaves with the others between two of  *)
(* its calls when the order of those calls can be observed.                *)
(*                                                                         *)
(* A user's request creates at most one LbClient, so the LbClient, its     *)
(* socket and its buffers are named by the user that created it.           *)
(***************************************************************************)
EXTENDS Sequences, ServerSelection, LbClientManager

CONSTANT Users             \* UserClient ids (never reused)

ASSUME NoLbClientAssumption == NoLbClient \notin Users

NoServer == -1

\* The payloads that a user can be sent: the reply that a backend sent on the
\* connection of some user, and the messages that the balancer makes up.
Reply(u)    == [kind |-> "reply", of |-> u]
Unavailable == [kind |-> "503", of |-> NoLbClient]
Internal    == [kind |-> "500", of |-> NoLbClient]
ErrorText   == [kind |-> "text", of |-> NoLbClient]   \* error.message(), the rest uninitialized
Blank       == [kind |-> "blank", of |-> NoLbClient]  \* a zero-filled buffer
Payload     == {Reply(u) : u \in Users} \cup {Unavailable, Internal, ErrorText, Blank}

\* The pending operation, or the handler about to continue, of a user's request.
Phases == {"new", "accepting", "reading", "connecting", "writing", "awaiting",
           "readDone", "removing", "ended"}

VARIABLES
    users,       \* UserClientManager::m_user_clients
    phase,       \* where each request is
    lbClients,   \* LbClientManager::m_lb_clients, the "_NH" ids
    server,      \* the backend chosen for the request
    target,      \* the LbClient that the request started a read on
    wire,        \* what the backend's side of each LbClient's socket has done
    readBuffer,  \* LbClient::m_read_buffer
    readFailed,  \* the error_code of the read that completed for the request
    toUser,      \* number of writes pending on the UserClient's socket
    writeBuffer, \* UserClient::m_write_buffer
    sent,        \* the payloads whose write to the user completed
    available,   \* ServerDetails::m_is_available
    last         \* HealthChecker::m_last_server_index

requestVars == <<phase, server, target, readFailed>>
socketVars  == <<wire, readBuffer>>
userVars    == <<users, toUser, writeBuffer, sent>>
healthVars  == <<available, last>>
vars == <<requestVars, socketVars, userVars, healthVars, lbClients>>

TypeOK ==
    /\ users \subseteq Users
    /\ phase \in [Users -> Phases]
    /\ lbClients \in [Servers -> Users \cup {NoLbClient}]
    /\ server \in [Users -> Servers \cup {NoServer}]
    /\ target \in [Users -> Users \cup {NoLbClient}]
    /\ wire \in [Users -> {"none", "open", "reply", "drained", "finished", "eof"}]
    /\ readBuffer \in [Users -> Payload]
    /\ readFailed \in [Users -> BOOLEAN]
    /\ toUser \in [Users -> Nat]
    /\ writeBuffer \in [Users -> Payload]
    /\ sent \in [Users -> Seq(Payload)]
    /\ available \in [Servers -> BOOLEAN]
    /\ last \in Servers

\* The constructor ends in accept(): one UserClient is registered and waits for
\* a connection.  Every backend starts out unavailable.
Init ==
    /\ \E u \in Users :
          /\ users = {u}
          /\ phase = [v \in Users |-> IF v = u THEN "accepting" ELSE "new"]
    /\ lbClients = EmptyRegistry(Servers)
    /\ server = [u \in Users |-> NoServer]
    /\ target = [u \in Users |-> NoLbClient]
    /\ wire = [u \in Users |-> "none"]
    /\ readBuffer = [u \in Users |-> Blank]
    /\ readFailed = [u \in Users |-> FALSE]
    /\ toUser = [u \in Users |-> 0]
    /\ writeBuffer = [u \in Users |-> Blank]
    /\ sent = [u \in Users |-> <<>>]
    /\ available = [s \in Servers |-> FALSE]
    /\ last = 0

--------------------------------------------------------------------------------
\* UserClient::write copies into the one write buffer, then starts the write.
WriteToUser(u, payload) ==
    /\ toUser' = [toUser EXCEPT ![u] = @ + 1]
    /\ writeBuffer' = [writeBuffer EXCEPT ![u] = payload]
    /\ UNCHANGED <<users, sent>>

\* get_user_client(u) followed by write, or by nothing when u is not registered.
WriteToUserIfKnown(u, payload) ==
    \/ u \in users /\ WriteToUser(u, payload)
    \/ u \notin users /\ UNCHANGED userVars

RemoveUser(u) ==
    /\ users' = users \ {u}
    /\ UNCHANGED <<toUser, writeBuffer, sent>>

Unborn == {v \in Users : phase[v] = "new"}

\* The accept handler: handle_accept(u) starts the read, or on error removes the
\* UserClient; then accept() registers the next one and waits for it, as long as
\* the bound on the number of users allows.
HandleAccept(u, error) ==
    /\ phase[u] = "accepting"
    /\ LET next == IF error THEN "ended" ELSE "reading"
           kept == IF error THEN users \ {u} ELSE users
       IN  \/ /\ Unborn = {}
              /\ phase' = [phase EXCEPT ![u] = next]
              /\ users' = kept
           \/ \E v \in Unborn :
              /\ phase' = [phase EXCEPT ![u] = next, ![v] = "accepting"]
              /\ users' = kept \cup {v}
    /\ UNCHANGED <<lbClients, server, target, readFailed, socketVars, toUser,
                   writeBuffer, sent, healthVars>>

\* on_client_read_done: the user's read failed.
OnClientReadFailed(u) ==
    /\ phase[u] = "reading"
    /\ phase' = [phase EXCEPT ![u] = "ended"]
    /\ RemoveUser(u)
    /\ UNCHANGED <<lbClients, server, target, readFailed, socketVars, healthVars>>

\* on_client_read_done: no backend is available, the user is sent the 503.
OnClientReadNoServer(u) ==
    /\ phase[u] = "reading"
    /\ NoneAvailable(available)
    /\ phase' = [phase EXCEPT ![u] = "ended"]
    /\ WriteToUserIfKnown(u, Unavailable)
    /\ UNCHANGED <<lbClients, server, target, readFailed, socketVars, healthVars>>

\* on_client_read_done: a backend is chosen and an LbClient starts to connect.
OnClientReadDone(u) ==
    /\ phase[u] = "reading"
    /\ \E s \in Servers :
          /\ IsNextAvailable(last, available, s)
          /\ last' = s
          /\ server' = [server EXCEPT ![u] = s]
    /\ phase' = [phase EXCEPT ![u] = "connecting"]
    /\ UNCHANGED <<lbClients, target, readFailed, socketVars, userVars, available>>

\* Mutant: no return after the 503.
OnConnectFailedGoesOn(u) ==
    /\ phase[u] = "connecting"
    /\ phase' = [phase EXCEPT ![u] = "writing"]
    /\ lbClients' = AddLbClient(lbClients, server[u], u)
    /\ WriteToUserIfKnown(u, Unavailable)
    /\ UNCHANGED <<server, target, readFailed, socketVars, healthVars>>

\* The connect callback: resolve or connect failed, the user is sent the 503.
OnConnectFailed(u) ==
    /\ phase[u] = "connecting"
    /\ phase' = [phase EXCEPT ![u] = "ended"]
    /\ WriteToUserIfKnown(u, Unavailable)
    /\ UNCHANGED <<lbClients, server, target, readFailed, socketVars, healthVars>>

\* Mutant: the LbClient is not registered before the request is written.
OnConnectDoneUnregistered(u) ==
    /\ phase[u] = "connecting"
    /\ wire' = [wire EXCEPT ![u] = "open"]
    /\ phase' = [phase EXCEPT ![u] = "writing"]
    /\ UNCHANGED <<lbClients, server, target, readFailed, readBuffer, userVars, healthVars>>

\* Mutant: the id is made from the balancer's cursor, which has moved on.
OnConnectDoneWrongId(u) ==
    /\ phase[u] = "connecting"
    /\ lbClients' = AddLbClient(lbClients, last, u)
    /\ wire' = [wire EXCEPT ![u] = "open"]
    /\ phase' = [phase EXCEPT ![u] = "writing"]
    /\ UNCHANGED <<server, target, readFailed, readBuffer, userVars, healthVars>>

\* The connect callback: the LbClient is registered under its backend's id and
\* the request is written to its own socket.
OnConnectDone(u) ==
    /\ phase[u] = "connecting"
    /\ lbClients' = AddLbClient(lbClients, server[u], u)
    /\ wire' = [wire EXCEPT ![u] = "open"]
    /\ phase' = [phase EXCEPT ![u] = "writing"]
    /\ UNCHANGED <<server, target, readFailed, readBuffer, userVars, healthVars>>

\* The end of on_server_write_done: the LbClient is looked up by its id, and the
\* read starts, with a cleared buffer, on whichever LbClient the id names.
ReadFromRegistered(u) ==
    LET t == GetLbClient(lbClients, server[u])
    IN  \/ /\ t = NoLbClient
           /\ phase' = [phase EXCEPT ![u] = "ended"]
           /\ UNCHANGED <<target, readBuffer>>
        \/ /\ t # NoLbClient
           /\ phase' = [phase EXCEPT ![u] = "awaiting"]
           /\ target' = [target EXCEPT ![u] = t]
           /\ readBuffer' = [readBuffer EXCEPT ![t] = Blank]

\* Mutant: the UserClient is released once its request is on its way.
OnServerWriteDoneReleases(u) ==
    /\ phase[u] = "writing"
    /\ ReadFromRegistered(u)
    /\ RemoveUser(u)
    /\ UNCHANGED <<lbClients, server, readFailed, wire, healthVars>>

\* on_server_write_done: the request was written.
OnServerWriteDone(u) ==
    /\ phase[u] = "writing"
    /\ ReadFromRegistered(u)
    /\ UNCHANGED <<lbClients, server, readFailed, wire, userVars, healthVars>>

\* on_server_write_done: the write failed.  The user is sent the error's text and
\* the handler goes on as if the write had succeeded.
OnServerWriteFailed(u) ==
    /\ phase[u] = "writing"
    /\ wire[u] \in {"open", "eof"}
    /\ wire' = [wire EXCEPT ![u] = "eof"]
    /\ \/ /\ u \notin users
          /\ phase' = [phase EXCEPT ![u] = "ended"]
          /\ UNCHANGED <<target, readBuffer, userVars>>
       \/ /\ u \in users
          /\ WriteToUser(u, ErrorText)
          /\ ReadFromRegistered(u)
    /\ UNCHANGED <<lbClients, server, readFailed, healthVars>>

\* Mutant: only a read that brings data runs the handler.
ReadCompletesWithData(u) ==
    /\ phase[u] = "awaiting"
    /\ wire[target[u]] = "reply"
    /\ wire' = [wire EXCEPT ![target[u]] = "drained"]
    /\ readBuffer' = [readBuffer EXCEPT ![target[u]] = Reply(target[u])]
    /\ readFailed' = [readFailed EXCEPT ![u] = FALSE]
    /\ phase' = [phase EXCEPT ![u] = "readDone"]
    /\ UNCHANGED <<lbClients, server, target, userVars, healthVars>>

\* A read started by u completes on the socket of target[u]: asio has filled the
\* LbClient's buffer, and the handler is queued.  Two reads pending on one socket
\* complete here in either order.
ReadCompletes(u) ==
    /\ phase[u] = "awaiting"
    /\ LET t == target[u]
       IN  \/ /\ wire[t] = "reply"
              /\ wire' = [wire EXCEPT ![t] = "drained"]
              /\ readBuffer' = [readBuffer EXCEPT ![t] = Reply(t)]
              /\ readFailed' = [readFailed EXCEPT ![u] = FALSE]
           \/ /\ wire[t] \in {"finished", "eof"}
              /\ readFailed' = [readFailed EXCEPT ![u] = TRUE]
              /\ UNCHANGED socketVars
    /\ phase' = [phase EXCEPT ![u] = "readDone"]
    /\ UNCHANGED <<lbClients, server, target, userVars, healthVars>>

\* on_server_read_done: the user is gone, and the handler returns early.
OnServerReadUserGone(u) ==
    /\ phase[u] = "readDone"
    /\ u \notin users
    /\ phase' = [phase EXCEPT ![u] = "ended"]
    /\ UNCHANGED <<lbClients, server, target, readFailed, socketVars, userVars, healthVars>>

\* on_server_read_done: the LbClient's buffer as it is now, or the 500 message if
\* the read failed, is written to the user.
OnServerReadDone(u) ==
    /\ phase[u] = "readDone"
    /\ u \in users
    /\ WriteToUser(u, IF readFailed[u] THEN Internal ELSE readBuffer[target[u]])
    /\ phase' = [phase EXCEPT ![u] = "removing"]
    /\ UNCHANGED <<lbClients, server, target, readFailed, socketVars, healthVars>>

\* Mutant: the LbClient stays registered.
OnServerReadKeeps(u) ==
    /\ phase[u] = "removing"
    /\ phase' = [phase EXCEPT ![u] = "ended"]
    /\ UNCHANGED <<lbClients, server, target, readFailed, socketVars, userVars, healthVars>>

\* The last call of on_server_read_done: whatever the id names now is removed.
OnServerReadRemove(u) ==
    /\ phase[u] = "removing"
    /\ lbClients' = RemoveLbClient(lbClients, server[target[u]])
    /\ phase' = [phase EXCEPT ![u] = "ended"]
    /\ UNCHANGED <<server, target, readFailed, socketVars, userVars, healthVars>>

\* A write to the user completes with what the buffer holds by then, and
\* on_client_write_done removes the UserClient.
OnClientWriteDone(u) ==
    /\ toUser[u] > 0
    /\ toUser' = [toUser EXCEPT ![u] = @ - 1]
    /\ sent' = [sent EXCEPT ![u] = Append(@, writeBuffer[u])]
    /\ users' = users \ {u}
    /\ UNCHANGED <<requestVars, socketVars, writeBuffer, healthVars, lbClients>>

--------------------------------------------------------------------------------
\* The backend, not part of the repository: it answers a request once and then
\* closes the connection, or closes it without an answer.
BackendReplies(u) ==
    /\ wire[u] = "open"
    /\ wire' = [wire EXCEPT ![u] = "reply"]
    /\ UNCHANGED <<requestVars, readBuffer, userVars, healthVars, lbClients>>

BackendCloses(u) ==
    /\ wire[u] \in {"open", "drained"}
    /\ wire' = [wire EXCEPT ![u] = IF @ = "open" THEN "eof" ELSE "finished"]
    /\ UNCHANGED <<requestVars, readBuffer, userVars, healthVars, lbClients>>

\* The health checker's verdicts, as seen from here (module HealthChecker).
HealthVerdict(s, healthy) ==
    /\ available[s] # healthy
    /\ available' = [available EXCEPT ![s] = healthy]
    /\ UNCHANGED <<requestVars, socketVars, userVars, last, lbClients>>

Handler(u) ==
    \/ OnClientReadFailed(u) \/ OnClientReadNoServer(u) \/ OnClientReadDone(u)
    \/ OnConnectFailed(u) \/ OnConnectDone(u)
    \/ OnServerWriteDone(u) \/ OnServerWriteFailed(u) \/ ReadCompletes(u)
    \/ OnServerReadUserGone(u) \/ OnServerReadDone(u) \/ OnServerReadRemove(u)
    \/ OnClientWriteDone(u)

Backend(u) == BackendReplies(u) \/ BackendCloses(u)

Next ==
    \/ \E u \in Users : \/ \E error \in BOOLEAN : HandleAccept(u, error)
                        \/ Handler(u)
                        \/ Backend(u)
    \/ \E s \in Servers, healthy \in BOOLEAN : HealthVerdict(s, healthy)

Spec == Init /\ [][Next]_vars

\* What the pool's threads and TCP do: a queued handler is run, and a connect, a
\* write to a backend or a write to a user ends.  A user may connect and send
\* nothing, or never connect.  The last conjunct is an assumption about the
\* backends: each one answers or closes in the end.
Progress(u) ==
    \/ OnConnectFailed(u) \/ OnConnectDone(u)
    \/ OnServerWriteDone(u) \/ OnServerWriteFailed(u) \/ ReadCompletes(u)
    \/ OnServerReadUserGone(u) \/ OnServerReadDone(u) \/ OnServerReadRemove(u)

FairSpec ==
    /\ Spec
    /\ \A u \in Users : /\ WF_vars(Progress(u))
                        /\ WF_vars(OnClientWriteDone(u))
                        /\ WF_vars(Backend(u))

--------------------------------------------------------------------------------
\* Payloads that u was sent or is being sent.
Answers(u) ==
    {sent[u][i] : i \in DOMAIN sent[u]}
        \cup (IF toUser[u] > 0 THEN {writeBuffer[u]} ELSE {})

UsesBackend(u) == phase[u] \in {"writing", "awaiting", "readDone", "removing"}

Alone(u) == \A v \in Users \ {u} : server[v] # server[u]

\* A request whose backend served no other request is always answered, and with
\* its own reply or with a 503, unless its own connection died.  So the balancer
\* loses or mixes up answers only between requests that share a backend.
AloneIsServed ==
    \A u \in Users :
       /\ server[u] # NoServer
       /\ Alone(u)
       /\ phase[u] = "ended"
       => /\ Answers(u) # {}
          /\ Answers(u) \subseteq {Reply(u), Unavailable} \/ wire[u] = "eof"

\* Even when requests that overlap take each other's replies, the reply comes
\* from the backend that get_next_available_server chose for the user.
AnswerFromChosenServer ==
    \A u, v \in Users : Reply(v) \in Answers(u) => server[v] = server[u]

\* on_server_write_done and on_server_read_done both write to the user: only a
\* user whose own connection to the backend died is ever written to twice, and
\* no user is written to three times.
TwoAnswersOnlyAfterFailure ==
    \A u \in Users :
       /\ Len(sent[u]) + toUser[u] <= 2
       /\ Len(sent[u]) + toUser[u] = 2 => wire[u] = "eof"

\* The UserClient stays registered until some write to it completes: no handler
\* of the request finds it missing before that.
UserKeptUntilAnswered ==
    \A u \in Users :
       phase[u] = "connecting" \/ UsesBackend(u)
       => u \in users \/ sent[u] # <<>>

\* An LbClient is registered under the id of the backend that it is connected to.
RegistryMatchesServer ==
    \A s \in Servers :
       lbClients[s] # NoLbClient => /\ server[lbClients[s]] = s
                                    /\ wire[lbClients[s]] # "none"

\* An entry that no request is going to remove is left behind only by a request
\* whose write to the backend failed: on_server_read_done then finds the user
\* gone and returns before remove_lb_client.
LeakOnlyAfterFailure ==
    \A s \in Servers :
       /\ lbClients[s] # NoLbClient
       /\ \A u \in Users : server[u] = s => ~UsesBackend(u)
       => \E u \in Users : server[u] = s /\ wire[u] = "eof" /\ u \notin users

\* A request that has chosen a backend always runs to its end: no handler waits
\* for ever on a connection that another request used up.
RequestEnds ==
    \A u \in Users : phase[u] = "connecting" ~> phase[u] = "ended" /\ toUser[u] = 0

\* README.md:30-48 sends concurrent requests through the balancer, which "copes":
\* a request that has connected to its backend is answered.
RequestAnswered ==
    \A u \in Users : phase[u] = "writing" ~> sent[u] # <<>>

================================================================================
