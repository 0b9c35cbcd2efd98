----------------------------- MODULE HealthChecker -----------------------------
(***************************************************************************)
(* The health checker (HealthChecker.cpp): a timer starts a round of       *)
(* checks, one connection to every backend, and is armed again at once, so *)
(* a round may start while checks of earlier rounds are under way.  The    *)
(* checks go through the registry under the backend's "_H" id.             *)
(*                                                                         *)
(* A check is <<backend, round>>, and so is the LbClient that it creates.  *)
(* The name of a round is used again once no LbClient of it is alive.      *)
(***************************************************************************)
EXTENDS LbClientManager

CONSTANTS Servers,         \* the backends added before start()
          Rounds           \* bound: rounds with a live LbClient at one time

Checks == Servers \X Rounds

ASSUME ServersAssumption == Servers # {}
ASSUME NoCheckAssumption == NoLbClient \notin Checks

VARIABLES
    up,          \* whether the backend accepts connections and answers
    available,   \* ServerDetails::m_is_available
    lbClients,   \* LbClientManager::m_lb_clients, the "_H" ids
    phase,       \* where each check is
    target,      \* the LbClient that the check started a read on
    wire,        \* what the backend's side of each LbClient's socket has done
    readFailed,  \* the error_code of the read that completed for the check
    crashed,     \* a handler has dereferenced a null LbClientPtr
    overlap      \* the period is shorter than a round may take; it never changes

vars == <<up, available, lbClients, phase, target, wire, readFailed, crashed, overlap>>

Phases == {"idle", "connecting", "writing", "awaiting", "readDone", "removing"}

TypeOK ==
    /\ up \in [Servers -> BOOLEAN]
    /\ available \in [Servers -> BOOLEAN]
    /\ lbClients \in [Servers -> Checks \cup {NoLbClient}]
    /\ phase \in [Checks -> Phases]
    /\ target \in [Checks -> Checks \cup {NoLbClient}]
    /\ \A c \in Checks : phase[c] = "awaiting" => target[c] # NoLbClient
    /\ wire \in [Checks -> {"none", "open", "reply", "drained", "finished", "eof"}]
    /\ readFailed \in [Checks -> BOOLEAN]
    /\ crashed \in BOOLEAN
    /\ overlap \in BOOLEAN

Init ==
    /\ up \in [Servers -> BOOLEAN]
    /\ available = [s \in Servers |-> FALSE]
    /\ lbClients = EmptyRegistry(Servers)
    /\ phase = [c \in Checks |-> "idle"]
    /\ target = [c \in Checks |-> NoLbClient]
    /\ wire = [c \in Checks |-> "none"]
    /\ readFailed = [c \in Checks |-> FALSE]
    /\ crashed = FALSE
    /\ overlap \in BOOLEAN

--------------------------------------------------------------------------------
\* The LbClient of c is alive: a handler, a pending operation or the registry
\* holds a shared_ptr to it.
Alive(c) ==
    \/ phase[c] \in {"connecting", "writing"}
    \/ lbClients[c[1]] = c
    \/ \E d \in Checks : phase[d] # "idle" /\ target[d] = c

\* handle_timer_complete: perform_health_check creates an LbClient for every
\* backend, and the timer is armed again.
OnTimer ==
    /\ ~crashed
    /\ overlap \/ \A c \in Checks : phase[c] = "idle"
    /\ \E r \in Rounds :
          /\ \A s \in Servers : phase[<<s, r>>] = "idle" /\ ~Alive(<<s, r>>)
          /\ phase' = [c \in Checks |-> IF c[2] = r THEN "connecting" ELSE phase[c]]
          /\ target' = [c \in Checks |-> IF c[2] = r THEN NoLbClient ELSE target[c]]
          /\ wire' = [c \in Checks |-> IF c[2] = r THEN "none" ELSE wire[c]]
    /\ UNCHANGED <<up, available, lbClients, readFailed, crashed, overlap>>

\* Mutant: a backend that refuses the connection keeps its verdict.
OnConnectFailedIgnored(c) ==
    /\ ~crashed /\ phase[c] = "connecting" /\ ~up[c[1]]
    /\ phase' = [phase EXCEPT ![c] = "idle"]
    /\ UNCHANGED <<up, available, lbClients, target, wire, readFailed, crashed, overlap>>

\* The connect callback: the backend cannot be reached.
OnConnectFailed(c) ==
    /\ ~crashed /\ phase[c] = "connecting" /\ ~up[c[1]]
    /\ phase' = [phase EXCEPT ![c] = "idle"]
    /\ available' = [available EXCEPT ![c[1]] = FALSE]
    /\ UNCHANGED <<up, lbClients, target, wire, readFailed, crashed, overlap>>

\* Mutant: the check is written before its LbClient is registered.
OnConnectDoneUnregistered(c) ==
    /\ ~crashed /\ phase[c] = "connecting" /\ up[c[1]]
    /\ phase' = [phase EXCEPT ![c] = "writing"]
    /\ wire' = [wire EXCEPT ![c] = "open"]
    /\ UNCHANGED <<up, available, lbClients, target, readFailed, crashed, overlap>>

\* The connect callback: the LbClient is registered, unless the id is taken, and
\* the check's GET is written on its own socket.
OnConnectDone(c) ==
    /\ ~crashed /\ phase[c] = "connecting" /\ up[c[1]]
    /\ phase' = [phase EXCEPT ![c] = "writing"]
    /\ wire' = [wire EXCEPT ![c] = "open"]
    /\ lbClients' = AddLbClient(lbClients, c[1], c)
    /\ UNCHANGED <<up, available, target, readFailed, crashed, overlap>>

\* on_server_write_done, whatever the write's error code: the read starts on the
\* LbClient that the id names.
OnServerWriteDone(c) ==
    /\ ~crashed /\ phase[c] = "writing"
    /\ LET t == GetLbClient(lbClients, c[1])
       IN  /\ t # NoLbClient
           /\ phase' = [phase EXCEPT ![c] = "awaiting"]
           /\ target' = [target EXCEPT ![c] = t]
    /\ UNCHANGED <<up, available, lbClients, wire, readFailed, crashed, overlap>>

\* on_server_write_done: the id names nothing any more, and the predicate of
\* find_if calls get_ip_port through the null pointer.
OnServerWriteOrphan(c) ==
    /\ ~crashed /\ phase[c] = "writing"
    /\ GetLbClient(lbClients, c[1]) = NoLbClient
    /\ crashed' = TRUE
    /\ UNCHANGED <<up, available, lbClients, phase, target, wire, readFailed, overlap>>

\* A read started by c completes on the socket of target[c].
ReadCompletes(c) ==
    /\ ~crashed /\ phase[c] = "awaiting"
    /\ LET t == target[c]
       IN  \/ /\ wire[t] = "reply"
              /\ wire' = [wire EXCEPT ![t] = "drained"]
              /\ readFailed' = [readFailed EXCEPT ![c] = FALSE]
           \/ /\ wire[t] \in {"finished", "eof"}
              /\ readFailed' = [readFailed EXCEPT ![c] = TRUE]
              /\ UNCHANGED wire
    /\ phase' = [phase EXCEPT ![c] = "readDone"]
    /\ UNCHANGED <<up, available, lbClients, target, crashed, overlap>>

\* Mutant: the verdict is the error code itself.
OnServerReadDoneInverted(c) ==
    /\ ~crashed /\ phase[c] = "readDone"
    /\ lbClients[c[1]] # NoLbClient
    /\ available' = [available EXCEPT ![c[1]] = readFailed[c]]
    /\ phase' = [phase EXCEPT ![c] = "removing"]
    /\ UNCHANGED <<up, lbClients, target, wire, readFailed, crashed, overlap>>

\* on_server_read_done: the verdict on the backend of the LbClient that the id
\* names, if it still names one.
OnServerReadDone(c) ==
    /\ ~crashed /\ phase[c] = "readDone"
    /\ LET t == GetLbClient(lbClients, c[1])
       IN  \/ /\ t # NoLbClient
              /\ available' = [available EXCEPT ![t[1]] = ~readFailed[c]]
              /\ phase' = [phase EXCEPT ![c] = "removing"]
           \/ /\ t = NoLbClient
              /\ phase' = [phase EXCEPT ![c] = "idle"]
              /\ UNCHANGED available
    /\ UNCHANGED <<up, lbClients, target, wire, readFailed, crashed, overlap>>

\* Mutant: the LbClient stays registered after its check.
OnServerReadKeeps(c) ==
    /\ ~crashed /\ phase[c] = "removing"
    /\ phase' = [phase EXCEPT ![c] = "idle"]
    /\ UNCHANGED <<up, available, lbClients, target, wire, readFailed, crashed, overlap>>

\* The last call of on_server_read_done.
OnServerReadRemove(c) ==
    /\ ~crashed /\ phase[c] = "removing"
    /\ lbClients' = RemoveLbClient(lbClients, c[1])
    /\ phase' = [phase EXCEPT ![c] = "idle"]
    /\ UNCHANGED <<up, available, target, wire, readFailed, crashed, overlap>>

--------------------------------------------------------------------------------
\* The backends, not part of the repository.  One that is up answers a check and
\* then closes; one that goes down breaks its connections.
BackendReplies(c) ==
    /\ ~crashed /\ wire[c] = "open" /\ up[c[1]]
    /\ wire' = [wire EXCEPT ![c] = "reply"]
    /\ UNCHANGED <<up, available, lbClients, phase, target, readFailed, crashed, overlap>>

BackendCloses(c) ==
    /\ ~crashed
    /\ \/ wire[c] = "open" /\ ~up[c[1]] /\ wire' = [wire EXCEPT ![c] = "eof"]
       \/ wire[c] = "drained" /\ wire' = [wire EXCEPT ![c] = "finished"]
    /\ UNCHANGED <<up, available, lbClients, phase, target, readFailed, crashed, overlap>>

BackendFlips(s) ==
    /\ ~crashed
    /\ up' = [up EXCEPT ![s] = ~@]
    /\ UNCHANGED <<available, lbClients, phase, target, wire, readFailed, crashed, overlap>>

Handler(c) ==
    \/ OnConnectFailed(c) \/ OnConnectDone(c)
    \/ OnServerWriteDone(c) \/ OnServerWriteOrphan(c)
    \/ ReadCompletes(c) \/ OnServerReadDone(c) \/ OnServerReadRemove(c)

Backend(c) == BackendReplies(c) \/ BackendCloses(c)

Next ==
    \/ OnTimer
    \/ \E c \in Checks : Handler(c) \/ Backend(c)
    \/ \E s \in Servers : BackendFlips(s)

Spec == Init /\ [][Next]_vars

\* The timer fires and the pool's threads run what is queued.  A connection to a
\* backend that is up is answered, and one to a backend that is down breaks.
FairSpec ==
    /\ Spec
    /\ WF_vars(OnTimer)
    /\ \A c \in Checks : WF_vars(Handler(c)) /\ WF_vars(Backend(c))

--------------------------------------------------------------------------------
\* The registry holds an LbClient for a backend only while some check of that
\* backend is under way: nothing is left behind for a later round to trip over.
NoLeakedEntry ==
    \A s \in Servers :
       lbClients[s] # NoLbClient
       => \E r \in Rounds :
             phase[<<s, r>>] \in {"writing", "awaiting", "readDone", "removing"}

\* When the period leaves each round the time to end, every write handler finds the
\* LbClient of its check: the id is free when a round starts, and names the check's
\* own connection until the check removes it.
FoundWhenSerial ==
    ~overlap => /\ ~crashed
                /\ \A c \in Checks : /\ phase[c] = "writing" => lbClients[c[1]] = c
                                     /\ phase[c] = "awaiting" => target[c] = c

\* A backend that goes down for good is found out, whatever the overlap of rounds
\* and whatever verdicts were still on their way.
DownIsDetected ==
    \A s \in Servers : <>[](~up[s]) => <>[](~available[s] \/ crashed)

\* A backend that comes up for good is used in the end, when rounds do not overlap.
UpIsDetected == \A s \in Servers : <>[](up[s] /\ ~overlap) => <>[](available[s])

================================================================================
