------------------------------- MODULE RoundRobin -------------------------------
(***************************************************************************)
(* Who gets the requests: get_next_available_server called again and       *)
(* again, under the servers' mutex, while verdicts change the table.       *)
(***************************************************************************)
EXTENDS ServerSelection

VARIABLES
    available,   \* ServerDetails::m_is_available
    last,        \* m_last_server_index
    picked,      \* history: the backends chosen since the last verdict
    since        \* history: for each, who was chosen after it

turnVars == <<available, last, picked, since>>

TurnsInit ==
    /\ available = [s \in Servers |-> FALSE]
    /\ last = 0
    /\ picked = {}
    /\ since = [s \in Servers |-> {}]

\* A call that finds a backend; one that finds none changes nothing.
GetNextAvailableServer ==
    /\ \E s \in Servers :
          /\ IsNextAvailable(last, available, s)
          /\ last' = s
          /\ picked' = picked \cup {s}
          /\ since' = [t \in Servers |-> IF t = s THEN {} ELSE since[t] \cup {s}]
    /\ UNCHANGED available

\* A verdict that changes nothing is left out.
SetAvailable(s, status) ==
    /\ available[s] # status
    /\ available' = [available EXCEPT ![s] = status]
    /\ picked' = {}
    /\ since' = [t \in Servers |-> {}]
    /\ UNCHANGED last

TurnsNext ==
    \/ GetNextAvailableServer
    \/ \E s \in Servers, status \in BOOLEAN : SetAvailable(s, status)

TurnsSpec == TurnsInit /\ [][TurnsNext]_turnVars

\* While the verdicts stand, no backend gets a second request before every other
\* available backend got one: no two of them differ by more than one request.
TurnsAreFair ==
    [][\A s \in picked :
          /\ available' = available
          /\ last' = s
          => \A t \in Servers \ {s} : available[t] => t \in since[s]]_turnVars

================================================================================
