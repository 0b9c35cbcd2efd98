---------------------------- MODULE ServerSelection ----------------------------
(***************************************************************************)
(* HealthChecker::get_next_available_server, as a relation on the round    *)
(* robin's cursor and the table of verdicts.                               *)
(***************************************************************************)
EXTENDS Integers

CONSTANT NServers          \* number of backends added before start()

\* load_balancer.cpp:28-33 adds three backends before it starts the balancer;
\* with none, the modulo in get_next_available_server would divide by zero.
ASSUME NServersAssumption == NServers \in Nat \ {0}

Servers == 0 .. NServers - 1

After(last, k) == (last + k) % NServers

\* Mutant: the search starts one backend too far.
IsNextAvailableSkipsOne(last, available, s) ==
    \E k \in 2 .. NServers + 1 :
       /\ s = After(last, k)
       /\ available[s]
       /\ \A j \in 2 .. k - 1 : ~available[After(last, j)]

\* The first available backend after the last one used, in cyclic order; the last
\* one used is tried last.
IsNextAvailable(last, available, s) ==
    \E k \in 1 .. NServers :
       /\ s = After(last, k)
       /\ available[s]
       /\ \A j \in 1 .. k - 1 : ~available[After(last, j)]

NoneAvailable(available) == \A s \in Servers : ~available[s]

================================================================================
