-------------------------- MODULE ServerShutdown_proofs --------------------------
(***************************************************************************)
(* Two proofs about the load balancer's small modules: it is destroyed in  *)
(* order, for every number of pool threads; and its backends take turns    *)
(* (RoundRobin), for every number of backends.                             *)
(***************************************************************************)
EXTENDS ServerShutdown, RoundRobin, TLAPS

\* Who says that the io_context is stopped is right: the flag, and a thread that is
\* between the two statements of stop().
StopIsKnown ==
    /\ isStopped => ioStopped
    /\ \A t \in Threads : thread[t] = "stopping" => ioStopped

\* What main has done by each of its stages.
Stages ==
    /\ main \in {"leaving", "destroying", "joining", "ended"} => thread[Main] = "left"
    /\ main \in {"destroying", "joining", "ended"} => ioStopped
    /\ ~members => main \in {"joining", "ended"}
    /\ main = "starting" => thread[Main] = "none"
    /\ ~context => /\ main = "ended"
                   /\ process = "ended"
                   /\ \A t \in Threads : thread[t] \in {"none", "left"}

IInv == TypeOK /\ StopIsKnown /\ Stages

\* A thread moves to one of the states that it may be in.
LEMMA BecomesType ==
    ASSUME TypeOK, NEW t \in Threads, NEW state \in {"none", "left"} \cup InRun,
           Becomes(t, state)
    PROVE  /\ thread' \in [Threads -> {"none", "left"} \cup InRun]
           /\ thread'[t] = state
           /\ \A u \in Threads : u # t => thread'[u] = thread[u]
BY DEF TypeOK, Becomes

\* The stages hold when the balancer is made.
LEMMA InitIInv == Init => IInv
BY MainAssumption DEF Init, IInv, TypeOK, StopIsKnown, Stages, Threads, InRun

\* Main's own steps, which start the threads and take the balancer down.
LEMMA MainStepIInv ==
    ASSUME IInv, MainStep
    PROVE  IInv'
<1> USE DEF IInv, Threads
<1>1. ASSUME NEW w \in Workers, StartWorker(w)
      PROVE  IInv'
  <2>1. w \in Threads /\ w # Main
    BY MainAssumption
  <2>2. Becomes(w, "running")
    BY <1>1 DEF StartWorker
  <2>3. /\ thread' \in [Threads -> {"none", "left"} \cup InRun]
        /\ thread'[w] = "running"
        /\ \A u \in Threads : u # w => thread'[u] = thread[u]
    BY <2>1, <2>2, BecomesType DEF InRun
  <2>4. TypeOK'
    BY <1>1, <2>3 DEF StartWorker, TypeOK
  <2>5. StopIsKnown'
    BY <1>1, <2>3 DEF StartWorker, StopIsKnown
  <2>6. Stages'
    BY <1>1, <2>1, <2>3 DEF StartWorker, Stages
  <2> QED BY <2>4, <2>5, <2>6
<1>2. CASE Run
  <2>1. Becomes(Main, "running")
    BY <1>2 DEF Run
  <2>2. /\ thread' \in [Threads -> {"none", "left"} \cup InRun]
        /\ thread'[Main] = "running"
        /\ \A u \in Threads : u # Main => thread'[u] = thread[u]
    BY <2>1, BecomesType DEF InRun
  <2>3. TypeOK'
    BY <1>2, <2>2 DEF Run, TypeOK
  <2>4. StopIsKnown'
    BY <1>2, <2>2 DEF Run, StopIsKnown
  <2>5. Stages'
    BY <1>2, <2>2 DEF Run, Stages
  <2> QED BY <2>3, <2>4, <2>5
<1>3. CASE DestructorBody
  <2>1. ioStopped'
    BY <1>3 DEF DestructorBody, StopIsKnown, TypeOK
  <2>2. TypeOK'
    BY <1>3 DEF DestructorBody, TypeOK
  <2>3. StopIsKnown'
    BY <2>1 DEF StopIsKnown
  <2>4. Stages'
    BY <1>3, <2>1 DEF DestructorBody, Stages
  <2> QED BY <2>2, <2>3, <2>4
<1>4. CASE DestroyMembers
  BY <1>4 DEF DestroyMembers, TypeOK, StopIsKnown, Stages
<1>5. CASE DestroyPool
  <2>1. \A t \in Threads : thread[t] \in {"none", "left"}
    BY <1>5 DEF DestroyPool, Stages
  <2> QED BY <1>5, <2>1 DEF DestroyPool, TypeOK, StopIsKnown, Stages
<1> QED BY <1>1, <1>2, <1>3, <1>4, <1>5 DEF MainStep

\* The steps of a thread in run(), main among them.
LEMMA ThreadStepIInv ==
    ASSUME IInv, NEW t \in Threads,
           BeginHandler(t) \/ HandleSignal(t) \/ HandlerStep(t)
    PROVE  IInv'
<1> USE DEF IInv
<1>1. thread[t] \in InRun /\ process = "up"
  BY DEF BeginHandler, HandleSignal, HandlerStep, EndHandler, HandlerThrows, SetStopped,
         LeaveRun, InRun
<1>2. context
  BY <1>1 DEF Stages, TypeOK
<1>3. t = Main => main = "running"
  BY <1>1 DEF Stages, TypeOK, InRun
<1>4. CASE BeginHandler(t) \/ SetStopped(t) \/ HandleSignal(t)
  <2>1. PICK state \in InRun : Becomes(t, state) /\ (state = "stopping" => ioStopped')
    BY <1>4 DEF BeginHandler, SetStopped, HandleSignal, InRun
  <2>2. /\ thread' \in [Threads -> {"none", "left"} \cup InRun]
        /\ thread'[t] = state
        /\ \A u \in Threads : u # t => thread'[u] = thread[u]
    BY <2>1, BecomesType
  <2>3. TypeOK'
    BY <1>4, <2>2 DEF BeginHandler, SetStopped, HandleSignal, TypeOK
  <2>4. ioStopped => ioStopped'
    BY <1>4 DEF BeginHandler, SetStopped, HandleSignal
  <2>5. isStopped' => ioStopped'
    BY <1>4, <2>4 DEF BeginHandler, SetStopped, HandleSignal, StopIsKnown
  <2>6. StopIsKnown'
    BY <2>1, <2>2, <2>4, <2>5 DEF StopIsKnown
  <2>7. UNCHANGED <<main, members, context, process>>
    BY <1>4 DEF BeginHandler, SetStopped, HandleSignal
  <2>8. Stages'
    <3>1. t # Main => thread'[Main] = thread[Main]
      BY <2>2 DEF Threads
    <3> QED BY <1>2, <1>3, <2>4, <2>7, <3>1 DEF Stages
  <2> QED BY <2>3, <2>6, <2>8
<1>5. CASE EndHandler(t)
  <2>1. CASE Becomes(t, "running") /\ UNCHANGED process
    <3>1. /\ thread' \in [Threads -> {"none", "left"} \cup InRun]
          /\ thread'[t] = "running"
          /\ \A u \in Threads : u # t => thread'[u] = thread[u]
      BY <2>1, BecomesType DEF InRun
    <3>2. TypeOK'
      BY <1>5, <2>1, <3>1 DEF EndHandler, TypeOK
    <3>3. StopIsKnown'
      BY <1>5, <3>1 DEF EndHandler, StopIsKnown
    <3>4. Stages'
      <4>1. t # Main => thread'[Main] = thread[Main]
        BY <3>1 DEF Threads
      <4> QED BY <1>2, <1>3, <1>5, <2>1, <4>1 DEF EndHandler, Stages
    <3> QED BY <3>2, <3>3, <3>4
  <2>2. CASE process' = "aborted" /\ UNCHANGED thread
    BY <1>2, <1>5, <2>2 DEF EndHandler, TypeOK, StopIsKnown, Stages
  <2> QED BY <1>5, <2>1, <2>2 DEF EndHandler
<1>6. CASE HandlerThrows(t)
  <2>1. CASE t = Main
    <3>1. Becomes(t, "left") /\ main' = "leaving" /\ UNCHANGED process
      BY <1>6, <2>1 DEF HandlerThrows
    <3>2. /\ thread' \in [Threads -> {"none", "left"} \cup InRun]
          /\ thread'[t] = "left"
          /\ \A u \in Threads : u # t => thread'[u] = thread[u]
      BY <3>1, BecomesType
    <3>3. TypeOK'
      BY <1>6, <3>1, <3>2 DEF HandlerThrows, TypeOK
    <3>4. StopIsKnown'
      BY <1>6, <3>2 DEF HandlerThrows, StopIsKnown
    <3>5. members
      BY <1>3, <2>1 DEF Stages
    <3>6. Stages'
      BY <1>2, <1>6, <2>1, <3>1, <3>2, <3>5 DEF HandlerThrows, Stages
    <3> QED BY <3>3, <3>4, <3>6
  <2>2. CASE t # Main
    BY <1>2, <1>6, <2>2 DEF HandlerThrows, TypeOK, StopIsKnown, Stages
  <2> QED BY <2>1, <2>2
<1>7. CASE LeaveRun(t)
  <2>1. Becomes(t, "left")
    BY <1>7 DEF LeaveRun
  <2>2. /\ thread' \in [Threads -> {"none", "left"} \cup InRun]
        /\ thread'[t] = "left"
        /\ \A u \in Threads : u # t => thread'[u] = thread[u]
    BY <2>1, BecomesType
  <2>3. TypeOK'
    BY <1>7, <2>2 DEF LeaveRun, TypeOK
  <2>4. StopIsKnown'
    BY <1>7, <2>2 DEF LeaveRun, StopIsKnown
  <2>5. CASE t = Main
    <3>1. members
      BY <1>3, <2>5 DEF Stages
    <3>2. Stages'
      BY <1>2, <1>7, <2>2, <2>5, <3>1 DEF LeaveRun, Stages
    <3> QED BY <2>3, <2>4, <3>2
  <2>6. CASE t # Main
    <3>1. thread'[Main] = thread[Main]
      BY <2>2, <2>6 DEF Threads
    <3>2. Stages'
      BY <1>2, <1>7, <2>6, <3>1 DEF LeaveRun, Stages
    <3> QED BY <2>3, <2>4, <3>2
  <2> QED BY <2>5, <2>6
<1> QED BY <1>4, <1>5, <1>6, <1>7 DEF HandlerStep

\* Every step keeps the stages.
LEMMA StepIInv == IInv /\ [Next]_vars => IInv'
<1> SUFFICES ASSUME IInv, [Next]_vars
             PROVE  IInv'
  OBVIOUS
<1>1. CASE MainStep
  BY <1>1, MainStepIInv
<1>2. CASE RaiseSignal
  BY <1>2 DEF RaiseSignal, IInv, TypeOK, StopIsKnown, Stages
<1>3. ASSUME NEW t \in Threads, BeginHandler(t) \/ HandleSignal(t) \/ HandlerStep(t)
      PROVE  IInv'
  BY <1>3, ThreadStepIInv
<1>4. CASE UNCHANGED vars
  BY <1>4 DEF vars, IInv, TypeOK, StopIsKnown, Stages
<1> QED BY <1>1, <1>2, <1>3, <1>4 DEF Next

\* However main leaves run() and however many threads the pool has: no handler begins
\* on a balancer that is being destroyed, and no thread runs an io_context that is gone
\* (LoadBalancer.cpp:43-63, ThreadPool.cpp:11-21).
THEOREM DestroyedInOrderAlways == Spec => []DestroyedInOrder
<1>1. IInv => DestroyedInOrder
  <2> SUFFICES ASSUME IInv
               PROVE  DestroyedInOrder
    OBVIOUS
  <2>1. ~members => ioStopped
    BY DEF IInv, Stages
  <2>2. ASSUME ~context, NEW t \in Threads
        PROVE  thread[t] \notin InRun
    <3>1. thread[t] \in {"none", "left"}
      BY <2>2 DEF IInv, Stages
    <3> QED BY <3>1 DEF InRun
  <2> QED BY <2>1, <2>2 DEF DestroyedInOrder
<1> QED BY <1>1, InitIInv, StepIInv, PTL DEF Spec

--------------------------------------------------------------------------------
\* How far t is after s, in cyclic order.
Distance(s, t) == IF s <= t THEN t - s ELSE t - s + NServers

\* The backends picked since the last verdict are available, and after s was picked
\* every available backend from there to the cursor was.
TurnsInv ==
    /\ last \in Servers
    /\ available \in [Servers -> BOOLEAN]
    /\ picked \subseteq Servers
    /\ since \in [Servers -> SUBSET Servers]
    /\ \A s \in picked : available[s]
    /\ \A s \in picked, t \in Servers :
          t # s /\ available[t] /\ Distance(s, t) <= Distance(s, last) => t \in since[s]

\* The k-th backend after l, without a division.
LEMMA AfterIs ==
    ASSUME NEW l \in Servers, NEW k \in 1 .. NServers
    PROVE  /\ After(l, k) = IF l + k < NServers THEN l + k ELSE l + k - NServers
           /\ After(l, k) \in Servers
<1>1. NServers \in Nat \ {0} /\ l \in 0 .. NServers - 1 /\ l + k \in 0 .. 2 * NServers - 1
  BY NServersAssumption DEF Servers
<1>2. \A x \in 0 .. 2 * NServers - 1 :
          x % NServers = IF x < NServers THEN x ELSE x - NServers
  BY <1>1, SMT
<1>3. (l + k) % NServers = IF l + k < NServers THEN l + k ELSE l + k - NServers
  BY <1>1, <1>2
<1> QED BY <1>1, <1>3 DEF After, Servers

\* Which backends are between the cursor and the one that is chosen.
LEMMA ChosenIs ==
    ASSUME TurnsInv, NEW s \in Servers, IsNextAvailable(last, available, s)
    PROVE  /\ available[s]
           /\ \A t \in Servers : t # last /\ Distance(last, t) < Distance(last, s) => ~available[t]
           /\ s = last => \A t \in Servers \ {s} : ~available[t]
<1>1. PICK k \in 1 .. NServers :
          /\ s = After(last, k)
          /\ available[s]
          /\ \A j \in 1 .. k - 1 : ~available[After(last, j)]
  BY DEF IsNextAvailable
<1>2. NServers \in Nat \ {0} /\ last \in 0 .. NServers - 1 /\ last \in Servers
  BY NServersAssumption DEF TurnsInv, Servers
<1>3. k = IF s = last THEN NServers ELSE Distance(last, s)
  <2>1. s = IF last + k < NServers THEN last + k ELSE last + k - NServers
    BY <1>1, <1>2, AfterIs
  <2> QED BY <1>2, <2>1 DEF Distance, Servers
<1>4. ASSUME NEW t \in Servers, t # last, Distance(last, t) < k PROVE ~available[t]
  <2>1. Distance(last, t) \in 1 .. k - 1 /\ Distance(last, t) \in 1 .. NServers
        /\ t = IF last + Distance(last, t) < NServers THEN last + Distance(last, t)
               ELSE last + Distance(last, t) - NServers
    BY <1>2, <1>4 DEF Distance, Servers
  <2>2. After(last, Distance(last, t)) = t
    BY <1>2, <2>1, AfterIs
  <2> QED BY <1>1, <2>1, <2>2
<1>5. \A t \in Servers : Distance(last, t) < NServers
  BY <1>2 DEF Distance, Servers
<1> QED BY <1>1, <1>2, <1>3, <1>4, <1>5 DEF Distance

LEMMA InitTurns == TurnsInit => TurnsInv
BY NServersAssumption DEF TurnsInit, TurnsInv, Servers

LEMMA NextTurns == TurnsInv /\ [TurnsNext]_turnVars => TurnsInv'
<1> SUFFICES ASSUME TurnsInv, [TurnsNext]_turnVars PROVE TurnsInv'
  OBVIOUS
<1>0. NServers \in Nat \ {0} /\ Servers = 0 .. NServers - 1
  BY NServersAssumption DEF Servers
<1>1. CASE GetNextAvailableServer
  <2>1. PICK u \in Servers :
            /\ IsNextAvailable(last, available, u)
            /\ last' = u
            /\ picked' = picked \cup {u}
            /\ since' = [t \in Servers |-> IF t = u THEN {} ELSE since[t] \cup {u}]
            /\ available' = available
    BY <1>0, <1>1 DEF GetNextAvailableServer
  <2>2. /\ available[u]
        /\ \A t \in Servers : t # last /\ Distance(last, t) < Distance(last, u) => ~available[t]
        /\ u = last => \A t \in Servers \ {u} : ~available[t]
    BY <2>1, ChosenIs
  <2>3. ASSUME NEW s \in picked', NEW t \in Servers,
               t # s, available[t], Distance(s, t) <= Distance(s, u)
        PROVE  t \in since'[s]
    <3>1. CASE s = u
      BY <1>0, <2>3, <3>1 DEF Distance
    <3>2. CASE s # u
      <4>1. s \in picked /\ s \in Servers /\ available[s] /\ since'[s] = since[s] \cup {u}
        BY <2>1, <3>2 DEF TurnsInv
      <4>2. CASE t = u
        BY <4>1, <4>2
      <4>3. CASE t # u
        <5>1. Distance(s, t) <= Distance(s, last)
          BY <1>0, <2>2, <2>3, <3>2, <4>1, <4>3 DEF Distance, TurnsInv
        <5> QED BY <2>3, <4>1, <5>1 DEF TurnsInv
      <4> QED BY <4>2, <4>3
    <3> QED BY <3>1, <3>2
  <2> QED BY <2>1, <2>2, <2>3 DEF TurnsInv
<1>2. CASE \E s \in Servers, status \in BOOLEAN : SetAvailable(s, status)
  BY <1>0, <1>2 DEF SetAvailable, TurnsInv
<1>3. CASE UNCHANGED turnVars
  BY <1>3 DEF turnVars, TurnsInv
<1> QED BY <1>0, <1>1, <1>2, <1>3 DEF TurnsNext

\* While the verdicts stand, no backend gets a second request before every other available
\* backend got one (HealthChecker.cpp, get_next_available_server), however many there are.
THEOREM TurnsAreAlwaysFair == TurnsSpec => TurnsAreFair
<1> DEFINE Fair == \A s \in picked :
                     /\ available' = available
                     /\ last' = s
                     => \A t \in Servers \ {s} : available[t] => t \in since[s]
<1>1. TurnsInv /\ [TurnsNext]_turnVars => [Fair]_turnVars
  <2> SUFFICES ASSUME TurnsInv, TurnsNext,
                      NEW s \in picked, available' = available, last' = s,
                      NEW t \in Servers \ {s}, available[t]
               PROVE  t \in since[s]
    OBVIOUS
  <2>0. NServers \in Nat \ {0} /\ Servers = 0 .. NServers - 1
    BY NServersAssumption DEF Servers
  <2>1. IsNextAvailable(last, available, s) /\ s \in Servers
    BY <2>0 DEF TurnsNext, GetNextAvailableServer, SetAvailable, TurnsInv
  <2>2. /\ available[s]
        /\ \A w \in Servers : w # last /\ Distance(last, w) < Distance(last, s) => ~available[w]
        /\ s = last => \A w \in Servers \ {s} : ~available[w]
    BY <2>1, ChosenIs
  <2>3. Distance(s, t) <= Distance(s, last)
    BY <2>0, <2>1, <2>2 DEF Distance, TurnsInv
  <2> QED BY <2>0, <2>3 DEF TurnsInv
<1> QED BY <1>1, InitTurns, NextTurns, PTL DEF TurnsSpec, TurnsAreFair

================================================================================
