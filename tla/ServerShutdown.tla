----------------------------- MODULE ServerShutdown -----------------------------
(***************************************************************************)
(* How the load balancer starts and ends (LoadBalancer.cpp, ThreadPool.cpp,*)
(* load_balancer.cpp): the main thread and the pool's threads run the      *)
(* handlers of one io_context; a signal stops it; main then leaves run()   *)
(* and destroys the balancer while pool threads may still be in a handler. *)
(* The web server is built the same way (web-server/ThreadPool.cpp and     *)
(* WebServer.cpp:281-350).                                                 *)
(*                                                                         *)
(* There is always work: an accept, the timer of the health checks and the *)
(* wait for signals are pending until they are destroyed.                  *)
(***************************************************************************)
EXTENDS Naturals

CONSTANTS Workers,     \* the threads of the pool; hardware_concurrency may be 0
          Main

ASSUME MainAssumption == Main \notin Workers

Threads == Workers \cup {Main}

VARIABLES
    thread,     \* what each thread does with the io_context
    main,       \* where the main function is
    signal,     \* SIGINT or SIGTERM: the wait for it is not renewed
    ioStopped,  \* the io_context is stopped
    isStopped,  \* LoadBalancer::m_is_stopped
    members,    \* the balancer's members but for the pool exist
    context,    \* the pool's io_context exists
    process     \* how the process ended

vars == <<thread, main, signal, ioStopped, isStopped, members, context, process>>

\* "stopping": between the two statements of stop().
InRun == {"running", "handling", "stopping"}

TypeOK ==
    /\ thread \in [Threads -> {"none", "left"} \cup InRun]
    /\ main \in {"starting", "running", "leaving", "destroying", "joining", "ended"}
    /\ signal \in {"none", "raised", "handled"}
    /\ ioStopped \in BOOLEAN /\ isStopped \in BOOLEAN
    /\ members \in BOOLEAN /\ context \in BOOLEAN
    /\ process \in {"up", "ended", "aborted"}

Init ==
    /\ thread = [t \in Threads |-> "none"]
    /\ main = "starting"
    /\ signal = "none"
    /\ ioStopped = FALSE /\ isStopped = FALSE
    /\ members = TRUE /\ context = TRUE
    /\ process = "up"

Becomes(t, state) == thread' = [thread EXCEPT ![t] = state]

--------------------------------------------------------------------------------
\* ThreadPool::start; no thread can have stopped the io_context before.
StartWorker(w) ==
    /\ process = "up" /\ main = "starting"
    /\ thread[w] = "none"
    /\ Becomes(w, "running")
    /\ UNCHANGED <<main, signal, ioStopped, isStopped, members, context, process>>

\* LoadBalancer::start goes on with run().
Run ==
    /\ process = "up" /\ main = "starting"
    /\ \A w \in Workers : thread[w] # "none"
    /\ Becomes(Main, "running")
    /\ main' = "running"
    /\ UNCHANGED <<signal, ioStopped, isStopped, members, context, process>>

RaiseSignal ==
    /\ process = "up" /\ signal = "none"
    /\ signal' = "raised"
    /\ UNCHANGED <<thread, main, ioStopped, isStopped, members, context, process>>

\* A thread takes a handler off the queue.
BeginHandler(t) ==
    /\ process = "up" /\ thread[t] = "running" /\ ~ioStopped
    /\ Becomes(t, "handling")
    /\ UNCHANGED <<main, signal, ioStopped, isStopped, members, context, process>>

\* A handler that uses what was destroyed under it may go on or not.
EndHandler(t) ==
    /\ process = "up" /\ thread[t] = "handling"
    /\ \/ Becomes(t, "running") /\ UNCHANGED process
       \/ ~members /\ process' = "aborted" /\ UNCHANGED thread
    /\ UNCHANGED <<main, signal, ioStopped, isStopped, members, context>>

\* main catches what run() throws; a thread of the pool catches nothing.
HandlerThrows(t) ==
    /\ process = "up" /\ thread[t] = "handling"
    /\ IF t = Main
       THEN Becomes(t, "left") /\ main' = "leaving" /\ UNCHANGED process
       ELSE process' = "aborted" /\ UNCHANGED <<thread, main>>
    /\ UNCHANGED <<signal, ioStopped, isStopped, members, context>>

\* Mutant: stop gives up the work guard instead of stopping the io_context.
HandleSignalWithoutStop(t) ==
    /\ process = "up" /\ thread[t] = "running" /\ ~ioStopped
    /\ signal = "raised"
    /\ Becomes(t, "stopping")
    /\ signal' = "handled"
    /\ UNCHANGED <<main, ioStopped, isStopped, members, context, process>>

\* The signal's handler is stop(): first the io_context, then the flag.
HandleSignal(t) ==
    /\ process = "up" /\ thread[t] = "running" /\ ~ioStopped
    /\ signal = "raised"
    /\ Becomes(t, "stopping")
    /\ signal' = "handled"
    /\ ioStopped' = TRUE
    /\ UNCHANGED <<main, isStopped, members, context, process>>

SetStopped(t) ==
    /\ process = "up" /\ thread[t] = "stopping"
    /\ Becomes(t, "running")
    /\ isStopped' = TRUE
    /\ UNCHANGED <<main, signal, ioStopped, members, context, process>>

LeaveRun(t) ==
    /\ process = "up" /\ thread[t] = "running" /\ ioStopped
    /\ Becomes(t, "left")
    /\ main' = IF t = Main THEN "leaving" ELSE main
    /\ UNCHANGED <<signal, ioStopped, isStopped, members, context, process>>

--------------------------------------------------------------------------------
\* Mutant: the destructor leaves stopping to the signal.
DestructorBodyEmpty ==
    /\ process = "up" /\ main = "leaving"
    /\ main' = "destroying"
    /\ UNCHANGED <<thread, signal, ioStopped, isStopped, members, context, process>>

\* ~LoadBalancer: stop(), unless the flag says that it was called.
DestructorBody ==
    /\ process = "up" /\ main = "leaving"
    /\ main' = "destroying"
    /\ ioStopped' = (ioStopped \/ ~isStopped)
    /\ isStopped' = TRUE
    /\ UNCHANGED <<thread, signal, members, context, process>>

\* The members, the last declared first: the pool is the first of them.
DestroyMembers ==
    /\ process = "up" /\ main = "destroying"
    /\ members' = FALSE
    /\ main' = "joining"
    /\ UNCHANGED <<thread, signal, ioStopped, isStopped, context, process>>

\* Mutant: the pool lets its threads go.
DestroyPoolDetached ==
    /\ process = "up" /\ main = "joining"
    /\ context' = FALSE
    /\ main' = "ended"
    /\ process' = "ended"
    /\ UNCHANGED <<thread, signal, ioStopped, isStopped, members>>

\* ~ThreadPool joins its threads, and its members are destroyed.
DestroyPool ==
    /\ process = "up" /\ main = "joining"
    /\ \A w \in Workers : thread[w] \in {"none", "left"}
    /\ context' = FALSE
    /\ main' = "ended"
    /\ process' = "ended"
    /\ UNCHANGED <<thread, signal, ioStopped, isStopped, members>>

HandlerStep(t) == EndHandler(t) \/ HandlerThrows(t) \/ SetStopped(t) \/ LeaveRun(t)

MainStep ==
    \/ \E w \in Workers : StartWorker(w)
    \/ Run \/ DestructorBody \/ DestroyMembers \/ DestroyPool

Next ==
    \/ MainStep
    \/ RaiseSignal
    \/ \E t \in Threads : BeginHandler(t) \/ HandleSignal(t) \/ HandlerStep(t)

Spec == Init /\ [][Next]_vars

\* Every thread gets processor time and no handler runs for ever.  The io_context
\* queues handlers in order, so that the signal's comes up however many there are.
FairSpec ==
    /\ Spec
    /\ WF_vars(MainStep)
    /\ \A t \in Threads : WF_vars(HandlerStep(t))
    /\ SF_vars(\E t \in Threads : HandleSignal(t))

--------------------------------------------------------------------------------
\* No handler begins on a balancer that is being destroyed, whether main left run()
\* for a signal or for an exception, and the io_context is still there for every
\* thread that runs it: the destructor stops before it destroys
\* (LoadBalancer.cpp:43-49), and the pool, the first member, goes last and joins
\* (ThreadPool.cpp:11-21).  Handlers that had begun before may meet destroyed
\* members.
DestroyedInOrder ==
    /\ ~members => ioStopped
    /\ ~context => \A t \in Threads : thread[t] \notin InRun

\* A signal, or an exception that takes main out of run(), ends the process: the
\* destructor's stop() lets every pool thread go before it is joined.
EndsOnceAsked == (signal = "raised" \/ main = "leaving") ~> (process # "up")

================================================================================
