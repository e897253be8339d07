--------------------------- MODULE MCKernelThreads ---------------------------
(***************************************************************************)
(* KernelThreads on a small instance.                                      *)
(***************************************************************************)
EXTENDS KernelThreads, TLC

CONSTANTS t1, t2, t3

\* Threads are interchangeable: no constant but Threads names one.
Symmetry == Permutations(Threads)
-----------------------------------------------------------------------------
(***************************************************************************)
(* A cooperative program: it starts threads once, and each thread that     *)
(* runs sleeps in the end, as the loops of thread-test.c do.               *)
(***************************************************************************)
EnterSleep == \E m \in Millis : m >= Timeslice /\ SwiEnter("wait_millis", m)

CooperativeNext ==
    \/ running = NULL /\ EnterEnable
    \/ running # NULL /\ EnterCreate
    \/ running # NULL /\ EnterSleep
    \/ EnterWaitFor
    \/ Handler
    \/ ThreadExit
    \/ FiqTick

CooperativeSpec ==
    /\ Init /\ [][CooperativeNext]_vars
    /\ WF_vars(Handler)
    /\ SF_vars(running # NULL /\ EnterSleep)
    /\ WF_vars(running = NULL /\ EnterEnable)

Ready(t) == t \in Ring /\ status[t] # WAITING_FOR

\* Under cooperation, every thread that is runnable or asleep gets the processor or
\* ends, as long as the program does not create threads for ever: a new thread is
\* linked in directly behind its creator, ahead of the ones that wait already.
ReadyThreadsRun ==
    <>[][~ CreateAdds]_vars => \A t \in Threads : Ready(t) ~> (running = t \/ t \notin Ring)
==============================================================================
