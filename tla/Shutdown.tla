------------------------------ MODULE Shutdown ------------------------------
(***************************************************************************)
(* How the sresar daemon ends.  main blocks every signal, creates the      *)
(* threads and reads signals from a signalfd.  On a stop signal, the       *)
(* restart alarm or the SIGUSR1 that every ending thread sends, it adds    *)
(* one to eventfd_thread, a semaphore that all threads watch with          *)
(* edge-triggered epoll and none of them reads, and joins the threads in a *)
(* fixed order.  If the write fails it cancels them instead.               *)
(*                                                                         *)
(* What a thread does between two calls of epoll_wait is one step of work  *)
(* here, except for the points at which it can be stopped or cancelled.    *)
(***************************************************************************)
EXTENDS Naturals, Sequences

CONSTANTS
  Enabled,        \* the threads main tries to create (load5s_flag, proc_flag, sys_flag)
  WriteMayFail    \* the write to eventfd_thread may fail

AllThreads == {"load1", "loadrd", "sresar", "cmdinfo", "snapsys", "rotate"}

ASSUME EnabledAssumption ==
  /\ Enabled \subseteq AllThreads
  /\ "rotate" \in Enabled
  /\ WriteMayFail \in BOOLEAN

CreateOrder == <<"load1", "loadrd", "sresar", "cmdinfo", "snapsys", "rotate">>

\* Mutant: one thread is forgotten.
JoinOrder_NoSnapsys == <<"load1", "sresar", "cmdinfo", "load1", "loadrd", "rotate">>

JoinOrder == <<"load1", "sresar", "cmdinfo", "snapsys", "loadrd", "rotate">>

VARIABLES
  mpc,       \* main: where it is
  next,      \* main: the place in CreateOrder or JoinOrder
  pending,   \* signals the signalfd has not delivered
  count,     \* the value of eventfd_thread
  told,      \* eventfd_thread has been written
  pc,        \* the threads: where each is
  edge,      \* threads with an undelivered epoll event of eventfd_thread
  cancel     \* threads with a cancellation request

mainVars   == <<mpc, next, told>>
threadVars == <<pc, edge, cancel>>
vars == <<mainVars, pending, count, threadVars>>

Stops   == {"SIGTERM", "SIGALRM", "SIGUSR1"}     \* INT, QUIT and HUP are as TERM
Signals == Stops \cup {"SIGCHLD"}                \* any other signal is ignored

\* "none" is a thread whose id is still 0; "loop", "wait" and "work" watch
\* eventfd_thread; "exit" is the way out through the release labels.
Watching == {"loop", "wait", "work"}
Pcs == {"none", "setup", "exit", "ended", "joined"} \cup Watching

TypeOK ==
  /\ mpc \in {"create", "signal", "write", "join", "release", "done"}
  /\ next \in 1 .. 7
  /\ pending \in SUBSET Signals
  /\ count \in 0 .. 1
  /\ told \in BOOLEAN
  /\ pc \in [AllThreads -> Pcs]
  /\ edge \in [AllThreads -> BOOLEAN]
  /\ cancel \in [AllThreads -> BOOLEAN]

Init ==
  /\ mpc = "create" /\ next = 1
  /\ pending = {}
  /\ count = 0 /\ told = FALSE
  /\ pc = [t \in AllThreads |-> "none"]
  /\ edge = [t \in AllThreads |-> FALSE]
  /\ cancel = [t \in AllThreads |-> FALSE]

-----------------------------------------------------------------------------
(* main.                                                                     *)

(* A thread attribute that cannot be set: no thread is created.              *)
CreateGivesUp ==
  /\ mpc = "create" /\ next = 1
  /\ mpc' = "release"
  /\ UNCHANGED <<next, told, pending, count, threadVars>>

(* pthread_create, if the flag is set; a failure is logged and passed over.  *)
CreateThread ==
  /\ mpc = "create" /\ next <= Len(CreateOrder)
  /\ LET t == CreateOrder[next] IN
       \/ t \in Enabled /\ pc' = [pc EXCEPT ![t] = "setup"]
       \/ UNCHANGED pc
  /\ next' = next + 1
  /\ UNCHANGED <<mpc, told, pending, count, edge, cancel>>

(* alarm(), and the loop on signalfd begins.                                 *)
CreateDone ==
  /\ mpc = "create" /\ next > Len(CreateOrder)
  /\ mpc' = "signal" /\ next' = 1
  /\ UNCHANGED <<told, pending, count, threadVars>>

ReadSignal(s) ==
  /\ mpc = "signal"
  /\ s \in pending
  /\ pending' = pending \ {s}
  /\ mpc' = IF s \in Stops THEN "write" ELSE "signal"
  /\ UNCHANGED <<next, told, count, threadVars>>

\* Mutant: rotate_thread is forgotten.
CancelThreads_Enabled == [t \in AllThreads |-> t \in Enabled /\ t # "rotate"]

CancelThreads == [t \in AllThreads |-> pc[t] # "none"]

\* Mutant: no event for a thread that is away from epoll_wait.
Announce_OnlyWaiting == [t \in AllThreads |-> edge[t] \/ pc[t] = "wait"]

(* A write to the semaphore queues an event in every epoll that watches it.  *)
Announce == [t \in AllThreads |-> edge[t] \/ pc[t] \in Watching]

\* Mutant: the loop is not left after the write.
WriteEvent_NoBreak ==
  /\ mpc = "write"
  /\ count' = count + 1
  /\ edge' = Announce
  /\ told' = TRUE
  /\ mpc' = "signal"
  /\ UNCHANGED <<next, pending, pc, cancel>>

WriteEvent ==
  /\ mpc = "write"
  /\ \/ /\ count' = count + 1
        /\ edge' = Announce
        /\ told' = TRUE
        /\ UNCHANGED cancel
     \/ /\ WriteMayFail
        /\ cancel' = CancelThreads
        /\ UNCHANGED <<count, edge, told>>
  /\ mpc' = "join"
  /\ UNCHANGED <<next, pending, pc>>

(* pthread_join of the next thread, if it was created; it waits for its end. *)
Join ==
  /\ mpc = "join" /\ next <= Len(JoinOrder)
  /\ LET t == JoinOrder[next] IN
       /\ pc[t] \in {"none", "ended", "joined"}
       /\ pc' = [pc EXCEPT ![t] = IF @ = "none" THEN "none" ELSE "joined"]
  /\ next' = next + 1
  /\ UNCHANGED <<mpc, told, pending, count, edge, cancel>>

JoinDone ==
  /\ mpc = "join" /\ next > Len(JoinOrder)
  /\ mpc' = "release"
  /\ UNCHANGED <<next, told, pending, count, threadVars>>

(* The descriptors are closed, the pid lock is dropped, main returns.        *)
Release ==
  /\ mpc = "release"
  /\ mpc' = "done"
  /\ UNCHANGED <<next, told, pending, count, threadVars>>

MainStep ==
  CreateGivesUp \/ CreateThread \/ CreateDone \/ WriteEvent \/ Join \/ JoinDone \/ Release

(* A signal from outside; they have been blocked since before the threads.   *)
Signal ==
  /\ mpc # "done"
  /\ \E s \in {"SIGTERM", "SIGCHLD"} : pending' = pending \cup {s}
  /\ UNCHANGED <<mainVars, count, threadVars>>

(* duration_restart hours after the threads were created.                    *)
Alarm ==
  /\ mpc = "signal"
  /\ pending' = pending \cup {"SIGALRM"}
  /\ UNCHANGED <<mainVars, count, threadVars>>

-----------------------------------------------------------------------------
(* A thread.                                                                 *)
threadFrame == <<mainVars, pending, count>>

\* Mutant: a thread that starts after the write is not told.
Setup_NoEdge(t) ==
  /\ pc[t] = "setup"
  /\ pc' = [pc EXCEPT ![t] = "loop"]
  /\ UNCHANGED <<threadFrame, edge, cancel>>

(* EPOLL_CTL_ADD of eventfd_thread: an event if it is readable already.      *)
Setup(t) ==
  /\ pc[t] = "setup"
  /\ pc' = [pc EXCEPT ![t] = "loop"]
  /\ edge' = [edge EXCEPT ![t] = count > 0]
  /\ UNCHANGED <<threadFrame, cancel>>

(* Any failure before the loop.                                              *)
SetupFails(t) ==
  /\ pc[t] = "setup"
  /\ pc' = [pc EXCEPT ![t] = "exit"]
  /\ UNCHANGED <<threadFrame, edge, cancel>>

(* A new thread has cancellation enabled: a call in its set-up may act on it. *)
SetupCancelled(t) ==
  /\ pc[t] = "setup" /\ cancel[t]
  /\ pc' = [pc EXCEPT ![t] = "ended"]
  /\ UNCHANGED <<threadFrame, edge, cancel>>

(* pthread_testcancel, then cancellation is disabled for the round.          *)
Top(t) ==
  /\ pc[t] = "loop"
  /\ pc' = [pc EXCEPT ![t] = IF cancel[t] THEN "ended" ELSE "wait"]
  /\ UNCHANGED <<threadFrame, edge, cancel>>

\* Mutant: the semaphore is read like the other descriptors before the thread ends.
Stop_Reads(t) ==
  /\ pc[t] = "wait" /\ edge[t] /\ count > 0
  /\ pc' = [pc EXCEPT ![t] = "exit"]
  /\ edge' = [edge EXCEPT ![t] = FALSE]
  /\ count' = count - 1
  /\ UNCHANGED <<mainVars, pending, cancel>>

(* epoll_wait reports eventfd_thread, alone or among others.                 *)
Stop(t) ==
  /\ pc[t] = "wait" /\ edge[t] /\ count > 0
  /\ pc' = [pc EXCEPT ![t] = "exit"]
  /\ edge' = [edge EXCEPT ![t] = FALSE]
  /\ UNCHANGED <<threadFrame, cancel>>

(* It reports other descriptors only, or an event whose descriptor is no     *)
(* longer readable is dropped.                                               *)
Awake(t) ==
  /\ pc[t] = "wait" /\ ~(edge[t] /\ count > 0)
  /\ pc' = [pc EXCEPT ![t] = "work"]
  /\ edge' = [edge EXCEPT ![t] = FALSE]
  /\ UNCHANGED <<threadFrame, cancel>>

(* EPL_TOUT passes, or EINTR: nothing is consumed.                           *)
Timeout(t) ==
  /\ pc[t] = "wait" /\ ~(edge[t] /\ count > 0)
  /\ pc' = [pc EXCEPT ![t] = "loop"]
  /\ UNCHANGED <<threadFrame, edge, cancel>>

Worked(t) ==
  /\ pc[t] = "work"
  /\ pc' = [pc EXCEPT ![t] = "loop"]
  /\ UNCHANGED <<threadFrame, edge, cancel>>

(* An error of epoll_wait, or of the rotation.                               *)
Fails(t) ==
  /\ \/ pc[t] = "wait"
     \/ pc[t] = "work" /\ t = "rotate"
  /\ pc' = [pc EXCEPT ![t] = "exit"]
  /\ UNCHANGED <<threadFrame, edge, cancel>>

\* Mutant: the way out for errors does not signal main.
Ends_Silently(t) ==
  /\ pc[t] = "exit"
  /\ pc' = [pc EXCEPT ![t] = "ended"]
  /\ UNCHANGED <<threadFrame, edge, cancel>>

(* The release labels: SIGUSR1 to main, and the thread returns.              *)
Ends(t) ==
  /\ pc[t] = "exit"
  /\ pending' = pending \cup {"SIGUSR1"}
  /\ pc' = [pc EXCEPT ![t] = "ended"]
  /\ UNCHANGED <<mainVars, count, edge, cancel>>

(* The threads that read /proc call exit() when that or an allocation fails: *)
(* the process is gone.                                                      *)
ExitsProcess ==
  /\ mpc # "done"
  /\ \E t \in {"loadrd", "sresar", "cmdinfo"} : pc[t] = "work"
  /\ mpc' = "done"
  /\ pc' = [t \in AllThreads |-> IF pc[t] = "none" THEN "none" ELSE "joined"]
  /\ UNCHANGED <<next, told, pending, count, edge, cancel>>

ThreadStep(t) ==
  \/ Setup(t) \/ Top(t) \/ Stop(t) \/ Timeout(t) \/ Worked(t) \/ Ends(t)

ThreadEvent(t) == SetupFails(t) \/ SetupCancelled(t) \/ Awake(t) \/ Fails(t)

Next ==
  \/ MainStep \/ Signal \/ Alarm
  \/ \E s \in Signals : ReadSignal(s)
  \/ \E t \in AllThreads : ThreadStep(t) \/ ThreadEvent(t)
  \/ ExitsProcess

Spec == Init /\ [][Next]_vars

(* The scheduler: main and every thread go on when they can.  A thread that  *)
(* waits is woken at the latest by EPL_TOUT, and the signalfd does not pass  *)
(* over a pending signal for ever.  The alarm is left out: duration_restart  *)
(* may be 0, which asks for none.                                            *)
Fairness ==
  /\ WF_vars(MainStep)
  /\ \A s \in Signals : WF_vars(ReadSignal(s))
  /\ \A t \in AllThreads : WF_vars(ThreadStep(t))

FairSpec == Spec /\ Fairness

-----------------------------------------------------------------------------
(* Properties.                                                               *)

(* One write stops everybody: once eventfd_thread has been written every     *)
(* thread that watches it has the event still to come, whether it was        *)
(* waiting, working or setting up, and nobody has taken the semaphore down.  *)
NobodyMissesStop ==
  told => \A t \in AllThreads : pc[t] \in Watching => edge[t] /\ count > 0

(* main closes the descriptors and returns only when no thread runs.         *)
ReleasedAlone ==
  mpc \in {"release", "done"} => \A t \in AllThreads : pc[t] \in {"none", "joined"}

(* A thread that has ended leaves a SIGUSR1 behind until main has reacted:   *)
(* the daemon does not go on without it unnoticed.                           *)
DeathNoticed ==
  \A t \in AllThreads :
    pc[t] = "ended" /\ mpc \in {"create", "signal"} => "SIGUSR1" \in pending

(* The refinement mapping to StopProtocol.                                   *)
Phase ==
  IF mpc \in {"create", "signal"} THEN "up"
  ELSE IF mpc \in {"write", "join"} THEN "stopping" ELSE "down"

LifeOf(p) ==
  IF p = "none" THEN "unborn" ELSE IF p \in {"ended", "joined"} THEN "gone" ELSE "running"

Life == [t \in AllThreads |-> LifeOf(pc[t])]

Protocol == INSTANCE StopProtocol WITH Threads <- AllThreads, phase <- Phase, life <- Life

(* Signals, semaphore, cancellation and joins together do what the protocol  *)
(* of ending promises: no thread starts late or twice, and the daemon goes   *)
(* down only without running threads, or in one step with all of them.       *)
KeepsProtocol == Protocol!Spec

(* And under the threads' fairness they do it to the end: a stopping daemon's *)
(* threads end, and it goes down.                                            *)
KeepsFairProtocol == Protocol!FairSpec

(* A daemon that is told to stop ends.                                       *)
StopEnds == "SIGTERM" \in pending ~> mpc = "done"

(* A daemon one of whose threads has ended ends (and is started again).      *)
DeathEnds == (\E t \in AllThreads : pc[t] = "ended") ~> mpc = "done"

(* With an alarm that goes off, the daemon ends in any case: it is restarted *)
(* every duration_restart hours.                                             *)
RestartEnds == WF_vars(Alarm) => <>(mpc = "done")
=============================================================================
