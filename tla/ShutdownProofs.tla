--------------------------- MODULE ShutdownProofs ---------------------------
(***************************************************************************)
(* Proofs about Shutdown, for any set of enabled threads and whether or    *)
(* not the write to eventfd_thread may fail.                               *)
(***************************************************************************)
EXTENDS Shutdown, TLAPS

Listening == {"create", "signal", "write"}    \* main has not announced the end yet

\* Before the write the semaphore is 0 and nobody is cancelled or joined.
BeforeInv ==
  mpc \in Listening =>
    count = 0 /\ ~told /\ \A t \in AllThreads : ~cancel[t] /\ pc[t] # "joined"

\* The write happens once.
CountInv == told => count = 1

\* Threads main has not come to yet have not started.
CreateInv ==
  mpc = "create" => \A i \in 1 .. 6 : i >= next => pc[CreateOrder[i]] = "none"

\* Threads main has passed while joining have gone.
JoinInv ==
  /\ mpc \in {"signal", "write"} => next = 1
  /\ mpc = "join" => \A i \in 1 .. 6 : i < next => pc[JoinOrder[i]] \in {"none", "joined"}

IInv ==
  /\ TypeOK /\ BeforeInv /\ CountInv /\ CreateInv /\ JoinInv
  /\ NobodyMissesStop /\ ReleasedAlone /\ DeathNoticed

(* Both orders name every thread, and CreateOrder names it once.             *)
LEMMA Orders ==
  /\ Len(CreateOrder) = 6 /\ Len(JoinOrder) = 6
  /\ \A i \in 1 .. 6 : CreateOrder[i] \in AllThreads /\ JoinOrder[i] \in AllThreads
  /\ \A t \in AllThreads : \E i \in 1 .. 6 : CreateOrder[i] = t
  /\ \A t \in AllThreads : \E i \in 1 .. 6 : JoinOrder[i] = t
  /\ \A i, j \in 1 .. 6 : CreateOrder[i] = CreateOrder[j] => i = j
  BY DEF CreateOrder, JoinOrder, AllThreads

LEMMA InitIInv == Init => IInv
<1> SUFFICES ASSUME Init PROVE IInv
  OBVIOUS
<1>1. TypeOK
  <2>1. edge \in [AllThreads -> BOOLEAN] /\ cancel \in [AllThreads -> BOOLEAN]
    BY Zenon DEF Init
  <2>2. pc \in [AllThreads -> Pcs] /\ pending \in SUBSET Signals
    BY Zenon DEF Init, Pcs
  <2>3. mpc = "create" /\ next \in 1 .. 7 /\ count \in 0 .. 1 /\ told = FALSE
    BY DEF Init
  <2> QED
    BY <2>1, <2>2, <2>3 DEF TypeOK
<1>2. BeforeInv /\ CountInv /\ JoinInv
  BY DEF Init, BeforeInv, CountInv, JoinInv
<1>3. CreateInv
  BY Orders DEF Init, CreateInv
<1>4. NobodyMissesStop /\ ReleasedAlone /\ DeathNoticed
  BY DEF Init, NobodyMissesStop, ReleasedAlone, DeathNoticed
<1> QED
  BY <1>1, <1>2, <1>3, <1>4 DEF IInv

(* The steps of main.                                                        *)
LEMMA MainIInv == IInv /\ MainStep => IInv'
<1> SUFFICES ASSUME IInv, MainStep PROVE IInv'
  OBVIOUS
<1> USE DEF IInv, TypeOK, BeforeInv, CountInv, CreateInv, JoinInv, NobodyMissesStop,
         ReleasedAlone, DeathNoticed, Listening
<1>1. CASE CreateGivesUp
  BY <1>1, Orders DEF CreateGivesUp, threadVars
<1>2. CASE CreateThread
  BY <1>2, Orders DEF CreateThread, Pcs, Watching
<1>3. CASE CreateDone
  BY <1>3, Orders DEF CreateDone, threadVars
<1>4. CASE WriteEvent
  <2>1. Announce \in [AllThreads -> BOOLEAN] /\ CancelThreads \in [AllThreads -> BOOLEAN]
    BY Zenon DEF Announce, CancelThreads
  <2>2. \A t \in AllThreads : pc[t] \in Watching => Announce[t]
    BY Zenon DEF Announce
  <2>3. mpc = "write" /\ mpc' = "join" /\ next' = 1 /\ UNCHANGED <<pending, pc>>
    BY <1>4 DEF WriteEvent
  <2>4. \/ count' = 1 /\ told' = TRUE /\ edge' = Announce /\ cancel' = cancel
        \/ count' = 0 /\ told' = FALSE /\ edge' = edge /\ cancel' = CancelThreads
    BY <1>4 DEF WriteEvent
  <2>5. TypeOK'
    <3>1. edge' \in [AllThreads -> BOOLEAN] /\ cancel' \in [AllThreads -> BOOLEAN]
      BY <2>1, <2>4, Zenon
    <3>2. told' \in BOOLEAN
      BY <2>4, Zenon
    <3>3. count' \in 0 .. 1
      BY <2>4
    <3> QED
      BY <2>3, <3>1, <3>2, <3>3
  <2>6. (BeforeInv /\ CountInv /\ CreateInv /\ JoinInv)'
    BY <2>3, <2>4
  <2>7. (NobodyMissesStop /\ ReleasedAlone /\ DeathNoticed)'
    BY <2>2, <2>3, <2>4
  <2> QED
    BY <2>5, <2>6, <2>7
<1>5. CASE Join
  <2> DEFINE t == JoinOrder[next]
  <2>1. mpc = "join" /\ mpc' = "join" /\ next \in 1 .. 6 /\ next' = next + 1 /\ t \in AllThreads
    BY <1>5, Orders DEF Join
  <2>2. pc[t] \in {"none", "ended", "joined"}
    BY <1>5 DEF Join
  <2>3. pc' = [pc EXCEPT ![t] = IF pc[t] = "none" THEN "none" ELSE "joined"]
    BY <1>5 DEF Join
  <2>4. UNCHANGED <<told, pending, count, edge, cancel>>
    BY <1>5 DEF Join
  <2> HIDE DEF t
  <2>5. \A u \in AllThreads \ {t} : pc'[u] = pc[u]
    BY <2>3
  <2>6. pc'[t] \in {"none", "joined"}
    BY <2>1, <2>3
  <2>7. TypeOK'
    BY <2>1, <2>3, <2>4 DEF Pcs
  <2>8. JoinInv'
    <3>1. ASSUME NEW i \in 1 .. 6, i < next'
          PROVE  pc'[JoinOrder[i]] \in {"none", "joined"}
      <4>1. CASE i = next
        BY <4>1, <2>6 DEF t
      <4>2. CASE i # next
        BY <4>2, <3>1, <2>1, <2>5, <2>6, Orders
      <4> QED
        BY <4>1, <4>2
    <3> QED
      BY <3>1, <2>1
  <2>9. NobodyMissesStop'
    BY <2>1, <2>4, <2>5, <2>6 DEF Watching
  <2> QED
    BY <2>1, <2>4, <2>7, <2>8, <2>9
<1>6. CASE JoinDone
  BY <1>6, Orders DEF JoinDone, threadVars
<1>7. CASE Release
  BY <1>7 DEF Release, threadVars
<1> QED
  BY <1>1, <1>2, <1>3, <1>4, <1>5, <1>6, <1>7 DEF MainStep


(* Signals and the alarm only add to pending; reading one leads to the write. *)
LEMMA SignalIInv ==
  IInv /\ (Signal \/ Alarm \/ \E s \in Signals : ReadSignal(s)) => IInv'
<1> SUFFICES ASSUME IInv, Signal \/ Alarm \/ \E s \in Signals : ReadSignal(s) PROVE IInv'
  OBVIOUS
<1> USE DEF IInv, TypeOK, BeforeInv, CountInv, CreateInv, JoinInv, NobodyMissesStop,
         ReleasedAlone, DeathNoticed, Listening
<1>1. CASE Signal
  BY <1>1 DEF Signal, mainVars, threadVars, Signals, Stops
<1>2. CASE Alarm
  BY <1>2 DEF Alarm, mainVars, threadVars, Signals, Stops
<1>3. ASSUME NEW s \in Signals, ReadSignal(s) PROVE IInv'
  BY <1>3 DEF ReadSignal, threadVars, Signals, Stops
<1> QED
  BY <1>1, <1>2, <1>3

(* The steps of a thread.                                                    *)
LEMMA ThreadIInv ==
  ASSUME IInv, NEW t \in AllThreads, ThreadStep(t) \/ ThreadEvent(t)
  PROVE  IInv'
<1> USE DEF IInv, TypeOK, BeforeInv, CountInv, CreateInv, JoinInv, NobodyMissesStop,
         ReleasedAlone, DeathNoticed, Listening, Watching, Pcs, threadFrame, mainVars
<1>1. CASE Setup(t)
  BY <1>1, Orders DEF Setup
<1>2. CASE SetupFails(t)
  BY <1>2, Orders DEF SetupFails
<1>3. CASE SetupCancelled(t)
  BY <1>3, Orders DEF SetupCancelled
<1>4. CASE Top(t)
  BY <1>4, Orders DEF Top
<1>5. CASE Stop(t)
  BY <1>5, Orders DEF Stop
<1>6. CASE Awake(t)
  BY <1>6, Orders DEF Awake
<1>7. CASE Timeout(t)
  BY <1>7, Orders DEF Timeout
<1>8. CASE Worked(t)
  BY <1>8, Orders DEF Worked
<1>9. CASE Fails(t)
  BY <1>9, Orders DEF Fails
<1>10. CASE Ends(t)
  BY <1>10, Orders DEF Ends, Signals, Stops
<1> QED
  BY <1>1, <1>2, <1>3, <1>4, <1>5, <1>6, <1>7, <1>8, <1>9, <1>10 DEF ThreadStep, ThreadEvent

LEMMA ExitIInv == IInv /\ ExitsProcess => IInv'
  BY DEF IInv, TypeOK, BeforeInv, CountInv, CreateInv, JoinInv, NobodyMissesStop,
     ReleasedAlone, DeathNoticed, Listening, Watching, Pcs, ExitsProcess

LEMMA NextIInv == IInv /\ [Next]_vars => IInv'
<1> SUFFICES ASSUME IInv, [Next]_vars PROVE IInv'
  OBVIOUS
<1>1. CASE UNCHANGED vars
  BY <1>1 DEF IInv, TypeOK, BeforeInv, CountInv, CreateInv, JoinInv, NobodyMissesStop,
     ReleasedAlone, DeathNoticed, vars, mainVars, threadVars
<1> QED
  BY <1>1, MainIInv, SignalIInv, ThreadIInv, ExitIInv DEF Next

LEMMA Invariance == Spec => []IInv
  BY InitIInv, NextIInv, PTL DEF Spec

-----------------------------------------------------------------------------
(* Every variable keeps its type; in particular eventfd_thread is written at *)
(* most once.                                                                *)
THEOREM TypeCorrect == Spec => []TypeOK
<1>1. IInv => TypeOK
  BY DEF IInv
<1> QED
  BY <1>1, Invariance, PTL

(* No thread misses the one write to eventfd_thread, however far it is.      *)
THEOREM NobodyMissesStopCorrect == Spec => []NobodyMissesStop
<1>1. IInv => NobodyMissesStop
  BY DEF IInv
<1> QED
  BY <1>1, Invariance, PTL

(* main closes the descriptors and returns only when no thread runs.         *)
THEOREM ReleasedAloneCorrect == Spec => []ReleasedAlone
<1>1. IInv => ReleasedAlone
  BY DEF IInv
<1> QED
  BY <1>1, Invariance, PTL

(* A thread's end does not escape main.                                      *)
THEOREM DeathNoticedCorrect == Spec => []DeathNoticed
<1>1. IInv => DeathNoticed
  BY DEF IInv
<1> QED
  BY <1>1, Invariance, PTL

-----------------------------------------------------------------------------
(* The refinement of StopProtocol.                                           *)
PVars == <<Phase, Life>>

LEMMA LifeMoves ==
  ASSUME NEW t \in AllThreads, NEW v, pc \in [AllThreads -> Pcs], pc' = [pc EXCEPT ![t] = v]
  PROVE  Life' = [Life EXCEPT ![t] = LifeOf(v)]
  BY DEF Life

LEMMA LifeStays ==
  ASSUME NEW t \in AllThreads, NEW v, pc \in [AllThreads -> Pcs], pc' = [pc EXCEPT ![t] = v],
         LifeOf(v) = LifeOf(pc[t])
  PROVE  Life' = Life
  BY DEF Life

LEMMA ProtocolInit == Init => Protocol!Init
  BY DEF Init, Protocol!Init, Phase, Life, LifeOf

LEMMA ProtocolMain == IInv /\ MainStep => Protocol!Next \/ UNCHANGED PVars
<1> SUFFICES ASSUME IInv, MainStep PROVE Protocol!Next \/ UNCHANGED PVars
  OBVIOUS
<1>0. TypeOK /\ pc \in [AllThreads -> Pcs]
  BY DEF IInv, TypeOK
<1>1. CASE CreateGivesUp
  <2>1. \A t \in AllThreads : Life[t] = "unborn"
    BY <1>1, Orders DEF IInv, CreateInv, CreateGivesUp, Life, LifeOf
  <2>2. Protocol!GiveUp
    BY <1>1, <2>1 DEF Protocol!GiveUp, CreateGivesUp, threadVars, Phase, Life
  <2> QED
    BY <2>2 DEF Protocol!Next
<1>2. CASE CreateThread
  <2> DEFINE t == CreateOrder[next]
  <2>1. mpc = "create" /\ mpc' = mpc /\ next \in 1 .. 6 /\ t \in AllThreads
    BY <1>0, <1>2, Orders DEF CreateThread, TypeOK
  <2>2. pc[t] = "none"
    BY <2>1 DEF IInv, CreateInv
  <2>3. Phase = "up" /\ Phase' = "up"
    BY <2>1 DEF Phase
  <2>4. CASE pc' = pc
    BY <2>3, <2>4 DEF PVars, Life
  <2>5. CASE pc' = [pc EXCEPT ![t] = "setup"]
    <3>1. Life' = [Life EXCEPT ![t] = "running"]
      <4>1. Life' = [Life EXCEPT ![t] = LifeOf("setup")]
        BY <1>0, <2>1, <2>5, LifeMoves
      <4>2. LifeOf("setup") = "running"
        BY DEF LifeOf
      <4> QED
        BY <4>1, <4>2
    <3>2. Life[t] = "unborn"
      BY <2>1, <2>2 DEF Life, LifeOf
    <3>3. Protocol!Start(t)
      BY <2>3, <3>1, <3>2 DEF Protocol!Start
    <3> QED
      BY <2>1, <3>3 DEF Protocol!Next
  <2> QED
    BY <1>2, <2>4, <2>5 DEF CreateThread
<1>3. CASE CreateDone
  BY <1>3 DEF CreateDone, threadVars, PVars, Phase, Life
<1>4. CASE WriteEvent
  BY <1>4 DEF WriteEvent, PVars, Phase, Life
<1>5. CASE Join
  <2> DEFINE t == JoinOrder[next]
  <2>1. mpc = "join" /\ mpc' = mpc /\ t \in AllThreads /\ pc[t] \in {"none", "ended", "joined"}
    BY <1>0, <1>5, Orders DEF Join, TypeOK
  <2>2. pc' = [pc EXCEPT ![t] = IF pc[t] = "none" THEN "none" ELSE "joined"]
    BY <1>5 DEF Join
  <2> HIDE DEF t
  <2>3. Life' = Life
    BY <1>0, <2>1, <2>2, LifeStays DEF LifeOf
  <2> QED
    BY <2>1, <2>3 DEF PVars, Phase
<1>6. CASE JoinDone
  <2>1. \A t \in AllThreads : Life[t] # "running"
    BY <1>0, <1>6, Orders DEF IInv, JoinInv, JoinDone, Life, LifeOf, TypeOK
  <2>2. Protocol!Down
    BY <1>6, <2>1 DEF Protocol!Down, JoinDone, threadVars, Phase, Life
  <2> QED
    BY <2>2 DEF Protocol!Next
<1>7. CASE Release
  BY <1>7 DEF Release, threadVars, PVars, Phase, Life
<1> QED
  BY <1>1, <1>2, <1>3, <1>4, <1>5, <1>6, <1>7 DEF MainStep

LEMMA ProtocolSignal ==
  (Signal \/ Alarm \/ \E s \in Signals : ReadSignal(s)) => Protocol!Next \/ UNCHANGED PVars
<1>1. Signal \/ Alarm => UNCHANGED PVars
  BY DEF Signal, Alarm, mainVars, threadVars, PVars, Phase, Life
<1>2. ASSUME NEW s \in Signals, ReadSignal(s) PROVE Protocol!Stop \/ UNCHANGED PVars
  BY <1>2 DEF ReadSignal, threadVars, Protocol!Stop, PVars, Phase, Life
<1> QED
  BY <1>1, <1>2 DEF Protocol!Next

LEMMA ProtocolThread ==
  ASSUME IInv, NEW t \in AllThreads, ThreadStep(t) \/ ThreadEvent(t)
  PROVE  Protocol!Next \/ UNCHANGED PVars
<1>0. pc \in [AllThreads -> Pcs]
  BY DEF IInv, TypeOK
<1>1. Phase' = Phase
  BY DEF ThreadStep, ThreadEvent, Setup, SetupFails, SetupCancelled, Top, Stop, Awake, Timeout,
         Worked, Fails, Ends, threadFrame, mainVars, Phase
<1> DEFINE Running == Watching \cup {"setup", "exit"}
<1>2. /\ pc[t] \in Running
      /\ \E v \in Running \cup {"ended"} : pc' = [pc EXCEPT ![t] = v]
  BY DEF ThreadStep, ThreadEvent, Setup, SetupFails, SetupCancelled, Top, Stop, Awake, Timeout,
         Worked, Fails, Ends, Watching
<1>3. PICK v \in Running \cup {"ended"} : pc' = [pc EXCEPT ![t] = v]
  BY <1>2
<1>4. CASE v = "ended"
  <2>1. Life[t] = "running"
    BY <1>2 DEF Life, LifeOf, Watching
  <2>2. Life' = [Life EXCEPT ![t] = "gone"]
    BY <1>0, <1>3, <1>4, LifeMoves DEF LifeOf
  <2>3. Protocol!End(t)
    BY <1>1, <2>1, <2>2 DEF Protocol!End
  <2> QED
    BY <2>3 DEF Protocol!Next
<1>5. CASE v # "ended"
  <2>1. LifeOf(v) = LifeOf(pc[t])
    BY <1>2, <1>5 DEF LifeOf, Watching
  <2>2. Life' = Life
    BY <1>0, <1>3, <2>1, LifeStays
  <2> QED
    BY <1>1, <2>2 DEF PVars
<1> QED
  BY <1>4, <1>5

LEMMA ProtocolExit == IInv /\ ExitsProcess => Protocol!Next
<1> SUFFICES ASSUME IInv, ExitsProcess PROVE Protocol!Next
  OBVIOUS
<1>1. Phase # "down" /\ Phase' = "down"
  BY DEF IInv, TypeOK, ReleasedAlone, ExitsProcess, Phase, AllThreads
<1>2. Life' = [t \in AllThreads |-> IF Life[t] = "running" THEN "gone" ELSE Life[t]]
  BY DEF ExitsProcess, Life, LifeOf
<1> QED
  BY <1>1, <1>2 DEF Protocol!Next, Protocol!Vanish

(* Every behaviour of the daemon is one of StopProtocol: no thread starts    *)
(* after main has stopped listening or a second time, and the process goes   *)
(* down only without running threads or in one step with all of them.        *)
THEOREM KeepsProtocolCorrect == Spec => KeepsProtocol
<1>1. IInv /\ [Next]_vars => [Protocol!Next]_(Protocol!vars)
  <2> SUFFICES ASSUME IInv, [Next]_vars PROVE Protocol!Next \/ UNCHANGED PVars
    BY DEF PVars, Protocol!vars
  <2>1. CASE UNCHANGED vars
    BY <2>1 DEF vars, mainVars, threadVars, PVars, Phase, Life
  <2> QED
    BY <2>1, ProtocolMain, ProtocolSignal, ProtocolThread, ProtocolExit DEF Next
<1> QED
  BY <1>1, ProtocolInit, Invariance, PTL DEF Spec, KeepsProtocol, Protocol!Spec
=============================================================================
