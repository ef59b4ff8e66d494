------------------------- MODULE HourRotationProofs -------------------------
(* Proofs about HourRotation.                                                *)
EXTENDS HourRotation, FiniteSetTheorems, TLAPS

StartSteps == StartName \/ StartPath \/ StartStamp \/ StartLoad5s \/ CreateThreads \/ Exit

-----------------------------------------------------------------------------
(* Removing fewer directories than there are spares the newest one: neither  *)
(* recycling function can take the directory in use.                         *)
LEMMA OldestSparesNewest ==
  ASSUME NEW S \in SUBSET Nat, IsFiniteSet(S), NEW m \in S, \A d \in S : d <= m,
         NEW k \in Nat, k < Cardinality(S)
  PROVE  m \notin Oldest(S, k)
<1>1. {e \in S : e < m} = S \ {m}
  <2>1. \A e \in S : e \in Nat /\ e <= m
    OBVIOUS
  <2>2. \A e \in S : e < m <=> e # m
    BY <2>1
  <2>3. QED
    BY <2>2, Zenon
<1>2. Cardinality(S \ {m}) = Cardinality(S) - 1
  BY FS_RemoveElement
<1>3. Cardinality(S) \in Nat
  BY FS_CardinalityType
<1>4. QED
  BY <1>1, <1>2, <1>3 DEF Oldest

LEMMA RecycleBounds ==
  ASSUME NEW S \in SUBSET Nat, IsFiniteSet(S), S # {}
  PROVE  /\ RmNum(S) \in Nat /\ RmNum(S) < Cardinality(S)
         /\ UsageMax(S) \in Nat /\ UsageMax(S) < Cardinality(S)
<1>1. Cardinality(S) \in Nat /\ Cardinality(S) # 0
  BY FS_CardinalityType, FS_EmptySet
<1>2. QED
  BY <1>1, ConstantsAssumption DEF RmNum, UsageMax, Min2

LEMMA RemovalFinite ==
  ASSUME NEW S \in SUBSET Nat, IsFiniteSet(S), NEW R
  PROVE  S \ R \in SUBSET Nat /\ IsFiniteSet(S \ R)
  BY FS_Subset

-----------------------------------------------------------------------------
(* Types.                                                                    *)
TypeInv == TypeOK /\ LeftInv

LEMMA NowType == TypeOK => Now \in Nat
  BY LocalHourAssumption DEF TypeOK, Now

LEMMA TypeInit == Init => TypeInv
<1> SUFFICES ASSUME Init PROVE TypeInv
  OBVIOUS
<1>1. IsFiniteSet({})
  BY FS_EmptySet
<1>2. Idle \in CollectorState /\ Load1Idle \in Load1State
  BY ConstantsAssumption DEF Idle, Load1Idle, CollectorState, Load1State, Max2
<1>3. TypeOK
  <2>1. hour \in 0 .. MaxHour
    BY ConstantsAssumption DEF Init
  <2>2. col \in [Collectors -> CollectorState] /\ ready \in [Collectors -> BOOLEAN]
    BY <1>2 DEF Init
  <2>3. load1 \in Load1State
    BY <1>2 DEF Init
  <2>4. dirs \in SUBSET Nat /\ IsFiniteSet(dirs)
    BY <1>1 DEF Init
  <2>5. late \in BOOLEAN /\ partition_insufficient \in BOOLEAN /\ timerfd_ready \in BOOLEAN
    BY DEF Init
  <2>6. QED
    BY <2>1, <2>2, <2>3, <2>4, <2>5 DEF Init, TypeOK, InitPcs, RotatePcs
<1>4. LeftInv
  BY DEF Init, LeftInv, Idle
<1>5. QED
  BY <1>3, <1>4 DEF TypeInv

(* init_env, the clock and rotate_thread leave the collectors alone, or      *)
(* (Exit) put them back to idle.                                             *)
LEMMA TypeStart ==
  ASSUME TypeInv, Tick \/ StartSteps \/ Rotate
  PROVE  TypeInv'
<1> USE NowType DEF TypeInv, TypeOK, clockVars, sharedVars, rotateVars, collectVars,
                    InitPcs, RotatePcs
<1>1. CASE Tick
  <2>1. hour' \in 0 .. MaxHour
    BY <1>1, ConstantsAssumption DEF Tick
  <2>2. late' \in BOOLEAN
    BY <1>1, Zenon DEF Tick
  <2>3. QED
    BY <1>1, <2>1, <2>2 DEF Tick, LeftInv
<1>2. CASE StartName
  BY <1>2 DEF StartName, LeftInv
<1>3. CASE StartPath
  BY <1>3, FS_AddElement DEF StartPath, LeftInv
<1>4. CASE StartStamp
  BY <1>4 DEF StartStamp, LeftInv
<1>5. CASE StartLoad5s
  BY <1>5 DEF StartLoad5s, LeftInv
<1>6. CASE CreateThreads
  BY <1>6 DEF CreateThreads, LeftInv
<1>7. CASE Exit
  <2>1. Idle \in CollectorState /\ Load1Idle \in Load1State
    BY ConstantsAssumption DEF Idle, Load1Idle, CollectorState, Load1State, Max2
  <2>2. QED
    BY <1>7, <2>1 DEF Exit, LeftInv, Idle
<1>8. CASE Rotate
  <2>1. CASE RotateArm
    BY <2>1 DEF RotateArm, LeftInv
  <2>2. CASE RotateWake
    BY <2>2 DEF RotateWake, LeftInv
  <2>3. CASE RotateLock
    BY <2>3 DEF RotateLock, LeftInv
  <2>4. CASE RotateName
    BY <2>4 DEF RotateName, LeftInv
  <2>5. CASE RotatePath
    BY <2>5 DEF RotatePath, LeftInv
  <2>6. CASE RotateMkdir
    BY <2>6, FS_AddElement DEF RotateMkdir, LeftInv
  <2>7. CASE RotateLoad5s
    BY <2>7 DEF RotateLoad5s, LeftInv
  <2>8. CASE RotateLog
    BY <2>8 DEF RotateLog, LeftInv
  <2>9. CASE RotateStamp
    BY <2>9 DEF RotateStamp, LeftInv
  <2>10. CASE RotateUnlock
    BY <2>10 DEF RotateUnlock, LeftInv
  <2>11. CASE RotateFail
    BY <2>11 DEF RotateFail, LeftInv
  <2>12. CASE RotateRecycle
    BY <2>12, RemovalFinite DEF RotateRecycle, LeftInv
  <2>13. CASE RotateMinute
    BY <2>13, RemovalFinite DEF RotateMinute, UsageRemoval, LeftInv
  <2>14. CASE RotateDie
    BY <2>14 DEF RotateDie, LeftInv
  <2>15. QED
    BY <1>8, <2>1, <2>2, <2>3, <2>4, <2>5, <2>6, <2>7, <2>8, <2>9, <2>10, <2>11,
       <2>12, <2>13, <2>14 DEF Rotate
<1>9. QED
  BY <1>1, <1>2, <1>3, <1>4, <1>5, <1>6, <1>7, <1>8 DEF StartSteps

(* A collector's step: what it changes stays in range, and the file count    *)
(* reaches zero only by ending the collection.                               *)
LEMMA FinishType ==
  ASSUME TypeInv, NEW c \in Collectors, Finish(c)
  PROVE  /\ col' \in [Collectors -> CollectorState]
         /\ ready' \in [Collectors -> BOOLEAN]
         /\ LeftInv'
<1>1. Idle \in CollectorState
  BY ConstantsAssumption DEF Idle, CollectorState, Max2
<1>2. QED
  BY <1>1 DEF Finish, TypeInv, TypeOK, LeftInv, Idle

LEMMA NextFileType ==
  ASSUME TypeInv, NEW c \in Collectors, col[c].pc = "open", NextFile(c)
  PROVE  /\ col' \in [Collectors -> CollectorState]
         /\ ready' \in [Collectors -> BOOLEAN]
         /\ LeftInv'
<1>1. CASE col[c].left = 1
  BY <1>1, FinishType DEF NextFile
<1>2. CASE col[c].left # 1
  BY <1>2, ConstantsAssumption
  DEF NextFile, TypeInv, TypeOK, LeftInv, CollectorState, Max2
<1>3. QED
  BY <1>1, <1>2

LEMMA CollectType ==
  ASSUME TypeInv, NEW c \in Collectors, MinuteTimer(c) \/ Collect(c)
  PROVE  TypeInv'
<1> USE DEF colFrame, clockVars, sharedVars, rotateVars
<1>0. ASSUME UNCHANGED colFrame,
             col' \in [Collectors -> CollectorState],
             ready' \in [Collectors -> BOOLEAN], LeftInv'
      PROVE  TypeInv'
  BY <1>0 DEF TypeInv, TypeOK
<1>1. Idle \in CollectorState
  BY ConstantsAssumption DEF Idle, CollectorState, Max2
<1>2. CASE MinuteTimer(c)
  BY <1>0, <1>2 DEF MinuteTimer, TypeInv, TypeOK, LeftInv
<1>3. CASE Wake(c)
  <2>1. [Idle EXCEPT !.pc = "gate"] \in CollectorState
    BY <1>1 DEF CollectorState
  <2>2. QED
    BY <1>0, <1>3, <2>1 DEF Wake, TypeInv, TypeOK, LeftInv, Idle
<1>4. CASE GatePass(c)
  <2>1. Files(c) \in 0 .. Max2(SysFiles, 2) /\ Files(c) > 0
    BY ConstantsAssumption DEF Files, Max2
  <2>2. [Idle EXCEPT !.pc = "stamp", !.left = Files(c), !.gate = hour] \in CollectorState
    <3>1. hour \in Nat
      BY ConstantsAssumption DEF TypeInv, TypeOK
    <3>2. QED
      BY <1>1, <2>1, <3>1 DEF CollectorState
  <2>3. QED
    BY <1>0, <1>4, <2>1, <2>2 DEF GatePass, TypeInv, TypeOK, LeftInv, Idle
<1>5. CASE GateWait(c)
  <2>1. CASE col[c].lock_i + 1 > PollMax
    <3>1. col' = [col EXCEPT ![c] = Idle]
      BY <1>5, <2>1 DEF GateWait, TypeInv, TypeOK
    <3>2. QED
      BY <1>0, <1>1, <1>5, <3>1 DEF GateWait, TypeInv, TypeOK, LeftInv, Idle
  <2>2. CASE ~(col[c].lock_i + 1 > PollMax)
    <3>1. col[c].lock_i + 1 \in 0 .. Max2(PollMax, RetryMax)
      BY <2>2, ConstantsAssumption DEF TypeInv, TypeOK, CollectorState, Max2
    <3>2. col' = [col EXCEPT ![c] = [col[c] EXCEPT !.lock_i = col[c].lock_i + 1]]
      BY <1>5, <2>2 DEF GateWait, TypeInv, TypeOK
    <3>3. [col[c] EXCEPT !.lock_i = col[c].lock_i + 1] \in CollectorState
      BY <3>1 DEF TypeInv, TypeOK, CollectorState
    <3>4. QED
      BY <1>0, <1>5, <3>2, <3>3 DEF GateWait, TypeInv, TypeOK, LeftInv, CollectorState
  <2>3. QED
    BY <2>1, <2>2
<1>6. CASE Stamp(c)
  <2>1. Now \in Nat
    BY NowType DEF TypeInv
  <2>2. [col[c] EXCEPT !.pc = "compose", !.stamp = Now] \in CollectorState
    BY <2>1 DEF TypeInv, TypeOK, CollectorState
  <2>3. col' = [col EXCEPT ![c] = [col[c] EXCEPT !.pc = "compose", !.stamp = Now]]
    BY <1>6 DEF Stamp, TypeInv, TypeOK
  <2>4. LeftInv'
    BY <1>6, <2>3 DEF Stamp, TypeInv, TypeOK, LeftInv, CollectorState
  <2>5. QED
    BY <1>0, <1>6, <2>2, <2>3, <2>4 DEF Stamp, TypeInv, TypeOK
<1>7. CASE Compose(c)
  <2>1. \A p \in ReadPath : p \in Nat \cup {Torn}
    BY DEF ReadPath, TypeInv, TypeOK
  <2>2. PICK p \in Nat \cup {Torn} :
          col' = [col EXCEPT ![c] = [col[c] EXCEPT !.pc = "open", !.target = p]]
    BY <1>7, <2>1 DEF Compose, TypeInv, TypeOK
  <2>3. [col[c] EXCEPT !.pc = "open", !.target = p] \in CollectorState
    <3>1. col[c] \in CollectorState
      BY DEF TypeInv, TypeOK
    <3> QED
      BY <3>1 DEF CollectorState
  <2>4. LeftInv'
    BY <1>7, <2>2 DEF Compose, TypeInv, TypeOK, LeftInv, CollectorState
  <2>5. QED
    BY <1>0, <1>7, <2>2, <2>3, <2>4 DEF Compose, TypeInv, TypeOK
<1>8. CASE OpenOk(c)
  BY <1>0, <1>8, NextFileType DEF OpenOk
<1>9. CASE OpenMissing(c)
  <2>1. CASE c = "loadrd"
    BY <1>0, <1>9, <2>1, NextFileType DEF OpenMissing
  <2>2. CASE c # "loadrd" /\ col[c].lock_i + 1 > RetryMax
    BY <1>0, <1>9, <2>2, FinishType DEF OpenMissing
  <2>3. CASE c # "loadrd" /\ ~(col[c].lock_i + 1 > RetryMax)
    <3>1. Files(c) \in 0 .. Max2(SysFiles, 2) /\ Files(c) > 0
      BY ConstantsAssumption DEF Files, Max2
    <3>2. col[c].lock_i + 1 \in 0 .. Max2(PollMax, RetryMax)
      BY <2>3, ConstantsAssumption DEF TypeInv, TypeOK, CollectorState, Max2
    <3>3. QED
      BY <1>0, <1>9, <2>3, <3>1, <3>2
      DEF OpenMissing, TypeInv, TypeOK, LeftInv, CollectorState
  <2>4. QED
    BY <2>1, <2>2, <2>3
<1>10. CASE OpenError(c)
  BY <1>0, <1>10, NextFileType, FinishType DEF OpenError
<1>11. QED
  BY <1>2, <1>3, <1>4, <1>5, <1>6, <1>7, <1>8, <1>9, <1>10 DEF Collect

LEMMA Load1Type ==
  ASSUME TypeInv, Load1
  PROVE  TypeInv'
<1> USE DEF load1Frame, clockVars, sharedVars, rotateVars
<1>1. Load1Idle \in Load1State
  BY DEF Load1Idle, Load1State
<1>2. CASE Load1Gate
  <2>1. hour \in Nat
    BY ConstantsAssumption DEF TypeInv, TypeOK
  <2>2. QED
    BY <1>1, <1>2, <2>1 DEF Load1Gate, TypeInv, TypeOK, LeftInv, Load1State
<1>3. CASE Load1Stamp
  BY <1>3, NowType DEF Load1Stamp, TypeInv, TypeOK, LeftInv, Load1State
<1>4. CASE Load1Write
  BY <1>1, <1>4 DEF Load1Write, TypeInv, TypeOK, LeftInv
<1>5. QED
  BY <1>2, <1>3, <1>4 DEF Load1

LEMMA TypeStep ==
  ASSUME TypeInv, [Next]_vars
  PROVE  TypeInv'
<1>1. CASE UNCHANGED vars
  BY <1>1 DEF vars, clockVars, sharedVars, rotateVars, collectVars, TypeInv, TypeOK, LeftInv
<1>2. CASE Next
  BY <1>2, TypeStart, CollectType, Load1Type DEF Next, StartSteps
<1>3. QED
  BY <1>1, <1>2

(* Type correctness, for every zone, every number of collectors and any      *)
(* section interrupted by an hour boundary: in particular the two polling    *)
(* loops never count past their limits.                                      *)
THEOREM TypeCorrect == Spec => []TypeOK
<1>1. Init => TypeInv
  BY TypeInit
<1>2. TypeInv /\ [Next]_vars => TypeInv'
  BY TypeStep
<1>3. TypeInv => TypeOK
  BY DEF TypeInv
<1>4. QED
  BY <1>1, <1>2, <1>3, PTL DEF Spec


-----------------------------------------------------------------------------
(* Safety, for a zone whose offset is a whole number of hours, for code that *)
(* no hour boundary interrupts, and a partition that does not flap.          *)
Calm == WholeHours /\ Straddle = {} /\ "flap" \notin Faults

(* What the local hour is worth under Calm.                                  *)
LEMMA DirFacts ==
  ASSUME Calm, TypeOK
  PROVE  /\ Now = DirOf(hour) /\ hour \in Nat
         /\ \A h \in 0 .. MaxHour : DirOf(h) \in Nat
         /\ \A g, h \in 0 .. MaxHour : g < h => DirOf(g) < DirOf(h)
<1>1. late = TRUE \/ late = FALSE
  BY Zenon DEF TypeOK
<1>2. hour \in 0 .. MaxHour /\ hour \in Nat
  BY ConstantsAssumption DEF TypeOK
<1>3. Now = DirOf(hour)
  BY <1>1, <1>2 DEF Calm, WholeHours, DirOf, Now
<1>4. \A h \in 0 .. MaxHour : DirOf(h) \in Nat
  BY LocalHourAssumption DEF DirOf
<1>5. QED
  BY <1>2, <1>3, <1>4 DEF Calm, WholeHours

LEMMA SafeInit == Init => IInv
<1> SUFFICES ASSUME Init PROVE IInv
  OBVIOUS
<1>1. TypeOK /\ LeftInv
  BY TypeInit DEF TypeInv
<1>2. StartInv
  BY DEF Init, StartInv, InitPcs, Idle, Load1Idle
<1>3. RotateInv
  BY DEF Init, RotateInv, RotatePcs
<1>4. CollectInv /\ Load1Inv
  BY DEF Init, CollectInv, Load1Inv, Idle, Load1Idle
<1>5. QED
  BY <1>1, <1>2, <1>3, <1>4 DEF IInv

(* The clock moves only while nobody is inside a section it could spoil, and *)
(* a new hour makes every check passed in the old one worthless.             *)
LEMMA SafeTick ==
  ASSUME Calm, IInv, TypeOK', Tick
  PROVE  StartInv' /\ RotateInv' /\ CollectInv' /\ Load1Inv'
<1> USE DEF IInv, TypeOK, sharedVars, rotateVars, collectVars
<1>1. CASE hour' = hour
  <2>1. UNCHANGED <<hour, dirs, sharedVars, ipc, rotateVars, collectVars, load1>>
    BY <1>1 DEF Tick
  <2>2. QED
    BY <2>1 DEF StartInv, RotateInv, CollectInv, Load1Inv, Settled
<1>2. CASE hour' # hour
  <2>1. /\ hour' = hour + 1 /\ hour' \in 0 .. MaxHour
        /\ UNCHANGED <<dirs, sharedVars, ipc, rotateVars, collectVars, load1>>
        /\ ipc \notin InitPcs /\ rpc # "arm" /\ rpc \notin RotatePcs
    BY <1>2 DEF Tick, MayCross, Calm
  <2>2. DirOf(hour) < DirOf(hour') /\ DirOf(hour) \in Nat /\ DirOf(hour') \in Nat
    BY <2>1, DirFacts
  <2>3. StartInv'
    BY <2>1, <2>2 DEF StartInv, InitPcs
  <2>4. RotateInv'
    BY <2>1, ConstantsAssumption DEF RotateInv, Settled, RotatePcs
  <2>5. CollectInv' /\ Load1Inv'
    BY <2>1, ConstantsAssumption DEF CollectInv, Load1Inv, CollectorState, Load1State
  <2>6. QED
    BY <2>3, <2>4, <2>5
<1>3. QED
  BY <1>1, <1>2

(* init_env settles the path, the stamp and load5s_fd on the current hour    *)
(* before any other thread exists.                                           *)
LEMMA SafeStart ==
  ASSUME Calm, IInv, TypeOK', StartSteps
  PROVE  StartInv' /\ RotateInv' /\ CollectInv' /\ Load1Inv'
<1> USE DEF IInv, clockVars, sharedVars, rotateVars, collectVars
<1>1. Now = DirOf(hour) /\ DirOf(hour) \in Nat
  BY DirFacts DEF TypeOK
<1>2. CASE Exit
  <2>1. StartInv'
    BY <1>2 DEF Exit, StartInv, InitPcs, Idle, Load1Idle
  <2>2. RotateInv'
    BY <1>2 DEF Exit, RotateInv, RotatePcs
  <2>3. CollectInv' /\ Load1Inv'
    BY <1>2 DEF Exit, CollectInv, Load1Inv, Idle, Load1Idle
  <2>4. QED
    BY <2>1, <2>2, <2>3
<1>3. CASE StartName \/ StartPath \/ StartStamp \/ StartLoad5s \/ CreateThreads
  <2>1. ipc # "up" /\ rpc = "none" /\ UNCHANGED <<hour, col, load1, hour_lock>>
    BY <1>3 DEF StartName, StartPath, StartStamp, StartLoad5s, CreateThreads, StartInv
  <2>2. CollectInv' /\ Load1Inv'
    BY <2>1 DEF StartInv, CollectInv, Load1Inv
  <2>3. CASE StartName
    BY <1>1, <2>1, <2>2, <2>3 DEF StartName, StartInv, RotateInv, InitPcs, RotatePcs
  <2>4. CASE StartPath
    BY <1>1, <2>1, <2>2, <2>4 DEF StartPath, StartInv, RotateInv, InitPcs, RotatePcs
  <2>5. CASE StartStamp
    BY <1>1, <2>1, <2>2, <2>5 DEF StartStamp, StartInv, RotateInv, InitPcs, RotatePcs
  <2>6. CASE StartLoad5s
    BY <1>1, <2>1, <2>2, <2>6 DEF StartLoad5s, StartInv, RotateInv, InitPcs, RotatePcs
  <2>7. CASE CreateThreads
    BY <1>1, <2>1, <2>2, <2>7
    DEF CreateThreads, StartInv, RotateInv, InitPcs, RotatePcs, Settled
  <2>8. QED
    BY <1>3, <2>3, <2>4, <2>5, <2>6, <2>7
<1>4. QED
  BY <1>2, <1>3 DEF StartSteps

(* Removing the oldest k directories keeps the settled one.                  *)
LEMMA SettledKept ==
  ASSUME TypeOK, NEW h \in Nat, DirOf(h) \in Nat, Settled(h),
         NEW k \in Nat, k < Cardinality(dirs), NEW R \in SUBSET Oldest(dirs, k),
         dirs' = dirs \ R, UNCHANGED <<data_path_hour, load5s_fd>>
  PROVE  /\ data_path_hour' = DirOf(h) /\ load5s_fd' = DirOf(h)
         /\ DirOf(h) \in dirs' /\ \A d \in dirs' : d <= DirOf(h)
<1>1. DirOf(h) \notin Oldest(dirs, k)
  BY OldestSparesNewest DEF Settled, TypeOK
<1>2. QED
  BY <1>1 DEF Settled

(* One step of rotate_thread.                                                *)
LEMMA SafeRotate ==
  ASSUME Calm, IInv, TypeOK', Rotate
  PROVE  StartInv' /\ RotateInv' /\ CollectInv' /\ Load1Inv'
<1> USE DEF clockVars, sharedVars, rotateVars, collectVars
<1>1. /\ Now = DirOf(hour) /\ hour \in Nat /\ hour \in 0 .. MaxHour
      /\ hour_timestamp_lock \in Nat /\ hour_fd \in Nat /\ hour_lock \in {0, 1}
      /\ \A h \in 0 .. MaxHour : DirOf(h) \in Nat
      /\ \A g, h \in 0 .. MaxHour : g < h => DirOf(g) < DirOf(h)
      /\ \A d \in dirs : d \in Nat
  BY DirFacts DEF IInv, TypeOK
<1>2. ipc = "up" /\ rpc # "none"
  BY DEF IInv, StartInv, Rotate, RotateArm, RotateWake, RotateLock, RotateName, RotatePath,
         RotateMkdir, RotateLoad5s, RotateLog, RotateStamp, RotateUnlock, RotateFail, RotateDie,
         RotateRecycle, RotateMinute, RotatePcs
<1>3. UNCHANGED <<hour, ipc, col, load1>> /\ rpc' # "none"
  BY DEF Rotate, RotateArm, RotateWake, RotateLock, RotateName, RotatePath,
         RotateMkdir, RotateLoad5s, RotateLog, RotateStamp, RotateUnlock, RotateFail, RotateDie,
         RotateRecycle, RotateMinute
<1>4. ASSUME \A d \in dirs' : d <= DirOf(hour)  PROVE StartInv'
  BY <1>2, <1>3, <1>4 DEF StartInv, InitPcs
<1>5. ASSUME UNCHANGED hour_timestamp_lock \/ hour_timestamp_lock # hour
      PROVE  CollectInv' /\ Load1Inv'
  BY <1>3, <1>5 DEF IInv, CollectInv, Load1Inv
<1>6. \A d \in dirs : d <= DirOf(hour)
  BY DEF IInv, StartInv
<1>7. RotateInv
  BY DEF IInv
<1>8. CASE RotateArm
  BY <1>1, <1>3, <1>4, <1>5, <1>6, <1>7, <1>8 DEF RotateArm, RotateInv, RotatePcs, Settled
<1>9. CASE RotateWake
  BY <1>1, <1>3, <1>4, <1>5, <1>6, <1>7, <1>9 DEF RotateWake, RotateInv, RotatePcs, Settled
<1>10. CASE RotateLock
  BY <1>1, <1>3, <1>4, <1>5, <1>6, <1>7, <1>10 DEF RotateLock, RotateInv, RotatePcs, Settled
<1>11. CASE RotateName
  BY <1>1, <1>3, <1>4, <1>5, <1>6, <1>7, <1>11 DEF RotateName, RotateInv, RotatePcs, Settled
<1>12. CASE RotatePath
  <2>1. hour_timestamp_lock < hour /\ \A d \in dirs : d <= DirOf(hour_timestamp_lock)
    BY <1>7, <1>12 DEF RotatePath, RotateInv, RotatePcs, Settled
  <2>2. hour_timestamp_lock \in 0 .. MaxHour
    BY <1>1, <2>1, ConstantsAssumption
  <2>3. DirOf(hour_timestamp_lock) < DirOf(hour)
        /\ DirOf(hour_timestamp_lock) \in Nat /\ DirOf(hour) \in Nat
    BY <1>1, <2>1, <2>2
  <2>4. \A d \in dirs : d < DirOf(hour)
    BY <1>1, <2>1, <2>3
  <2>5. QED
    BY <1>1, <1>3, <1>4, <1>5, <1>6, <1>7, <1>12, <2>4
    DEF RotatePath, RotateInv, RotatePcs
<1>13. CASE RotateMkdir
  BY <1>1, <1>3, <1>4, <1>5, <1>6, <1>7, <1>13 DEF RotateMkdir, RotateInv, RotatePcs, Settled
<1>14. CASE RotateLoad5s
  BY <1>1, <1>3, <1>4, <1>5, <1>6, <1>7, <1>14 DEF RotateLoad5s, RotateInv, RotatePcs, Settled
<1>15. CASE RotateLog
  BY <1>1, <1>3, <1>4, <1>5, <1>6, <1>7, <1>15 DEF RotateLog, RotateInv, RotatePcs, Settled
<1>16. CASE RotateStamp
  BY <1>1, <1>3, <1>4, <1>5, <1>6, <1>7, <1>16 DEF RotateStamp, RotateInv, RotatePcs, Settled
<1>17. CASE RotateUnlock
  BY <1>1, <1>3, <1>4, <1>5, <1>6, <1>7, <1>17 DEF RotateUnlock, RotateInv, RotatePcs, Settled
<1>18. CASE RotateFail
  BY <1>1, <1>3, <1>4, <1>5, <1>6, <1>7, <1>18 DEF RotateFail, RotateInv, RotatePcs, Settled
<1>19. ASSUME rpc \in {"recycle", "minute"}, rpc' \in {"minute", "wait"},
              NEW k \in Nat, k < Cardinality(dirs),
              NEW R \in SUBSET Oldest(dirs, k), dirs' = dirs \ R,
              UNCHANGED <<data_path_hour, hour_timestamp_lock, hour_lock, load5s_fd,
                          hour_datetime, hour_fd>>
       PROVE  StartInv' /\ RotateInv' /\ CollectInv' /\ Load1Inv'
  <2>1. /\ hour_timestamp_lock <= hour /\ hour_fd = hour_timestamp_lock + 1
        /\ Settled(hour_timestamp_lock) /\ hour_lock = 0
    BY <1>1, <1>7, <1>19 DEF RotateInv, RotatePcs
  <2>2. DirOf(hour_timestamp_lock) \in Nat
    <3>1. hour_timestamp_lock \in 0 .. MaxHour
      BY <1>1, <2>1, ConstantsAssumption
    <3>2. QED
      BY <1>1, <3>1
  <2>3. Settled(hour_timestamp_lock)'
    BY <1>1, <1>19, <2>1, <2>2, SettledKept DEF Settled, IInv
  <2>4. RotateInv'
    BY <1>3, <1>19, <2>1, <2>3 DEF RotateInv, RotatePcs, Settled
  <2>5. QED
    BY <1>4, <1>5, <1>6, <1>19, <2>4
<1>20. rpc \in {"recycle", "minute"} =>
         /\ dirs # {} /\ Cardinality(dirs) \in Nat
         /\ RmNum(dirs) \in Nat /\ RmNum(dirs) < Cardinality(dirs)
         /\ UsageMax(dirs) \in Nat /\ UsageMax(dirs) < Cardinality(dirs)
  BY <1>7, RecycleBounds, FS_CardinalityType DEF RotateInv, Settled, IInv, TypeOK
<1>21. CASE RotateRecycle
  <2>1. PICK R \in SUBSET Oldest(dirs, RmNum(dirs)) : dirs' = dirs \ R
    BY <1>21 DEF RotateRecycle, Removals
  <2>2. QED
    BY <1>19, <1>20, <1>21, <2>1 DEF RotateRecycle
<1>22. CASE RotateMinute
  <2>1. CASE timerfd_ready
    <3>1. PICK k \in 0 .. UsageMax(dirs) : \E R \in SUBSET Oldest(dirs, k) : dirs' = dirs \ R
      BY <1>22, <2>1 DEF RotateMinute, UsageRemoval, Calm, Removals
    <3>2. k \in Nat /\ k < Cardinality(dirs)
      BY <1>20, <1>22 DEF RotateMinute
    <3>3. QED
      BY <1>19, <1>22, <3>1, <3>2 DEF RotateMinute
  <2>2. CASE ~timerfd_ready
    BY <1>1, <1>3, <1>4, <1>5, <1>6, <1>7, <1>22, <2>2
    DEF RotateMinute, RotateInv, RotatePcs, Settled
  <2>3. QED
    BY <2>1, <2>2
<1>23. CASE RotateDie
  BY <1>1, <1>3, <1>4, <1>5, <1>6, <1>7, <1>23 DEF RotateDie, RotateInv, RotatePcs, Settled
<1>24. QED
  BY <1>8, <1>9, <1>10, <1>11, <1>12, <1>13, <1>14, <1>15, <1>16, <1>17, <1>18,
     <1>21, <1>22, <1>23 DEF Rotate

-----------------------------------------------------------------------------
(* One step of a collector: it changes nothing that is shared.               *)
LEMMA SafeCollect ==
  ASSUME Calm, IInv, TypeOK', NEW c \in Collectors, MinuteTimer(c) \/ Collect(c)
  PROVE  StartInv' /\ RotateInv' /\ CollectInv' /\ Load1Inv'
<1> USE DEF colFrame, clockVars, sharedVars, rotateVars
<1>1. Now = DirOf(hour) /\ hour \in Nat
  BY DirFacts DEF IInv
<1>2. col \in [Collectors -> CollectorState] /\ hour_timestamp_lock \in Nat
  BY DEF IInv, TypeOK
<1>3. UNCHANGED <<hour, dirs, sharedVars, ipc, rotateVars, load1>>
  BY DEF MinuteTimer, Collect, Wake, GatePass, GateWait, Stamp, Compose, OpenOk,
         OpenMissing, OpenError
<1>4. RotateInv' /\ Load1Inv'
  BY <1>3 DEF IInv, RotateInv, Load1Inv, Settled
<1>5. CASE ipc # "up" 
  <2>1. UNCHANGED col
    BY <1>5 DEF MinuteTimer, Collect, Wake, GatePass, GateWait, Stamp, Compose, OpenOk,
         OpenMissing, OpenError, IInv, StartInv
  <2>2. QED
    BY <1>3, <1>4, <2>1 DEF IInv, StartInv, CollectInv
<1>6. CASE ipc = "up"
  <2>1. StartInv'
    BY <1>3, <1>6 DEF IInv, StartInv, InitPcs
  <2>2. ASSUME NEW r \in CollectorState, col' = [col EXCEPT ![c] = r],
               r.pc \in {"stamp", "compose", "open"} =>
                 /\ r.gate <= hour
                 /\ r.gate = hour =>
                      /\ hour_timestamp_lock = hour
                      /\ r.pc \in {"compose", "open"} => r.stamp = DirOf(hour)
                      /\ r.pc = "open" => r.target = DirOf(hour)
        PROVE  CollectInv'
    BY <1>2, <1>3, <2>2 DEF IInv, CollectInv
  <2>3. Idle \in CollectorState /\ Idle.pc = "idle"
    BY ConstantsAssumption DEF Idle, CollectorState, Max2
  <2>4. CollectInv'
    <3>1. CASE UNCHANGED col
      BY <1>3, <3>1 DEF IInv, CollectInv
    <3>2. CASE col' = [col EXCEPT ![c] = Idle]
      BY <2>2, <2>3, <3>2
    <3>3. CASE Wake(c)
      BY <1>2, <1>3, <3>1, <3>3 DEF Wake, IInv, CollectInv, Idle
    <3>4. CASE GatePass(c)
      BY <1>1, <1>2, <1>3, <3>4 DEF GatePass, IInv, CollectInv, Idle
    <3>5. CASE GateWait(c)
      BY <1>2, <1>3, <3>2, <3>5 DEF GateWait, IInv, CollectInv, CollectorState
    <3>6. CASE Stamp(c)
      BY <1>1, <1>2, <1>3, <3>6 DEF Stamp, IInv, CollectInv, CollectorState
    <3>7. CASE Compose(c)
      \* while the path is rewritten the lock is not the hour: no gate is fresh
      <4>1. col[c].gate = hour => rpc # "path" /\ data_path_hour = DirOf(hour)
        BY <1>1, <1>2, <1>6, <3>7
        DEF Compose, IInv, CollectInv, RotateInv, StartInv, RotatePcs, Settled, TypeOK
      <4>2. QED
        BY <1>1, <1>2, <1>3, <3>7, <4>1 DEF Compose, ReadPath, IInv, CollectInv, CollectorState
    <3>8. CASE NextFile(c) /\ col[c].pc = "open"
      BY <1>1, <1>2, <1>3, <3>2, <3>8
      DEF NextFile, Finish, IInv, CollectInv, CollectorState
    <3>9. CASE OpenMissing(c) /\ ~NextFile(c)
      BY <1>1, <1>2, <1>3, <3>2, <3>9
      DEF OpenMissing, Finish, IInv, CollectInv, CollectorState
    <3>10. QED
      BY <3>1, <3>2, <3>3, <3>4, <3>5, <3>6, <3>7, <3>8, <3>9
      DEF Collect, MinuteTimer, OpenOk, OpenMissing, OpenError, Finish
  <2>5. QED
    BY <1>4, <2>1, <2>4
<1>7. QED
  BY <1>5, <1>6

LEMMA SafeLoad1 ==
  ASSUME Calm, IInv, TypeOK', Load1
  PROVE  StartInv' /\ RotateInv' /\ CollectInv' /\ Load1Inv'
<1> USE DEF load1Frame, clockVars, sharedVars, rotateVars
<1>1. Now = DirOf(hour) /\ hour \in Nat /\ load1 \in Load1State
  BY DirFacts DEF IInv, TypeOK
<1>2. UNCHANGED <<hour, dirs, sharedVars, ipc, rotateVars, col>>
  BY DEF Load1, Load1Gate, Load1Stamp, Load1Write
<1>3. RotateInv' /\ CollectInv'
  BY <1>2 DEF IInv, RotateInv, CollectInv, Settled
<1>4. ipc = "up"
  BY DEF IInv, StartInv, Load1, Load1Gate, Load1Stamp, Load1Write
<1>5. StartInv'
  BY <1>2, <1>4 DEF IInv, StartInv, InitPcs
<1>6. Load1Inv'
  <2>1. CASE Load1Gate
    BY <1>1, <1>2, <2>1 DEF Load1Gate, Load1Inv, Load1Idle
  <2>2. CASE Load1Stamp
    <3>1. /\ load1'.pc = "write" /\ load1'.stamp = DirOf(hour)
          /\ load1'.gate = load1.gate /\ load1'.lock = load1.lock
      BY <1>1, <2>2 DEF Load1Stamp, Load1State
    <3>2. QED
      BY <1>2, <2>2, <3>1 DEF Load1Stamp, IInv, Load1Inv, DirOf
  <2>3. CASE Load1Write
    BY <2>3 DEF Load1Write, Load1Inv, Load1Idle
  <2>4. QED
    BY <2>1, <2>2, <2>3 DEF Load1
<1>7. QED
  BY <1>3, <1>5, <1>6

LEMMA SafeStep ==
  ASSUME Calm, IInv, [Next]_vars
  PROVE  IInv'
<1>1. TypeOK' /\ LeftInv'
  BY TypeStep DEF IInv, TypeInv
<1>2. CASE UNCHANGED vars
  <2> USE <1>2 DEF vars, clockVars, sharedVars, rotateVars, collectVars
  <2>1. StartInv' /\ RotateInv'
    BY DEF IInv, StartInv, RotateInv, Settled
  <2>2. CollectInv' /\ Load1Inv'
    BY DEF IInv, CollectInv, Load1Inv
  <2>3. QED
    BY <1>1, <2>1, <2>2 DEF IInv
<1>3. CASE Next
  <2>1. \/ Tick \/ StartSteps \/ Rotate \/ Load1
        \/ \E c \in Collectors : MinuteTimer(c) \/ Collect(c)
    BY <1>3, Zenon DEF Next, StartSteps
  <2>2. StartInv' /\ RotateInv' /\ CollectInv' /\ Load1Inv'
    BY <1>1, <2>1, SafeTick, SafeStart, SafeRotate, SafeCollect, SafeLoad1
  <2>3. QED
    BY <1>1, <2>2 DEF IInv
<1>4. QED
  BY <1>2, <1>3

(* The invariant, and the properties that follow from it.                    *)
LEMMA Safe == Calm => (Spec => []IInv)
<1> SUFFICES ASSUME Calm PROVE Spec => []IInv
  OBVIOUS
<1>1. Init => IInv
  BY SafeInit
<1>2. IInv /\ [Next]_vars => IInv'
  BY SafeStep
<1>3. QED
  BY <1>1, <1>2, PTL DEF Spec

(* When the comparison a collector made still holds, rotate_thread is        *)
(* outside its rotation, and everything it shares is that of the hour.       *)
LEMMA LockMeansSettled ==
  ASSUME IInv, ipc = "up", hour_timestamp_lock = hour
  PROVE  Settled(hour)
  BY ConstantsAssumption DEF IInv, TypeOK, StartInv, RotateInv, RotatePcs

(* A file whose lock check and open fall in one epoch hour is written into   *)
(* the directory of the hour in its name, whatever rotate_thread and the     *)
(* clock do between the two.                                                 *)
THEOREM FiledByHourCorrect == Calm => (Spec => []FiledByHour)
<1> SUFFICES ASSUME Calm PROVE Spec => []FiledByHour
  OBVIOUS
<1>1. IInv => FiledByHour
  BY DEF IInv, CollectInv, FiledByHour
<1>2. QED
  BY <1>1, Safe, PTL

(* ... and that directory is there when the file is opened.                  *)
THEOREM DirectoryThereCorrect == Calm => (Spec => []DirectoryThere)
<1> SUFFICES ASSUME Calm PROVE Spec => []DirectoryThere
  OBVIOUS
<1>1. IInv => DirectoryThere
  <2> SUFFICES ASSUME IInv, NEW c \in Collectors, col[c].pc = "open", col[c].gate = hour
               PROVE  col[c].target \in dirs
    BY DEF DirectoryThere
  <2>1. hour_timestamp_lock = hour /\ col[c].target = DirOf(hour)
    BY DEF IInv, CollectInv
  <2>2. ipc = "up"
    BY DEF IInv, StartInv
  <2>3. QED
    BY <2>1, <2>2, LockMeansSettled DEF Settled
<1>2. QED
  BY <1>1, Safe, PTL

(* While rotate_thread sleeps on a timer that has not expired, the path, the *)
(* stamp, load5s_fd and the disk agree with the clock: no hour is skipped.   *)
THEOREM RotatedWhenIdleCorrect == Calm => (Spec => []RotatedWhenIdle)
<1> SUFFICES ASSUME Calm PROVE Spec => []RotatedWhenIdle
  OBVIOUS
<1>1. IInv => RotatedWhenIdle
  <2> SUFFICES ASSUME IInv, rpc = "wait", hour < hour_fd
               PROVE  /\ hour_timestamp_lock = hour
                      /\ data_path_hour = Now /\ Now \in dirs /\ load5s_fd = Now
    BY DEF RotatedWhenIdle
  <2>1. hour_timestamp_lock = hour
    BY ConstantsAssumption DEF IInv, TypeOK, RotateInv
  <2>2. Settled(hour)
    BY <2>1 DEF IInv, RotateInv
  <2>3. Now = DirOf(hour)
    BY DirFacts DEF IInv
  <2>4. QED
    BY <2>1, <2>2, <2>3 DEF Settled
<1>2. QED
  BY <1>1, Safe, PTL

(* rotate_thread's mkdir never meets its own directory: no restart in the    *)
(* middle of an hour makes the next rotation fail with EEXIST.               *)
THEOREM RotationFindsNewHourCorrect == Calm => (Spec => []RotationFindsNewHour)
<1> SUFFICES ASSUME Calm PROVE Spec => []RotationFindsNewHour
  OBVIOUS
<1>1. IInv => RotationFindsNewHour
  <2> SUFFICES ASSUME IInv, rpc = "mkdir" PROVE hour_datetime \notin dirs
    BY DEF RotationFindsNewHour
  <2>1. hour_datetime = DirOf(hour) /\ \A d \in dirs : d < DirOf(hour)
    BY DEF IInv, RotateInv
  <2>2. hour_datetime \in Nat /\ ~(hour_datetime < hour_datetime)
    BY DEF IInv, TypeOK
  <2>3. QED
    BY <2>1, <2>2
<1>2. QED
  BY <1>1, Safe, PTL

(* A load5s record that started after this hour's rotation is appended to    *)
(* the file of the hour it carries.                                          *)
THEOREM Load5sFiledByHourCorrect == Calm => (Spec => []Load5sFiledByHour)
<1> SUFFICES ASSUME Calm PROVE Spec => []Load5sFiledByHour
  OBVIOUS
<1>1. IInv => Load5sFiledByHour
  <2> SUFFICES ASSUME IInv, load1.pc = "write", load1.gate = hour, load1.lock = hour
               PROVE  load5s_fd = load1.stamp
    BY DEF Load5sFiledByHour
  <2>1. hour_timestamp_lock = hour /\ load1.stamp = DirOf(hour)
    BY DEF IInv, Load1Inv
  <2>2. ipc = "up"
    BY DEF IInv, StartInv
  <2>3. QED
    BY <2>1, <2>2, LockMeansSettled DEF Settled
<1>2. QED
  BY <1>1, Safe, PTL

(* What either recycling function takes are the oldest directories, as long  *)
(* as removals succeed and the partition does not flap.                      *)
LEMMA OldestIsPrefix ==
  ASSUME NEW S \in SUBSET Nat, IsFiniteSet(S), NEW k \in Nat,
         NEW d \in Oldest(S, k), NEW e \in S \ Oldest(S, k)
  PROVE  d < e
<1>1. d \in S /\ d \in Nat /\ e \in S /\ e \in Nat
  BY DEF Oldest
<1>2. SUFFICES ASSUME e <= d PROVE FALSE
  BY <1>1
<1> DEFINE Below(x) == {y \in S : y < x}
<1>3. Below(e) \subseteq Below(d)
  <2> SUFFICES ASSUME NEW y \in S, y < e PROVE y < d
    OBVIOUS
  <2>1. y \in Nat
    OBVIOUS
  <2>2. QED
    BY <1>1, <1>2, <2>1
<1>4. IsFiniteSet(Below(d)) /\ Below(d) \subseteq S
  BY FS_Subset
<1>5. IsFiniteSet(Below(e)) /\ Cardinality(Below(e)) <= Cardinality(Below(d))
  BY <1>3, <1>4, FS_Subset
<1>6. Cardinality(Below(e)) \in Nat /\ Cardinality(Below(d)) \in Nat
  BY <1>4, <1>5, FS_CardinalityType
<1>7. Cardinality(Below(d)) < k /\ ~(Cardinality(Below(e)) < k)
  BY DEF Oldest
<1>8. QED
  BY <1>5, <1>6, <1>7

THEOREM OldestFirstCorrect == Faults = {} => (Spec => OldestFirst)
<1> SUFFICES ASSUME Faults = {} PROVE Spec => OldestFirst
  OBVIOUS
<1>1. TypeInv /\ [Next]_vars => [\A d \in dirs \ dirs', e \in dirs' : d < e]_vars
  <2> SUFFICES ASSUME TypeInv, Next, NEW d \in dirs \ dirs', NEW e \in dirs'
               PROVE  d < e
    OBVIOUS
  <2> USE DEF clockVars, sharedVars, rotateVars, collectVars
  <2>1. dirs \in SUBSET Nat /\ IsFiniteSet(dirs)
    BY DEF TypeInv, TypeOK
  <2>2. ASSUME NEW k \in Nat, dirs' = dirs \ Oldest(dirs, k) PROVE d < e
    BY <2>1, <2>2, OldestIsPrefix DEF Oldest
  <2>3. CASE RotateRecycle
    <3>1. RmNum(dirs) \in Nat
      BY <2>1, <2>3, RecycleBounds DEF RotateRecycle
    <3>2. QED
      BY <2>2, <2>3, <3>1 DEF RotateRecycle, Removals
  <2>4. CASE RotateMinute
    <3>1. UsageMax(dirs) \in Nat
      BY <2>1, RecycleBounds
    <3>2. PICK k \in 0 .. UsageMax(dirs) : dirs' = dirs \ Oldest(dirs, k)
      BY <2>4 DEF RotateMinute, UsageRemoval, Removals
    <3>3. QED
      BY <2>2, <3>1, <3>2
  <2>5. CASE Next /\ ~RotateRecycle /\ ~RotateMinute
    <3>1. dirs \subseteq dirs'
      BY <2>5 DEF Next, Tick, StartName, StartPath, StartStamp, StartLoad5s, CreateThreads,
           Exit, Rotate, RotateArm, RotateWake, RotateLock, RotateName, RotatePath,
           RotateMkdir, RotateLoad5s, RotateLog, RotateStamp, RotateUnlock, RotateFail,
           RotateDie, MinuteTimer, Collect, Wake, GatePass, GateWait, Stamp, Compose,
           OpenOk, OpenMissing, OpenError, colFrame, Load1, Load1Gate, Load1Stamp,
           Load1Write, load1Frame
    <3>2. QED
      BY <3>1
  <2>6. QED
    BY <2>3, <2>4, <2>5
<1>2. QED
  BY <1>1, TypeInit, TypeStep, PTL DEF Spec, OldestFirst

(* hour_lock is held only inside the rotation.  This needs neither Calm nor  *)
(* the clock: every way out of the rotation, failed or not, clears it, and   *)
(* init_env's threads start with it clear.                                   *)
LockInv == HourLockReleased /\ (ipc # "up" => hour_lock # 1 /\ rpc = "none")

THEOREM HourLockReleasedCorrect == Spec => []HourLockReleased
<1>1. Init => LockInv
  BY DEF Init, LockInv, HourLockReleased
<1>2. LockInv /\ [Next]_vars => LockInv'
  <2> SUFFICES ASSUME LockInv, [Next]_vars PROVE LockInv'
    OBVIOUS
  <2> USE DEF LockInv, HourLockReleased, clockVars, sharedVars, rotateVars, collectVars
  <2>1. CASE Rotate
    BY <2>1 DEF Rotate, RotateArm, RotateWake, RotateLock, RotateName, RotatePath,
         RotateMkdir, RotateLoad5s, RotateLog, RotateStamp, RotateUnlock, RotateFail, RotateDie,
         RotateRecycle, RotateMinute, RotatePcs
  <2>2. CASE StartSteps
    BY <2>2 DEF StartSteps, StartName, StartPath, StartStamp, StartLoad5s, CreateThreads,
                Exit, InitPcs, RotatePcs
  <2>3. CASE Tick \/ UNCHANGED vars
    BY <2>3 DEF Tick, vars
  <2>4. CASE \E c \in Collectors : MinuteTimer(c) \/ Collect(c)
    BY <2>4 DEF MinuteTimer, Collect, Wake, GatePass, GateWait, Stamp, Compose, OpenOk,
                OpenMissing, OpenError, colFrame
  <2>5. CASE Load1
    BY <2>5 DEF Load1, Load1Gate, Load1Stamp, Load1Write, load1Frame
  <2>6. QED
    BY <2>1, <2>2, <2>3, <2>4, <2>5 DEF Next, StartSteps
<1>3. LockInv => HourLockReleased
  BY DEF LockInv
<1>4. QED
  BY <1>1, <1>2, <1>3, PTL DEF Spec
=============================================================================
