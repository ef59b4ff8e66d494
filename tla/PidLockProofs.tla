--------------------------- MODULE PidLockProofs ---------------------------
(***************************************************************************)
(* Proofs about PidLock, for any number of processes, edits and deaths,    *)
(* any managers, with or without cron.                                     *)
(***************************************************************************)
EXTENDS PidLock, TLAPS

\* A process between its flock and its unlock is the holder; one that collects
\* is named by sresar.pid; healing.sh holds the lock exactly while it looks.
LockInv ==
  /\ \A p \in Procs : pc[p] \in Locked => holder = p
  /\ \A p \in Procs : pc[p] \in {"run", "stop"} => pidfile = p
  /\ healing = "held" => holder = Healer

IInv == TypeOK /\ LockInv

LEMMA InitIInv == Init => IInv
<1> SUFFICES ASSUME Init PROVE IInv
  OBVIOUS
<1>1. /\ pc \in [Procs -> Pcs] /\ by \in [Procs -> Starters]
      /\ \A p \in Procs : pc[p] = "none"
  BY DEF Init, Pcs, Starters
<1>2. conf \in [Procs -> 0 .. MaxConf] /\ config \in 0 .. MaxConf /\ asked \in 0 .. MaxConf
  BY PidLockAssumption DEF Init
<1>3. deaths \in 0 .. MaxDeaths
  BY PidLockAssumption DEF Init
<1>4. unitOn \in BOOLEAN /\ disabled \in BOOLEAN
  BY Zenon DEF Init
<1>5. /\ holder \in Procs \cup {Nobody, Healer} /\ pidfile \in Procs \cup {Nobody}
      /\ healing \in {"idle", "looked", "held", "go"} /\ victims \in SUBSET Procs
      /\ admin \in {"idle", "edited", "stopping", "term", "wait", "rm"}
  BY DEF Init
<1>6. LockInv
  BY <1>1 DEF Init, LockInv, Locked
<1> QED
  BY <1>1, <1>2, <1>3, <1>4, <1>5, <1>6 DEF IInv, TypeOK

(* A new process changes nothing about the lock.                             *)
LEMMA SpawnIInv ==
  ASSUME IInv, NEW p \in Procs, NEW s \in Starters, Spawn(p, s)
  PROVE  /\ pc' \in [Procs -> Pcs] /\ by' \in [Procs -> Starters] /\ conf' \in [Procs -> 0 .. MaxConf]
         /\ \A q \in Procs : pc'[q] \in Locked => pc[q] = pc'[q]
  BY DEF IInv, TypeOK, Spawn, Pcs, Young, Locked, Starters

(* One process.                                                              *)
LEMMA DaemonIInv ==
  ASSUME IInv, NEW p \in Procs, Daemon(p) \/ Dies(p)
  PROVE  IInv'
<1> USE PidLockAssumption DEF IInv, TypeOK, LockInv, Locked, Young, Pcs, others, adminVars
<1>1. CASE ReadConf(p)
  BY <1>1 DEF ReadConf
<1>2. CASE TryLock(p)
  BY <1>2 DEF TryLock
<1>3. CASE Truncate(p)
  BY <1>3 DEF Truncate
<1>4. CASE WritePid(p)
  BY <1>4 DEF WritePid
<1>5. CASE EndsItself(p)
  BY <1>5 DEF EndsItself
<1>6. CASE Unlock(p)
  BY <1>6 DEF Unlock
<1>7. CASE Return(p)
  BY <1>7 DEF Return
<1>8. CASE Dies(p)
  BY <1>8 DEF Dies
<1> QED
  BY <1>1, <1>2, <1>3, <1>4, <1>5, <1>6, <1>7, <1>8 DEF Daemon

(* healing.sh and systemd.                                                   *)
LEMMA StartersIInv == IInv /\ (Heal \/ Systemd \/ Mark) => IInv'
<1> SUFFICES ASSUME IInv, Heal \/ Systemd \/ Mark PROVE IInv'
  OBVIOUS
<1> USE PidLockAssumption DEF IInv, TypeOK, LockInv, procVars, adminVars, others
<1>1. CASE HealTest
  BY <1>1 DEF HealTest
<1>2. CASE HealUnlock
  BY <1>2 DEF HealUnlock
<1>3. CASE HealStart
  BY <1>3, SpawnIInv DEF HealStart, Starters, Locked
<1>4. CASE UnitStart
  BY <1>4, SpawnIInv DEF UnitStart, Starters, Locked
<1>5. CASE UnitSkipped
  BY <1>5 DEF UnitSkipped
<1>6. CASE Mark
  BY <1>6 DEF Mark
<1>7. CASE HealLook
  BY <1>7 DEF HealLook
<1> QED
  BY <1>1, <1>2, <1>3, <1>4, <1>5, <1>6, <1>7 DEF Heal, Systemd

(* SIGTERM.                                                                  *)
LEMMA TermIInv ==
  ASSUME IInv, NEW S \in SUBSET Procs, pc' = AfterTerm(S), Drop({p \in S : pc'[p] = "none"}),
         UNCHANGED <<by, conf, pidfile, healing>>
  PROVE  pc' \in [Procs -> Pcs] /\ holder' \in Procs \cup {Nobody, Healer} /\ LockInv'
  BY PidLockAssumption DEF IInv, TypeOK, LockInv, AfterTerm, Drop, Pcs, Young, Locked

(* The administrator's commands.                                             *)
LEMMA AdminIInv ==
  IInv /\ (EditConf \/ Systemctl \/ StopFind \/ Script \/ StopFails \/ ScriptStart) => IInv'
<1> SUFFICES ASSUME IInv,
                    EditConf \/ Systemctl \/ StopFind \/ Script \/ StopFails \/ ScriptStart
             PROVE  IInv'
  OBVIOUS
<1> USE PidLockAssumption DEF IInv, TypeOK, procVars, scriptFrame
<1>1. CASE EditConf
  BY <1>1 DEF EditConf, LockInv
<1>2. CASE RestartStop
  BY <1>2, TermIInv DEF RestartStop, Unit
<1>3. CASE RestartStart
  BY <1>3, SpawnIInv DEF RestartStart, LockInv, Starters, Locked
<1>4. CASE StopFind
  BY <1>4 DEF StopFind, LockInv
<1>5. CASE StopTerm
  BY <1>5, TermIInv DEF StopTerm
<1>6. CASE StopKill
  BY <1>6 DEF StopKill, Drop, LockInv, Pcs, Locked, Young
<1>7. CASE StopTouch
  BY <1>7 DEF StopTouch, LockInv
<1>8. CASE StopFails
  BY <1>8 DEF StopFails, LockInv
<1>9. CASE ScriptStart
  BY <1>9, SpawnIInv DEF ScriptStart, LockInv, Starters, Locked
<1>10. CASE ScriptRm
  BY <1>10 DEF ScriptRm, LockInv
<1> QED
  BY <1>1, <1>2, <1>3, <1>4, <1>5, <1>6, <1>7, <1>8, <1>9, <1>10 DEF Systemctl, Script

LEMMA NextIInv == IInv /\ [Next]_vars => IInv'
<1> SUFFICES ASSUME IInv, [Next]_vars PROVE IInv'
  OBVIOUS
<1>1. CASE UNCHANGED vars
  BY <1>1 DEF IInv, TypeOK, LockInv, vars, procVars, adminVars
<1> QED
  BY <1>1, DaemonIInv, StartersIInv, AdminIInv DEF Next

LEMMA Invariance == Spec => []IInv
  BY InitIInv, NextIInv, PTL DEF Spec

-----------------------------------------------------------------------------
(* Every variable keeps its type.                                            *)
THEOREM TypeCorrect == Spec => []TypeOK
<1>1. IInv => TypeOK
  BY DEF IInv
<1> QED
  BY <1>1, Invariance, PTL

(* sresar.pid names the daemon that collects.                                *)
THEOREM PidFileNamesHolderCorrect == Spec => []PidFileNamesHolder
<1>1. IInv => PidFileNamesHolder
  BY DEF IInv, LockInv, PidFileNamesHolder, Collecting, Locked
<1> QED
  BY <1>1, Invariance, PTL

-----------------------------------------------------------------------------
(* The refinement of SingleInstance.                                         *)
(* Only a process that has the lock begins to collect.                       *)
LEMMA BeginsLocked ==
  ASSUME IInv, Next, NEW p \in Procs, p \notin Collecting, p \in Collecting'
  PROVE  holder = p
<1> USE DEF Collecting
<1>1. ASSUME NEW q \in Procs, Daemon(q) \/ Dies(q) PROVE pc[p] = "empty"
  BY <1>1 DEF Daemon, ReadConf, TryLock, Truncate, WritePid, EndsItself, Unlock, Return, Dies,
     IInv, TypeOK
<1>2. ASSUME NEW q \in Procs, NEW s \in Starters, Spawn(q, s) PROVE FALSE
  BY <1>2 DEF Spawn, IInv, TypeOK
<1>3. ASSUME NEW S \in SUBSET Procs, pc' = AfterTerm(S) PROVE FALSE
  BY <1>3 DEF AfterTerm, IInv, TypeOK
<1>4. Heal \/ Systemd \/ Mark => FALSE
  BY <1>2 DEF Heal, Systemd, HealLook, HealTest, HealUnlock, HealStart, UnitStart, UnitSkipped, Mark,
     procVars, adminVars, Starters
<1>5. EditConf \/ Systemctl => FALSE
  <2>1. Unit \in SUBSET Procs
    BY DEF Unit
  <2> QED
    BY <2>1, <1>2, <1>3 DEF EditConf, Systemctl, RestartStop, RestartStart, procVars, Starters
<1>6. StopFind \/ Script \/ StopFails \/ ScriptStart => FALSE
  BY <1>2, <1>3 DEF StopFind, Script, StopTerm, StopKill, StopTouch, ScriptRm, StopFails,
     ScriptStart, procVars, scriptFrame, Starters, IInv, TypeOK
<1>7. pc[p] = "empty"
  BY <1>1, <1>4, <1>5, <1>6 DEF Next
<1> QED
  BY <1>7 DEF IInv, LockInv, Locked

(* At most one daemon writes the data files, and another begins only when it *)
(* has finished.                                                             *)
THEOREM OneCollectsCorrect == Spec => OneCollects
<1>1. Init => Instance!Init
  BY DEF Init, Instance!Init, Collecting
<1>2. IInv /\ IInv' /\ [Next]_vars => [Instance!Next]_Collecting
  <2> SUFFICES ASSUME IInv, IInv', Next, Collecting' # Collecting PROVE Instance!Next
    BY DEF vars, procVars, Collecting
  <2>1. \A p, q \in Collecting : p = q
    BY DEF IInv, LockInv, Collecting, Locked
  <2>2. \A p, q \in Collecting' : p = q
    BY DEF IInv, LockInv, Collecting, Locked
  <2>3. Collecting \subseteq Procs /\ Collecting' \subseteq Procs
    BY DEF Collecting
  <2>4. ASSUME NEW p \in Collecting', p \notin Collecting PROVE Instance!Begin(p)
    <3>1. holder = p
      BY <2>3, <2>4, BeginsLocked
    <3>2. Collecting = {}
      BY <2>4, <3>1 DEF IInv, LockInv, Collecting, Locked
    <3>3. Collecting' = {p}
      BY <2>2, <2>4
    <3> QED
      BY <3>2, <3>3 DEF Instance!Begin
  <2>5. ASSUME Collecting' \subseteq Collecting PROVE \E p \in Procs : Instance!Finish(p)
    <3>1. PICK p \in Collecting : p \notin Collecting'
      BY <2>5
    <3>2. Collecting = {p} /\ Collecting' = {}
      BY <2>1, <2>5, <3>1
    <3> QED
      BY <2>3, <3>2 DEF Instance!Finish
  <2> QED
    BY <2>3, <2>4, <2>5 DEF Instance!Next
<1> QED
  BY <1>1, <1>2, Invariance, PTL DEF Spec, OneCollects, Instance!Spec
=============================================================================
