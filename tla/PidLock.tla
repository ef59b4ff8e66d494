------------------------------ MODULE PidLock ------------------------------
(***************************************************************************)
(* Who starts the sresar daemon, and how at most one of them collects.     *)
(* Every sresar -D reads its configuration, then takes an exclusive flock  *)
(* on sresar.pid without waiting, or exits with 200.  healing.sh, run by   *)
(* cron, takes that lock to find out whether a daemon runs, drops it and   *)
(* starts one.  On top of that there is systemd (Restart=always), the      *)
(* script sresard, which marks a stopped daemon with sresar.disable, or    *)
(* both.                                                                   *)
(*                                                                         *)
(* What a daemon does between its start and its end is module Shutdown's   *)
(* and HourRotation's subject and is one state, "run", here.               *)
(***************************************************************************)
EXTENDS Naturals, FiniteSets

CONSTANTS
  Procs,        \* places for processes
  Nobody,       \* holds nothing
  Healer,       \* healing.sh as the holder of the lock
  Managers,     \* what is used beside healing.sh: systemd, the script sresard, or both
  Cron,         \* cron runs healing.sh
  MaxConf,      \* bound: edits of the configuration
  MaxDeaths     \* bound: processes that fail, crash or are killed

ASSUME PidLockAssumption ==
  /\ Nobody \notin Procs /\ Healer \notin Procs /\ Nobody # Healer
  /\ Managers \subseteq {"systemd", "sresard"}
  /\ Cron \in BOOLEAN
  /\ MaxConf \in Nat /\ MaxDeaths \in Nat

VARIABLES
  pc,        \* per process: where it is
  by,        \* per process: who started it
  conf,      \* per process: the version of ssar.conf it has read
  holder,    \* who has the flock on sresar.pid
  pidfile,   \* the process sresar.pid names
  healing,   \* where the present run of healing.sh is
  disabled,  \* /etc/ssar/sresar.disable exists
  unitOn,    \* systemd wants the unit up
  admin,     \* where the administrator's command is
  victims,   \* the processes sresard is stopping
  config,    \* the version of ssar.conf on disk
  asked,     \* the version for which a restart has completed
  deaths

procVars  == <<pc, by, conf>>
adminVars == <<unitOn, admin, victims, config, asked>>
vars == <<procVars, holder, pidfile, healing, disabled, adminVars, deaths>>

Starters == {"cron", "unit", "admin"}
Young == {"born", "init"}                          \* has not tried the lock
Locked == {"locked", "empty", "run", "stop"}       \* has the lock
Pcs == {"none", "left"} \cup Young \cup Locked

TypeOK ==
  /\ pc \in [Procs -> Pcs]
  /\ by \in [Procs -> Starters]
  /\ conf \in [Procs -> 0 .. MaxConf]
  /\ holder \in Procs \cup {Nobody, Healer}
  /\ pidfile \in Procs \cup {Nobody}
  /\ healing \in {"idle", "looked", "held", "go"}
  /\ disabled \in BOOLEAN
  /\ unitOn \in BOOLEAN
  /\ admin \in {"idle", "edited", "stopping", "term", "wait", "rm"}
  /\ victims \in SUBSET Procs
  /\ config \in 0 .. MaxConf /\ asked \in 0 .. MaxConf
  /\ deaths \in 0 .. MaxDeaths

Init ==
  /\ pc = [p \in Procs |-> "none"]
  /\ by = [p \in Procs |-> "cron"]
  /\ conf = [p \in Procs |-> 0]
  /\ holder = Nobody /\ pidfile = Nobody
  /\ healing = "idle"
  /\ disabled = FALSE
  /\ unitOn \in BOOLEAN /\ (unitOn <=> "systemd" \in Managers)
  /\ admin = "idle" /\ victims = {}
  /\ config = 0 /\ asked = 0
  /\ deaths = 0

-----------------------------------------------------------------------------
(* One sresar -D.  Its pid is not one that sresard is just waiting for.      *)
Spawn(p, starter) ==
  /\ pc[p] = "none" /\ p \notin victims
  /\ pc' = [pc EXCEPT ![p] = "born"]
  /\ by' = [by EXCEPT ![p] = starter]
  /\ UNCHANGED conf

others == <<healing, disabled, adminVars>>

(* init_basic_config                                                         *)
ReadConf(p) ==
  /\ pc[p] = "born"
  /\ pc' = [pc EXCEPT ![p] = "init"]
  /\ conf' = [conf EXCEPT ![p] = config]
  /\ UNCHANGED <<by, holder, pidfile, others, deaths>>

\* Mutant: a lock that is taken is taken for one's own.
TryLock_Shared(p) ==
  /\ pc[p] = "init"
  /\ pc' = [pc EXCEPT ![p] = "locked"]
  /\ holder' = IF holder = Nobody THEN p ELSE holder
  /\ UNCHANGED <<by, conf, pidfile, others, deaths>>

\* Mutant: sresar.pid is opened with O_TRUNC.
TryLock_Truncates(p) ==
  /\ pc[p] = "init"
  /\ IF holder = Nobody
     THEN pc' = [pc EXCEPT ![p] = "locked"] /\ holder' = p
     ELSE pc' = [pc EXCEPT ![p] = "none"] /\ UNCHANGED holder
  /\ pidfile' = Nobody
  /\ UNCHANGED <<by, conf, others, deaths>>

(* flock(LOCK_EX | LOCK_NB), or exit(200).                                   *)
TryLock(p) ==
  /\ pc[p] = "init"
  /\ IF holder = Nobody
     THEN pc' = [pc EXCEPT ![p] = "locked"] /\ holder' = p
     ELSE pc' = [pc EXCEPT ![p] = "none"] /\ UNCHANGED holder
  /\ UNCHANGED <<by, conf, pidfile, others, deaths>>

Truncate(p) ==
  /\ pc[p] = "locked"
  /\ pc' = [pc EXCEPT ![p] = "empty"]
  /\ pidfile' = Nobody
  /\ UNCHANGED <<by, conf, holder, others, deaths>>

(* The pid is written, the rest of the start follows, collection begins.     *)
WritePid(p) ==
  /\ pc[p] = "empty"
  /\ pc' = [pc EXCEPT ![p] = "run"]
  /\ pidfile' = p
  /\ UNCHANGED <<by, conf, holder, others, deaths>>

(* The restart alarm, or a thread that has ended.                            *)
EndsItself(p) ==
  /\ pc[p] = "run"
  /\ pc' = [pc EXCEPT ![p] = "stop"]
  /\ UNCHANGED <<by, conf, holder, pidfile, others, deaths>>

(* pid_unlock; only descriptors are closed after it.                         *)
Unlock(p) ==
  /\ pc[p] = "stop"
  /\ pc' = [pc EXCEPT ![p] = "left"]
  /\ holder' = Nobody
  /\ UNCHANGED <<by, conf, pidfile, others, deaths>>

Return(p) ==
  /\ pc[p] = "left"
  /\ pc' = [pc EXCEPT ![p] = "none"]
  /\ UNCHANGED <<by, conf, holder, pidfile, others, deaths>>

(* exit() on a failure, a crash, a kill: the kernel drops the flock.         *)
Dies(p) ==
  /\ pc[p] # "none" /\ deaths < MaxDeaths
  /\ pc' = [pc EXCEPT ![p] = "none"]
  /\ holder' = IF holder = p THEN Nobody ELSE holder
  /\ deaths' = deaths + 1
  /\ UNCHANGED <<by, conf, pidfile, others>>

Daemon(p) ==
  ReadConf(p) \/ TryLock(p) \/ Truncate(p) \/ WritePid(p) \/ EndsItself(p) \/ Unlock(p) \/ Return(p)

(* SIGTERM ends a process that does not block it yet, and stops a daemon.    *)
AfterTerm(S) ==
  [p \in Procs |->
     IF p \notin S \/ pc[p] \in {"none", "stop", "left"} THEN pc[p]
     ELSE IF pc[p] = "run" THEN "stop" ELSE "none"]

Drop(S) == holder' = IF holder \in S THEN Nobody ELSE holder

-----------------------------------------------------------------------------
(* healing.sh looks for the mark, then tries the lock.  A run is over before *)
(* the next one, and the daemon it has started tries the lock before the     *)
(* next one looks.                                                           *)
HealLook ==
  /\ Cron /\ healing = "idle"
  /\ \A p \in Procs : ~(pc[p] \in Young /\ by[p] = "cron")
  /\ ~disabled
  /\ healing' = "looked"
  /\ UNCHANGED <<procVars, holder, pidfile, disabled, adminVars, deaths>>

(* flock -x -n                                                               *)
HealTest ==
  /\ healing = "looked"
  /\ IF holder = Nobody
     THEN holder' = Healer /\ healing' = "held"
     ELSE healing' = "idle" /\ UNCHANGED holder
  /\ UNCHANGED <<procVars, pidfile, disabled, adminVars, deaths>>

\* Mutant: the lock is kept, and the new daemon inherits the descriptor.
HealUnlock_Keeps ==
  /\ healing = "held"
  /\ healing' = "go"
  /\ UNCHANGED <<procVars, holder, pidfile, disabled, adminVars, deaths>>

HealUnlock ==
  /\ healing = "held"
  /\ holder' = Nobody
  /\ healing' = "go"
  /\ UNCHANGED <<procVars, pidfile, disabled, adminVars, deaths>>

HealStart ==
  /\ healing = "go"
  /\ \E p \in Procs : Spawn(p, "cron")
  /\ healing' = "idle"
  /\ UNCHANGED <<holder, pidfile, disabled, adminVars, deaths>>

-----------------------------------------------------------------------------
(* systemd.                                                                  *)
Unit == {p \in Procs : pc[p] # "none" /\ by[p] = "unit"}

\* Mutant: the condition on sresar.disable is missing.
UnitStart_Always ==
  /\ unitOn /\ Unit = {}
  /\ \E p \in Procs : Spawn(p, "unit")
  /\ UNCHANGED <<holder, pidfile, others, deaths>>

(* Restart=always: whatever its end was, it is started again.                *)
UnitStart ==
  /\ unitOn /\ Unit = {} /\ ~disabled
  /\ \E p \in Procs : Spawn(p, "unit")
  /\ UNCHANGED <<holder, pidfile, others, deaths>>

(* ConditionPathExists=!/etc/ssar/sresar.disable                             *)
UnitSkipped ==
  /\ unitOn /\ Unit = {} /\ disabled
  /\ unitOn' = FALSE
  /\ UNCHANGED <<procVars, holder, pidfile, healing, disabled, admin, victims, config, asked, deaths>>

(* The administrator edits ssar.conf and runs systemctl restart sresar,      *)
(* which is done when the unit's new process has been started.               *)
EditConf ==
  /\ "systemd" \in Managers /\ admin = "idle" /\ config < MaxConf
  /\ config' = config + 1
  /\ admin' = "edited"
  /\ UNCHANGED <<procVars, holder, pidfile, healing, disabled, unitOn, victims, asked, deaths>>

RestartStop ==
  /\ admin = "edited"
  /\ pc' = AfterTerm(Unit) /\ Drop({p \in Unit : pc'[p] = "none"})
  /\ unitOn' = FALSE
  /\ admin' = "stopping"
  /\ UNCHANGED <<by, conf, pidfile, healing, disabled, victims, config, asked, deaths>>

RestartStart ==
  /\ admin = "stopping" /\ Unit = {}
  /\ IF disabled
     THEN UNCHANGED <<procVars, unitOn, asked>>
     ELSE /\ \E p \in Procs : Spawn(p, "unit")
          /\ unitOn' = TRUE
          /\ asked' = config
  /\ admin' = "idle"
  /\ UNCHANGED <<holder, pidfile, healing, disabled, victims, config, deaths>>

(* The mark is made or removed by hand.                                      *)
Mark ==
  /\ "systemd" \in Managers
  /\ disabled' = ~disabled
  /\ UNCHANGED <<procVars, holder, pidfile, healing, adminVars, deaths>>

-----------------------------------------------------------------------------
(* sresard stop and sresard start.  killproc finds no pid file and asks      *)
(* pidof; it sends SIGTERM, and SIGKILL to what is left four seconds later.  *)
scriptFrame == <<unitOn, config, asked>>

\* Mutant: the process to stop is the one that has the lock.
StopFind_ByLock ==
  /\ "sresard" \in Managers /\ admin = "idle"
  /\ victims' = {holder}
  /\ admin' = "term"
  /\ UNCHANGED <<procVars, holder, pidfile, healing, disabled, scriptFrame, deaths>>

StopFind ==
  /\ "sresard" \in Managers /\ admin = "idle"
  /\ victims' = {p \in Procs : pc[p] # "none"}
  /\ admin' = "term"
  /\ UNCHANGED <<procVars, holder, pidfile, healing, disabled, scriptFrame, deaths>>

StopTerm ==
  /\ admin = "term"
  /\ pc' = AfterTerm(victims) /\ Drop({p \in victims : pc'[p] = "none"})
  /\ admin' = "wait"
  /\ UNCHANGED <<by, conf, pidfile, healing, disabled, victims, scriptFrame, deaths>>

StopKill ==
  /\ admin = "wait"
  /\ \E p \in victims :
       /\ pc[p] # "none"
       /\ pc' = [q \in Procs |-> IF q \in victims THEN "none" ELSE pc[q]]
  /\ Drop(victims)
  /\ UNCHANGED <<by, conf, pidfile, healing, disabled, admin, victims, scriptFrame, deaths>>

(* RETVAL is 0 when they are gone; then the mark is made.                    *)
StopTouch ==
  /\ admin = "wait" /\ \A p \in victims : pc[p] = "none"
  /\ disabled' = TRUE
  /\ admin' = "idle" /\ victims' = {}
  /\ UNCHANGED <<procVars, holder, pidfile, healing, scriptFrame, deaths>>

(* A process that does not go: RETVAL is 1, and there is no mark.            *)
StopFails ==
  /\ admin = "wait" /\ \E p \in victims : pc[p] # "none"
  /\ admin' = "idle" /\ victims' = {}
  /\ UNCHANGED <<procVars, holder, pidfile, healing, disabled, scriptFrame, deaths>>

(* The daemon is started in the background, so RETVAL is 0 whatever it does. *)
ScriptStart ==
  /\ "sresard" \in Managers /\ admin = "idle"
  /\ \E p \in Procs : Spawn(p, "admin")
  /\ admin' = "rm"
  /\ UNCHANGED <<holder, pidfile, healing, disabled, victims, scriptFrame, deaths>>

ScriptRm ==
  /\ admin = "rm"
  /\ disabled' = FALSE
  /\ admin' = "idle"
  /\ UNCHANGED <<procVars, holder, pidfile, healing, victims, scriptFrame, deaths>>

-----------------------------------------------------------------------------
Heal == HealLook \/ HealTest \/ HealUnlock \/ HealStart
Systemd == UnitStart \/ UnitSkipped
Systemctl == RestartStop \/ RestartStart
Script == StopTerm \/ StopKill \/ StopTouch \/ ScriptRm

Next ==
  \/ \E p \in Procs : Daemon(p) \/ Dies(p)
  \/ Heal \/ Systemd
  \/ EditConf \/ Systemctl \/ Mark
  \/ StopFind \/ Script \/ StopFails \/ ScriptStart

Spec == Init /\ [][Next]_vars

(* The processes run, cron and systemd do their work, a command once given   *)
(* is carried out, and a daemon's restart alarm goes off.                    *)
Fairness ==
  /\ \A p \in Procs : WF_vars(Daemon(p))
  /\ WF_vars(Heal) /\ WF_vars(Systemd) /\ WF_vars(Systemctl) /\ WF_vars(Script)

FairSpec == Spec /\ Fairness

-----------------------------------------------------------------------------
(* Properties.                                                               *)
Collecting == {p \in Procs : pc[p] \in {"run", "stop"}}

Instance == INSTANCE SingleInstance WITH collecting <- Collecting

(* One daemon at a time writes the data files, whoever starts daemons when,  *)
(* and whoever else takes the lock.                                          *)
OneCollects == Instance!Spec

(* sresar.pid names the daemon that collects: a daemon that is turned away   *)
(* leaves it alone.                                                          *)
PidFileNamesHolder == \A p \in Collecting : pidfile = p /\ holder = p

(* As long as sresar is not marked disabled, a daemon collects again and     *)
(* again, whatever ended the one before.                                     *)
ComesBack == []<>(disabled \/ Collecting # {})

(* A mark that stays keeps daemons away for good, after the present one's    *)
(* restart alarm at the latest.                                              *)
StaysDown == <>[]disabled => <>[](Collecting = {})

(* A daemon that collects once systemctl restart has completed has read the  *)
(* configuration for which the restart was asked.                            *)
RestartTakesEffect ==
  admin = "idle" => \A p \in Collecting : conf[p] >= asked
=============================================================================
