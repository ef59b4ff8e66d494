---------------------------- MODULE HourRotation ----------------------------
(***************************************************************************)
(* The data directory of the sresar daemon, one subdirectory per hour, and *)
(* the threads that share it through seq_options: rotate_thread, which     *)
(* moves data_path_hour and load5s_fd to the next directory when the hour  *)
(* changes; the four collectors (snapsys_thread, sresar_thread,            *)
(* cmdinfo_thread, loadrd_thread), which compare hour_timestamp_lock with  *)
(* the clock before they write; load1_thread, which looks at hour_lock     *)
(* only; and init_env, which fills the same fields when the daemon starts. *)
(*                                                                         *)
(* Time.  The code works with hours in two ways: an epoch hour (tv_sec     *)
(* truncated to 3600) paces the rotation and is the value of               *)
(* hour_timestamp_lock, and the LOCAL hour, formatted, names directories   *)
(* and stamps.  The clock is therefore an epoch hour and the half of it    *)
(* (`late'), and LocalHour(hour, late) is the local hour, an integer that  *)
(* orders as the formatted string "%Y%m%d%H" does.  In a zone whose offset *)
(* is a whole number of hours LocalHour does not depend on `late'.         *)
(*                                                                         *)
(* A minute timer, a load change and the moment a thread is scheduled are  *)
(* all nondeterministic: a wake-up may come at any clock value.            *)
(***************************************************************************)
EXTENDS Integers, FiniteSets

CONSTANTS
  Collectors,       \* the collector threads created (load5s_flag, proc_flag, sys_flag)
  SysFiles,         \* number of files snapsys writes in a run (sys_srcs)
  Keep,             \* duration_threshold
  PollMax,          \* polls of hour_timestamp_lock before "hour lock break" (1000)
  RetryMax,         \* retries of an open that fails with ENOENT (100)
  MaxHour,          \* bound: the clock stops here
  LocalHour(_, _),  \* the local hour at an epoch hour and half
  Straddle,         \* sections of code the clock may carry over an hour boundary
  Faults,           \* "remove": remove_directory may fail; "flap": the partition
                    \* may fill and empty between two checks of one pass
  Torn              \* a data_path_hour read while sprintf rewrites it

AllCollectors == {"snapsys", "sresar", "cmdinfo", "loadrd"}
Timed         == {"snapsys", "sresar"}      \* woken by a minute timer

ASSUME ConstantsAssumption ==
  /\ Collectors \subseteq AllCollectors
  /\ SysFiles \in Nat \ {0}
  /\ Keep \in Nat \ {0}
  /\ PollMax \in Nat
  /\ RetryMax \in Nat
  /\ MaxHour \in Nat
  /\ Straddle \subseteq {"init", "arm", "rotate"}
  /\ Faults \subseteq {"remove", "flap"}
  /\ Torn \notin Nat

ASSUME LocalHourAssumption ==
  \A h \in 0 .. MaxHour, l \in BOOLEAN : LocalHour(h, l) \in Nat

VARIABLES
  hour, late,                \* the clock
  dirs,                      \* the subdirectories of data_path on disk
  data_path_hour,            \* opts->data_path_hour, as the hour it names
  hour_timestamp_lock,       \* opts->hour_timestamp_lock
  hour_lock,                 \* opts->hour_lock
  load5s_fd,                 \* the hour of the file opts->load5s_fd refers to
  partition_insufficient,    \* opts->partition_insufficient
  ipc,                       \* main: where init_env is
  rpc,                       \* rotate_thread: where it is
  hour_datetime,             \* the local hour_datetime of init_env or rotate_thread
  hour_fd,                   \* the epoch hour at which the hour timer expires
  timerfd_ready,             \* local timerfd_ready of rotate_thread
  col,                       \* the collectors
  ready,                     \* collectors with an undelivered epoll edge
  load1                      \* load1_thread

clockVars  == <<hour, late>>
sharedVars == <<data_path_hour, hour_timestamp_lock, hour_lock, load5s_fd,
                partition_insufficient>>
rotateVars == <<rpc, hour_datetime, hour_fd, timerfd_ready>>
collectVars == <<col, ready>>
vars == <<clockVars, dirs, sharedVars, ipc, rotateVars, collectVars, load1>>

Now == LocalHour(hour, late)

-----------------------------------------------------------------------------
(* A collector.  `lock_i' counts polls and then retries, `left' the files   *)
(* still to write, `stamp' the hour in the file name, `target' the directory *)
(* in the composed path.  `gate' is a history variable: the epoch hour at    *)
(* which the comparison with hour_timestamp_lock succeeded.                  *)
Idle  == [pc |-> "idle", lock_i |-> 0, left |-> 0, gate |-> 0, stamp |-> 0, target |-> 0]
Load1Idle == [pc |-> "idle", gate |-> 0, lock |-> 0, stamp |-> 0]

Files(c) == CASE c = "snapsys" -> SysFiles   \* sys_srcs, one file each
              [] c = "loadrd"  -> 2          \* _loadrd and _stack
              [] OTHER         -> 1

Max2(a, b) == IF a > b THEN a ELSE b

CollectorState ==
  [pc : {"idle", "gate", "stamp", "compose", "open"},
   lock_i : 0 .. Max2(PollMax, RetryMax), left : 0 .. Max2(SysFiles, 2),
   gate : Nat, stamp : Nat, target : Nat \cup {Torn}]
Load1State == [pc : {"idle", "stamp", "write"}, gate : Nat, lock : Nat, stamp : Nat]

InitPcs   == {"path", "stamp", "load5s", "create"}
RotatePcs == {"lock", "name", "path", "mkdir", "load5s", "log", "stamp", "unlock"}

TypeOK ==
  /\ hour \in 0 .. MaxHour /\ late \in BOOLEAN
  /\ dirs \in SUBSET Nat /\ IsFiniteSet(dirs)
  /\ data_path_hour \in Nat
  /\ hour_timestamp_lock \in Nat
  /\ hour_lock \in {0, 1}
  /\ load5s_fd \in Nat
  /\ partition_insufficient \in BOOLEAN
  /\ ipc \in InitPcs \cup {"down", "up"}
  /\ rpc \in RotatePcs \cup {"none", "arm", "wait", "recycle", "minute", "dead"}
  /\ hour_datetime \in Nat
  /\ hour_fd \in Nat
  /\ timerfd_ready \in BOOLEAN
  /\ col \in [Collectors -> CollectorState]
  /\ ready \in [Collectors -> BOOLEAN]
  /\ load1 \in Load1State

Init ==
  /\ hour = 0 /\ late = FALSE
  /\ dirs = {}
  /\ data_path_hour = 0 /\ hour_timestamp_lock = 0 /\ hour_lock = 0
  /\ load5s_fd = 0 /\ partition_insufficient = FALSE
  /\ ipc = "down"
  /\ rpc = "none" /\ hour_datetime = 0 /\ hour_fd = 0 /\ timerfd_ready = FALSE
  /\ col = [c \in Collectors |-> Idle]
  /\ ready = [c \in Collectors |-> FALSE]
  /\ load1 = Load1Idle

-----------------------------------------------------------------------------
(* The clock.  Straddle names the sections of code that an hour boundary may *)
(* interrupt; a section not in it is over before the next hour begins.       *)
MayCross ==
  /\ ipc \in InitPcs => "init" \in Straddle
  /\ rpc = "arm" => "arm" \in Straddle
  /\ rpc \in RotatePcs => "rotate" \in Straddle

Tick ==
  /\ \/ ~late /\ late' = TRUE /\ UNCHANGED hour
     \/ /\ late /\ MayCross /\ hour < MaxHour
        /\ late' = FALSE /\ hour' = hour + 1
  /\ UNCHANGED <<dirs, sharedVars, ipc, rotateVars, collectVars, load1>>

-----------------------------------------------------------------------------
(* init_env, and the creation of the threads in main.                        *)
StartName ==
  /\ ipc = "down"
  /\ hour_datetime' = Now
  /\ ipc' = "path"
  /\ UNCHANGED <<clockVars, dirs, sharedVars, rpc, hour_fd, timerfd_ready,
                 collectVars, load1>>

StartPath ==
  /\ ipc = "path"
  /\ data_path_hour' = hour_datetime
  /\ dirs' = dirs \cup {hour_datetime}         \* stat, else mkdir
  /\ ipc' = "stamp"
  /\ UNCHANGED <<clockVars, hour_timestamp_lock, hour_lock, load5s_fd,
                 partition_insufficient, rotateVars, collectVars, load1>>

StartStamp ==
  /\ ipc = "stamp"
  /\ hour_timestamp_lock' = hour
  /\ ipc' = "load5s"
  /\ UNCHANGED <<clockVars, dirs, data_path_hour, hour_lock, load5s_fd,
                 partition_insufficient, rotateVars, collectVars, load1>>

StartLoad5s ==
  /\ ipc = "load5s"
  /\ load5s_fd' = hour_datetime
  /\ partition_insufficient' \in BOOLEAN       \* check_partition_usage
  /\ ipc' = "create"
  /\ UNCHANGED <<clockVars, dirs, data_path_hour, hour_timestamp_lock, hour_lock,
                 rotateVars, collectVars, load1>>

CreateThreads ==
  /\ ipc = "create"
  /\ ipc' = "up"
  /\ rpc' = "arm"
  /\ UNCHANGED <<clockVars, dirs, sharedVars, hour_datetime, hour_fd,
                 timerfd_ready, collectVars, load1>>

(* The process ends: an exit() of init_env, a stop signal, the restart      *)
(* alarm, a dead thread, a kill.  Everything but the disk is lost.           *)
Exit ==
  /\ ipc # "down"
  /\ ipc' = "down"
  /\ data_path_hour' = 0 /\ hour_timestamp_lock' = 0 /\ hour_lock' = 0
  /\ load5s_fd' = 0 /\ partition_insufficient' = FALSE
  /\ rpc' = "none" /\ hour_datetime' = 0 /\ hour_fd' = 0 /\ timerfd_ready' = FALSE
  /\ col' = [c \in Collectors |-> Idle]
  /\ ready' = [c \in Collectors |-> FALSE]
  /\ load1' = Load1Idle
  /\ UNCHANGED <<clockVars, dirs>>

-----------------------------------------------------------------------------
(* rotate_thread.                                                            *)

\* Mutant: the first expiry is not moved to the next hour.
RotateArm_ThisHour ==
  /\ rpc = "arm"
  /\ hour_fd' = hour
  /\ timerfd_ready' \in BOOLEAN
  /\ rpc' = "wait"
  /\ UNCHANGED <<clockVars, dirs, sharedVars, ipc, hour_datetime, collectVars, load1>>

(* The first expiry is the next epoch hour; timerfd_ready is never           *)
(* initialised, so it starts with either value.                              *)
RotateArm ==
  /\ rpc = "arm"
  /\ hour_fd' = hour + 1
  /\ timerfd_ready' \in BOOLEAN
  /\ rpc' = "wait"
  /\ UNCHANGED <<clockVars, dirs, sharedVars, ipc, hour_datetime, collectVars, load1>>

\* Mutant: the timer is seen only an hour after it expires.
RotateWake_HourLate ==
  /\ rpc = "wait"
  /\ \E minute \in BOOLEAN :
       /\ timerfd_ready' = (timerfd_ready \/ minute)
       /\ \/ /\ hour > hour_fd
             /\ hour_fd' = hour + 1
             /\ rpc' = "lock"
          \/ /\ hour <= hour_fd /\ minute
             /\ rpc' = "minute"
             /\ UNCHANGED hour_fd
  /\ UNCHANGED <<clockVars, dirs, sharedVars, ipc, hour_datetime, collectVars, load1>>

(* epoll_wait returns with the hour timer, the minute timer or both, and     *)
(* their expirations are read.  timerfd_ready is not reset.                  *)
RotateWake ==
  /\ rpc = "wait"
  /\ \E minute \in BOOLEAN :
       /\ timerfd_ready' = (timerfd_ready \/ minute)
       /\ \/ /\ hour >= hour_fd
             /\ hour_fd' = hour + 1
             /\ rpc' = "lock"
          \/ /\ hour < hour_fd /\ minute
             /\ rpc' = "minute"
             /\ UNCHANGED hour_fd
  /\ UNCHANGED <<clockVars, dirs, sharedVars, ipc, hour_datetime, collectVars, load1>>

\* Mutant: the collectors are released before the path has moved.
RotateLock_StampFirst ==
  /\ rpc = "lock"
  /\ hour_lock' = 1
  /\ hour_timestamp_lock' = hour
  /\ rpc' = "name"
  /\ UNCHANGED <<clockVars, dirs, data_path_hour, load5s_fd, partition_insufficient,
                 ipc, hour_datetime, hour_fd, timerfd_ready, collectVars, load1>>

RotateLock ==
  /\ rpc = "lock"
  /\ hour_lock' = 1
  /\ rpc' = "name"
  /\ UNCHANGED <<clockVars, dirs, data_path_hour, hour_timestamp_lock, load5s_fd,
                 partition_insufficient, ipc, hour_datetime, hour_fd,
                 timerfd_ready, collectVars, load1>>

RotateName ==
  /\ rpc = "name"
  /\ hour_datetime' = Now
  /\ rpc' = "path"
  /\ UNCHANGED <<clockVars, dirs, sharedVars, ipc, hour_fd, timerfd_ready,
                 collectVars, load1>>

(* While rpc = "path" the sprintf into data_path_hour is under way.          *)
RotatePath ==
  /\ rpc = "path"
  /\ data_path_hour' = hour_datetime
  /\ rpc' = "mkdir"
  /\ UNCHANGED <<clockVars, dirs, hour_timestamp_lock, hour_lock, load5s_fd,
                 partition_insufficient, ipc, hour_datetime, hour_fd,
                 timerfd_ready, collectVars, load1>>

\* Mutant: an error path that forgets hour_lock.
RotateFail_KeepsLock ==
  /\ rpc \in {"mkdir", "load5s", "log"}
  /\ rpc' = "dead"
  /\ UNCHANGED <<clockVars, dirs, sharedVars, ipc, hour_datetime, hour_fd,
                 timerfd_ready, collectVars, load1>>

(* A failed mkdir, open, dup2 or fopen releases hour_lock and ends the thread. *)
RotateFail ==
  /\ rpc \in {"mkdir", "load5s", "log"}
  /\ hour_lock' = 0
  /\ rpc' = "dead"
  /\ UNCHANGED <<clockVars, dirs, data_path_hour, hour_timestamp_lock, load5s_fd,
                 partition_insufficient, ipc, hour_datetime, hour_fd,
                 timerfd_ready, collectVars, load1>>

(* A timer that cannot be set up, or an epoll_wait that fails, ends it too.   *)
RotateDie ==
  /\ rpc \in {"arm", "wait"}
  /\ rpc' = "dead"
  /\ UNCHANGED <<clockVars, dirs, sharedVars, ipc, hour_datetime, hour_fd,
                 timerfd_ready, collectVars, load1>>

RotateMkdir ==
  /\ rpc = "mkdir"
  /\ hour_datetime \notin dirs                 \* else EEXIST: RotateFail
  /\ dirs' = dirs \cup {hour_datetime}
  /\ rpc' = "load5s"
  /\ UNCHANGED <<clockVars, sharedVars, ipc, hour_datetime, hour_fd,
                 timerfd_ready, collectVars, load1>>

\* Mutant: the new load5s file is opened but not put in place of the old one.
RotateLoad5s_NoDup ==
  /\ rpc = "load5s"
  /\ rpc' = "log"
  /\ UNCHANGED <<clockVars, dirs, sharedVars, ipc, hour_datetime, hour_fd,
                 timerfd_ready, collectVars, load1>>

RotateLoad5s ==
  /\ rpc = "load5s"
  /\ load5s_fd' = hour_datetime                \* open, dup2 onto load5s_fd
  /\ rpc' = "log"
  /\ UNCHANGED <<clockVars, dirs, data_path_hour, hour_timestamp_lock, hour_lock,
                 partition_insufficient, ipc, hour_datetime, hour_fd,
                 timerfd_ready, collectVars, load1>>

RotateLog ==
  /\ rpc = "log"
  /\ rpc' = "stamp"
  /\ UNCHANGED <<clockVars, dirs, sharedVars, ipc, hour_datetime, hour_fd,
                 timerfd_ready, collectVars, load1>>

RotateStamp ==
  /\ rpc = "stamp"
  /\ hour_timestamp_lock' = hour
  /\ rpc' = "unlock"
  /\ UNCHANGED <<clockVars, dirs, data_path_hour, hour_lock, load5s_fd,
                 partition_insufficient, ipc, hour_datetime, hour_fd,
                 timerfd_ready, collectVars, load1>>

RotateUnlock ==
  /\ rpc = "unlock"
  /\ hour_lock' = 0
  /\ rpc' = "recycle"
  /\ UNCHANGED <<clockVars, dirs, data_path_hour, hour_timestamp_lock, load5s_fd,
                 partition_insufficient, ipc, hour_datetime, hour_fd,
                 timerfd_ready, collectVars, load1>>

\* Mutant: the listing is walked from the wrong end.
Oldest_Newest(S, k) == {d \in S : Cardinality({e \in S : e > d}) < k}

(* The k oldest of a set of directories (alphasort, then from the front).    *)
Oldest(S, k) == {d \in S : Cardinality({e \in S : e < d}) < k}

Min2(a, b) == IF a < b THEN a ELSE b

\* Mutant: the current directory is counted among those that may go.
RmNum_OffByOne(S) ==
  IF Cardinality(S) < Keep + 1 THEN 0 ELSE Min2(5, Cardinality(S) - Keep + 1)

(* recycle_diskspace_hour: what exceeds duration_threshold, at most 5.       *)
RmNum(S) ==
  IF Cardinality(S) < Keep + 1 THEN 0 ELSE Min2(5, Cardinality(S) - Keep)

(* What remove_directory, whose result is ignored, takes of a set.           *)
Removals(S) == {R \in SUBSET S : R = S \/ "remove" \in Faults}

RotateRecycle ==
  /\ rpc = "recycle"
  /\ \E R \in Removals(Oldest(dirs, RmNum(dirs))) : dirs' = dirs \ R
  /\ rpc' = "minute"
  /\ UNCHANGED <<clockVars, sharedVars, ipc, hour_datetime, hour_fd,
                 timerfd_ready, collectVars, load1>>

(* recycle_diskspace_usage removes at most 5 and never the last one.          *)
UsageMax(S) == IF Cardinality(S) < 2 THEN 0 ELSE Min2(5, Cardinality(S) - 1)

(* It walks the listing from the oldest and asks check_partition_usage again *)
(* at every entry: what goes is a run of the oldest when the answer changes  *)
(* only once, and any few entries when the partition flaps.                  *)
UsageRemoval ==
  \/ \E k \in 0 .. UsageMax(dirs) :
       \E R \in Removals(Oldest(dirs, k)) : dirs' = dirs \ R
  \/ /\ "flap" \in Faults
     /\ \E R \in SUBSET dirs : Cardinality(R) <= UsageMax(dirs) /\ dirs' = dirs \ R

(* if(timerfd_ready): check_partition_usage, and recycling while it says so. *)
RotateMinute ==
  /\ rpc = "minute"
  /\ \/ /\ timerfd_ready
        /\ partition_insufficient' \in BOOLEAN
        /\ UsageRemoval
     \/ /\ ~timerfd_ready
        /\ UNCHANGED <<partition_insufficient, dirs>>
  /\ rpc' = "wait"
  /\ UNCHANGED <<clockVars, data_path_hour, hour_timestamp_lock, hour_lock, load5s_fd,
                 ipc, hour_datetime, hour_fd, timerfd_ready, collectVars, load1>>

Rotate ==
  \/ RotateArm \/ RotateWake \/ RotateLock \/ RotateName \/ RotatePath \/ RotateMkdir
  \/ RotateLoad5s \/ RotateLog \/ RotateStamp \/ RotateUnlock \/ RotateFail
  \/ RotateDie
  \/ RotateRecycle \/ RotateMinute

-----------------------------------------------------------------------------
(* The collectors.                                                           *)
colFrame == <<clockVars, dirs, sharedVars, ipc, rotateVars, load1>>

MinuteTimer(c) ==
  /\ ipc = "up" /\ c \in Timed /\ ~ready[c]
  /\ ready' = [ready EXCEPT ![c] = TRUE]
  /\ UNCHANGED <<colFrame, col>>

(* epoll_wait returns and the event is consumed; a full partition skips it.  *)
Wake(c) ==
  /\ ipc = "up" /\ col[c].pc = "idle" /\ ready[c]
  /\ ready' = [ready EXCEPT ![c] = FALSE]
  /\ IF partition_insufficient THEN UNCHANGED col
     ELSE col' = [col EXCEPT ![c] = [Idle EXCEPT !.pc = "gate"]]
  /\ UNCHANGED colFrame

(* hour_timestamp_lock is the current hour: the collection begins.           *)
GatePass(c) ==
  /\ col[c].pc = "gate"
  /\ hour_timestamp_lock = hour
  /\ col' = [col EXCEPT ![c] = [Idle EXCEPT !.pc = "stamp", !.left = Files(c), !.gate = hour]]
  /\ UNCHANGED <<colFrame, ready>>

\* Mutant: the wait for hour_timestamp_lock counts but never gives up.
GateWait_Forever(c) ==
  /\ col[c].pc = "gate"
  /\ hour_timestamp_lock # hour
  /\ col' = [col EXCEPT ![c].lock_i = @ + 1]
  /\ UNCHANGED <<colFrame, ready>>

(* It is not: wait 1 ms and look again, or give up ("hour lock break").      *)
GateWait(c) ==
  /\ col[c].pc = "gate"
  /\ hour_timestamp_lock # hour
  /\ IF col[c].lock_i + 1 > PollMax
     THEN col' = [col EXCEPT ![c] = Idle]
     ELSE col' = [col EXCEPT ![c].lock_i = @ + 1]
  /\ UNCHANGED <<colFrame, ready>>

(* get_current_datetime.                                                     *)
Stamp(c) ==
  /\ col[c].pc = "stamp"
  /\ col' = [col EXCEPT ![c].pc = "compose", ![c].stamp = Now]
  /\ UNCHANGED <<colFrame, ready>>

(* What a thread may read from data_path_hour: rotate_thread's sprintf is a  *)
(* data race with the reader's, so during it a mixture can come out too.     *)
ReadPath ==
  IF rpc = "path" THEN {data_path_hour, hour_datetime, Torn} ELSE {data_path_hour}

Compose(c) ==
  /\ col[c].pc = "compose"
  /\ \E p \in ReadPath :
       col' = [col EXCEPT ![c].pc = "open", ![c].target = p]
  /\ UNCHANGED <<colFrame, ready>>

(* The collection ends; sresar_thread then writes eventfd_cmdinfo.           *)
Finish(c) ==
  /\ col' = [col EXCEPT ![c] = Idle]
  /\ ready' = [r \in Collectors |-> ready[r] \/ (c = "sresar" /\ r = "cmdinfo")]

(* The next file of the run: loadrd's second file has the stamp of the first. *)
NextFile(c) ==
  IF col[c].left = 1 THEN Finish(c)
  ELSE /\ col' = [col EXCEPT ![c].pc = IF c = "loadrd" THEN "compose" ELSE "stamp",
                             ![c].left = @ - 1]
       /\ UNCHANGED ready

OpenOk(c) ==
  /\ col[c].pc = "open"
  /\ col[c].target \in dirs
  /\ NextFile(c)
  /\ UNCHANGED colFrame

\* Mutant: the retries of a failed open are not counted.
OpenMissing_Forever(c) ==
  /\ col[c].pc = "open"
  /\ col[c].target \notin dirs
  /\ IF c = "loadrd" THEN NextFile(c)
     ELSE /\ col' = [col EXCEPT ![c].pc = "stamp", ![c].left = Files(c)]
          /\ UNCHANGED ready
  /\ UNCHANGED colFrame

(* ENOENT: the collection starts again from its first file, up to RetryMax   *)
(* times.  loadrd has no retry: it goes on with its next file.               *)
OpenMissing(c) ==
  /\ col[c].pc = "open"
  /\ col[c].target \notin dirs
  /\ IF c = "loadrd" THEN NextFile(c)
     ELSE IF col[c].lock_i + 1 > RetryMax THEN Finish(c)
     ELSE /\ col' = [col EXCEPT ![c].pc = "stamp", ![c].left = Files(c),
                                ![c].lock_i = @ + 1]
          /\ UNCHANGED ready
  /\ UNCHANGED colFrame

(* Any other error ends the collection, or for loadrd the file.              *)
OpenError(c) ==
  /\ col[c].pc = "open"
  /\ IF c = "loadrd" THEN NextFile(c) ELSE Finish(c)
  /\ UNCHANGED colFrame

Collect(c) ==
  \/ Wake(c) \/ GatePass(c) \/ GateWait(c) \/ Stamp(c) \/ Compose(c)
  \/ OpenOk(c) \/ OpenMissing(c) \/ OpenError(c)

-----------------------------------------------------------------------------
(* load1_thread, on a load value that differs from the last one.  While      *)
(* hour_lock is set it comes back 0.1 s later.  `gate' and `lock' are        *)
(* history: the clock and hour_timestamp_lock when it went past hour_lock.   *)
load1Frame == <<clockVars, dirs, sharedVars, ipc, rotateVars, col>>

Load1Gate ==
  /\ ipc = "up" /\ "loadrd" \in Collectors
  /\ load1.pc = "idle" /\ hour_lock = 0
  /\ load1' = [Load1Idle EXCEPT !.pc = "stamp", !.gate = hour, !.lock = hour_timestamp_lock]
  /\ UNCHANGED <<load1Frame, ready>>

Load1Stamp ==
  /\ load1.pc = "stamp"
  /\ load1' = [load1 EXCEPT !.pc = "write", !.stamp = Now]
  /\ UNCHANGED <<load1Frame, ready>>

(* The record goes to load5s_fd, and a zoom wakes loadrd_thread.             *)
Load1Write ==
  /\ load1.pc = "write"
  /\ load1' = Load1Idle
  /\ \E zoom \in BOOLEAN :
       ready' = [r \in Collectors |-> ready[r] \/ (zoom /\ r = "loadrd")]
  /\ UNCHANGED load1Frame

Load1 == Load1Gate \/ Load1Stamp \/ Load1Write

-----------------------------------------------------------------------------
Next ==
  \/ Tick
  \/ StartName \/ StartPath \/ StartStamp \/ StartLoad5s \/ CreateThreads \/ Exit
  \/ Rotate
  \/ \E c \in Collectors : MinuteTimer(c) \/ Collect(c)
  \/ Load1

Spec == Init /\ [][Next]_vars

(* The scheduler runs every thread that can take a step.                     *)
Fairness ==
  /\ WF_vars(Rotate)
  /\ \A c \in Collectors : WF_vars(Collect(c))

FairSpec == Spec /\ Fairness

-----------------------------------------------------------------------------
(* Properties.                                                               *)

(* A file whose lock check and open fall in one epoch hour is written into   *)
(* the directory of the hour in its name: what SreProc::MakeDataHourPath of  *)
(* the reader relies on, and why rotate_thread stores hour_timestamp_lock    *)
(* after data_path_hour.                                                     *)
FiledByHour ==
  \A c \in Collectors :
    col[c].pc = "open" /\ col[c].gate = hour => col[c].target = col[c].stamp

(* Nor can such an open find its directory missing: rotate_thread makes it   *)
(* before it releases the collectors, and neither recycling removes it.      *)
DirectoryThere ==
  \A c \in Collectors :
    col[c].pc = "open" /\ col[c].gate = hour => col[c].target \in dirs

(* While rotate_thread waits and its hour timer has not expired, everything  *)
(* the other threads share agrees with the clock: no hour is lost.           *)
RotatedWhenIdle ==
  rpc = "wait" /\ hour < hour_fd =>
    /\ hour_timestamp_lock = hour
    /\ data_path_hour = Now /\ Now \in dirs
    /\ load5s_fd = Now

(* Old data goes first: no step removes a directory and keeps an older one.  *)
OldestFirst == [][\A d \in dirs \ dirs', e \in dirs' : d < e]_vars

(* rotate_thread never meets its directory already made (EEXIST would end    *)
(* the daemon), also after a restart in the same hour.                       *)
RotationFindsNewHour == rpc = "mkdir" => hour_datetime \notin dirs

(* A load5s record whose hour_lock check came after this hour's rotation is  *)
(* written to the file of the hour it is stamped with.                       *)
Load5sFiledByHour ==
  load1.pc = "write" /\ load1.gate = hour /\ load1.lock = hour
    => load5s_fd = load1.stamp

(* hour_lock is held only inside the rotation: no error path leaves          *)
(* load1_thread locked out.                                                  *)
HourLockReleased == hour_lock = 1 => rpc \in RotatePcs

(* Every collection a thread begins ends: both polling loops are bounded.    *)
CollectionEnds ==
  \A c \in Collectors : col[c].pc # "idle" ~> col[c].pc = "idle"

(* A running daemon that is behind the clock catches up, unless it dies.     *)
RotationCatchesUp ==
  (ipc = "up" /\ hour_timestamp_lock # hour)
    ~> (hour_timestamp_lock = hour \/ rpc = "dead" \/ ipc # "up")

-----------------------------------------------------------------------------
(* The inductive invariant behind the properties, for a zone whose offset is *)
(* a whole number of hours and for code that no hour boundary interrupts.    *)
DirOf(h) == LocalHour(h, FALSE)

WholeHours ==
  /\ \A h \in 0 .. MaxHour : LocalHour(h, TRUE) = DirOf(h)
  /\ \A g, h \in 0 .. MaxHour : g < h => DirOf(g) < DirOf(h)

(* data_path_hour and load5s_fd are those of hour h, and the last directory. *)
Settled(h) ==
  /\ data_path_hour = DirOf(h) /\ load5s_fd = DirOf(h)
  /\ DirOf(h) \in dirs /\ \A d \in dirs : d <= DirOf(h)

StartInv ==
  /\ rpc = "none" <=> ipc # "up"
  /\ ipc # "up" => /\ \A c \in Collectors : col[c].pc = "idle"
                   /\ load1.pc = "idle" /\ hour_lock = 0
  /\ \A d \in dirs : d <= DirOf(hour)
  /\ ipc \in InitPcs => hour_datetime = DirOf(hour)
  /\ ipc \in {"stamp", "load5s", "create"} =>
       data_path_hour = DirOf(hour) /\ DirOf(hour) \in dirs
  /\ ipc \in {"load5s", "create"} => hour_timestamp_lock = hour
  /\ ipc = "create" => load5s_fd = DirOf(hour)

RotateInv ==
  /\ rpc = "arm" => hour_timestamp_lock = hour /\ Settled(hour)
  /\ rpc \in {"wait", "recycle", "minute"} =>
       /\ hour_timestamp_lock <= hour /\ hour_fd = hour_timestamp_lock + 1
       /\ Settled(hour_timestamp_lock)
  /\ rpc \in RotatePcs => hour_fd = hour + 1
  /\ rpc \in RotatePcs \ {"unlock"} => hour_timestamp_lock < hour
  /\ rpc \in {"lock", "name", "path"} => Settled(hour_timestamp_lock)
  /\ rpc \in {"path", "mkdir", "load5s", "log", "stamp"} => hour_datetime = DirOf(hour)
  /\ rpc \in {"mkdir", "load5s", "log", "stamp"} => data_path_hour = DirOf(hour)
  /\ rpc = "mkdir" => \A d \in dirs : d < DirOf(hour)
  /\ rpc \in {"load5s", "log", "stamp"} => DirOf(hour) \in dirs
  /\ rpc \in {"log", "stamp"} => load5s_fd = DirOf(hour)
  /\ rpc = "unlock" => hour_timestamp_lock = hour /\ Settled(hour)
  /\ rpc = "dead" => /\ hour_timestamp_lock <= hour
                     /\ hour_timestamp_lock = hour => Settled(hour)
  /\ hour_lock = 1 => rpc \in RotatePcs

(* A collection under way has a file left to write.                          *)
LeftInv ==
  \A c \in Collectors : col[c].pc \in {"stamp", "compose", "open"} => col[c].left > 0

CollectInv ==
  \A c \in Collectors : col[c].pc \in {"stamp", "compose", "open"} =>
    /\ col[c].gate <= hour
    /\ col[c].gate = hour =>
         /\ hour_timestamp_lock = hour
         /\ col[c].pc \in {"compose", "open"} => col[c].stamp = DirOf(hour)
         /\ col[c].pc = "open" => col[c].target = DirOf(hour)

Load1Inv ==
  load1.pc \in {"stamp", "write"} =>
    /\ load1.gate <= hour
    /\ load1.gate = hour /\ load1.lock = hour =>
         /\ hour_timestamp_lock = hour
         /\ load1.pc = "write" => load1.stamp = DirOf(hour)

IInv == TypeOK /\ LeftInv /\ StartInv /\ RotateInv /\ CollectInv /\ Load1Inv
=============================================================================
