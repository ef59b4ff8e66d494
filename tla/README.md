# TLA+ verification of ssar

ssar (Site Reliability Engineering System Activity Reporter) is two programs.
`sresar` is a daemon that samples a machine: every minute it copies kernel
counters and the process table into files, and ten times a second it looks at
the load average. `ssar`, with the scripts `tsar2.py` and `ssar+.py` around it,
answers queries from those files. The two never talk to each other: all they
share is a directory tree.

    <work_path>/sre_proc/data/2020093021/                            one directory per hour
    <work_path>/sre_proc/data/2020093021/20200930215700_sresar24.gz  one file per minute and kind
    <work_path>/sre_proc/data/2020093021/2020093021_load5s           one load file per hour
    <work_path>/sre_proc/data/2020093021/20200930215919_loadrd       load details, on demand

This project models the parts where the order of events matters, model-checks
them with TLC on small instances, and proves the safety properties for all
values of the constants with TLAPS. Definitions keep the names of the C and C++
source; `PROJECT.json` maps each of them to its lines.

## 1. The system's parts

| part | state | operations | interacts with | what is hard | correct means |
|---|---|---|---|---|---|
| start-up, `init_env`, `main` | `seq_options` | make the directories, take the pid lock, fill the hour fields, create threads | every thread, by `seq_options` | several readings of the clock; failures between them | the threads start from one consistent hour |
| `rotate_thread` | `data_path_hour`, `hour_timestamp_lock`, `hour_lock`, `load5s_fd`, its timers | once an hour: new directory, new load5s and log files, recycling; once a minute: partition check | the collectors poll what it writes | plain shared memory, a publication order, error paths | no file is misfiled, no hour skipped, no lock left set |
| collectors `snapsys_thread`, `sresar_thread`, `cmdinfo_thread`, `loadrd_thread` | polls and retries, the path being composed | wait for the hour, then write the run's files | rotate_thread; sresar wakes cmdinfo, load1 wakes loadrd | they check once and use many times | files lie where the reader looks for them |
| `load1_thread` | ring of 16 samples, `load5s_fd` | append a record, decide whether to zoom | rotate_thread by `hour_lock`, loadrd by `eventfd_load1` | looks at a different lock | records lie in their hour; a zoom leads to a detail file |
| recycling | the directories | `recycle_diskspace_hour`, `recycle_diskspace_usage`, `check_partition_usage` | rotate_thread runs it | asks the file system again and again | old data goes first, the current directory never |
| shutdown | signalfd, `eventfd_thread` | signal, dead thread or alarm: tell all threads, join them | all threads | six threads and one semaphore | the process ends, and so is restarted |
| single instance | `/run/lock/os_health/sresar.pid`, `sresar.disable` | `flock`, `healing.sh` from cron, `sresard`, systemd | several processes | check then act | at most one daemon; one comes back |
| file lookup of the reader, `SreProc` | cached listings | find the data file for a time, walking by minutes | the data directory, while the daemon changes it | stale caches, hour boundaries | the nearest file that exists is found |
| reports: `ReportProc(s)`, `ReportSys`, `ReportLoad5s`, `ReportLoad2p` | lists in memory | pair snapshots, subtract counters, sort, cut | file lookup | restarts, reused pids, missing samples | differences only between comparable samples |
| configuration, options, output | - | parsing and layout | - | - | - |
| `tsar2.py`, `ssar+.py` | - | run ssar, reformat | ssar | - | - |

The threads share one `seq_options` without a mutex. `hour_lock`,
`hour_timestamp_lock` and `partition_insufficient` are `volatile int`;
`data_path_hour` is a plain character array. Events travel by `eventfd`s created
with `EFD_SEMAPHORE` and watched with edge-triggered `epoll`.

## 2. The plan

In this order, the most important behaviour first.

| module | models | status |
|---|---|---|
| `HourRotation` | init_env, rotate_thread, the collectors, load1_thread and recycling around the hourly directory | done, checked and proved |
| `Shutdown` | main's signal loop, eventfd_thread, dying threads, cancellation, joins; implements `StopProtocol`: stop, all told, all gone, released | done, checked and proved |
| `PidLock` | pid file, flock, healing.sh, systemd and sresard; implements `SingleInstance`, a mutual exclusion | done, checked and proved |
| `LoadZoom` | the load5s formula, the ring of samples, the zoom decision, eventfd_load1 and loadrd_thread | done, checked and proved |
| `DataFiles` | SreProc's cached listings and the search by minutes, beside a daemon that writes and recycles; implements `FileLookup`, a search without caches | done, checked and proved |
| `SysReport` | ReportSys: slots, missing files, restarts, differences, cells (over `Samples`) | done, checked and proved |
| `ProcReport` | ReportProc: the walk back through the life of a process, rows and marks (over `Samples`) | done, checked and proved |
| `LoadReport` | ReportLoad5s: the hour loop, the merged list, beside a daemon that appends and recycles | done, checked and proved |

`HourRotation` and `LoadZoom` say where the files are, `DataFiles` how a file is
found for a minute; the reports begin where a lookup has been answered and take
its answers as their input. `MCReader` puts the four reader modules together: one
run of ssar makes one report.

Theorems: for the concurrent modules type correctness and each safety invariant
by an inductive invariant, and the refinements; for the reports the same, over the
steps of their loops, with lemmas about the operators (the times of the slots, sorting and
merging, the least and the greatest of a set).

Each component has its module, an `MC` module where a configuration needs more
than plain values, and a `Proofs` module.

## 3. HourRotation

### State and actions

`data_path_hour`, `load5s_fd` and the entries of `dirs` are represented by the
local hour they name. The clock is an epoch hour (`hour`) and the half of it
(`late`); `LocalHour(hour, late)`, a constant operator, is the local hour.
The code needs both: `get_current_hour_timestamp` truncates `tv_sec` and is
compared with `hour_timestamp_lock`, while `get_current_hour_datetime` and
`get_current_datetime` format local time. A whole-hour zone (`WholeHourZone`)
and one with half an hour (`HalfHourZone`) are in `MCHourRotation`.

| actions | code |
|---|---|
| `StartName` .. `StartLoad5s`, `CreateThreads` | `init_env` from its first reading of the clock on; thread creation |
| `Exit` | anything that ends the process: `exit(1)` in init_env, a stop signal, the restart alarm, a dead thread, a kill. The disk survives |
| `RotateArm`, `RotateWake` | arming the hour timer; `epoll_wait` with the hour timer, the minute timer or both |
| `RotateLock` .. `RotateUnlock` | the rotation, one action per access to what other threads see |
| `RotateFail`, `RotateDie` | the error exits inside and outside the rotation |
| `RotateRecycle`, `RotateMinute` | recycle_diskspace_hour; check_partition_usage and recycle_diskspace_usage |
| `MinuteTimer`, `Wake`, `GatePass`, `GateWait` | a collector's wake-up and its wait for `hour_timestamp_lock` |
| `Stamp`, `Compose`, `OpenOk`, `OpenMissing`, `OpenError` | one file of a collection: the stamp, reading the path, opening; retry on ENOENT |
| `Load1Gate`, `Load1Stamp`, `Load1Write` | a load5s record and the zoom that wakes loadrd_thread |

Choices that matter:

* `GatePass` compares `hour_timestamp_lock` with the clock in one step. The code
  reads the variable and calls `clock_gettime`, in an order the compiler chooses.
  A rotation writes the variable once per hour, to the clock of that moment;
  a result "equal" from two moments is also the result at one of them unless the
  thread stops for the hour between.
* While `rpc = "path"` the `sprintf` into `data_path_hour` is under way, and a
  reader may get the old path, the new one or a mixture (`Torn`), since the
  program has a data race there.
* `timerfd_ready` of rotate_thread is never initialised, so `RotateArm` chooses
  its value, and it is never reset.
* `gate`, `lock` in the collectors' and load1's state are history variables for
  the properties; the code has no such variable.
* Timers fire at any clock value: the minute timer's offset, the scheduler and
  the load are all nondeterministic.
* The clock stays within an hour while one of three short sections runs,
  unless the section is named in `Straddle`: init_env ("init"), the time from
  thread creation to the armed timer ("arm"), the rotation ("rotate"). A program
  without a lock cannot exclude such a crossing. With "init" a whole hour is
  misfiled, and `FiledByHour` fails; with "arm" an hour passes without rotation and without
  collection, and `RotatedWhenIdle` fails. Collectors may be interrupted anywhere.
* `Faults` switches on `remove_directory` failing ("remove"), and free space
  coming and going between two checks of one pass ("flap"). With "flap",
  recycle_diskspace_usage, which asks the partition again at each entry, may skip
  an old directory and take a younger one, and `OldestFirst` fails.

### Properties

* `FiledByHour` - a file whose check and open fall in one epoch hour goes to the
  directory of its stamp. It says nothing of a collection that began before the
  hour changed, by its check or in a retry after it: there the code itself may put
  a file stamped 22:00:00 into the directory of 21, or compose a torn path, and the
  reader does not find it.
* `DirectoryThere` - and that directory exists.
* `RotatedWhenIdle` - rotate_thread asleep with an unexpired hour timer means
  that path, stamp, load5s_fd and disk agree with the clock.
* `RotationFindsNewHour` - the rotation's `mkdir` never finds its directory.
  `LocalHour` must grow for this: in the hour that daylight saving time repeats
  the code does fail with EEXIST, and the daemon ends and starts again.
* `OldestFirst` - no step removes a directory and keeps an older one.
* `Load5sFiledByHour`, `HourLockReleased` - the same questions for load1_thread. A
  record written in the new hour before rotate_thread has woken, or one whose look at
  hour_lock was in the hour before, goes to the file of the old hour; the
  property is about the records made after the rotation.
* `CollectionEnds`, `RotationCatchesUp` - liveness.

### Runs

| run | instance | shows |
|---|---|---|
| `HourRotation_proc` | sresar and cmdinfo, three hours, one kept, restarts | all safety properties but load1's; the chain of two collectors |
| `HourRotation_load` | loadrd and load1, three hours, failing removals | load5s records and hour_lock |
| `HourRotation_live` | snapsys, three hours, all faults, fair threads | liveness |
| `HourRotation_halfzone` | as above | the finding of section 9 |

Bounds. Two files are enough for a rotation between two files of one run.
`PollMax = RetryMax = 1` stands for 1000 and 100: it leaves "at once", "after a
wait" and "given up", and the theorems hold for any value. Three hours let a
collection of one hour meet the rotation of the next and the recycling of the one
after; with `Keep = 1` recycling removes something from the second rotation on.
The clock stops at `MaxHour`.

Fairness. `Rotate` and every collector's steps are weakly fair: each is a thread
of a running process, and a thread that can run is eventually run. Weak fairness
of `Rotate` as a whole forces none of its failures. The clock, the timers, load1
and `Exit` are not fair: nothing is claimed about how often they happen.

### What is proved

`HourRotationProofs` proves, for any number of hours, files, polls, retries and
kept directories and any subset of the collectors:

* `TypeCorrect` and `HourLockReleasedCorrect` with no assumption beyond those on
  the constants: every zone, straddle and fault is included. The strengthening
  for types is `LeftInv`: a collection under way has a file left to write.
* `OldestFirstCorrect` when `Faults = {}`.
* `FiledByHourCorrect`, `DirectoryThereCorrect`, `RotatedWhenIdleCorrect`,
  `RotationFindsNewHourCorrect` and `Load5sFiledByHourCorrect` under `Calm`: the
  local hour is a growing function of the epoch hour alone, nothing is straddled,
  and the partition does not flap. Removals may fail.

The argument under `Calm` is the inductive invariant `IInv`. `StartInv` and
`RotateInv` say for each control point which of path, stamp, load5s_fd and
directory already belong to the new hour; `hour_timestamp_lock = hour` is
possible only where all do (`LockMeansSettled`). `CollectInv` and `Load1Inv` say
that a check made in the present hour still holds: the variable is not written
again until the clock has moved on, and then the check is void. Recycling is
harmless because `Oldest(S, k)` with `k` below the size of `S` spares the newest
entry (`OldestSparesNewest`), and the settled directory is the newest.

Only model-checked: the two liveness properties.

## 4. Shutdown

Six threads, `main`, and two channels: signals to main through a signalfd, and
`eventfd_thread`, an `EFD_SEMAPHORE` eventfd that every thread watches with
edge-triggered epoll and none reads.

| actions | code |
|---|---|
| `CreateGivesUp`, `CreateThread`, `CreateDone` | main's thread creation, in `CreateOrder`; a failing pthread_create is passed over |
| `ReadSignal`, `WriteEvent`, `Join`, `JoinDone`, `Release` | main's signal loop; the write to eventfd_thread or, if it fails, the cancellation of all threads; the joins in `JoinOrder`; closing and returning |
| `Signal`, `Alarm` | signals from outside, the restart alarm |
| `Setup`, `SetupFails`, `SetupCancelled` | a thread up to its loop, registering eventfd_thread; the error exits before it |
| `Top`, `Stop`, `Awake`, `Timeout`, `Worked`, `Fails` | a round of the loop: testcancel, epoll_wait with its outcomes, the work |
| `Ends` | the release labels: SIGUSR1 to main |
| `ExitsProcess` | `exit(1)` in a thread that cannot read /proc or allocate |

A round's work is one step: what happens in it is the subject of the other
modules. A thread that could not be created is one whose id stays 0: that is an
assumption about the C library, since POSIX leaves the id undefined when
pthread_create fails, and the code, which cancels and joins by the id, relies on it.
With another value main would join what is no thread, and nothing is claimed of that.
A kill that cannot be caught ends everything at once and is left out.

* `NobodyMissesStop` - one write reaches all six: whoever watches has the event
  still to come, wherever it was.
* `ReleasedAlone` - descriptors and lock are given up only when no thread runs.
* `DeathNoticed` - an ended thread has left a signal that main will read.
* `KeepsProtocol`, `KeepsFairProtocol` - the module implements `StopProtocol`,
  which knows no signals, semaphores or order of joins (refinement mapping
  `Phase`, `Life`).
* `StopEnds`, `DeathEnds`, `RestartEnds` - SIGTERM, a dead thread, or the alarm:
  the process ends.

`Shutdown_all` checks them all, with a write that may fail; its threads are those
of `Shutdown_all.cfg`, since the joins and the semaphore treat all threads alike,
and the proofs hold for all six. The process
may end, so deadlock is not an error here. Fairness: main's steps, each signal's
delivery and each thread's steps are weakly fair. A thread in epoll_wait comes
back after `EPL_TOUT` at the latest, which is what makes cancellation work. The
alarm is not fair (`duration_restart` may be 0); `RestartEnds` takes it as its
hypothesis.

Proved for every set of threads (`ShutdownProofs`): `TypeCorrect`,
`NobodyMissesStopCorrect`, `ReleasedAloneCorrect`, `DeathNoticedCorrect` and
`KeepsProtocolCorrect`. The strengthenings say: nothing has been written, counted
or cancelled before main leaves its loop (`BeforeInv`), the semaphore's count is
1 from the write on (`CountInv`), main has not passed the place of a thread it is
still to create (`CreateInv`), and the threads before main's place in `JoinOrder`
are joined or were never there (`JoinInv`). The liveness properties and the fair
refinement are model-checked only.

## 5. PidLock

Every `sresar -D` takes an exclusive `flock` on `sresar.pid` without waiting or
exits with 200. Cron runs `healing.sh`, which takes the same lock to see whether
a daemon runs, drops it and starts one. `sresard` and systemd start and stop
daemons too; `/etc/ssar/sresar.disable` keeps both away.

| actions | code |
|---|---|
| `ReadConf`, `TryLock`, `Truncate`, `WritePid`, `EndsItself`, `Unlock`, `Return`, `Dies` | a daemon from main's first lines to its return |
| `HealLook`, `HealTest`, `HealUnlock`, `HealStart` | healing.sh: the look at the mark, the attempt at the lock, its release, the start |
| `UnitStart`, `UnitSkipped`, `RestartStop`, `RestartStart` | sresar.service: `Restart=always`, the condition, systemctl restart |
| `StopFind` .. `StopFails`, `ScriptStart`, `ScriptRm` | sresard stop and start with killproc |
| `EditConf`, `Mark` | the administrator |

Two assumptions are built in. A run of healing.sh, and the first milliseconds of
the daemon it starts, are over before the next run a minute later. And a pid is not
reused while sresard waits for its process.

* `PidFileNamesHolder` - a collecting daemon has the lock and its pid is in the file.
* `OneCollects` - the module implements `SingleInstance`.
* `ComesBack` - a daemon comes back although the test of healing.sh can turn one
  away, and stops and starts race; `StaysDown` - with a lasting mark none does.
* `RestartTakesEffect` - does not hold, see section 9.

`PidLock_safe` and `PidLock_live` have three processes (one that collects, one
that tries, one that is being started) and both managers; `PidLock_safe` adds an
edited configuration, a death at any point, and symmetry of the processes.
Fairness in `PidLock_live`: processes, cron and systemd go on, a command once
given is carried out, a daemon's restart alarm goes off.

Proved for any number of processes, edits and deaths and any managers
(`PidLockProofs`): `TypeCorrect`, `PidFileNamesHolderCorrect`,
`OneCollectsCorrect`, from `LockInv`: exactly the process between its flock and
its unlock is the holder. Liveness is model-checked only.

## 6. LoadZoom

| actions | code |
|---|---|
| `Poll` | the comparison with the node before, hour_lock, `load5s`, `load5s_state`, `zoom_state`, the next node |
| `WriteRecord`, `Notify` | the stamped record; the write to eventfd_load1 |
| `Woken`, `ReadEvent` | epoll_wait, the read, the look at partition_insufficient |
| `Begin`, `GiveUp`, `End` | the wait for the hour; the file named by the present second; the listing |
| `Tick`, `Turn`, `CheckPartition` | the clock with the kernel's load update; the hour; the partition check |

Loads are numbers. `CalcLoad` and `Shown` are the Linux functions behind
/proc/loadavg and are external; `Load5s` is the expression of load1_thread,
multiplied out for loads in hundredths. The code computes it in floating point;
the model is exact, which is the same as long as loads stay below some ten
thousands. Older kernels add 1024
where `CalcLoad` has 2047 or 0; the bounds the proof uses (`CalcLoadBounds`) hold for
them too.
Of a new node only `load1` is initialised: `Garbage` and `GarbageZooms` are what
the other fields may hold. `Surge` compares by twentieths in integers what the code
compares as `double` with 1.05: the two may part where a load is exactly 1.05 times the
one before; no property depends on which side such a load falls. `Turn` stores
`hour_timestamp_lock` and clears `hour_lock` in one step (two statements in rotate_thread,
and HourRotation has both): between them loadrd_thread could already begin while load1_thread still
skips its poll, which is what it does before the two. `unseen`, `active`, `truth`, `past`, `lacking` and
`owed` are history for the properties.

* `Load5sIsActive` - README_zh-cn.md calls load5s the kernel's active value: with
  one update behind a 5s record it is exactly the number of active threads. A
  record with two updates behind it (a poll skipped for hour_lock, a late thread)
  is not covered; the code does not notice those.
* `SustainedZoom`, `ZoomsSpaced` - under lasting load every `Level` records have
  a zoom, from the first on, and without a surge no two.
* `ZoomPending`, `ZoomAnswered` - no zoom is forgotten when several share an edge.
* `ZoomHasDetail` - does not hold, see section 9.

`LoadZoom_safe` has a ring of three with `Level = 3` (16 and 10 in the code): five
records use every node again, and zooms can be suppressed, due and repeated. The
clock stops at `MaxSec`, so deadlock is not an error. Fairness is that of
loadrd_thread. `LoadZoom_detail` has the kernel's period of five seconds and
`Prompt`: nothing but the listing of the threads takes longer than a second.

Proved for every ring, level, baseline, load and garbage (`LoadZoomProofs`):
`Load5sExact`, the arithmetic fact that the formula gives the number of threads
back from two loads rounded to hundredths (the error stays below a fifth of a
thread); `Load5sIsActiveCorrect` from it, with `LoadInv` (the node before shows the
kernel's load of the last poll); `SustainedZoomCorrect` and `ZoomsSpacedCorrect`
from `RingInv` (the nodes behind `cur` hold the zooms of the last records);
`ZoomPendingCorrect` from `EventInv` (the count covers the queued edge and the one
being read); `TypeCorrect`. `ZoomAnswered` is model-checked only.

## 7. The reader

`ssar` runs while the daemon goes on writing and recycling. It makes one report
and ends.

One assumption joins the reader's models to the daemon's. `DataFiles` has every file in
the directory of the hour of its stamp, and `LoadReport` every record in the file of its
own hour. HourRotation does not guarantee that around a rotation: a collection that
began before the hour changed may leave a file stamped on the hour in the directory of
the hour before, and a load5s record written before rotate_thread has woken is still
in the file of the hour before (load1_thread writes to `load5s_fd`, sresar.c:1704).
SreProc does not look there, and ReportLoad5s only if its range begins in that
hour or earlier. What is said below of the reader is said of data that are filed by
hour, which `FiledByHour` and `Load5sFiledByHour` establish for everything begun after
the hour's rotation.

### DataFiles

Every report asks an object of class `SreProc` for the file of a minute, again and
again. The object remembers each name it has ever listed and lists a directory
only when a name is not known.

| actions | code |
|---|---|
| `Tick`, `Rotate`, `Collect`, `RecycleFile`, `RecycleDir` | the daemon meanwhile: minutes pass, directories and files come, the oldest go |
| `Start` | what InitOptions lets through, and the first question of a report |
| `GetDataDir`, `GetDataFile`, `ListDirs`, `ListFiles` | the functions of SreProc; a listing is two steps, opendir and the end of readdir, and what comes or goes in between is listed or not |
| `Adjust` | MakeDataHourPath's second try, a minute earlier |
| `ReportProc`, `ReportSys`, `FinishFound`, `ProcsDone`, `ReportLoad2p` | the sequences of questions of the reports |

* `SearchIsFresh` - the module implements `FileLookup`, in which there are no
  names, caches or listings: an answer "no file" is true of some moment of that
  search, or the file was lost during it; a file that is given has existed since the
  report began. It may be gone when the report opens it, which the code takes
  for a missing sample.
* `RangeKept` - ReportProcs permits its object to move the finishing snapshot by a
  minute, then forbids it and moves the other one itself: the two snapshots are as
  many minutes apart as was asked. ReportSys does the same with its walk: the points
  it asks for fill the range.

Proved for every length of hour, clock and set of intervals (`DataFilesProofs`):
`FilesTypeCorrect`, `RangeKeptCorrect` and `SearchIsFreshCorrect`, the refinement
included. `CallInv` relates, for each report, the minute looked for with the one asked
for, with `begin` and with the file of the first search; `FreshInv` says at each control point of a search that either a negative
answer is already excused, or the file is there and the listing under way, or
the names after it, contain it.

### SysReport, ProcReport

Both look for one sample per interval between the begin and the finish of the
report (`Samples`): a slot. A sample carries its own stamp within the minute of the slot
(`Offsets`); ReportSys counts its slots from the stamp of the last one
(`SlotPoint`), so that others may be earlier or later. Intervals are at least a
minute. Whether a slot has a sample, and when it was taken, is the
input, all of it chosen in the initial state; the reports read it in the order in
which the code does.

`SysReport` has the two passes of ReportSys - back over the slots and, in each, over
the files; forward over the rows with the sorted restarts - and the choice between
number, star and dash in `DisplaySysShell` and `DisplaySysJson`. A reading is
represented by the slot it was read in, so that a cell shows where it comes from.

A file that is found but gone when it is opened (recycled in between) is a missing one
here. The code does the same with its readings, but has by then set
`unified_time_point_real` to its stamp, which gives it one more chance to give the
report up (`NotUnified`); what is shown is not affected.

* `OwnReading` - a cell shows the reading of its row, a difference that of
  its row and the one before; 0 stands only for a file that is missing from the first row
  after a gap (`StartsAgain`). It fails for the type float, see section 9.
* `StarMeansRestart` - a star is shown exactly where a restart lies between the row
  before and this one, with several restarts in a row or a gap, restarts at the
  second of a sample, and samples that are missing.
* `DashMeansMissing` - without a restart, a dash stands for a reading exactly if
  the file is missing and the row is not the first after a gap, and for a difference
  exactly if the file is missing in one of its two rows.

Proved for any files, any number of slots, any interval, any stamps within it and any
reboots (`SysReportProofs`): `StarsTrue`, `DashesTrue` and `IntegerReadings`, which is
`OwnReading` for the files that are not of the type float or string, whatever the
others are; `OwnReadings` is `OwnReading` itself when there are no others, and
the run `SysReport_float` shows that it takes this hypothesis. The invariant is `SysInv`.
`NotedRows`: the row being read and each row noted say which files of their slot
were there, and their readings are of that slot. `FilledRows`: a row that pass 2
has filled stands in the right relation to the files, to the reboots and to the row
before (`FilledRow`, which is also what is needed of it once it is the row before; that
the rows of type 1004 are exactly those where `StartsAgain` holds follows from two of
them, `StartingRow`).
`RebootsAhead`: `*j_element` is past no reboot that a later row has to know of. The
last is where the two-pointer loop could go wrong: `Advance` stops at the first
reboot after the row before, or at the last of all, and since the times of the rows
grow (`TimesGrow`: a stamp lies within the interval of its slot) no reboot that it leaves
behind matters again (`Advanced`).

`ProcReport` is ReportProc: the walk back (`SampleRead`, `SnapshotMissing`,
`PidAbsent`, `OtherProcess`, `WalkEnds`), the pass forward (`FillProc`,
`FillEnds`) and `Marks`. `Recorded` is what a machine can have written: a process
is in each snapshot from its start to its end, perhaps in one that was being
written as it started (`Lag`), and its id may have belonged to another before.

* `DifferencesOfOneProcess` - a reused id is never subtracted, nor a gap bridged.
* `LifeReported` - the slots from the first sample of the process to the last
  each have one row, in order, although the walk stops near the start.
* `MarksTrue` - of a process that was seen, the rows `<` and `>` stand where the
  snapshots say that it began and ended, and only there.

Proved for any number of slots, any interval, any stamps within it and any starts
(`ProcReportProofs`): `OneProcess`, and with `SnapshotsInTime` `WholeLife` and `TrueMarks`.
`ProcInv` says what lies behind the walk (`OneProcessBehind`: samples of one process,
and no snapshot without it before the last of them), why the walk ended
(`WalkEnded`), and what the lists of rows have (`WalkedRows`, `FilledRows`, and
`AllSlots`: each slot behind the walk is in one of the two, or lies after the end of the process).
The theorems then need that the walk did not end too early: it ends two intervals
before the start of the process (`BeforeStart`), and `LifeBehind` shows that no slot
before that has the process, if each snapshot is complete within two intervals of the
time of its slot (`SnapshotsInTime`; a snapshot that takes no longer than one interval
is). The hypothesis is not decoration: TLC finds `LifeReported` violated when
`Lag` is twice `Step`. The code does not enforce it. A snapshot that takes longer
than the interval of the report, a minute at least, is one the daemon itself is late
for, and a process that starts while it is being written may be reported
without its first sample.

### LoadReport

The walk of ReportLoad5s from the finish back by whole hours (`ReadHour`,
`ReadEnds`), one file of a local hour at a time, while `Load1Write` appends and
`RecycleHour` removes; then `FillLoad5s`.

* `EveryRecordOnce` - the report has each record of its range that was there all
  the time, once, in order, and no other. `InOrderOnce` is the part of it that
  does not depend on the zone.

Proved for any length of the hour, any range and any records, while the daemon appends
and recycles (`LoadReportProofs`): `OrderedOnce` for every zone, and
`EveryRecordShown` with `ZoneShift = 0`; section 9 has what happens otherwise. `LoadInv`:
during the walk the list has the records of just the hours that were read
(`HoursRead`), then what is shown comes before what is to come (`ListsInOrder`), and a
record of the range is in one of the two (`ShownOrToCome`). `Merged` puts every element
of both lists at its place and drops none, so that "once" is a consequence of the walk:
each hour is read once, and all of it lies before the list (`MergedInFront`).
`Ordered`, a file in the order of its times, has every record because as many ranks as
records leave none free (`EveryRank`, the pigeonhole principle).

### Runs

`Reader` checks all of this in one run over `MCReader`, in which `report` says
which of the four models moves. Its bounds:

* DataFiles: two minutes in an hour and three in all, so that a search and its
  adjusted minute lie in one hour or in two, and the daemon enters an hour and
  recycles one during a report; two seconds, so that a minute may have two files.
* SysReport: two files and three slots, a row before, a gap and a row after; restarts
  between rows, at a sample, at the time of a slot, and two of them in one gap.
* ProcReport: five slots and two processes, the second started after the third
  slot: room for a predecessor, a gap, the two intervals before the start, and
  snapshots after the end.
* LoadReport: three hours of two parts, any records, any range.

`SysReport_float` differs in `FloatFiles` only. ssar ends, so deadlock is not an
error in either run.

## 8. What stays with TLC

Liveness and the fair refinement, since TLAPS does not reason about fairness here,
and the four properties that do not hold, which are TLC
counterexamples. All safety properties of the passing runs are proved, under the hypotheses
named with each; the inductive invariants of the reports were first checked by TLC on
instances of the size of `Reader`. Where a property is both checked and proved, the run guards against
a hollow model, and its mutants in `PROJECT.json` show that the property can fail.

## 9. Where code and documentation part

* `HourRotation_halfzone` - in a zone with half an hour in its offset the files
  of half of each hour lie in the directory of the hour before.
* `PidLock_restart` - after healing.sh has started the daemon, systemctl restart
  stops and starts another process, and the collecting one keeps its configuration.
* `LoadZoom_detail` - a listing that outlasts the next zoom: the details of that Z
  record are in a file under a name the reader does not try.
* `SysReport_float` - ReportSys keeps what it has read of the types float and
  string from one file and slot to the next, and a row shows the reading of a
  later slot.

Smaller ones, met while modelling and kept out of the runs by the form of a property or by a
constant:

* README_zh-cn.md:239 has a missing reading shown as "-"; in the first row after a
  slot without any file, a file that is still missing is shown as 0 (or, of the
  type float, as an old reading). `OwnReading` and `DashMeansMissing` allow the 0 in
  that row, `StartsAgain`, and in no other.
* With `ZoneShift = 1`, a zone with half an hour, the walk of ReportLoad5s ends by
  hours of the epoch before it comes to the file of the first local hour, and
  `EveryRecordOnce` fails.
* A process that no snapshot has gets a `>` row if the latest snapshot lacks it and
  all older slots have no file. `MarksTrue` is about processes that were seen.
* ReportSys gives the report up ("file real time is not unified.") if the files of
  one minute carry different seconds (`NotUnified`), although snapsys stamps each file
  with the clock of its own.
* ReportLoad2p keeps its alternative snapshot, the one of the next minute, only if
  reading it failed, and so never uses it.
* In the hour that daylight saving time repeats, the walk of ReportLoad5s meets the
  same file twice. The model's local time only grows.

## 10. What is not modelled

* The bytes of the files: a file is there whole or not at all. sresar writes under
  the final name, so a reader may see half of the present minute's file.
* `MakeRangeIndicators`, `SprocCompare`, the grouping of ReportLoad2p and
  `Load5s::GetActiveCounts`' counting: loops over two maps or one list, with no state
  that outlives them and no order of events.
* `ReportLiveSys` and sresar's live mode read /proc and print; nothing is kept.
* The search by seconds for cmdinfo files uses the code of DataFiles with another
  unit (`SetAdjustUnit(1)`), forwards.
* Configuration, options, formats, layout, the scripts, vendored libraries (nine
  tenths of the source by lines) and packaging; `components` in `PROJECT.json` gives
  the reason for each.
