------------------------------ MODULE LoadZoom ------------------------------
(***************************************************************************)
(* load1_thread and loadrd_thread.  load1_thread looks at the load average *)
(* every tenth of a second.  When it has changed, it works out load5s, the *)
(* number of active threads behind the change, and writes a record; when   *)
(* load5s is high it may mark the record for zooming (Z) and wake          *)
(* loadrd_thread by eventfd_load1, which lists the threads of the moment   *)
(* in a file named by the second it begins in.                             *)
(*                                                                         *)
(* Where the files lie is module HourRotation's subject; here the hour     *)
(* changes at most once, and is a reason to skip a poll or to wait.        *)
(* Loads are counted in hundredths, as /proc/loadavg shows them.           *)
(***************************************************************************)
EXTENDS Integers

CONSTANTS
  RingSize,           \* LIST_SIZE
  Level,              \* the second argument of get_prevnode_state
  Baselines,          \* load5s_type |-> load1m_baseline or load5s_baseline
  Period,             \* seconds between two kernel updates of the load average
  Actives,            \* numbers of active threads a kernel update may find
  FirstLoads,         \* load averages (kernel fixed point) before the first update
  Garbage,            \* what uninitialised nodes may hold in load5s
  GarbageZooms,       \* and which of them hold a zoom_state
  PartitionMayFill,   \* check_partition_usage may raise and lower its flag
  Prompt,             \* only the listing of the threads takes longer than a second
  MaxSec              \* bound: the clock stops here

ASSUME LoadZoomAssumption ==
  /\ RingSize \in Nat /\ Level \in 2 .. RingSize
  /\ Baselines \in [{1, 5} -> Nat]
  /\ Period \in Nat \ {0}
  /\ Actives \subseteq Nat /\ FirstLoads \subseteq Nat /\ Garbage \subseteq Int
  /\ GarbageZooms \subseteq SUBSET (0 .. RingSize - 1)
  /\ PartitionMayFill \in BOOLEAN /\ Prompt \in BOOLEAN
  /\ MaxSec \in Nat

VARIABLES
  sec,           \* the clock
  avenrun,       \* the kernel's load average, in units of 1/2048
  turning,       \* the hour: "before", "due" (changed), "lock" (hour_lock set), "after"
  insufficient,  \* partition_insufficient
  lpc,           \* load1_thread: "poll", "write", "notify"
  ring, cur,     \* its nodes and current_node
  count, edge,   \* eventfd_load1: its count, and whether epoll has it to report
  rpc,           \* loadrd_thread: "wait", "woken", "gate", "scan"
  named,         \* the second that names the latest detail file
  \* history, which no action depends on (but Tick under Prompt)
  unseen,        \* kernel updates since the last poll that used the load average
  active,        \* what the last kernel update found
  truth,         \* of the last record: was one update behind it, and its active threads
  past,          \* the last Level records, the latest first
  lacking,       \* the second of the last Z record if the reader finds no file for it, or -1
  owed           \* a zoom since which loadrd_thread has not passed its checks

ringVars   == <<ring, cur>>
eventVars  == <<count, edge>>
recordVars == <<truth, past>>
vars == <<sec, avenrun, turning, insufficient, lpc, ringVars, eventVars, rpc, named,
          unseen, active, recordVars, lacking, owed>>

-----------------------------------------------------------------------------
(* The arithmetic of load averages.                                        *)

\* Linux, calc_load with EXP_1 = 1884 and FIXED_1 = 2048.
CalcLoad(load, n) ==
  (load * 1884 + n * 2048 * 164 + (IF n * 2048 >= load THEN 2047 ELSE 0)) \div 2048

\* Linux, loadavg_proc_show: FIXED_1/200 is added, two decimals are shown.
Shown(load) == ((load + 10) * 100) \div 2048

\* Mutant: without round, as a plain conversion to int.
Round_Truncates(x, d) == IF x >= 0 THEN x \div d ELSE -((-x) \div d)

\* round(x / d), halves away from zero.
Round(x, d) == IF x >= 0 THEN (2 * x + d) \div (2 * d) ELSE -((d - 2 * x) \div (2 * d))

\* The formula of load1_thread, for loads in hundredths: the fraction
\* (2048 * (2048 * load1 - 10) - 1024 - 1884 * 2048 * prev) / 164 / 2048
\* times 100 and divided through by 2048.
Load5s(load1, prev) == Round(2048 * load1 - 1000 - 50 - 1884 * prev, 100 * 164)

-----------------------------------------------------------------------------
(* The ring of nodes.  Only their load1 is initialised.                    *)

Nodes == 0 .. RingSize - 1

\* The node i steps before node n, for i up to RingSize.
Back(n, i) == IF i <= n THEN n - i ELSE n - i + RingSize

\* Mutant: a list that is not circular.
Following_NoWrap(n) == n + 1

Following(n) == IF n = RingSize - 1 THEN 0 ELSE n + 1

\* Mutant: one node too many is looked at.
PrevZoomed_OneMore(nodes, n) == \E i \in 1 .. Level : nodes[Back(n, i)].zoom_state # 0

\* get_prevnode_state(current_node, Level): a zoom in the Level - 1 nodes before it.
PrevZoomed(nodes, n) == \E i \in 1 .. Level - 1 : nodes[Back(n, i)].zoom_state # 0

PrevNode == ring[Back(cur, 1)]

Type(load1) == IF load1 = 0 \/ PrevNode.load1 = 0 THEN 1 ELSE 5

NewLoad5s(load1) ==
  IF Type(load1) = 1 THEN load1 \div 100 ELSE Load5s(load1, PrevNode.load1)

High(load1) == NewLoad5s(load1) > Baselines[Type(load1)]

\* load1 and load5s have both grown by more than a twentieth.
Surge(load1) ==
  /\ Type(load1) = 5
  /\ 100 * NewLoad5s(load1) > 105 * PrevNode.load5s
  /\ 100 * load1 > 105 * PrevNode.load1

Zoom(load1) == High(load1) /\ (Surge(load1) \/ ~PrevZoomed(ring, cur))

\* Mutant: zoom_state is not reset when a node is used again.
NewNode_NoReset(load1) ==
  [load1 |-> load1, load5s |-> NewLoad5s(load1),
   load5s_state |-> IF High(load1) THEN 2 ELSE 0,
   zoom_state |-> IF Zoom(load1) THEN 3 ELSE ring[cur].zoom_state]

NewNode(load1) ==
  [load1 |-> load1, load5s |-> NewLoad5s(load1),
   load5s_state |-> IF High(load1) THEN 2 ELSE 0,
   zoom_state |-> IF Zoom(load1) THEN 3 ELSE 0]

-----------------------------------------------------------------------------
NodeTypes == [load1 : Nat, load5s : Int, load5s_state : {0, 2}, zoom_state : {0, 3}]

Records == [made : BOOLEAN, high : BOOLEAN, surge : BOOLEAN, zoom : BOOLEAN]
NoRecord == [made |-> FALSE, high |-> FALSE, surge |-> FALSE, zoom |-> FALSE]

TypeOK ==
  /\ sec \in 0 .. MaxSec /\ avenrun \in Nat
  /\ turning \in {"before", "due", "lock", "after"}
  /\ insufficient \in BOOLEAN
  /\ lpc \in {"poll", "write", "notify"}
  /\ ring \in [Nodes -> NodeTypes] /\ cur \in Nodes
  /\ count \in Nat /\ edge \in BOOLEAN
  /\ rpc \in {"wait", "woken", "gate", "scan"}
  /\ named \in -1 .. MaxSec /\ lacking \in -1 .. MaxSec
  /\ unseen \in Nat /\ active \in Nat
  /\ truth \in [single : BOOLEAN, type : {1, 5}, active : Nat]
  /\ past \in [1 .. Level -> Records]
  /\ owed \in BOOLEAN

\* circular_linkedlist_init sets load1; the rest is whatever malloc returned.
Init ==
  /\ sec = 0
  /\ avenrun \in FirstLoads
  /\ turning = "before"
  /\ insufficient = FALSE
  /\ lpc = "poll" /\ cur = 0
  /\ \E garbage \in Garbage, zoomed \in GarbageZooms :
       ring = [n \in Nodes |-> [load1 |-> 0, load5s |-> garbage, load5s_state |-> 0,
                                zoom_state |-> IF n \in zoomed THEN 3 ELSE 0]]
  /\ count = 0 /\ edge = FALSE
  /\ rpc = "wait" /\ named = -1
  /\ unseen = 0 /\ active = 0
  /\ truth = [single |-> FALSE, type |-> 1, active |-> 0]
  /\ past = [i \in 1 .. Level |-> NoRecord]
  /\ lacking = -1 /\ owed = FALSE

-----------------------------------------------------------------------------
(* The world around the two threads.                                       *)

\* Nothing that should happen within this second is left to do.
Served ==
  /\ lpc = "poll" /\ unseen = 0
  /\ turning \in {"before", "after"}
  /\ rpc \in {"wait", "scan"} /\ ~(rpc = "wait" /\ edge)

\* A second passes; every Period seconds the kernel updates the load average.
Tick ==
  /\ sec < MaxSec
  /\ Prompt => Served
  /\ sec' = sec + 1
  /\ IF sec' % Period = 0
     THEN \E n \in Actives : /\ avenrun' = CalcLoad(avenrun, n)
                             /\ active' = n
                             /\ unseen' = unseen + 1
     ELSE UNCHANGED <<avenrun, active, unseen>>
  /\ UNCHANGED <<turning, insufficient, lpc, ringVars, eventVars, rpc, named,
                 recordVars, lacking, owed>>

\* The hour changes; rotate_thread sets hour_lock, and at last publishes the hour.
Turn ==
  /\ turning # "after"
  /\ turning' = [before |-> "due", due |-> "lock", lock |-> "after"][turning]
  /\ UNCHANGED <<sec, avenrun, insufficient, lpc, ringVars, eventVars, rpc, named,
                 unseen, active, recordVars, lacking, owed>>

\* check_partition_usage.
CheckPartition ==
  /\ PartitionMayFill
  /\ insufficient' = ~insufficient
  /\ UNCHANGED <<sec, avenrun, turning, lpc, ringVars, eventVars, rpc, named,
                 unseen, active, recordVars, lacking, owed>>

-----------------------------------------------------------------------------
(* load1_thread.                                                           *)

\* The timer: /proc/loadavg is compared with the node before.
Poll ==
  /\ lpc = "poll"
  /\ LET load1 == Shown(avenrun) IN
     IF load1 = PrevNode.load1
     THEN unseen' = 0 /\ UNCHANGED <<lpc, ringVars, recordVars>>
     ELSE /\ turning # "lock"                      \* hour lock: try again later
          /\ ring' = [ring EXCEPT ![cur] = NewNode(load1)]
          /\ cur' = Following(cur)
          /\ lpc' = "write"
          /\ truth' = [single |-> unseen = 1, type |-> Type(load1), active |-> active]
          /\ past' = [i \in 1 .. Level |-> IF i > 1 THEN past[i - 1] ELSE
                [made |-> TRUE, high |-> High(load1), surge |-> Surge(load1),
                 zoom |-> NewNode(load1).zoom_state # 0]]
          /\ unseen' = 0
  /\ UNCHANGED <<sec, avenrun, turning, insufficient, eventVars, rpc, named, active,
                 lacking, owed>>

Zoomed == PrevNode.zoom_state # 0                  \* of the record just made

\* The record, stamped now, unless the partition is full.  A file of this second is
\* there only if it is the latest.
WriteRecord ==
  /\ lpc = "write"
  /\ lacking' = IF ~Zoomed \/ insufficient THEN lacking ELSE IF named = sec THEN -1 ELSE sec
  /\ lpc' = IF Zoomed THEN "notify" ELSE "poll"
  /\ UNCHANGED <<sec, avenrun, turning, insufficient, ringVars, eventVars, rpc, named,
                 unseen, active, recordVars, owed>>

\* write(eventfd_load1): the count grows and epoll queues the descriptor once.
Notify ==
  /\ lpc = "notify"
  /\ count' = count + 1 /\ edge' = TRUE
  /\ owed' = TRUE
  /\ lpc' = "poll"
  /\ UNCHANGED <<sec, avenrun, turning, insufficient, ringVars, rpc, named,
                 unseen, active, recordVars, lacking>>

-----------------------------------------------------------------------------
(* loadrd_thread.                                                          *)

loadrdKeeps == <<sec, avenrun, turning, insufficient, lpc, ringVars, unseen, active,
                 recordVars, lacking>>

\* epoll_wait looks at the descriptor again before it reports it.
Woken ==
  /\ rpc = "wait" /\ edge
  /\ edge' = FALSE
  /\ rpc' = IF count > 0 THEN "woken" ELSE "wait"
  /\ UNCHANGED <<loadrdKeeps, count, named, owed>>

\* An EFD_SEMAPHORE read takes one; then the partition is looked at.
ReadEvent ==
  /\ rpc = "woken"
  /\ count > 0
  /\ count' = count - 1
  /\ rpc' = IF insufficient THEN "wait" ELSE "gate"
  /\ owed' = (owed /\ ~insufficient)
  /\ UNCHANGED <<loadrdKeeps, edge, named>>

\* Load5s::GetActiveCounts, ReadLoadrdFileData: for the record of second t they try
\* the file of that second, then that of the next.
Candidates(t) == {t, t + 1}

\* The hour is settled: loadrd names its files by the present second.
Begin ==
  /\ rpc = "gate" /\ turning \in {"before", "after"}
  /\ named' = sec
  /\ lacking' = IF sec \in Candidates(lacking) THEN -1 ELSE lacking
  /\ owed' = FALSE
  /\ rpc' = "scan"
  /\ UNCHANGED <<sec, avenrun, turning, insufficient, lpc, ringVars, unseen, active,
                 recordVars, eventVars>>

\* A thousand polls of an hour that does not settle.
GiveUp ==
  /\ rpc = "gate" /\ turning \in {"due", "lock"}
  /\ ~Prompt                                      \* it takes more than a second
  /\ owed' = FALSE
  /\ rpc' = "wait"
  /\ UNCHANGED <<loadrdKeeps, eventVars, named>>

\* Mutant: wake-ups that came during the listing are thrown away.
End_Forgets ==
  /\ rpc = "scan"
  /\ rpc' = "wait"
  /\ edge' = FALSE
  /\ UNCHANGED <<loadrdKeeps, count, named, owed>>

\* All threads are listed, all stacks sampled.
End ==
  /\ rpc = "scan"
  /\ rpc' = "wait"
  /\ UNCHANGED <<loadrdKeeps, eventVars, named, owed>>

-----------------------------------------------------------------------------
Load1 == Poll \/ WriteRecord \/ Notify
Loadrd == Woken \/ ReadEvent \/ Begin \/ GiveUp \/ End

Next == Tick \/ Turn \/ CheckPartition \/ Load1 \/ Loadrd

Spec == Init /\ [][Next]_vars

\* loadrd_thread is a thread of a running process.
FairSpec == Spec /\ WF_vars(Loadrd)
-----------------------------------------------------------------------------
(* Properties.                                                             *)

\* load5s is what README_zh-cn.md says it is, the active count of the kernel: a
\* record of type 5s with one kernel update behind it has exactly the number of
\* threads that update found, although both loads are rounded twice on the way.
Load5sIsActive ==
  truth.single /\ truth.type = 5 => PrevNode.load5s = truth.active

\* While load stays high details are taken at least once in Level records, from
\* the very first records on, whatever the ring held before it was written.
SustainedZoom ==
  (\A i \in 1 .. Level : past[i].made /\ past[i].high) => \E i \in 1 .. Level : past[i].zoom

\* And no oftener: a zoom is of a high record, and without a surge it is the only
\* one in Level records, although the nodes are used again and again.
ZoomsSpaced ==
  past[1].zoom => /\ past[1].high
                  /\ past[1].surge \/ \A i \in 2 .. Level : ~past[i].zoom

\* No wake-up is lost: a zoom that loadrd_thread has not acted on is announced
\* and epoll will find the count it looks for, or the thread is on its way.
ZoomPending ==
  owed => (edge /\ count > 0) \/ rpc \in {"woken", "gate"}

\* Every zoom is acted on by a pass of loadrd_thread that begins after it, or by
\* giving up, even when several zooms share one wake-up.
ZoomAnswered == owed ~> ~owed

\* README_zh-cn.md says that Z means details were collected: once loadrd_thread is
\* idle the reader should find a file for the last Z record.
ZoomHasDetail ==
  rpc = "wait" /\ ~edge /\ lpc = "poll" => lacking = -1
=============================================================================
