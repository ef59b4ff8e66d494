----------------------------- MODULE ProcReport -----------------------------
(***************************************************************************)
(* ReportProc: the history of one process id.  A walk back over the slots   *)
(* from time_point_finish to time_point_begin collects the samples of the   *)
(* process that had the id last, until it meets another process, a time     *)
(* well before the start of this one, or a snapshot without the id.  A pass *)
(* forward over the rows then subtracts neighbours; "<" and ">" rows mark    *)
(* that the process began and ended within the range.                       *)
(***************************************************************************)
EXTENDS Samples

CONSTANTS
  Rounds,          \* the number of slots
  Starts,          \* when a process with this id may have been started
  Lag              \* how long a snapshot takes to write

ASSUME ProcAssumption ==
  /\ Rounds \in Nat \ {0} /\ Starts \subseteq Nat \ {0} /\ Lag \in Nat

Missing == -1      \* a slot without a snapshot
Absent  == 0       \* a snapshot without the id; also: no slot, no time

VARIABLES
  delay,           \* input: by slot, the offset of its stamp
  content,         \* input: by slot, Missing, Absent or the start of the process
  ppc,             \* "walk", "fill", "marks", "shown"
  visit,           \* it_time_point
  start_decide,    \* start_decide_time_point + intervals, or Absent
  after_last, before_first,
  walked,          \* it_sproc_t: the rows, oldest first
  fill             \* fill_sproc_t

procInput == <<delay, content>>
procVars == <<procInput, ppc, visit, start_decide, after_last, before_first, walked, fill>>

Taken(i) == SlotTime(i) + delay[i]
Seen(c) == {i \in 1 .. Rounds : c[i] \in Starts}

(* What a machine can have recorded: a process is in every snapshot from its *)
(* start to its end, perhaps in one being written as it starts, and no other *)
(* process has its id meanwhile.                                            *)
Recorded(c) ==
  \A j \in Seen(c) :
    /\ c[j] <= Taken(j) + Lag
    /\ \A i \in 1 .. j - 1 :
         c[i] # Missing => /\ Taken(i) >= c[j] => c[i] = c[j]
                           /\ c[i] = c[j] => \A n \in i .. j : c[n] \in {Missing, c[j]}

ProcInit ==
  /\ delay \in [1 .. Rounds -> Offsets]
  /\ content \in {c \in [1 .. Rounds -> {Missing, Absent} \cup Starts] : Recorded(c)}
  /\ ppc = "walk" /\ visit = Rounds
  /\ start_decide = Absent /\ after_last = Absent /\ before_first = Absent
  /\ walked = <<>> /\ fill = <<>>

-----------------------------------------------------------------------------
(* The walk back.                                                           *)
Row(i, type) == [slot |-> i, type |-> type, from |-> Absent]

\* Mutant: the walk ends at the start of the process itself.
BeforeStart_Exact(i) == start_decide # Absent /\ SlotTime(i) < start_decide

BeforeStart(i) == start_decide # Absent /\ SlotTime(i) < start_decide - 2 * Step

WalkGoesOn == ppc = "walk" /\ visit >= 1 /\ ~BeforeStart(visit)

WalkEnds ==
  /\ ppc = "walk" /\ (visit < 1 \/ BeforeStart(visit))
  /\ ppc' = "fill"
  /\ UNCHANGED <<procInput, visit, start_decide, after_last, before_first, walked, fill>>

(* No file, or one that cannot be read: a row of dashes.                    *)
SnapshotMissing ==
  /\ WalkGoesOn /\ content[visit] = Missing
  /\ walked' = <<Row(visit, 1003)>> \o walked
  /\ visit' = visit - 1
  /\ UNCHANGED <<procInput, ppc, start_decide, after_last, before_first, fill>>

\* Mutant: a snapshot without the id does not end the walk.
PidAbsent_WalksOn ==
  /\ WalkGoesOn /\ content[visit] = Absent
  /\ IF start_decide = Absent
       THEN after_last' = visit /\ UNCHANGED before_first
       ELSE before_first' = visit /\ UNCHANGED after_last
  /\ visit' = visit - 1
  /\ UNCHANGED <<procInput, ppc, start_decide, walked, fill>>

(* ReadProcFileData has found no such id.                                   *)
PidAbsent ==
  /\ WalkGoesOn /\ content[visit] = Absent
  /\ IF start_decide = Absent
       THEN after_last' = visit /\ visit' = visit - 1 /\ UNCHANGED <<ppc, before_first>>
       ELSE before_first' = visit /\ ppc' = "fill" /\ UNCHANGED <<visit, after_last>>
  /\ UNCHANGED <<procInput, start_decide, walked, fill>>

(* The id belonged to an earlier process.                                   *)
OtherProcess ==
  /\ WalkGoesOn /\ content[visit] \in Starts
  /\ start_decide \notin {Absent, content[visit]}
  /\ ppc' = "fill"
  /\ UNCHANGED <<procInput, visit, start_decide, after_last, before_first, walked, fill>>

\* Mutant: the id alone says which process it is.
SampleRead_AnyProcess ==
  /\ WalkGoesOn /\ content[visit] \in Starts
  /\ start_decide' = content[visit]
  /\ walked' = <<Row(visit, 1001)>> \o walked
  /\ visit' = visit - 1
  /\ UNCHANGED <<procInput, ppc, after_last, before_first, fill>>

SampleRead ==
  /\ WalkGoesOn /\ content[visit] \in Starts
  /\ start_decide \in {Absent, content[visit]}
  /\ start_decide' = content[visit]
  /\ walked' = <<Row(visit, 1001)>> \o walked
  /\ visit' = visit - 1
  /\ UNCHANGED <<procInput, ppc, after_last, before_first, fill>>

-----------------------------------------------------------------------------
(* The pass forward.                                                        *)
CollectTime(row) == IF row.type = 1003 THEN SlotTime(row.slot) ELSE Taken(row.slot)

(* Rows after the process was gone, which are rows of dashes, are dropped.   *)
Dropped(row) == after_last # Absent /\ CollectTime(row) > SlotTime(after_last)

MoreRows == walked # <<>> /\ ~Dropped(Head(walked))

Previous1003 == fill = <<>> \/ fill[Len(fill)].type = 1003

Filled(row) ==
  CASE row.type = 1003 -> row
    [] row.type = 1001 /\ Previous1003 -> [row EXCEPT !.type = 1004]
    [] OTHER -> [row EXCEPT !.from = fill[Len(fill)].slot]

FillProc ==
  /\ ppc = "fill" /\ MoreRows
  /\ fill' = Append(fill, Filled(Head(walked)))
  /\ walked' = Tail(walked)
  /\ UNCHANGED <<procInput, ppc, visit, start_decide, after_last, before_first>>

FillEnds ==
  /\ ppc = "fill" /\ ~MoreRows
  /\ ppc' = "marks"
  /\ UNCHANGED <<procInput, visit, start_decide, after_last, before_first, walked, fill>>

(* The walk has come past the snapshots without the id.                      *)
Gone == after_last # Absent /\ visit + 1 < after_last

Marks ==
  /\ ppc = "marks"
  /\ fill' = (IF before_first # Absent THEN <<Row(before_first, 1012)>> ELSE <<>>) \o fill \o
             (IF Gone THEN <<Row(after_last, 1013)>> ELSE <<>>)
  /\ ppc' = "shown"
  /\ UNCHANGED <<procInput, visit, start_decide, after_last, before_first, walked>>

ProcNext ==
  \/ SnapshotMissing \/ PidAbsent \/ OtherProcess \/ SampleRead \/ WalkEnds
  \/ FillProc \/ FillEnds \/ Marks

ProcSpec == ProcInit /\ [][ProcNext]_procVars

-----------------------------------------------------------------------------
(* Properties of the report that is shown.  It is about the process that had *)
(* the id last within the range, if one was seen.                            *)
Last  == CHOOSE i \in Seen(content) : \A j \in Seen(content) : j <= i
Life  == {i \in Seen(content) : content[i] = content[Last]}
First == CHOOSE i \in Life : \A j \in Life : i <= j
OfType(types) == {n \in DOMAIN fill : fill[n].type \in types}

(* Every difference is one between the samples of two neighbouring slots, of *)
(* one and the same process: a reused id is never subtracted, nor is a        *)
(* sample from beyond a gap.                                                 *)
DifferencesOfOneProcess ==
  ppc = "shown" =>
    \A n \in OfType({1001}) :
      LET row == fill[n] IN
        /\ row.from = row.slot - 1
        /\ content[row.from] = content[row.slot]
        /\ content[row.slot] \in Starts

(* From the first sample of the process to the last, each slot has one row,  *)
(* in order, with the sample if there is one and with dashes if not; no other *)
(* row has a sample.                                                         *)
LifeReported ==
  ppc = "shown" =>
    /\ \A m, n \in DOMAIN fill : m < n => fill[m].slot < fill[n].slot
    /\ {fill[n].slot : n \in OfType({1001, 1004})} = (IF Seen(content) = {} THEN {} ELSE Life)
    /\ Seen(content) # {} =>
         \A i \in First .. Last :
           content[i] = Missing => \E n \in OfType({1003}) : fill[n].slot = i

(* Of a process that was seen, ">" stands at the first snapshot that it is    *)
(* gone from, and is there whenever such a snapshot is; "<" stands at the     *)
(* last snapshot from before it, unless that is older than two intervals      *)
(* before the start or has another process.                                  *)
MarksTrue ==
  ppc = "shown" /\ Seen(content) # {} =>
    LET absent == {i \in 1 .. Rounds : content[i] = Absent}
        after  == {i \in absent : i > Last /\ \A j \in absent : j > Last => i <= j}
        before == {i \in absent : /\ i < First /\ SlotTime(i) >= content[Last] - 2 * Step
                                  /\ \A j \in i + 1 .. First - 1 : content[j] = Missing}
    IN /\ {fill[n].slot : n \in OfType({1013})} = after
       /\ {fill[n].slot : n \in OfType({1012})} = before
=============================================================================
