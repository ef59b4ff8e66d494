----------------------------- MODULE LoadReport -----------------------------
(***************************************************************************)
(* ReportLoad5s: a walk back from time_point_finish by whole hours reads    *)
(* the load5s file of the local hour of each point and merges its records   *)
(* into a list by time; those within the range are shown.  The daemon keeps *)
(* on appending records and recycling hours.                                *)
(*                                                                         *)
(* Time is counted in parts of an hour.  The walk ends by the hours of the  *)
(* epoch, the files are those of local hours, which are ZoneShift parts off. *)
(* A record is assumed to be in the file of its own hour.  HourRotation      *)
(* shows that of records made after the hour's rotation; one that load1_thread *)
(* writes before rotate_thread has woken is in the file of the hour before.  *)
(***************************************************************************)
EXTENDS Integers, Sequences, FiniteSets

CONSTANTS
  HourParts,       \* the parts of an hour
  ZoneShift,       \* the offset of local time, less its whole hours
  MaxTime          \* bound: the last time of a record

ASSUME LoadAssumption ==
  HourParts \in Nat \ {0} /\ ZoneShift \in 0 .. HourParts - 1 /\ MaxTime \in Nat

EpochHour(t) == t \div HourParts
HourOf(t) == (t + ZoneShift) \div HourParts

VARIABLES
  records,         \* the times of the records in the load5s files
  kept,            \* history: those that are there since the reader began
  from, until,     \* time_point_begin and time_point_finish
  lpc,             \* "read", "fill", "shown"
  point,           \* it_time_point
  it_load5s,       \* the records read, by time
  fill_load5s

loadRange == <<from, until>>
loadVars == <<records, kept, loadRange, lpc, point, it_load5s, fill_load5s>>

LoadReportInit ==
  /\ records \in SUBSET (0 .. MaxTime) /\ kept = records
  /\ until \in 1 .. MaxTime /\ from \in 0 .. until - 1
  /\ lpc = "read" /\ point = until
  /\ it_load5s = <<>> /\ fill_load5s = <<>>

-----------------------------------------------------------------------------
(* The daemon.                                                              *)
Load1Write ==
  /\ lpc = "read"
  /\ \E t \in 0 .. MaxTime : (\A r \in records : r < t) /\ records' = records \cup {t}
  /\ UNCHANGED <<kept, loadRange, lpc, point, it_load5s, fill_load5s>>

(* The oldest hour goes, unless it is the only one.                         *)
RecycleHour ==
  /\ lpc = "read"
  /\ \E o, r \in records :
       /\ \A q \in records : HourOf(o) <= HourOf(q)
       /\ HourOf(o) < HourOf(r)
       /\ records' = {q \in records : HourOf(q) # HourOf(o)}
       /\ kept' = {q \in kept : HourOf(q) # HourOf(o)}
  /\ UNCHANGED <<loadRange, lpc, point, it_load5s, fill_load5s>>

-----------------------------------------------------------------------------
(* ReportLoad5s.                                                            *)

(* The times in order, as a file is appended to: each has as many before it  *)
(* as there are smaller ones.                                               *)
Ordered(S) ==
  [i \in 1 .. Cardinality(S) |-> CHOOSE t \in S : Cardinality({u \in S : u < t}) = i - 1]

(* ReadLoad5sFileData; without the file of an hour it is as if it were empty. *)
FileOf(hour) == Ordered({t \in records : HourOf(t) = hour})

(* list::merge by load5s_comparator: where the i-th element of the list and  *)
(* the j-th of the file come to stand.  None is left out, and of equal ones   *)
(* those of the list are first.                                             *)
PlaceInList(list, file, i) == i + Cardinality({j \in DOMAIN file : file[j] < list[i]})
PlaceInFile(list, file, j) == j + Cardinality({i \in DOMAIN list : list[i] <= file[j]})

Merged(list, file) ==
  [n \in 1 .. Len(list) + Len(file) |->
     IF \E i \in DOMAIN list : PlaceInList(list, file, i) = n
       THEN list[CHOOSE i \in DOMAIN list : PlaceInList(list, file, i) = n]
       ELSE file[CHOOSE j \in DOMAIN file : PlaceInFile(list, file, j) = n]]

\* Mutant: the walk ends by the time of the point, not by its hour.
InRange_ByTime(p) == p >= from

InRange(p) == EpochHour(p) >= EpochHour(from)

ReadHour ==
  /\ lpc = "read" /\ InRange(point)
  /\ it_load5s' = Merged(it_load5s, FileOf(HourOf(point)))
  /\ point' = point - HourParts
  /\ UNCHANGED <<records, kept, loadRange, lpc, fill_load5s>>

ReadEnds ==
  /\ lpc = "read" /\ ~InRange(point)
  /\ lpc' = "fill"
  /\ UNCHANGED <<records, kept, loadRange, point, it_load5s, fill_load5s>>

(* Records before the range are passed over; the first one after it ends     *)
(* the report.  The options --yes and --zoom, which select records, are off. *)
FillLoad5s ==
  /\ lpc = "fill"
  /\ IF it_load5s # <<>> /\ Head(it_load5s) <= until
       THEN /\ fill_load5s' = IF Head(it_load5s) < from THEN fill_load5s
                              ELSE Append(fill_load5s, Head(it_load5s))
            /\ it_load5s' = Tail(it_load5s) /\ UNCHANGED lpc
       ELSE lpc' = "shown" /\ UNCHANGED <<it_load5s, fill_load5s>>
  /\ UNCHANGED <<records, kept, loadRange, point>>

LoadReportNext == Load1Write \/ RecycleHour \/ ReadHour \/ ReadEnds \/ FillLoad5s

LoadReportSpec == LoadReportInit /\ [][LoadReportNext]_loadVars

-----------------------------------------------------------------------------
(* The records that are shown are in the order of their times, each once, and *)
(* none is from outside the range.                                           *)
InOrderOnce ==
  lpc = "shown" =>
    /\ \A i, j \in DOMAIN fill_load5s : i < j => fill_load5s[i] < fill_load5s[j]
    /\ \A i \in DOMAIN fill_load5s : from <= fill_load5s[i] /\ fill_load5s[i] <= until

(* Besides, every record of the range that was there all the time is shown.  *)
EveryRecordOnce ==
  /\ InOrderOnce
  /\ lpc = "shown" =>
       \A t \in kept : from <= t /\ t <= until => \E i \in DOMAIN fill_load5s : fill_load5s[i] = t
=============================================================================
