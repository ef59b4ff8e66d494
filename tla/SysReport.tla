------------------------------ MODULE SysReport -----------------------------
(***************************************************************************)
(* ReportSys: the report on counters of the machine.  A first pass goes     *)
(* back over the slots from time_point_finish_real to time_point_begin_real, *)
(* reads the files of each slot one after the other and notes what it found; *)
(* a second pass goes forward over the notes, compares them with the        *)
(* reboots of the machine and subtracts neighbours; Display* turns a row    *)
(* into cells.                                                              *)
(*                                                                         *)
(* A file has one indicator, cumulative and as a difference.  A reading is *)
(* represented by the slot whose file it was read from, so that a cell can *)
(* be traced to where it comes from; 0 is a reading that was never made.   *)
(***************************************************************************)
EXTENDS Samples

CONSTANTS
  SysFiles,        \* sys_hierarchy_file: the files of the report, in order
  FloatFiles,      \* those whose indicator has the type float (or string)
  Slots,           \* the number of slots
  RebootTimes,     \* when the machine may have been restarted
  MaxReboots

ASSUME SysAssumption ==
  /\ Slots \in Nat \ {0} /\ Len(SysFiles) \in Nat \ {0}
  /\ RebootTimes \subseteq Nat /\ MaxReboots \in Nat

CFiles == {SysFiles[n] : n \in 1 .. Len(SysFiles)}

VARIABLES
  sample,          \* input: the offset of the stamp of a file in a slot, or -1
  reboot_times,    \* input: the set of reboots
  spc,             \* "pass1", "pass2", "shown", "thrown"
  slot, nth,       \* the slot, and pass 1: the file in it
  item,            \* item_ctrl and item_combine_*: the row being read
  line_float,      \* item_combine_float_line, and _begin and the strings
  ctrl,            \* list_ctrl and list_combine_*: the rows, by slot
  next_reboot      \* *j_element, the reboot pass 2 has come to; -1 if there is none

sysInput == <<sample, reboot_times>>
sysVars == <<sysInput, spc, slot, nth, item, line_float, ctrl, next_reboot>>

NoRow == [record_type |-> 1003, collect_time |-> 0,
          file_type |-> [f \in CFiles |-> 1003], combine |-> [f \in CFiles |-> 0],
          delta |-> [f \in CFiles |-> <<0, 0>>]]

Present(i, f) == sample[i][f] # -1
Stamp(i, f) == SlotTime(i) + sample[i][f]

(* The walk back starts at the stamp of the first file of the last slot, to  *)
(* the second, if there is one, so other stamps may lie before their slots.  *)
SlotPoint(i) ==
  SlotTime(i) + (IF Present(Slots, SysFiles[1]) THEN sample[Slots][SysFiles[1]] ELSE 0)

(* item_ctrl and the combined maps as a slot begins.                         *)
Cleared(i) == [NoRow EXCEPT !.collect_time = SlotPoint(i)]

SysInit ==
  /\ sample \in [1 .. Slots -> [CFiles -> Offsets \cup {-1}]]
  /\ reboot_times \in {R \in SUBSET RebootTimes : Cardinality(R) <= MaxReboots}
  /\ spc = "pass1" /\ slot = Slots /\ nth = 1
  /\ item = Cleared(Slots)
  /\ line_float = [f \in CFiles |-> 0]
  /\ ctrl = [i \in 1 .. Slots |-> NoRow]
  /\ next_reboot = -1

-----------------------------------------------------------------------------
(* Pass 1.                                                                   *)
File == SysFiles[nth]

(* unified_time_point_real has been set by an earlier file of the slot.      *)
Unified == item.record_type = 1001

FileMissing ==
  /\ spc = "pass1" /\ nth <= Len(SysFiles)
  /\ ~Present(slot, File)
  /\ nth' = nth + 1
  /\ UNCHANGED <<sysInput, spc, slot, item, line_float, ctrl, next_reboot>>

(* "file real time is not unified.": the report is given up.                 *)
NotUnified ==
  /\ spc = "pass1" /\ nth <= Len(SysFiles)
  /\ Present(slot, File) /\ Unified /\ item.collect_time # Stamp(slot, File)
  /\ spc' = "thrown"
  /\ UNCHANGED <<sysInput, slot, nth, item, line_float, ctrl, next_reboot>>

\* Mutant: insert overwrites nothing in the map of integers either, and it is kept.
Combined_KeepsInts(read) ==
  [f \in CFiles |-> IF item.combine[f] = 0 THEN read[f] ELSE item.combine[f]]

(* item_combine_*.insert: what is there already is not overwritten; of the   *)
(* integers only this file's are offered, the map they are read to is        *)
(* cleared.                                                                  *)
Combined(read) ==
  [f \in CFiles |-> IF item.combine[f] = 0 /\ (f \in FloatFiles \/ f = File)
                      THEN read[f] ELSE item.combine[f]]

(* ReadSysFileLineData or ReadSysFileBeginData.                              *)
ReadFile ==
  /\ spc = "pass1" /\ nth <= Len(SysFiles)
  /\ Present(slot, File)
  /\ Unified => item.collect_time = Stamp(slot, File)
  /\ line_float' = [line_float EXCEPT ![File] = slot]
  /\ item' = [item EXCEPT !.record_type = 1001, !.collect_time = Stamp(slot, File),
                          !.file_type[File] = 1001, !.combine = Combined(line_float')]
  /\ nth' = nth + 1
  /\ UNCHANGED <<sysInput, spc, slot, ctrl, next_reboot>>

(* The times of the reboots are sorted.                                      *)
FirstOf(R) == IF R = {} THEN {-1} ELSE {r \in R : \A q \in R : r <= q}

(* The row is kept and the slot before is next; after the last one *j_element *)
(* is the first reboot.                                                      *)
SlotRead ==
  /\ spc = "pass1" /\ nth > Len(SysFiles)
  /\ ctrl' = [ctrl EXCEPT ![slot] = item]
  /\ nth' = 1
  /\ IF slot > 1
       THEN /\ slot' = slot - 1 /\ item' = Cleared(slot - 1)
            /\ UNCHANGED <<spc, next_reboot>>
       ELSE /\ spc' = "pass2" /\ UNCHANGED <<slot, item>>
            /\ next_reboot' \in FirstOf(reboot_times)
  /\ UNCHANGED <<sysInput, line_float>>

-----------------------------------------------------------------------------
(* Pass 2.                                                                   *)

(* previous_ctrl; before the first row it is of type 1002.                   *)
Previous == IF slot = 1 THEN [NoRow EXCEPT !.record_type = 1002, !.collect_time = SlotPoint(0)]
            ELSE ctrl[slot - 1]

(* *j_element moves past the reboots up to the previous row, but not past    *)
(* the last one.                                                             *)
Advance(since) ==
  LET coming == {r \in reboot_times : r >= next_reboot /\ r > since} IN
    IF coming # {} THEN FirstOf(coming) ELSE {r \in reboot_times \cup {-1} : \A q \in reboot_times : q <= r}

\* Mutant: a restart at the very time of the sample is left to the next row.
Rebooted_Strict(reboot, since, time) == reboot > since /\ reboot < time

Rebooted(reboot, since, time) == reboot > since /\ reboot <= time

\* Mutant: the difference is taken whatever the file was in the row before.
Subtracted_Unchecked(row, previous) ==
  [row EXCEPT !.delta = [f \in CFiles |-> <<previous.combine[f], row.combine[f]>>]]

(* Each file of the row that was there in the row before is subtracted.      *)
Subtracted(row, previous) ==
  LET read(f) == row.file_type[f] = 1001
      lone(f) == previous.file_type[f] = 1003
  IN [row EXCEPT
       !.file_type = [f \in CFiles |-> IF read(f) /\ lone(f) THEN 1004 ELSE row.file_type[f]],
       !.delta = [f \in CFiles |-> IF read(f) /\ ~lone(f)
                                     THEN <<previous.combine[f], row.combine[f]>> ELSE <<0, 0>>]]

(* The type of the row, by the reboots and the row before.                   *)
Typed(row, previous, reboot) ==
  IF Rebooted(reboot, previous.collect_time, row.collect_time)
    THEN [row EXCEPT !.record_type = 1005]
  ELSE IF row.record_type # 1001 THEN row
  ELSE IF previous.record_type \in {1002, 1003} THEN [row EXCEPT !.record_type = 1004]
  ELSE Subtracted(row, previous)

FillRow ==
  /\ spc = "pass2"
  /\ next_reboot' \in Advance(Previous.collect_time)
  /\ ctrl' = [ctrl EXCEPT ![slot] = Typed(@, Previous, next_reboot')]
  /\ IF slot < Slots THEN slot' = slot + 1 /\ UNCHANGED spc
                     ELSE spc' = "shown" /\ UNCHANGED slot
  /\ UNCHANGED <<sysInput, nth, item, line_float>>

SysNext == FileMissing \/ NotUnified \/ ReadFile \/ SlotRead \/ FillRow

SysSpec == SysInit /\ [][SysNext]_sysVars

-----------------------------------------------------------------------------
(* DisplaySysShell and DisplaySysJson: the cumulative cell and the cell of   *)
(* the difference per second of a file in a row.                             *)
Star == <<>>
Dash == <<-1>>

Cumulative(i, f) ==
  LET row == ctrl[i]
      type == IF row.record_type = 1001 THEN row.file_type[f] ELSE row.record_type
  IN CASE type = 1005 -> Star
       [] type = 1003 -> Dash
       [] OTHER       -> <<row.combine[f]>>

Difference(i, f) ==
  LET row == ctrl[i] IN
    CASE row.record_type = 1005 -> Star
      [] row.record_type = 1001 /\ row.file_type[f] = 1001 -> row.delta[f]
      [] OTHER -> Dash

-----------------------------------------------------------------------------
(* Properties of the report that is shown.                                   *)

(* The time of row i: that of its files, or of its slot.                     *)
TimeOf(i) == IF i = 0 THEN SlotPoint(0) ELSE ctrl[i].collect_time

RestartIn(i) == \E r \in reboot_times : TimeOf(i - 1) < r /\ r <= TimeOf(i)

(* Row i is the first with files after a slot without any.  After a row that  *)
(* shows a restart it is treated like any other row.                         *)
StartsAgain(i) ==
  /\ \E f \in CFiles : Present(i, f)
  /\ i = 1 \/ ((\A f \in CFiles : ~Present(i - 1, f)) /\ ~RestartIn(i - 1))

(* A reading of a file in F that is shown is that of its row, and a           *)
(* difference is one between the row before and this one.  0 is shown only   *)
(* for a file that is missing from the first row after a gap.                *)
OwnReadingOf(F) ==
  spc = "shown" =>
    \A i \in 1 .. Slots, f \in F :
      /\ \/ Cumulative(i, f) \in {Star, Dash}
         \/ Present(i, f) /\ Cumulative(i, f) = <<i>>
         \/ ~Present(i, f) /\ StartsAgain(i) /\ Cumulative(i, f) = <<0>>
      /\ Difference(i, f) \in {Star, Dash, <<i - 1, i>>}

(* Every reading is of its own row (README_zh-cn.md:237).  It fails with files *)
(* in FloatFiles.  For the file that is missing from the first row after a   *)
(* gap README_zh-cn.md:239 says "-", where the code shows 0.                 *)
OwnReading == OwnReadingOf(CFiles)

(* A star means that the machine was restarted since the row before, however *)
(* many restarts and missing samples there are.                              *)
StarMeansRestart ==
  spc = "shown" =>
    \A i \in 1 .. Slots, f \in CFiles :
      /\ Cumulative(i, f) = Star <=> RestartIn(i)
      /\ Difference(i, f) = Star <=> RestartIn(i)

(* Without a restart, a dash stands in place of a reading exactly when the    *)
(* file is missing and the row is not the first after a gap, and in place of *)
(* a difference exactly when the file is missing now or in the row before.   *)
DashMeansMissing ==
  spc = "shown" =>
    \A i \in 1 .. Slots, f \in CFiles :
      ~RestartIn(i) =>
        /\ Cumulative(i, f) = Dash <=> ~Present(i, f) /\ ~StartsAgain(i)
        /\ Difference(i, f) = Dash <=> (i = 1 \/ ~Present(i, f) \/ ~Present(i - 1, f))
=============================================================================
