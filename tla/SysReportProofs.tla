--------------------------- MODULE SysReportProofs --------------------------
(***************************************************************************)
(* Proofs about SysReport, for any files, any number of slots, any interval, *)
(* any stamps within it and any reboots.                                   *)
(***************************************************************************)
EXTENDS SysReport, TLAPS

-----------------------------------------------------------------------------
(* The inductive invariant.                                                  *)
RowTypes  == {1001, 1003, 1004, 1005}
FileTypes == [CFiles -> {1001, 1003, 1004}]
Combines  == [CFiles -> 0 .. Slots]
Deltas    == [CFiles -> (0 .. Slots) \X (0 .. Slots)]

SysRows == [record_type : RowTypes, collect_time : Nat, file_type : FileTypes,
            combine : Combines, delta : Deltas]

SysTypeOK ==
  /\ sample \in [1 .. Slots -> [CFiles -> Offsets \cup {-1}]]
  /\ reboot_times \subseteq Nat
  /\ spc \in {"pass1", "pass2", "shown", "thrown"}
  /\ slot \in 1 .. Slots /\ nth \in 1 .. Len(SysFiles) + 1
  /\ item \in SysRows /\ ctrl \in [1 .. Slots -> SysRows]
  /\ line_float \in [CFiles -> 0 .. Slots]
  /\ next_reboot \in Int

InSlot(t, i) == SlotTime(i) <= t /\ t < SlotTime(i) + Step

(* The files of the slot that have been read.                                *)
ReadOf(got, n) == {f \in CFiles : got[f] # -1 /\ \E m \in 1 .. n : SysFiles[m] = f}

(* A row of slot i is stamped within the slot; its readings of the files that *)
(* are not of the type float are those of the files that were read.          *)
Stamped(row, i, read) ==
  /\ InSlot(row.collect_time, i)
  /\ \A f \in CFiles \ FloatFiles : row.combine[f] = IF f \in read THEN i ELSE 0

Noted(row, i, read) ==
  /\ Stamped(row, i, read)
  /\ row.record_type = IF read = {} THEN 1003 ELSE 1001
  /\ \A f \in CFiles : row.file_type[f] = IF f \in read THEN 1001 ELSE 1003

AllOf(got) == {f \in CFiles : got[f] # -1}

(* The rows of pass 1, the one being read and those noted.                   *)
NotedRows ==
  /\ spc = "pass1" => Noted(item, slot, ReadOf(sample[slot], nth - 1))
  /\ \A i \in 1 .. Slots :
       (spc = "pass1" /\ i > slot) \/ (spc = "pass2" /\ i >= slot)
         => Noted(ctrl[i], i, AllOf(sample[i]))

(* A row that pass 2 has filled: rows is the report, got the files, R the     *)
(* reboots, since the time of the row before.                                *)
FilledRow(rows, got, R, since, i) ==
  LET row == rows[i] IN
  /\ Stamped(row, i, AllOf(got[i]))
  /\ \A f \in CFiles : row.file_type[f] = 1003 <=> got[i][f] = -1
  /\ row.record_type = 1005 <=> \E r \in R : since < r /\ r <= row.collect_time
  /\ row.record_type = 1003 => \A f \in CFiles : got[i][f] = -1
  /\ row.record_type = 1004 =>
       /\ \E f \in CFiles : got[i][f] # -1
       /\ i = 1 \/ rows[i - 1].record_type = 1003
  /\ row.record_type = 1001 =>
       /\ \E f \in CFiles : got[i][f] # -1
       /\ i > 1 /\ rows[i - 1].record_type # 1003
       /\ \A f \in CFiles :
            /\ row.file_type[f] = 1001 <=> got[i][f] # -1 /\ got[i - 1][f] # -1
            /\ row.file_type[f] = 1001 =>
                 row.delta[f] = <<rows[i - 1].combine[f], row.combine[f]>>

FilledRows ==
  \A i \in 1 .. Slots :
    spc = "shown" \/ (spc = "pass2" /\ i < slot)
      => FilledRow(ctrl, sample, reboot_times, TimeOf(i - 1), i)

(* *j_element is not past a reboot that a row to come has to know of.        *)
RebootsAhead ==
  spc = "pass2" => \A r \in reboot_times : r < next_reboot => r <= TimeOf(slot - 1)

SysInv == SysTypeOK /\ NotedRows /\ FilledRows /\ RebootsAhead

-----------------------------------------------------------------------------
(* Arithmetic of the slots.                                                  *)
LEMMA SysSlotTimes ==
  /\ Step \in Nat \ {0}
  /\ \A i \in Nat : SlotTime(i) \in Nat /\ SlotTime(i + 1) = SlotTime(i) + Step
<1>1. Step \in Nat \ {0}
  BY SamplesAssumption
<1>2. ASSUME NEW i \in Nat PROVE SlotTime(i) \in Nat /\ SlotTime(i + 1) = SlotTime(i) + Step
  <2>1. i * Step \in Nat /\ (i + 1) * Step = i * Step + Step
    BY <1>1
  <2> QED
    BY <2>1 DEF SlotTime
<1> QED
  BY <1>1, <1>2

LEMMA SysFacts ==
  /\ Slots \in Nat \ {0} /\ Len(SysFiles) \in Nat \ {0} /\ SysFiles[1] \in CFiles
  /\ \A f \in CFiles : \E n \in 1 .. Len(SysFiles) : SysFiles[n] = f
  /\ \A n \in 1 .. Len(SysFiles) : SysFiles[n] \in CFiles
  /\ \A o \in Offsets : o \in Nat /\ o # -1 /\ o < Step
BY SysAssumption, SamplesAssumption DEF CFiles

(* Updates of a row: a step is first shown to be one of these.               *)
LEMMA RowFields ==
  ASSUME NEW row \in SysRows
  PROVE  /\ row.record_type \in RowTypes /\ row.collect_time \in Nat /\ row.file_type \in FileTypes
         /\ row.combine \in Combines /\ row.delta \in Deltas
BY DEF SysRows

LEMMA RowTimed ==
  ASSUME NEW row \in SysRows,
         NEW b \in Nat,
         NEW new, new = [row EXCEPT !.collect_time = b]
  PROVE  /\ new \in SysRows
         /\ new.collect_time = b /\ new.record_type = row.record_type
         /\ new.file_type = row.file_type /\ new.combine = row.combine /\ new.delta = row.delta
BY DEF SysRows

LEMMA RowRetyped ==
  ASSUME NEW row \in SysRows,
         NEW a \in RowTypes,
         NEW new, new = [row EXCEPT !.record_type = a]
  PROVE  /\ new \in SysRows
         /\ new.collect_time = row.collect_time /\ new.record_type = a
         /\ new.file_type = row.file_type /\ new.combine = row.combine /\ new.delta = row.delta
BY DEF SysRows

ReadRow(row, a, b, c, d) ==
  [row EXCEPT !.record_type = a, !.collect_time = b, !.file_type = c, !.combine = d]

LEMMA RowRead ==
  ASSUME NEW row \in SysRows, NEW a \in RowTypes,
         NEW b \in Nat, NEW c \in FileTypes, NEW d \in Combines, NEW new, new = ReadRow(row, a, b, c, d)
  PROVE  /\ new \in SysRows /\ new.collect_time = b /\ new.record_type = a
         /\ new.file_type = c /\ new.combine = d
BY DEF SysRows, ReadRow

NewDeltas(row, c, e) == [row EXCEPT !.file_type = c, !.delta = e]

LEMMA RowDeltas ==
  ASSUME NEW row \in SysRows, NEW c \in FileTypes, NEW e \in Deltas, NEW new, new = NewDeltas(row, c, e)
  PROVE  /\ new \in SysRows /\ new.collect_time = row.collect_time
         /\ new.record_type = row.record_type /\ new.file_type = c
         /\ new.combine = row.combine /\ new.delta = e
BY DEF SysRows, NewDeltas

LEMMA StampInSlot ==
  ASSUME SysTypeOK, NEW i \in 1 .. Slots, NEW f \in CFiles, Present(i, f)
  PROVE  Stamp(i, f) \in Nat /\ InSlot(Stamp(i, f), i)
<1>1. sample[i][f] \in Offsets
  BY DEF SysTypeOK, Present
<1>2. sample[i][f] \in Nat /\ sample[i][f] < Step
  BY <1>1, SysFacts
<1>3. SlotTime(i) \in Nat /\ Step \in Nat
  <2>1. i \in Nat
    BY SysFacts
  <2> QED
    BY <2>1, SysSlotTimes
<1> QED
  BY <1>2, <1>3 DEF Stamp, InSlot

LEMMA PointInSlot ==
  ASSUME sample \in [1 .. Slots -> [CFiles -> Offsets \cup {-1}]], NEW i \in 0 .. Slots
  PROVE  SlotPoint(i) \in Nat /\ InSlot(SlotPoint(i), i)
<1>1. SlotTime(i) \in Nat /\ Step \in Nat \ {0}
  <2>1. i \in Nat
    BY SysFacts
  <2> QED
    BY <2>1, SysSlotTimes
<1>2. CASE Present(Slots, SysFiles[1])
  <2>1. sample[Slots][SysFiles[1]] \in Offsets
    BY <1>2, SysFacts DEF Present
  <2>2. sample[Slots][SysFiles[1]] \in Nat /\ sample[Slots][SysFiles[1]] < Step
    BY <2>1, SysFacts
  <2> QED
    BY <1>1, <1>2, <2>2 DEF SlotPoint, InSlot
<1>3. CASE ~Present(Slots, SysFiles[1])
  BY <1>1, <1>3 DEF SlotPoint, InSlot
<1> QED
  BY <1>2, <1>3

LEMMA ClearedRow ==
  ASSUME sample \in [1 .. Slots -> [CFiles -> Offsets \cup {-1}]], NEW i \in 1 .. Slots
  PROVE  /\ Cleared(i) \in SysRows /\ NoRow \in SysRows
         /\ Noted(Cleared(i), i, {})
<1>1. Slots \in Nat /\ 0 \in 0 .. Slots
  BY SysFacts
<1>2. SlotPoint(i) \in Nat /\ InSlot(SlotPoint(i), i)
  BY <1>1, PointInSlot
<1>3. NoRow \in SysRows
  BY <1>1 DEF NoRow, SysRows, RowTypes, FileTypes, Combines, Deltas
<1>4. Cleared(i) \in SysRows
  <2>1. Cleared(i) = [NoRow EXCEPT !.collect_time = SlotPoint(i)]
    BY DEF Cleared
  <2> QED
    BY <2>1, <1>2, <1>3, RowTimed
<1>5. /\ Cleared(i).collect_time = SlotPoint(i) /\ Cleared(i).record_type = 1003
      /\ Cleared(i).file_type = [f \in CFiles |-> 1003]
      /\ Cleared(i).combine = [f \in CFiles |-> 0]
  BY DEF Cleared, NoRow
<1> QED
  BY <1>2, <1>3, <1>4, <1>5 DEF Noted, Stamped

LEMMA NothingRead == \A got : ReadOf(got, 0) = {}
BY DEF ReadOf

LEMMA AllRead == \A got : ReadOf(got, Len(SysFiles)) = AllOf(got)
BY SysFacts DEF ReadOf, AllOf

LEMMA ReadNext ==
  ASSUME NEW got, NEW n \in 1 .. Len(SysFiles)
  PROVE  ReadOf(got, n) = IF got[SysFiles[n]] # -1 THEN ReadOf(got, n - 1) \cup {SysFiles[n]}
                          ELSE ReadOf(got, n - 1)
<1>1. \A m : m \in 1 .. n <=> m \in 1 .. n - 1 \/ m = n
  BY SysFacts
<1>2. SysFiles[n] \in CFiles
  BY SysFacts
<1> QED
  BY <1>1, <1>2 DEF ReadOf

-----------------------------------------------------------------------------
LEMMA InitSys == SysInit => SysInv
<1> SUFFICES ASSUME SysInit PROVE SysInv
  OBVIOUS
<1> USE DEF SysInit
<1>1. /\ Slots \in Nat \ {0} /\ Slots \in 1 .. Slots /\ 0 \in 0 .. Slots
      /\ 1 \in 1 .. Len(SysFiles) + 1
  BY SysFacts
<1>2. /\ sample \in [1 .. Slots -> [CFiles -> Offsets \cup {-1}]] /\ reboot_times \subseteq Nat
      /\ spc = "pass1" /\ slot = Slots /\ nth = 1 /\ item = Cleared(Slots) /\ next_reboot = -1
      /\ line_float = [f \in CFiles |-> 0] /\ ctrl = [i \in 1 .. Slots |-> NoRow]
  BY SysAssumption
<1>3. Cleared(Slots) \in SysRows /\ NoRow \in SysRows /\ Noted(Cleared(Slots), Slots, {})
  BY <1>1, <1>2, ClearedRow
<1>4. SysTypeOK
  BY <1>1, <1>2, <1>3 DEF SysTypeOK
<1>5. NotedRows
  <2>1. ReadOf(sample[slot], nth - 1) = {}
    BY <1>2, NothingRead
  <2>2. Noted(item, slot, ReadOf(sample[slot], nth - 1))
    BY <1>2, <1>3, <2>1
  <2>3. \A i \in 1 .. Slots : ~(i > slot)
    BY <1>1, <1>2
  <2> QED
    BY <1>2, <2>2, <2>3 DEF NotedRows
<1> QED
  BY <1>2, <1>4, <1>5 DEF SysInv, FilledRows, RebootsAhead

(* Pass 1 goes on with the next file.                                        *)
LEMMA PassOne ==
  ASSUME SysInv, spc = "pass1", nth <= Len(SysFiles), nth' = nth + 1,
         UNCHANGED <<sysInput, spc, slot, ctrl>>,
         item' \in SysRows, line_float' \in [CFiles -> 0 .. Slots], next_reboot' = next_reboot,
         Noted(item', slot, ReadOf(sample[slot], nth))
  PROVE  SysInv'
<1> USE DEF sysInput, SysInv
<1>1. SysTypeOK' /\ nth' - 1 = nth
  BY SysFacts DEF SysTypeOK
<1>2. NotedRows'
  BY <1>1 DEF NotedRows
<1>3. FilledRows' /\ RebootsAhead'
  BY DEF FilledRows, RebootsAhead
<1> QED
  BY <1>1, <1>2, <1>3

LEMMA FileMissingSys == ASSUME SysInv, FileMissing PROVE SysInv'
<1>1. /\ spc = "pass1" /\ nth \in 1 .. Len(SysFiles) /\ sample[slot][SysFiles[nth]] = -1
      /\ slot \in 1 .. Slots
  BY SysFacts DEF SysInv, SysTypeOK, FileMissing, Present, File
<1>2. ReadOf(sample[slot], nth) = ReadOf(sample[slot], nth - 1)
  BY <1>1, ReadNext
<1>3. Noted(item', slot, ReadOf(sample[slot], nth))
  BY <1>1, <1>2 DEF SysInv, NotedRows, FileMissing
<1>4. item' \in SysRows /\ line_float' \in [CFiles -> 0 .. Slots]
  BY DEF FileMissing, SysInv, SysTypeOK
<1> QED
  BY <1>1, <1>3, <1>4, PassOne DEF FileMissing

LEMMA NotUnifiedSys == ASSUME SysInv, NotUnified PROVE SysInv'
<1> USE DEF NotUnified, SysInv, sysInput
<1>1. SysTypeOK'
  BY DEF SysTypeOK
<1>2. NotedRows' /\ FilledRows' /\ RebootsAhead'
  BY DEF NotedRows, FilledRows, RebootsAhead
<1> QED
  BY <1>1, <1>2

LEMMA ReadFileSys == ASSUME SysInv, ReadFile PROVE SysInv'
<1>1. /\ spc = "pass1" /\ nth \in 1 .. Len(SysFiles) /\ slot \in 1 .. Slots
      /\ File = SysFiles[nth] /\ File \in CFiles /\ Present(slot, File)
      /\ sample[slot][SysFiles[nth]] # -1 /\ SysTypeOK /\ Slots \in Nat
  BY SysFacts DEF SysInv, SysTypeOK, ReadFile, Present, File
<1> DEFINE before == ReadOf(sample[slot], nth - 1)
           after  == ReadOf(sample[slot], nth)
<1>2. after = before \cup {File}
  BY <1>1, ReadNext
<1>3. Noted(item, slot, before) /\ item \in SysRows
  BY <1>1 DEF SysInv, NotedRows, SysTypeOK
<1>4. Stamp(slot, File) \in Nat /\ InSlot(Stamp(slot, File), slot)
  BY <1>1, StampInSlot
<1>5. line_float' = [line_float EXCEPT ![File] = slot]
      /\ line_float' \in [CFiles -> 0 .. Slots] /\ line_float'[File] = slot
  BY <1>1 DEF ReadFile, SysTypeOK
<1> DEFINE combined == Combined(line_float')
<1>6. /\ combined \in [CFiles -> 0 .. Slots]
      /\ \A f \in CFiles \ FloatFiles : combined[f] = IF f \in after THEN slot ELSE 0
  <2>1. item.combine \in [CFiles -> 0 .. Slots]
    BY <1>3 DEF SysRows, Combines
  <2>2. \A f \in CFiles : combined[f] =
          IF item.combine[f] = 0 /\ (f \in FloatFiles \/ f = File) THEN line_float'[f]
          ELSE item.combine[f]
    BY DEF Combined
  <2>3. combined \in [CFiles -> 0 .. Slots]
    BY <2>1, <1>5 DEF Combined
  <2>4. \A f \in CFiles \ FloatFiles : item.combine[f] = IF f \in before THEN slot ELSE 0
    BY <1>3 DEF Noted, Stamped
  <2>5. ASSUME NEW f \in CFiles \ FloatFiles
        PROVE  combined[f] = IF f \in after THEN slot ELSE 0
    <3>1. combined[f] = IF item.combine[f] = 0 /\ f = File THEN line_float'[f]
                        ELSE item.combine[f]
      BY <2>2, <2>5
    <3>2. item.combine[f] = IF f \in before THEN slot ELSE 0
      BY <2>4, <2>5
    <3> HIDE DEF combined, before, after
    <3> QED
      BY <3>1, <3>2, <1>1, <1>2, <1>5
  <2> QED
    BY <2>3, <2>5
<1> HIDE DEF combined, before, after
<1>7. item' = [item EXCEPT !.record_type = 1001, !.collect_time = Stamp(slot, File),
                           !.file_type[File] = 1001, !.combine = combined]
  BY DEF ReadFile, combined
<1>8. /\ item' \in SysRows /\ item'.record_type = 1001
      /\ item'.collect_time = Stamp(slot, File) /\ item'.combine = combined
      /\ item'.file_type = [item.file_type EXCEPT ![File] = 1001]
      /\ item.file_type \in [CFiles -> {1001, 1003, 1004}]
  <2> DEFINE types == [item.file_type EXCEPT ![File] = 1001]
  <2>1. /\ item.file_type \in FileTypes /\ item.delta \in Deltas /\ item.collect_time \in Nat
    BY <1>3 DEF SysRows
  <2>2. item' = ReadRow(item, 1001, Stamp(slot, File), types, combined)
    BY <1>3, <1>7 DEF SysRows, ReadRow
  <2>3. types \in FileTypes /\ combined \in Combines /\ 1001 \in RowTypes
    BY <2>1, <1>1, <1>6 DEF FileTypes, Combines, RowTypes
  <2> HIDE DEF types
  <2>4. /\ item' \in SysRows /\ item'.record_type = 1001
        /\ item'.collect_time = Stamp(slot, File) /\ item'.combine = combined
        /\ item'.file_type = types
    BY <1>3, <1>4, <2>2, <2>3, RowRead
  <2> QED
    BY <2>1, <2>4 DEF types, FileTypes
<1>9. \A f \in CFiles : item'.file_type[f] = IF f \in after THEN 1001 ELSE 1003
  BY <1>1, <1>2, <1>3, <1>8 DEF Noted
<1>10. Noted(item', slot, after)
  BY <1>2, <1>4, <1>6, <1>8, <1>9 DEF Noted, Stamped
<1> QED
  BY <1>1, <1>5, <1>8, <1>10, PassOne DEF ReadFile, after

LEMMA SlotReadSys == ASSUME SysInv, SlotRead PROVE SysInv'
<1>1. /\ spc = "pass1" /\ nth = Len(SysFiles) + 1 /\ slot \in 1 .. Slots /\ SysTypeOK
      /\ ctrl' = [ctrl EXCEPT ![slot] = item] /\ nth' = 1
      /\ UNCHANGED <<sysInput, line_float>> /\ Slots \in Nat
      /\ sample \in [1 .. Slots -> [CFiles -> Offsets \cup {-1}]]
      /\ 1 \in 1 .. Len(SysFiles) + 1
  BY SysFacts DEF SysInv, SysTypeOK, SlotRead
<1>2. Noted(item, slot, AllOf(sample[slot])) /\ item \in SysRows
  <2>1. nth - 1 = Len(SysFiles)
    BY <1>1, SysFacts
  <2> QED
    BY <1>1, <2>1, AllRead DEF SysInv, NotedRows, SysTypeOK
<1>3. /\ ctrl' \in [1 .. Slots -> SysRows] /\ ctrl'[slot] = item
      /\ \A i \in 1 .. Slots : i # slot => ctrl'[i] = ctrl[i]
  BY <1>1, <1>2 DEF SysTypeOK
<1>4. \A i \in 1 .. Slots : i >= slot => Noted(ctrl'[i], i, AllOf(sample[i]))
  <2> SUFFICES ASSUME NEW i \in 1 .. Slots, i >= slot
               PROVE  Noted(ctrl'[i], i, AllOf(sample[i]))
    OBVIOUS
  <2>1. CASE i = slot
    BY <2>1, <1>2, <1>3
  <2>2. CASE i # slot
    <3>1. i > slot
      BY <2>2, <1>1
    <3> QED
      BY <3>1, <2>2, <1>1, <1>3 DEF SysInv, NotedRows
  <2> QED
    BY <2>1, <2>2
<1>5. UNCHANGED <<sample, reboot_times, line_float>>
  BY <1>1 DEF sysInput
<1>6. CASE slot > 1
  <2>1. /\ slot' = slot - 1 /\ item' = Cleared(slot - 1) /\ spc' = "pass1"
        /\ next_reboot' = next_reboot /\ slot - 1 \in 1 .. Slots
    BY <1>1, <1>6 DEF SlotRead
  <2>2. Cleared(slot - 1) \in SysRows /\ Noted(Cleared(slot - 1), slot - 1, {})
    BY <1>1, <2>1, ClearedRow
  <2>3. SysTypeOK'
    BY <1>1, <1>3, <1>5, <2>1, <2>2 DEF SysTypeOK
  <2>4. NotedRows'
    <3>1. Noted(item', slot', ReadOf(sample'[slot'], nth' - 1))
      <4>1. nth' - 1 = 0
        BY <1>1
      <4>2. ReadOf(sample'[slot'], nth' - 1) = {}
        BY <4>1, NothingRead
      <4> QED
        BY <4>2, <2>1, <2>2
    <3>2. \A i \in 1 .. Slots : i > slot' => i >= slot
      BY <1>1, <2>1
    <3> QED
      BY <2>1, <3>1, <3>2, <1>4, <1>5 DEF NotedRows
  <2> QED
    BY <2>1, <2>3, <2>4 DEF SysInv, FilledRows, RebootsAhead
<1>7. CASE ~(slot > 1)
  <2>1. slot = 1 /\ slot' = 1 /\ item' = item /\ spc' = "pass2" /\ next_reboot' \in FirstOf(reboot_times)
    BY <1>1, <1>7 DEF SlotRead
  <2>2. /\ next_reboot' \in Int
        /\ \A r \in reboot_times : ~(r < next_reboot')
    BY <1>1, <2>1 DEF FirstOf, SysTypeOK
  <2>3. SysTypeOK'
    BY <1>1, <1>2, <1>3, <1>5, <2>1, <2>2 DEF SysTypeOK
  <2>4. NotedRows'
    BY <2>1, <1>4, <1>5 DEF NotedRows
  <2>5. FilledRows'
    BY <2>1 DEF FilledRows
  <2>6. RebootsAhead'
    BY <2>2, <1>5 DEF RebootsAhead
  <2> QED
    BY <2>3, <2>4, <2>5, <2>6 DEF SysInv
<1> QED
  BY <1>6, <1>7

-----------------------------------------------------------------------------
(* The times of the rows grow with the slots.                                *)
LEMMA TimesGrow ==
  ASSUME SysTypeOK, NEW i \in 1 .. Slots, NEW t \in Nat, NEW u \in Nat,
         InSlot(t, i - 1), InSlot(u, i)
  PROVE  t < u
<1>1. i - 1 \in Nat /\ i = (i - 1) + 1
  BY SysFacts
<1>2. SlotTime(i - 1) \in Nat /\ SlotTime(i) = SlotTime(i - 1) + Step /\ Step \in Nat
  BY <1>1, SysSlotTimes
<1> QED
  BY <1>2 DEF InSlot

(* What pass 2 knows of the reboots: *j_element is the first reboot since the  *)
(* row before, if there is one.                                              *)
LEMMA Advanced ==
  ASSUME reboot_times \subseteq Nat, next_reboot \in Int, NEW since \in Nat, NEW time \in Nat,
         \A r \in reboot_times : r < next_reboot => r <= since,
         NEW next \in Advance(since)
  PROVE  /\ next \in Int
         /\ \A r \in reboot_times : r < next => r <= since
         /\ Rebooted(next, since, time) <=> \E r \in reboot_times : since < r /\ r <= time
<1> DEFINE coming == {r \in reboot_times : r >= next_reboot /\ r > since}
<1>1. \A r \in reboot_times : r \in Nat /\ (r > since => r \in coming)
  OBVIOUS
<1>2. CASE coming # {}
  <2>1. next \in coming /\ \A q \in coming : next <= q
    BY <1>2 DEF Advance, FirstOf
  <2>2. next \in reboot_times /\ next \in Nat /\ next > since
    BY <2>1
  <2>3. \A r \in reboot_times : r > since => next <= r
    BY <1>1, <2>1
  <2> HIDE DEF coming
  <2> QED
    BY <1>1, <2>2, <2>3 DEF Rebooted
<1>3. CASE coming = {}
  <2>1. next \in reboot_times \cup {-1}
    BY <1>3 DEF Advance
  <2>2. \A r \in reboot_times : ~(r > since)
    BY <1>1, <1>3
  <2> HIDE DEF coming
  <2>3. next \in Int /\ ~(next > since)
    BY <1>1, <2>1, <2>2
  <2> QED
    BY <1>1, <2>2, <2>3 DEF Rebooted
<1> QED
  BY <1>2, <1>3

-----------------------------------------------------------------------------
(* Pass 2.                                                                   *)
LEMMA SubtractedRow ==
  ASSUME NEW row \in SysRows, NEW previous \in SysRows,
         NEW new, new = Subtracted(row, previous)
  PROVE  /\ new \in SysRows /\ new.collect_time = row.collect_time
         /\ new.record_type = row.record_type /\ new.combine = row.combine
         /\ \A f \in CFiles :
              /\ new.file_type[f] = IF row.file_type[f] = 1001 /\ previous.file_type[f] = 1003
                                    THEN 1004 ELSE row.file_type[f]
              /\ row.file_type[f] = 1001 /\ previous.file_type[f] # 1003 =>
                   new.delta[f] = <<previous.combine[f], row.combine[f]>>
<1> DEFINE types == [f \in CFiles |->
                       IF row.file_type[f] = 1001 /\ previous.file_type[f] = 1003 THEN 1004
                       ELSE row.file_type[f]]
           deltas == [f \in CFiles |->
                       IF row.file_type[f] = 1001 /\ ~(previous.file_type[f] = 1003)
                       THEN <<previous.combine[f], row.combine[f]>> ELSE <<0, 0>>]
<1>1. new = [row EXCEPT !.file_type = types, !.delta = deltas]
  BY DEF Subtracted
<1>2. row.file_type \in FileTypes /\ row.combine \in Combines /\ previous.combine \in Combines
  BY RowFields
<1>3. types \in FileTypes
  BY <1>2 DEF FileTypes
<1>4. deltas \in Deltas
  BY <1>2, SysFacts DEF Combines, Deltas
<1>5. \A f \in CFiles :
        /\ types[f] = IF row.file_type[f] = 1001 /\ previous.file_type[f] = 1003
                      THEN 1004 ELSE row.file_type[f]
        /\ row.file_type[f] = 1001 /\ previous.file_type[f] # 1003 =>
             deltas[f] = <<previous.combine[f], row.combine[f]>>
  OBVIOUS
<1> HIDE DEF types, deltas
<1>6. /\ new \in SysRows /\ new.collect_time = row.collect_time
      /\ new.record_type = row.record_type /\ new.file_type = types
      /\ new.combine = row.combine /\ new.delta = deltas
  <2>1. new = NewDeltas(row, types, deltas)
    BY <1>1 DEF NewDeltas
  <2> QED
    BY <1>3, <1>4, <2>1, RowDeltas
<1> QED
  BY <1>5, <1>6

(* The time of a row, and what it was read from, do not change in pass 2.    *)
LEMMA TypedRow ==
  ASSUME SysInv, spc = "pass2", NEW reboot, NEW new, new = Typed(ctrl[slot], Previous, reboot)
  PROVE  /\ new \in SysRows /\ new.collect_time = ctrl[slot].collect_time
         /\ Stamped(new, slot, AllOf(sample[slot])) /\ new.combine = ctrl[slot].combine
<1> DEFINE row == ctrl[slot]
<1>1. row \in SysRows /\ slot \in 1 .. Slots /\ slot >= slot /\ Slots \in Nat
  BY SysFacts DEF SysInv, SysTypeOK
<1>2. Noted(row, slot, AllOf(sample[slot]))
  BY <1>1 DEF SysInv, NotedRows
<1>3. new \in SysRows /\ new.collect_time = row.collect_time /\ new.combine = row.combine
  <2> HIDE DEF row
  <2>1. CASE Rebooted(reboot, Previous.collect_time, row.collect_time)
    <3>1. new = [row EXCEPT !.record_type = 1005] /\ 1005 \in RowTypes
      BY <2>1 DEF Typed, row, RowTypes
    <3> QED
      BY <3>1, <1>1, RowRetyped
  <2>2. CASE ~Rebooted(reboot, Previous.collect_time, row.collect_time) /\ row.record_type # 1001
    <3>1. new = row
      BY <2>2 DEF Typed, row
    <3> QED
      BY <3>1, <1>1
  <2>3. CASE /\ ~Rebooted(reboot, Previous.collect_time, row.collect_time)
             /\ row.record_type = 1001 /\ Previous.record_type \in {1002, 1003}
    <3>1. new = [row EXCEPT !.record_type = 1004] /\ 1004 \in RowTypes
      BY <2>3 DEF Typed, row, RowTypes
    <3> QED
      BY <3>1, <1>1, RowRetyped
  <2>4. CASE /\ ~Rebooted(reboot, Previous.collect_time, row.collect_time)
             /\ row.record_type = 1001 /\ Previous.record_type \notin {1002, 1003}
    <3>1. new = Subtracted(row, Previous)
      BY <2>4 DEF Typed, row
    <3>2. slot # 1
      BY <2>4 DEF Previous, NoRow
    <3>3. Previous \in SysRows
      BY <3>2, <1>1 DEF Previous, SysInv, SysTypeOK
    <3> QED
      BY <3>1, <3>3, <1>1, SubtractedRow
  <2> QED
    BY <2>1, <2>2, <2>3, <2>4
<1> QED
  BY <1>2, <1>3 DEF Noted, Stamped

LEMMA PreviousTime ==
  ASSUME SysInv, spc = "pass2"
  PROVE  /\ Previous.collect_time = TimeOf(slot - 1) /\ TimeOf(slot - 1) \in Nat
         /\ InSlot(TimeOf(slot - 1), slot - 1)
         /\ ctrl[slot].collect_time \in Nat /\ TimeOf(slot - 1) <= ctrl[slot].collect_time
         /\ ctrl[slot].collect_time = TimeOf(slot)
<1>1. /\ slot \in 1 .. Slots /\ Slots \in Nat /\ ctrl \in [1 .. Slots -> SysRows] /\ SysTypeOK
      /\ sample \in [1 .. Slots -> [CFiles -> Offsets \cup {-1}]] /\ slot >= slot
  BY SysFacts DEF SysInv, SysTypeOK
<1>2. ctrl[slot].collect_time \in Nat /\ InSlot(ctrl[slot].collect_time, slot)
  BY <1>1, RowFields DEF SysInv, NotedRows, Noted, Stamped
<1>3. CASE slot = 1
  <2>1. 0 \in 0 .. Slots /\ slot - 1 = 0
    BY <1>1, <1>3
  <2>2. SlotPoint(0) \in Nat /\ InSlot(SlotPoint(0), 0)
    BY <1>1, <2>1, PointInSlot
  <2>3. Previous.collect_time = SlotPoint(0) /\ TimeOf(slot - 1) = SlotPoint(0)
    BY <1>3, <2>1 DEF Previous, TimeOf, NoRow
  <2>4. TimeOf(slot - 1) < ctrl[slot].collect_time
    BY <1>1, <1>2, <2>1, <2>2, <2>3, TimesGrow
  <2> QED
    BY <1>1, <1>2, <2>1, <2>2, <2>3, <2>4 DEF TimeOf
<1>4. CASE slot # 1
  <2>1. slot - 1 \in 1 .. Slots /\ slot - 1 # 0 /\ slot - 1 < slot /\ slot # 0
    BY <1>1, <1>4
  <2>2. FilledRow(ctrl, sample, reboot_times, TimeOf(slot - 1 - 1), slot - 1)
    BY <2>1 DEF SysInv, FilledRows
  <2>3. InSlot(ctrl[slot - 1].collect_time, slot - 1) /\ ctrl[slot - 1].collect_time \in Nat
    BY <1>1, <2>1, <2>2, RowFields DEF FilledRow, Stamped
  <2>4. Previous.collect_time = ctrl[slot - 1].collect_time
        /\ TimeOf(slot - 1) = ctrl[slot - 1].collect_time /\ TimeOf(slot) = ctrl[slot].collect_time
    BY <1>4, <2>1 DEF Previous, TimeOf
  <2>5. TimeOf(slot - 1) < ctrl[slot].collect_time
    BY <1>1, <1>2, <2>3, <2>4, TimesGrow
  <2> QED
    BY <1>2, <2>3, <2>4, <2>5
<1> QED
  BY <1>3, <1>4

(* The row that pass 2 has come to is filled as it should be.                *)
LEMMA RowFilled ==
  ASSUME SysInv, spc = "pass2", NEW reboot, NEW rows \in [1 .. Slots -> SysRows],
         rows[slot] = Typed(ctrl[slot], Previous, reboot),
         \A i \in 1 .. Slots : i # slot => rows[i] = ctrl[i],
         Rebooted(reboot, Previous.collect_time, ctrl[slot].collect_time)
           <=> \E r \in reboot_times : TimeOf(slot - 1) < r /\ r <= ctrl[slot].collect_time
  PROVE  FilledRow(rows, sample, reboot_times, TimeOf(slot - 1), slot)
<1> DEFINE row == ctrl[slot]
           new == rows[slot]
           restart == \E r \in reboot_times : TimeOf(slot - 1) < r /\ r <= new.collect_time
           read == AllOf(sample[slot])
<1>1. row \in SysRows /\ slot \in 1 .. Slots /\ slot >= slot /\ Slots \in Nat
  BY SysFacts DEF SysInv, SysTypeOK
<1>2. Noted(row, slot, read)
  BY <1>1 DEF SysInv, NotedRows
<1>3. /\ new \in SysRows /\ new.collect_time = row.collect_time
      /\ Stamped(new, slot, read) /\ new.combine = row.combine
  BY TypedRow
<1>4. restart <=> Rebooted(reboot, Previous.collect_time, row.collect_time)
  BY <1>3
<1>5. /\ \A f \in CFiles : f \in read <=> sample[slot][f] # -1
      /\ \A f \in CFiles : row.file_type[f] = IF f \in read THEN 1001 ELSE 1003
      /\ row.record_type = IF read = {} THEN 1003 ELSE 1001
  BY <1>2 DEF AllOf, Noted
<1>6. CASE restart
  <2>1. new = [row EXCEPT !.record_type = 1005]
    BY <1>4, <1>6 DEF Typed
  <2>2. 1005 \in RowTypes
    BY DEF RowTypes
  <2>3. new.record_type = 1005 /\ new.file_type = row.file_type
    BY <2>1, <2>2, <1>1, RowRetyped
  <2> QED
    BY <2>3, <1>3, <1>5, <1>6 DEF FilledRow
<1>7. CASE ~restart /\ row.record_type # 1001
  <2>1. new = row
    BY <1>4, <1>7 DEF Typed
  <2>2. new.record_type = 1003 /\ read = {}
    BY <2>1, <1>5, <1>7
  <2> QED
    BY <2>1, <2>2, <1>3, <1>5, <1>7 DEF FilledRow
<1>8. CASE ~restart /\ row.record_type = 1001 /\ Previous.record_type \in {1002, 1003}
  <2>1. new = [row EXCEPT !.record_type = 1004]
    BY <1>4, <1>8 DEF Typed
  <2>2. 1004 \in RowTypes
    BY DEF RowTypes
  <2>3. new.record_type = 1004 /\ new.file_type = row.file_type
    BY <2>1, <2>2, <1>1, RowRetyped
  <2>4. slot = 1 \/ rows[slot - 1].record_type = 1003
    <3>1. SUFFICES ASSUME slot # 1 PROVE rows[slot - 1].record_type = 1003
      OBVIOUS
    <3>2. /\ slot - 1 \in 1 .. Slots /\ slot - 1 # slot /\ Previous = ctrl[slot - 1]
          /\ rows[slot - 1] = ctrl[slot - 1]
      BY <3>1, <1>1 DEF Previous
    <3>3. ctrl[slot - 1] \in SysRows
      BY <3>2 DEF SysInv, SysTypeOK
    <3>4. ctrl[slot - 1].record_type \in RowTypes
      BY <3>3, RowFields
    <3> QED
      BY <3>2, <3>4, <1>8 DEF RowTypes
  <2>5. \E f \in CFiles : sample[slot][f] # -1
    BY <1>5, <1>8 DEF AllOf
  <2> QED
    BY <2>3, <2>4, <2>5, <1>3, <1>5, <1>8 DEF FilledRow
<1>9. CASE ~restart /\ row.record_type = 1001 /\ Previous.record_type \notin {1002, 1003}
  <2>1. new = Subtracted(row, Previous)
    BY <1>4, <1>9 DEF Typed
  <2>2. slot # 1
    BY <1>9 DEF Previous, NoRow
  <2>3. /\ slot - 1 \in 1 .. Slots /\ slot - 1 < slot /\ Previous = ctrl[slot - 1] /\ slot > 1
        /\ rows[slot - 1] = ctrl[slot - 1] /\ Previous \in SysRows
    BY <2>2, <1>1 DEF Previous, SysInv, SysTypeOK
  <2>4. /\ new.record_type = 1001
        /\ \A f \in CFiles :
             /\ new.file_type[f] = IF row.file_type[f] = 1001 /\ Previous.file_type[f] = 1003
                                   THEN 1004 ELSE row.file_type[f]
             /\ row.file_type[f] = 1001 /\ Previous.file_type[f] # 1003 =>
                  new.delta[f] = <<Previous.combine[f], row.combine[f]>>
    <3>1. row.record_type = 1001
      BY <1>9
    <3> HIDE DEF row, new
    <3>2. row \in SysRows /\ Previous \in SysRows
      BY <2>3, <1>1
    <3>3. /\ new.record_type = row.record_type
          /\ \A f \in CFiles :
               /\ new.file_type[f] = IF row.file_type[f] = 1001 /\ Previous.file_type[f] = 1003
                                     THEN 1004 ELSE row.file_type[f]
               /\ row.file_type[f] = 1001 /\ Previous.file_type[f] # 1003 =>
                    new.delta[f] = <<Previous.combine[f], row.combine[f]>>
      BY ONLY <2>1, <3>2, SubtractedRow
    <3> QED
      BY <3>1, <3>3
  <2>5. \A f \in CFiles : Previous.file_type[f] = 1003 <=> sample[slot - 1][f] = -1
    BY <2>3 DEF SysInv, FilledRows, FilledRow
  <2>6. \A f \in CFiles :
          /\ new.file_type[f] = 1003 <=> sample[slot][f] = -1
          /\ new.file_type[f] = 1001 <=> sample[slot][f] # -1 /\ sample[slot - 1][f] # -1
          /\ new.file_type[f] = 1001 =>
               new.delta[f] = <<rows[slot - 1].combine[f], new.combine[f]>>
    BY <2>3, <2>4, <2>5, <1>3, <1>5
  <2>7. \E f \in CFiles : sample[slot][f] # -1
    BY <1>5, <1>9 DEF AllOf
  <2>8. rows[slot - 1].record_type # 1003
    BY <2>3, <1>9
  <2> HIDE DEF new
  <2> QED
    BY <2>3, <2>4, <2>6, <2>7, <2>8, <1>3, <1>9 DEF FilledRow, new
<1> QED
  BY <1>6, <1>7, <1>8, <1>9

LEMMA FillRowSys == ASSUME SysInv, FillRow PROVE SysInv'
<1>1. /\ spc = "pass2" /\ slot \in 1 .. Slots /\ Slots \in Nat /\ SysTypeOK
      /\ next_reboot' \in Advance(Previous.collect_time)
      /\ ctrl' = [ctrl EXCEPT ![slot] = Typed(ctrl[slot], Previous, next_reboot')]
      /\ UNCHANGED <<sample, reboot_times, nth, item, line_float>>
      /\ reboot_times \subseteq Nat /\ next_reboot \in Int
  BY SysFacts DEF FillRow, SysInv, SysTypeOK, sysInput
<1>2. /\ Previous.collect_time = TimeOf(slot - 1) /\ TimeOf(slot - 1) \in Nat
      /\ ctrl[slot].collect_time \in Nat /\ TimeOf(slot - 1) <= ctrl[slot].collect_time
      /\ ctrl[slot].collect_time = TimeOf(slot)
  BY <1>1, PreviousTime
<1>3. /\ next_reboot' \in Int
      /\ \A r \in reboot_times : r < next_reboot' => r <= TimeOf(slot - 1)
      /\ Rebooted(next_reboot', TimeOf(slot - 1), ctrl[slot].collect_time)
           <=> \E r \in reboot_times : TimeOf(slot - 1) < r /\ r <= ctrl[slot].collect_time
  <2>1. \A r \in reboot_times : r < next_reboot => r <= TimeOf(slot - 1)
    BY <1>1 DEF SysInv, RebootsAhead
  <2>2. next_reboot' \in Advance(TimeOf(slot - 1))
    BY <1>1, <1>2
  <2> QED
    BY <1>1, <1>2, <2>1, <2>2, Advanced
<1>4. /\ ctrl' \in [1 .. Slots -> SysRows]
      /\ ctrl'[slot] = Typed(ctrl[slot], Previous, next_reboot')
      /\ \A i \in 1 .. Slots : i # slot => ctrl'[i] = ctrl[i]
      /\ ctrl'[slot].collect_time = ctrl[slot].collect_time
  <2>1. /\ Typed(ctrl[slot], Previous, next_reboot') \in SysRows
        /\ Typed(ctrl[slot], Previous, next_reboot').collect_time = ctrl[slot].collect_time
    BY <1>1, TypedRow
  <2> QED
    BY <1>1, <2>1 DEF SysTypeOK
<1>5. \A i \in 0 .. Slots : TimeOf(i)' = TimeOf(i)
  BY <1>1, <1>4 DEF TimeOf, SlotPoint, Present
<1>6. FilledRow(ctrl', sample, reboot_times, TimeOf(slot - 1), slot)
  BY <1>1, <1>2, <1>3, <1>4, RowFilled
<1>7. ASSUME NEW i \in 1 .. Slots, i <= slot
      PROVE  FilledRow(ctrl', sample, reboot_times, TimeOf(i - 1), i)
  <2>1. CASE i = slot
    BY <1>6, <2>1
  <2>2. CASE i # slot
    <3>1. i < slot /\ ctrl'[i] = ctrl[i]
      BY <1>1, <1>4, <1>7, <2>2
    <3>2. FilledRow(ctrl, sample, reboot_times, TimeOf(i - 1), i)
      BY <1>1, <3>1 DEF SysInv, FilledRows
    <3>3. i > 1 => ctrl'[i - 1] = ctrl[i - 1]
      <4>1. i > 1 => i - 1 \in 1 .. Slots /\ i - 1 # slot
        BY <1>1, <3>1
      <4> QED
        BY <4>1, <1>4
    <3> QED
      BY <3>1, <3>2, <3>3 DEF FilledRow
  <2> QED
    BY <2>1, <2>2
<1>8. \/ spc' = "pass2" /\ slot' = slot + 1 /\ slot < Slots
      \/ spc' = "shown" /\ slot' = slot /\ slot = Slots
  BY <1>1 DEF FillRow
<1>9. SysTypeOK'
  BY <1>1, <1>3, <1>4, <1>8 DEF SysTypeOK
<1>10. NotedRows'
  <2>1. ASSUME NEW i \in 1 .. Slots, spc' = "pass2", i >= slot'
        PROVE  Noted(ctrl'[i], i, AllOf(sample[i]))
    <3>1. i >= slot /\ i # slot
      BY <1>1, <1>8, <2>1
    <3> QED
      BY <3>1, <1>1, <1>4 DEF SysInv, NotedRows
  <2> QED
    BY <2>1, <1>1, <1>8 DEF NotedRows
<1>11. FilledRows'
  <2>1. ASSUME NEW i \in 1 .. Slots, spc' = "shown" \/ i < slot'
        PROVE  FilledRow(ctrl', sample, reboot_times, TimeOf(i - 1)', i)
    <3>1. i <= slot /\ i - 1 \in 0 .. Slots
      BY <1>1, <1>8, <2>1
    <3> QED
      BY <3>1, <1>5, <1>7
  <2> QED
    BY <2>1, <1>1 DEF FilledRows
<1>12. RebootsAhead'
  <2>1. SUFFICES ASSUME spc' = "pass2", NEW r \in reboot_times, r < next_reboot'
                 PROVE  r <= TimeOf(slot - 1)'
    BY <1>1 DEF RebootsAhead
  <2>2. slot' - 1 = slot /\ slot \in 0 .. Slots /\ r \in Nat
    BY <1>1, <1>8, <2>1
  <2>3. r <= TimeOf(slot - 1)
    BY <1>3, <2>1
  <2>4. r <= TimeOf(slot)
    BY <1>2, <2>2, <2>3
  <2>5. TimeOf(slot - 1)' = IF slot' - 1 = 0 THEN SlotPoint(0)' ELSE ctrl'[slot' - 1].collect_time
    BY DEF TimeOf
  <2>6. TimeOf(slot - 1)' = ctrl'[slot].collect_time
    BY <2>2, <2>5, <1>1
  <2> QED
    BY <2>4, <2>6, <1>2, <1>4
<1> QED
  BY <1>9, <1>10, <1>11, <1>12 DEF SysInv

LEMMA StutterSys == ASSUME SysInv, UNCHANGED sysVars PROVE SysInv'
<1> USE DEF sysVars, sysInput, SysInv
<1>1. SysTypeOK' /\ NotedRows'
  BY DEF SysTypeOK, NotedRows
<1>2. \A i : TimeOf(i)' = TimeOf(i)
  BY DEF TimeOf, SlotPoint, Present
<1>3. FilledRows' /\ RebootsAhead'
  BY <1>2 DEF FilledRows, RebootsAhead
<1> QED
  BY <1>1, <1>3
LEMMA NextSys == SysInv /\ [SysNext]_sysVars => SysInv'
<1> SUFFICES ASSUME SysInv, [SysNext]_sysVars PROVE SysInv'
  OBVIOUS
<1>1. CASE FileMissing
  BY <1>1, FileMissingSys
<1>2. CASE NotUnified
  BY <1>2, NotUnifiedSys
<1>3. CASE ReadFile
  BY <1>3, ReadFileSys
<1>4. CASE SlotRead
  BY <1>4, SlotReadSys
<1>5. CASE FillRow
  BY <1>5, FillRowSys
<1>6. CASE UNCHANGED sysVars
  BY <1>6, StutterSys
<1> QED
  BY <1>1, <1>2, <1>3, <1>4, <1>5, <1>6 DEF SysNext

(* A note of pass 1 says which files its slot has and when they were written, *)
(* a row that pass 2 has filled compares with the row before, and *j_element  *)
(* never skips a reboot that a later row needs.                              *)
THEOREM SysInvariant == SysSpec => []SysInv
BY InitSys, NextSys, PTL DEF SysSpec

-----------------------------------------------------------------------------
(* The rows that are shown.                                                  *)
LEMMA ShownRow ==
  ASSUME SysInv, spc = "shown", NEW i \in 1 .. Slots, NEW f \in CFiles
  PROVE  /\ FilledRow(ctrl, sample, reboot_times, TimeOf(i - 1), i)
         /\ ctrl[i].record_type \in RowTypes
         /\ ctrl[i].record_type = 1005 <=> RestartIn(i)
         /\ ctrl[i].file_type[f] \in {1001, 1003, 1004}
         /\ ctrl[i].file_type[f] = 1003 <=> ~Present(i, f)
         /\ ctrl[i].combine[f] \in 0 .. Slots
         /\ ctrl[i].delta[f] \in (0 .. Slots) \X (0 .. Slots)
<1>1. FilledRow(ctrl, sample, reboot_times, TimeOf(i - 1), i)
  BY DEF SysInv, FilledRows
<1>2. i # 0 /\ TimeOf(i) = ctrl[i].collect_time
  BY SysFacts DEF TimeOf
<1>3. ctrl[i].record_type = 1005 <=> RestartIn(i)
  BY <1>1, <1>2 DEF FilledRow, RestartIn
<1>4. ctrl[i] \in SysRows
  BY DEF SysInv, SysTypeOK
<1>5. /\ ctrl[i].record_type \in RowTypes /\ ctrl[i].file_type \in FileTypes
      /\ ctrl[i].combine \in Combines /\ ctrl[i].delta \in Deltas
  BY <1>4, RowFields
<1>6. ctrl[i].file_type[f] \in {1001, 1003, 1004}
  BY <1>5 DEF FileTypes
<1>7. ctrl[i].combine[f] \in 0 .. Slots /\ ctrl[i].delta[f] \in (0 .. Slots) \X (0 .. Slots)
  BY <1>5 DEF Combines, Deltas
<1>8. ctrl[i].file_type[f] = 1003 <=> ~Present(i, f)
  BY <1>1 DEF FilledRow, Present
<1> QED
  BY <1>1, <1>3, <1>5, <1>6, <1>7, <1>8

(* No reading and no difference of two readings looks like a star or a dash. *)
LEMMA Cells ==
  /\ \A c \in 0 .. Slots : <<c>> # Star /\ <<c>> # Dash
  /\ \A d \in (0 .. Slots) \X (0 .. Slots) : d # Star /\ d # Dash
  /\ Star # Dash
<1>1. ASSUME NEW c \in 0 .. Slots PROVE <<c>> # Star /\ <<c>> # Dash
  <2>1. Len(<<c>>) = 1 /\ Len(<<>>) = 0 /\ <<c>>[1] = c /\ <<-1>>[1] = -1 /\ c # -1
    BY SysFacts
  <2> QED
    BY <2>1 DEF Star, Dash
<1>2. ASSUME NEW d \in (0 .. Slots) \X (0 .. Slots) PROVE d # Star /\ d # Dash
  <2>1. PICK a \in 0 .. Slots, b \in 0 .. Slots : d = <<a, b>>
    OBVIOUS
  <2>2. Len(<<a, b>>) = 2 /\ Len(<<>>) = 0 /\ Len(<<-1>>) = 1
    OBVIOUS
  <2> QED
    BY <2>1, <2>2 DEF Star, Dash
<1>3. Star # Dash
  BY DEF Star, Dash
<1> QED
  BY <1>1, <1>2, <1>3

LEMMA StarsOfReport == SysInv => StarMeansRestart
<1> SUFFICES ASSUME SysInv, spc = "shown", NEW i \in 1 .. Slots, NEW f \in CFiles
             PROVE  /\ Cumulative(i, f) = Star <=> RestartIn(i)
                    /\ Difference(i, f) = Star <=> RestartIn(i)
  BY DEF StarMeansRestart
<1>1. /\ ctrl[i].record_type \in {1001, 1003, 1004, 1005}
      /\ ctrl[i].record_type = 1005 <=> RestartIn(i)
      /\ ctrl[i].file_type[f] \in {1001, 1003, 1004}
      /\ <<ctrl[i].combine[f]>> # Star /\ ctrl[i].delta[f] # Star /\ Dash # Star
  BY ShownRow, Cells DEF RowTypes
<1>2. Cumulative(i, f) = Star <=> ctrl[i].record_type = 1005
  BY <1>1 DEF Cumulative
<1>3. Difference(i, f) = Star <=> ctrl[i].record_type = 1005
  BY <1>1 DEF Difference
<1> QED
  BY <1>1, <1>2, <1>3

(* The first row after a gap is the one of type 1004.                         *)
LEMMA StartingRow ==
  ASSUME SysInv, spc = "shown", NEW i \in 1 .. Slots, ~RestartIn(i)
  PROVE  ctrl[i].record_type = 1004 <=> StartsAgain(i)
<1>1. /\ FilledRow(ctrl, sample, reboot_times, TimeOf(i - 1), i)
      /\ ctrl[i].record_type \in {1001, 1003, 1004}
  BY ShownRow, SysFacts DEF RowTypes
<1>2. ctrl[i].record_type = 1003 => \A f \in CFiles : ~Present(i, f)
  BY <1>1 DEF FilledRow, Present
<1>3. ctrl[i].record_type # 1003 => \E f \in CFiles : Present(i, f)
  BY <1>1 DEF FilledRow, Present
<1>4. CASE i = 1
  BY <1>1, <1>2, <1>3, <1>4 DEF FilledRow, StartsAgain
<1>5. CASE i # 1
  <2>1. i - 1 \in 1 .. Slots
    BY <1>5, SysFacts
  <2>2. /\ FilledRow(ctrl, sample, reboot_times, TimeOf(i - 1 - 1), i - 1)
        /\ ctrl[i - 1].record_type \in {1001, 1003, 1004, 1005}
        /\ ctrl[i - 1].record_type = 1005 <=> RestartIn(i - 1)
    BY <2>1, ShownRow, SysFacts DEF RowTypes
  <2>3. ctrl[i - 1].record_type = 1003 => \A f \in CFiles : ~Present(i - 1, f)
    BY <2>2 DEF FilledRow, Present
  <2>4. ctrl[i - 1].record_type \in {1001, 1004} => \E f \in CFiles : Present(i - 1, f)
    BY <2>2 DEF FilledRow, Present
  <2>5. ctrl[i - 1].record_type = 1003
          <=> (\A f \in CFiles : ~Present(i - 1, f)) /\ ~RestartIn(i - 1)
    BY <2>2, <2>3, <2>4
  <2>6. /\ ctrl[i].record_type = 1004 => ctrl[i - 1].record_type = 1003
        /\ ctrl[i].record_type = 1001 => ctrl[i - 1].record_type # 1003
    BY <1>1, <1>5 DEF FilledRow
  <2> QED
    BY <1>1, <1>2, <1>3, <1>5, <2>5, <2>6 DEF StartsAgain
<1> QED
  BY <1>4, <1>5

LEMMA DashesOfReport == SysInv => DashMeansMissing
<1> SUFFICES ASSUME SysInv, spc = "shown", NEW i \in 1 .. Slots, NEW f \in CFiles, ~RestartIn(i)
             PROVE  /\ Cumulative(i, f) = Dash <=> ~Present(i, f) /\ ~StartsAgain(i)
                    /\ Difference(i, f) = Dash
                         <=> (i = 1 \/ ~Present(i, f) \/ ~Present(i - 1, f))
  BY DEF DashMeansMissing
<1>1. /\ FilledRow(ctrl, sample, reboot_times, TimeOf(i - 1), i)
      /\ ctrl[i].record_type \in {1001, 1003, 1004}
      /\ ctrl[i].file_type[f] \in {1001, 1003, 1004}
      /\ ctrl[i].file_type[f] = 1003 <=> ~Present(i, f)
      /\ <<ctrl[i].combine[f]>> # Dash /\ ctrl[i].delta[f] # Dash
  BY ShownRow, Cells DEF RowTypes
<1>2. ctrl[i].record_type = 1003 => ~Present(i, f)
  BY <1>1 DEF FilledRow, Present
<1>3. ctrl[i].record_type = 1004 <=> StartsAgain(i)
  BY StartingRow
<1>4. StartsAgain(i) => i = 1 \/ ~Present(i - 1, f)
  BY DEF StartsAgain
<1>5. ctrl[i].record_type = 1001 =>
        i # 1 /\ (ctrl[i].file_type[f] = 1001 <=> Present(i, f) /\ Present(i - 1, f))
  BY <1>1, SysFacts DEF FilledRow, Present
<1>6. Cumulative(i, f) = Dash
        <=> ctrl[i].record_type = 1003 \/ (ctrl[i].record_type = 1001 /\ ctrl[i].file_type[f] = 1003)
  BY <1>1 DEF Cumulative
<1>7. Difference(i, f) = Dash <=> ~(ctrl[i].record_type = 1001 /\ ctrl[i].file_type[f] = 1001)
  BY <1>1 DEF Difference
<1> QED
  BY <1>1, <1>2, <1>3, <1>4, <1>5, <1>6, <1>7

LEMMA ReadingsOfReport == SysInv => OwnReadingOf(CFiles \ FloatFiles)
<1> SUFFICES ASSUME SysInv, spc = "shown", NEW i \in 1 .. Slots, NEW f \in CFiles \ FloatFiles
             PROVE  /\ \/ Cumulative(i, f) \in {Star, Dash}
                       \/ Present(i, f) /\ Cumulative(i, f) = <<i>>
                       \/ ~Present(i, f) /\ StartsAgain(i) /\ Cumulative(i, f) = <<0>>
                    /\ Difference(i, f) \in {Star, Dash, <<i - 1, i>>}
  BY DEF OwnReadingOf
<1>1. FilledRow(ctrl, sample, reboot_times, TimeOf(i - 1), i)
  BY ShownRow
<1>2. ASSUME NEW j \in 1 .. Slots
      PROVE  ctrl[j].combine[f] = IF Present(j, f) THEN j ELSE 0
  <2>1. Stamped(ctrl[j], j, AllOf(sample[j]))
    BY ShownRow DEF FilledRow
  <2> QED
    BY <2>1 DEF Stamped, AllOf, Present
<1>3. /\ ctrl[i].record_type \in RowTypes /\ ctrl[i].file_type[f] \in {1001, 1003, 1004}
      /\ ctrl[i].record_type = 1005 <=> RestartIn(i)
  BY ShownRow
<1>4. \/ Cumulative(i, f) \in {Star, Dash}
      \/ Present(i, f) /\ Cumulative(i, f) = <<i>>
      \/ ~Present(i, f) /\ StartsAgain(i) /\ Cumulative(i, f) = <<0>>
  <2>1. CASE RestartIn(i)
    BY <1>3, <2>1 DEF Cumulative
  <2>2. CASE ~RestartIn(i) /\ Cumulative(i, f) = Dash
    BY <2>2
  <2>3. CASE ~RestartIn(i) /\ Cumulative(i, f) # Dash
    <3>1. Cumulative(i, f) = <<ctrl[i].combine[f]>>
      BY <1>3, <2>3 DEF Cumulative, RowTypes
    <3>2. Present(i, f) \/ StartsAgain(i)
      BY <2>3, DashesOfReport DEF DashMeansMissing
    <3> QED
      BY <1>2, <3>1, <3>2
  <2> QED
    BY <2>1, <2>2, <2>3
<1>5. ASSUME ctrl[i].record_type = 1001, ctrl[i].file_type[f] = 1001
      PROVE  ctrl[i].delta[f] = <<i - 1, i>>
  <2>1. /\ i > 1 /\ Present(i, f) /\ Present(i - 1, f)
        /\ ctrl[i].delta[f] = <<ctrl[i - 1].combine[f], ctrl[i].combine[f]>>
    BY <1>1, <1>5 DEF FilledRow, Present
  <2>2. i - 1 \in 1 .. Slots
    BY <2>1, SysFacts
  <2>3. ctrl[i - 1].combine[f] = i - 1 /\ ctrl[i].combine[f] = i
    BY <1>2, <2>1, <2>2
  <2> QED
    BY <2>1, <2>3
<1>6. Difference(i, f) \in {Star, Dash, <<i - 1, i>>}
  <2>1. CASE ctrl[i].record_type = 1005
    BY <2>1 DEF Difference
  <2>2. CASE ctrl[i].record_type = 1001 /\ ctrl[i].file_type[f] = 1001
    <3>1. Difference(i, f) = ctrl[i].delta[f]
      BY <2>2 DEF Difference
    <3>2. ctrl[i].delta[f] = <<i - 1, i>>
      BY <2>2, <1>5
    <3>3. Difference(i, f) = <<i - 1, i>>
      BY ONLY <3>1, <3>2
    <3> QED
      BY ONLY <3>3
  <2>3. CASE /\ ctrl[i].record_type # 1005
             /\ ~(ctrl[i].record_type = 1001 /\ ctrl[i].file_type[f] = 1001)
    <3>1. Difference(i, f) = Dash
      BY <2>3 DEF Difference
    <3> QED
      BY <3>1
  <2> QED
    BY <2>1, <2>2, <2>3
<1> QED
  BY <1>4, <1>6

(* A star is shown for exactly the rows since whose row before the machine    *)
(* was restarted, for any reboots, however many fall between two samples and  *)
(* whatever samples are missing.                                             *)
THEOREM StarsTrue == SysSpec => []StarMeansRestart
<1>1. SysInv => StarMeansRestart
  BY StarsOfReport
<1> QED
  BY <1>1, SysInvariant, PTL

(* Without a restart a dash is shown exactly for the missing files of rows    *)
(* that are not the first after a gap, and a difference is withheld exactly  *)
(* when one of its two readings is missing.                                  *)
THEOREM DashesTrue == SysSpec => []DashMeansMissing
<1>1. SysInv => DashMeansMissing
  BY DashesOfReport
<1> QED
  BY <1>1, SysInvariant, PTL

(* A reading of a file that is not of the type float or string is of its own  *)
(* row, and a difference is one of neighbours, whatever the other files are   *)
(* and whichever are missing: the map of integers is cleared for each file.  *)
(* 0 is shown for nothing but a file missing from the first row after a gap. *)
THEOREM IntegerReadings == SysSpec => []OwnReadingOf(CFiles \ FloatFiles)
<1>1. SysInv => OwnReadingOf(CFiles \ FloatFiles)
  BY ReadingsOfReport
<1> QED
  BY <1>1, SysInvariant, PTL

(* Without files of the type float or string every reading is of its own row. *)
(* With them it is not: those maps keep the readings of other rows.          *)
THEOREM OwnReadings ==
  ASSUME FloatFiles = {}
  PROVE  SysSpec => []OwnReading
<1>1. SysInv => OwnReading
  BY ReadingsOfReport DEF OwnReading
<1> QED
  BY <1>1, SysInvariant, PTL
=============================================================================
