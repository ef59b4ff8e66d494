-------------------------- MODULE ProcReportProofs --------------------------
(***************************************************************************)
(* Proofs about ProcReport, for any number of slots, any interval, any      *)
(* stamps within it and any starts of processes.                           *)
(***************************************************************************)
EXTENDS ProcReport, SequenceTheorems, WellFoundedInduction, TLAPS

-----------------------------------------------------------------------------
(* The inductive invariant.                                                  *)
ProcRows == [slot : 1 .. Rounds, type : {1001, 1003, 1004, 1012, 1013}, from : 0 .. Rounds]

ProcTypeOK ==
  /\ delay \in [1 .. Rounds -> Offsets]
  /\ content \in [1 .. Rounds -> {Missing, Absent} \cup Starts]
  /\ Recorded(content)
  /\ ppc \in {"walk", "fill", "marks", "shown"}
  /\ visit \in 0 .. Rounds
  /\ start_decide \in {Absent} \cup Starts
  /\ after_last \in 0 .. Rounds /\ before_first \in 0 .. Rounds
  /\ walked \in Seq(ProcRows) /\ fill \in Seq(ProcRows)

(* Behind the walk there are the samples of one process; every snapshot      *)
(* without the id is later than they are, after_last is the first of these.  *)
OneProcessBehind ==
  /\ \A i \in visit + 1 .. Rounds : content[i] \in {Missing, Absent, start_decide}
  /\ start_decide # Absent => \E i \in visit + 1 .. Rounds : content[i] = start_decide
  /\ \A i \in visit + 1 .. Rounds :
       content[i] = Absent => after_last # Absent /\ after_last <= i
  /\ after_last # Absent =>
       /\ after_last > visit /\ content[after_last] = Absent
       /\ \A i \in visit + 1 .. Rounds : content[i] \in Starts => i < after_last

(* Why the walk ended where it did, and when it noted before_first.          *)
WalkEnded ==
  /\ ppc # "walk" /\ visit # 0 =>
       start_decide # Absent /\ (BeforeStart(visit) \/ content[visit] \notin {Missing, start_decide})
  /\ before_first # Absent =>
       ppc # "walk" /\ before_first = visit /\ content[visit] = Absent /\ ~BeforeStart(visit)
  /\ ppc # "walk" /\ visit # 0 /\ ~BeforeStart(visit) /\ content[visit] = Absent =>
       before_first = visit

(* A row is of a slot behind the walk, and says what its snapshot has.       *)
RowTrue(row, v, c, start) ==
  /\ row.slot > v
  /\ row.type \in {1001, 1003, 1004}
  /\ row.type = 1003 => c[row.slot] = Missing
  /\ row.type # 1003 => start # Absent /\ c[row.slot] = start

(* The rows that are still to be passed to fill_sproc_t.                     *)
WalkedRows ==
  /\ \A n \in DOMAIN walked : RowTrue(walked[n], visit, content, start_decide) /\ walked[n].type # 1004
  /\ \A m, n \in DOMAIN walked : m < n => walked[m].slot < walked[n].slot

(* The rows that are there already: they come before the others, and a       *)
(* difference among them is taken from the sample of the slot before.        *)
FilledRows ==
  /\ \A n \in DOMAIN fill :
       /\ RowTrue(fill[n], visit, content, start_decide)
       /\ after_last # Absent => fill[n].slot < after_last
       /\ fill[n].type = 1001 =>
            fill[n].from = fill[n].slot - 1 /\ content[fill[n].from] = content[fill[n].slot]
  /\ \A m, n \in DOMAIN fill : m < n => fill[m].slot < fill[n].slot
  /\ \A m \in DOMAIN fill, n \in DOMAIN walked : fill[m].slot < walked[n].slot
  /\ ppc = "walk" => fill = <<>>

(* No slot behind the walk is left out, and what is dropped is dropped after *)
(* the process was gone.                                                     *)
AllSlots ==
  /\ \A i \in visit + 1 .. Rounds :
       content[i] # Absent => \/ \E n \in DOMAIN walked : walked[n].slot = i
                              \/ \E n \in DOMAIN fill : fill[n].slot = i
  /\ ppc = "marks" =>
       \A n \in DOMAIN walked : after_last # Absent /\ after_last < walked[n].slot

ProcInv ==
  /\ ProcTypeOK /\ OneProcessBehind /\ WalkEnded
  /\ ppc # "shown" => WalkedRows /\ FilledRows /\ AllSlots

(* A snapshot is written within two intervals of the time of its slot.        *)
SnapshotsInTime == \A o \in Offsets : o + Lag <= 2 * Step

-----------------------------------------------------------------------------
(* Arithmetic of the slots and facts about sequences of rows.                *)
LEMMA SlotTimes ==
  /\ \A i \in Int : SlotTime(i) \in Int
  /\ \A i, j \in Int : i < j => SlotTime(i) + Step <= SlotTime(j)
<1>1. Step \in Nat \ {0}
  BY SamplesAssumption
<1>2. \A i \in Int : SlotTime(i) \in Int
  BY <1>1 DEF SlotTime
<1>3. ASSUME NEW i \in Int, NEW j \in Int, i < j PROVE SlotTime(i) + Step <= SlotTime(j)
  <2>1. PICK k \in Nat : j = i + 1 + k
    <3>1. j - i - 1 \in Nat /\ j = i + 1 + (j - i - 1)
      BY <1>3
    <3> QED
      BY <3>1
  <2>2. k * Step \in Nat
    BY <1>1
  <2>3. j * Step = i * Step + Step + k * Step
    BY <1>1, <2>1
  <2> QED
    BY <1>1, <2>2, <2>3 DEF SlotTime
<1> QED
  BY <1>2, <1>3

LEMMA TakenInSlot ==
  ASSUME delay \in [1 .. Rounds -> Offsets], NEW i \in 1 .. Rounds
  PROVE  Taken(i) \in Int /\ SlotTime(i) <= Taken(i) /\ Taken(i) < SlotTime(i) + Step
<1>1. delay[i] \in Nat /\ delay[i] < Step /\ Step \in Nat
  BY SamplesAssumption
<1>2. SlotTime(i) \in Int
  BY SlotTimes
<1> QED
  BY <1>1, <1>2 DEF Taken

LEMMA CollectTimeInSlot ==
  ASSUME delay \in [1 .. Rounds -> Offsets], NEW row, row.slot \in 1 .. Rounds
  PROVE  /\ CollectTime(row) \in Int
         /\ SlotTime(row.slot) <= CollectTime(row) /\ CollectTime(row) < SlotTime(row.slot) + Step
<1>1. Taken(row.slot) \in Int /\ SlotTime(row.slot) <= Taken(row.slot)
      /\ Taken(row.slot) < SlotTime(row.slot) + Step
  BY TakenInSlot
<1>2. SlotTime(row.slot) \in Int /\ Step \in Nat \ {0}
  BY SlotTimes, SamplesAssumption
<1>3. CASE row.type = 1003
  BY <1>2, <1>3 DEF CollectTime
<1>4. CASE row.type # 1003
  BY <1>1, <1>4 DEF CollectTime
<1> QED
  BY <1>3, <1>4

LEMMA Pushed ==
  ASSUME NEW S, NEW row \in S, NEW s \in Seq(S)
  PROVE  /\ <<row>> \o s \in Seq(S) /\ Len(<<row>> \o s) = Len(s) + 1
         /\ (<<row>> \o s)[1] = row
         /\ \A n \in 2 .. Len(s) + 1 : (<<row>> \o s)[n] = s[n - 1]
         /\ \A n \in 1 .. Len(s) : (<<row>> \o s)[n + 1] = s[n]
         /\ DOMAIN (<<row>> \o s) = 1 .. Len(s) + 1 /\ DOMAIN s = 1 .. Len(s)
<1>1. <<row>> \in Seq(S) /\ Len(<<row>>) = 1 /\ <<row>>[1] = row
  OBVIOUS
<1>2. Len(s) \in Nat
  OBVIOUS
<1> DEFINE t == <<row>> \o s
<1>3. /\ t \in Seq(S) /\ Len(t) = 1 + Len(s)
      /\ \A i \in 1 .. 1 + Len(s) : t[i] = IF i <= 1 THEN <<row>>[i] ELSE s[i - 1]
  BY <1>1, ConcatProperties
<1>4. DOMAIN t = 1 .. Len(t)
  BY <1>3
<1> HIDE DEF t
<1>5. /\ Len(t) = Len(s) + 1 /\ t[1] = row
      /\ \A n \in 2 .. Len(s) + 1 : t[n] = s[n - 1]
      /\ \A n \in 1 .. Len(s) : t[n + 1] = s[n]
      /\ DOMAIN t = 1 .. Len(s) + 1
  BY <1>1, <1>2, <1>3, <1>4
<1> QED
  BY <1>3, <1>5 DEF t

LEMMA RowInRows ==
  ASSUME NEW i \in 1 .. Rounds, NEW type \in {1001, 1003, 1004, 1012, 1013}
  PROVE  Row(i, type) \in ProcRows
BY ProcAssumption DEF Row, ProcRows, Absent

LEMMA FromInRows ==
  ASSUME NEW row \in ProcRows, NEW i \in 0 .. Rounds
  PROVE  LET new == [row EXCEPT !.from = i] IN
           new \in ProcRows /\ new.slot = row.slot /\ new.type = row.type /\ new.from = i
BY DEF ProcRows

LEMMA StartsPositive == Starts \subseteq Nat \ {0} /\ Absent \notin Starts /\ Missing \notin Starts
BY ProcAssumption DEF Absent, Missing

LEMMA RecordedKept == ASSUME ProcTypeOK, UNCHANGED procInput PROVE Recorded(content)'
BY DEF ProcTypeOK, Recorded, Seen, Taken, procInput

-----------------------------------------------------------------------------
LEMMA InitProc == ProcInit => ProcInv
<1> SUFFICES ASSUME ProcInit PROVE ProcInv
  OBVIOUS
<1> USE DEF ProcInit
<1>1. ProcTypeOK
  BY ProcAssumption DEF ProcTypeOK, Absent
<1>2. OneProcessBehind
  BY ProcAssumption DEF OneProcessBehind
<1>3. WalkEnded
  BY DEF WalkEnded
<1>4. WalkedRows /\ FilledRows /\ AllSlots
  BY ProcAssumption DEF WalkedRows, FilledRows, AllSlots
<1> QED
  BY <1>1, <1>2, <1>3, <1>4 DEF ProcInv

-----------------------------------------------------------------------------
(* The walk: a row is put before the others.                                 *)
LEMMA PushedRows ==
  ASSUME ProcInv, ppc = "walk", WalkGoesOn,
         NEW type \in {1001, 1003},
         walked' = <<Row(visit, type)>> \o walked, visit' = visit - 1,
         UNCHANGED <<procInput, ppc, fill>>,
         start_decide' \in {start_decide, content[visit]},
         start_decide # Absent => start_decide' = start_decide,
         type = 1003 => content[visit] = Missing,
         type = 1001 => start_decide' # Absent /\ content[visit] = start_decide'
  PROVE  WalkedRows' /\ FilledRows' /\ AllSlots' /\ walked' \in Seq(ProcRows)
<1>1. visit \in 1 .. Rounds /\ Rounds \in Nat
  BY ProcAssumption DEF ProcInv, ProcTypeOK, WalkGoesOn
<1>2. WalkedRows /\ FilledRows /\ AllSlots /\ fill = <<>> /\ walked \in Seq(ProcRows)
  BY DEF ProcInv, ProcTypeOK, FilledRows
<1>3. Row(visit, type) \in ProcRows
  BY <1>1, RowInRows
<1>4. /\ walked' \in Seq(ProcRows) /\ walked'[1] = Row(visit, type)
      /\ \A n \in 2 .. Len(walked) + 1 : walked'[n] = walked[n - 1]
      /\ \A n \in 1 .. Len(walked) : walked'[n + 1] = walked[n]
      /\ DOMAIN walked' = 1 .. Len(walked) + 1 /\ DOMAIN walked = 1 .. Len(walked)
      /\ Len(walked) \in Nat
  BY <1>2, <1>3, Pushed
<1>5. \A n \in DOMAIN walked : walked[n].slot \in 1 .. Rounds
  <2>1. \A n \in DOMAIN walked : walked[n] \in ProcRows
    BY <1>2, <1>4, ElementOfSeq
  <2> QED
    BY <2>1 DEF ProcRows
<1>6. \A n \in DOMAIN walked : RowTrue(walked[n], visit', content', start_decide') /\ walked[n].type # 1004
  <2> SUFFICES ASSUME NEW n \in DOMAIN walked
               PROVE  RowTrue(walked[n], visit', content', start_decide') /\ walked[n].type # 1004
    OBVIOUS
  <2>1. RowTrue(walked[n], visit, content, start_decide) /\ walked[n].type # 1004
    BY <1>2 DEF WalkedRows
  <2> QED
    BY <2>1, <1>1, <1>5 DEF RowTrue, procInput
<1>7. RowTrue(Row(visit, type), visit', content', start_decide') /\ type # 1004 /\ Row(visit, type).slot = visit
      /\ Row(visit, type).type = type
  BY <1>1 DEF RowTrue, Row, procInput
<1>8. \A n \in DOMAIN walked' : \/ walked'[n] = Row(visit, type) /\ n = 1
                                \/ n - 1 \in DOMAIN walked /\ walked'[n] = walked[n - 1] /\ n > 1
  BY <1>4
<1>9. \A n \in DOMAIN walked' : RowTrue(walked'[n], visit', content', start_decide') /\ walked'[n].type # 1004
  <2> SUFFICES ASSUME NEW n \in DOMAIN walked'
               PROVE  RowTrue(walked'[n], visit', content', start_decide') /\ walked'[n].type # 1004
    OBVIOUS
  <2>1. CASE walked'[n] = Row(visit, type)
    BY <2>1, <1>7
  <2>2. CASE n - 1 \in DOMAIN walked /\ walked'[n] = walked[n - 1]
    BY <2>2, <1>6
  <2> QED
    BY <2>1, <2>2, <1>8
<1>10. \A n \in DOMAIN walked : walked[n].slot > visit
  BY <1>2 DEF WalkedRows, RowTrue
<1>11. \A m, n \in DOMAIN walked' : m < n => walked'[m].slot < walked'[n].slot
  <2> SUFFICES ASSUME NEW m \in DOMAIN walked', NEW n \in DOMAIN walked', m < n
               PROVE  walked'[m].slot < walked'[n].slot
    OBVIOUS
  <2>1. n - 1 \in DOMAIN walked /\ walked'[n] = walked[n - 1] /\ m \in Int /\ n \in Int
    BY <1>4, <1>8
  <2>2. CASE m = 1
    BY <2>1, <2>2, <1>4, <1>7, <1>10
  <2>3. CASE m # 1
    <3>1. m - 1 \in DOMAIN walked /\ walked'[m] = walked[m - 1] /\ m - 1 < n - 1
      BY <2>1, <2>3, <1>8
    <3> QED
      BY <2>1, <3>1, <1>2 DEF WalkedRows
  <2> QED
    BY <2>2, <2>3
<1>12. WalkedRows'
  BY <1>9, <1>11 DEF WalkedRows
<1>13. FilledRows'
  BY <1>2 DEF FilledRows
<1>14. AllSlots'
  <2>1. ASSUME NEW i \in visit' + 1 .. Rounds, content'[i] # Absent
        PROVE  \E n \in DOMAIN walked' : walked'[n].slot = i
    <3>1. CASE i = visit
      BY <3>1, <1>4, <1>7
    <3>2. CASE i # visit
      <4>1. i \in visit + 1 .. Rounds /\ content[i] # Absent
        BY <1>1, <2>1, <3>2 DEF procInput
      <4>2. PICK n \in DOMAIN walked : walked[n].slot = i
        BY <4>1, <1>2 DEF AllSlots
      <4>3. n + 1 \in DOMAIN walked' /\ walked'[n + 1] = walked[n]
        BY <1>4
      <4> QED
        BY <4>2, <4>3
    <3> QED
      BY <3>1, <3>2
  <2>2. ppc' # "marks"
    BY <1>1
  <2> QED
    BY ONLY <2>1, <2>2 DEF AllSlots
<1> QED
  BY <1>4, <1>12, <1>13, <1>14

LEMMA SnapshotMissingProc == ASSUME ProcInv, SnapshotMissing PROVE ProcInv'
<1> USE DEF procInput
<1>1. visit \in 1 .. Rounds /\ Rounds \in Nat /\ ppc = "walk" /\ content[visit] = Missing
  BY ProcAssumption DEF ProcInv, ProcTypeOK, SnapshotMissing, WalkGoesOn
<1>2. WalkedRows' /\ FilledRows' /\ AllSlots' /\ walked' \in Seq(ProcRows)
  BY <1>1, PushedRows DEF SnapshotMissing
<1>3. ProcTypeOK'
  BY <1>1, <1>2, RecordedKept DEF ProcInv, ProcTypeOK, SnapshotMissing
<1>4. OneProcessBehind'
  BY <1>1, StartsPositive DEF ProcInv, ProcTypeOK, OneProcessBehind, SnapshotMissing, Missing, Absent
<1>5. WalkEnded'
  BY <1>1 DEF ProcInv, WalkEnded, SnapshotMissing
<1> QED
  BY <1>2, <1>3, <1>4, <1>5 DEF ProcInv

LEMMA SampleReadProc == ASSUME ProcInv, SampleRead PROVE ProcInv'
<1> USE DEF procInput
<1>1. visit \in 1 .. Rounds /\ Rounds \in Nat /\ ppc = "walk" /\ content[visit] \in Starts
      /\ content[visit] # Absent
  BY ProcAssumption, StartsPositive DEF ProcInv, ProcTypeOK, SampleRead, WalkGoesOn
<1>2. WalkedRows' /\ FilledRows' /\ AllSlots' /\ walked' \in Seq(ProcRows)
  BY <1>1, PushedRows DEF SampleRead
<1>3. ProcTypeOK'
  BY <1>1, <1>2, RecordedKept DEF ProcInv, ProcTypeOK, SampleRead
<1>4. OneProcessBehind'
  <2>1. /\ \A i \in visit' + 1 .. Rounds : i = visit \/ i \in visit + 1 .. Rounds
        /\ visit \in visit' + 1 .. Rounds /\ visit' = visit - 1
        /\ start_decide' = content[visit] /\ start_decide \in {Absent, content[visit]}
        /\ content' = content /\ after_last' = after_last /\ after_last \in 0 .. Rounds
    BY <1>1 DEF ProcInv, ProcTypeOK, SampleRead
  <2>2. OneProcessBehind
    BY DEF ProcInv
  <2>3. \A i \in visit' + 1 .. Rounds : content[i] \in {Missing, Absent, start_decide'}
    BY <2>1, <2>2 DEF OneProcessBehind
  <2>4. \E i \in visit' + 1 .. Rounds : content[i] = start_decide'
    BY <2>1
  <2>5. \A i \in visit' + 1 .. Rounds :
          content[i] = Absent => after_last # Absent /\ after_last <= i
    BY <2>1, <2>2, <1>1 DEF OneProcessBehind
  <2>6. after_last # Absent =>
          /\ after_last > visit' /\ content[after_last] = Absent
          /\ \A i \in visit' + 1 .. Rounds : content[i] \in Starts => i < after_last
    BY <2>1, <2>2, <1>1 DEF OneProcessBehind
  <2> QED
    BY <2>1, <2>3, <2>4, <2>5, <2>6 DEF OneProcessBehind
<1>5. WalkEnded'
  BY <1>1 DEF ProcInv, WalkEnded, SampleRead
<1> QED
  BY <1>2, <1>3, <1>4, <1>5 DEF ProcInv

(* The walk: nothing is put before the rows.                                 *)
LEMMA RowsKept ==
  ASSUME ProcInv, ppc = "walk", visit \in 1 .. Rounds, visit' \in {visit, visit - 1},
         visit' = visit - 1 => content[visit] = Absent,
         UNCHANGED <<procInput, start_decide, walked, fill>>, ppc' \in {"walk", "fill"}
  PROVE  WalkedRows' /\ FilledRows' /\ AllSlots'
<1> USE DEF procInput
<1>1. WalkedRows /\ FilledRows /\ AllSlots /\ fill = <<>> /\ walked \in Seq(ProcRows)
      /\ visit \in Int /\ Rounds \in Nat
  BY ProcAssumption DEF ProcInv, ProcTypeOK, FilledRows
<1>2. \A n \in DOMAIN walked : walked[n].slot \in 1 .. Rounds
  <2>1. \A n \in DOMAIN walked : walked[n] \in ProcRows
    BY <1>1, ElementOfSeq
  <2> QED
    BY <2>1 DEF ProcRows
<1>3. WalkedRows'
  BY <1>1, <1>2 DEF WalkedRows, RowTrue
<1>4. FilledRows'
  BY <1>1 DEF FilledRows
<1>5. AllSlots'
  BY <1>1 DEF AllSlots
<1> QED
  BY <1>3, <1>4, <1>5

LEMMA PidAbsentProc == ASSUME ProcInv, PidAbsent PROVE ProcInv'
<1> USE DEF procInput
<1>1. visit \in 1 .. Rounds /\ Rounds \in Nat /\ ppc = "walk" /\ content[visit] = Absent
      /\ ~BeforeStart(visit) /\ Absent # Missing /\ Absent = 0
  BY ProcAssumption DEF ProcInv, ProcTypeOK, PidAbsent, WalkGoesOn, Absent, Missing
<1>2. WalkedRows' /\ FilledRows' /\ AllSlots'
  BY <1>1, RowsKept DEF PidAbsent
<1>3. ProcTypeOK'
  BY <1>1, RecordedKept DEF ProcInv, ProcTypeOK, PidAbsent
<1>4. OneProcessBehind'
  BY <1>1, StartsPositive DEF ProcInv, ProcTypeOK, OneProcessBehind, PidAbsent
<1>5. WalkEnded'
  BY <1>1 DEF ProcInv, ProcTypeOK, WalkEnded, BeforeStart, PidAbsent
<1> QED
  BY <1>2, <1>3, <1>4, <1>5 DEF ProcInv

LEMMA OtherProcessProc == ASSUME ProcInv, OtherProcess PROVE ProcInv'
<1> USE DEF procInput
<1>1. visit \in 1 .. Rounds /\ Rounds \in Nat /\ ppc = "walk" /\ content[visit] \in Starts
      /\ content[visit] \notin {Missing, Absent, start_decide} /\ start_decide # Absent
  BY ProcAssumption, StartsPositive DEF ProcInv, ProcTypeOK, OtherProcess, WalkGoesOn
<1>2. WalkedRows' /\ FilledRows' /\ AllSlots'
  BY <1>1, RowsKept DEF OtherProcess
<1>3. ProcTypeOK'
  BY <1>1, RecordedKept DEF ProcInv, ProcTypeOK, OtherProcess
<1>4. OneProcessBehind'
  BY <1>1 DEF ProcInv, OneProcessBehind, OtherProcess
<1>5. WalkEnded'
  BY <1>1 DEF ProcInv, WalkEnded, BeforeStart, OtherProcess
<1> QED
  BY <1>2, <1>3, <1>4, <1>5 DEF ProcInv

LEMMA WalkEndsProc == ASSUME ProcInv, WalkEnds PROVE ProcInv'
<1> USE DEF procInput
<1>1. visit \in 0 .. Rounds /\ Rounds \in Nat /\ ppc = "walk" /\ ppc' = "fill"
      /\ (visit = 0 \/ BeforeStart(visit))
      /\ UNCHANGED <<procInput, visit, start_decide, after_last, before_first, walked, fill>>
  BY ProcAssumption DEF ProcInv, ProcTypeOK, WalkEnds
<1>2. WalkedRows' /\ FilledRows' /\ AllSlots'
  BY <1>1 DEF ProcInv, WalkedRows, FilledRows, AllSlots
<1>3. ProcTypeOK'
  BY <1>1, RecordedKept DEF ProcInv, ProcTypeOK
<1>4. OneProcessBehind'
  BY <1>1 DEF ProcInv, OneProcessBehind
<1>5. WalkEnded'
  BY <1>1 DEF ProcInv, WalkEnded, BeforeStart
<1> QED
  BY <1>2, <1>3, <1>4, <1>5 DEF ProcInv

LEMMA FillEndsProc == ASSUME ProcInv, FillEnds PROVE ProcInv'
<1> USE DEF procInput
<1>1. ppc = "fill" /\ ppc' = "marks" /\ ~MoreRows
      /\ UNCHANGED <<procInput, visit, start_decide, after_last, before_first, walked, fill>>
  BY DEF FillEnds
<1>2. WalkedRows' /\ FilledRows'
  BY <1>1 DEF ProcInv, WalkedRows, FilledRows
<1>3. ProcTypeOK'
  BY <1>1, RecordedKept DEF ProcInv, ProcTypeOK
<1>4. OneProcessBehind'
  BY <1>1 DEF ProcInv, OneProcessBehind
<1>5. WalkEnded'
  BY <1>1 DEF ProcInv, WalkEnded, BeforeStart
<1>6. ASSUME NEW n \in DOMAIN walked PROVE after_last # Absent /\ after_last < walked[n].slot
  <2>1. /\ walked \in Seq(ProcRows) /\ WalkedRows /\ OneProcessBehind
        /\ delay \in [1 .. Rounds -> Offsets] /\ content \in [1 .. Rounds -> {Missing, Absent} \cup Starts]
        /\ after_last \in Int /\ visit \in Nat /\ Rounds \in Nat
    BY <1>1, ProcAssumption DEF ProcInv, ProcTypeOK
  <2>2. DOMAIN walked = 1 .. Len(walked) /\ Len(walked) \in Nat
    BY <2>1
  <2>3. 1 \in DOMAIN walked /\ n \in Int /\ n >= 1 /\ walked # <<>> /\ Head(walked) = walked[1]
    BY <2>1, <2>2
  <2>4. Dropped(walked[1])
    BY <1>1, <2>3 DEF MoreRows
  <2>5. walked[1] \in ProcRows /\ walked[n] \in ProcRows
    BY <2>1, <2>2, <2>3, ElementOfSeq
  <2>6. walked[1].slot \in 1 .. Rounds /\ walked[n].slot \in 1 .. Rounds
    BY <2>5 DEF ProcRows
  <2>7. CollectTime(walked[1]) \in Int /\ CollectTime(walked[1]) < SlotTime(walked[1].slot) + Step
    BY <2>1, <2>6, CollectTimeInSlot
  <2>8. CollectTime(walked[1]) > SlotTime(after_last) /\ after_last # Absent
    BY <2>4 DEF Dropped
  <2>9. ~(walked[1].slot < after_last)
    <3>1. walked[1].slot \in Int /\ after_last \in Int
      BY <2>1, <2>6
    <3>2. SlotTime(walked[1].slot) \in Int /\ SlotTime(after_last) \in Int /\ Step \in Int
      BY <3>1, SlotTimes, SamplesAssumption
    <3>3. walked[1].slot < after_last => SlotTime(walked[1].slot) + Step <= SlotTime(after_last)
      BY <3>1, SlotTimes
    <3> QED
      BY <3>2, <3>3, <2>7, <2>8
  <2>10. content[walked[1].slot] # Absent
    BY <2>1, <2>3, StartsPositive DEF WalkedRows, RowTrue, Absent, Missing
  <2>11. walked[1].slot > after_last
    BY <2>1, <2>6, <2>8, <2>9, <2>10 DEF OneProcessBehind
  <2>12. n = 1 \/ walked[1].slot < walked[n].slot
    BY <2>1, <2>2, <2>3 DEF WalkedRows
  <2> QED
    BY <2>1, <2>6, <2>8, <2>11, <2>12
<1>7. AllSlots'
  BY <1>1, <1>6 DEF ProcInv, AllSlots
<1> QED
  BY <1>1, <1>2, <1>3, <1>4, <1>5, <1>7 DEF ProcInv

(* The pass forward: what joins a sample to the row before it.  Nothing but   *)
(* snapshots without the id could lie between the two, and there is none.    *)
LEMMA Joined ==
  ASSUME ProcInv, ppc = "fill", walked # <<>>, fill # <<>>,
         Head(walked).type # 1003, fill[Len(fill)].type # 1003
  PROVE  /\ fill[Len(fill)].slot = Head(walked).slot - 1
         /\ content[fill[Len(fill)].slot] = content[Head(walked).slot]
<1>1. /\ walked \in Seq(ProcRows) /\ fill \in Seq(ProcRows) /\ visit \in Nat /\ Rounds \in Nat
      /\ content \in [1 .. Rounds -> {Missing, Absent} \cup Starts]
      /\ start_decide \in {Absent} \cup Starts
      /\ WalkedRows /\ FilledRows /\ AllSlots /\ OneProcessBehind
  BY ProcAssumption DEF ProcInv, ProcTypeOK
<1> DEFINE last == fill[Len(fill)]
           next == walked[1]
<1>2. /\ DOMAIN walked = 1 .. Len(walked) /\ DOMAIN fill = 1 .. Len(fill)
      /\ 1 \in DOMAIN walked /\ Len(fill) \in DOMAIN fill /\ Head(walked) = next
      /\ Len(fill) \in Nat /\ Len(walked) \in Nat
  BY <1>1
<1>3. \A n \in DOMAIN walked : walked[n] \in ProcRows
  BY <1>1, <1>2, ElementOfSeq
<1>4. \A n \in DOMAIN fill : fill[n] \in ProcRows
  BY <1>1, <1>2, ElementOfSeq
<1>5. /\ \A n \in DOMAIN walked : walked[n].slot \in 1 .. Rounds
      /\ \A n \in DOMAIN fill : fill[n].slot \in 1 .. Rounds
  BY <1>3, <1>4 DEF ProcRows
<1>6. /\ RowTrue(last, visit, content, start_decide) /\ RowTrue(next, visit, content, start_decide)
      /\ last.slot < next.slot
  BY <1>1, <1>2 DEF WalkedRows, FilledRows
<1>7. /\ last.type # 1003 /\ next.type # 1003 /\ last.slot \in 1 .. Rounds /\ next.slot \in 1 .. Rounds
  BY <1>2, <1>5
<1>8. /\ start_decide \in Starts /\ content[last.slot] = start_decide
      /\ content[next.slot] = start_decide /\ last.slot > visit
  BY <1>1, <1>6, <1>7 DEF RowTrue
<1>9. ASSUME NEW i \in last.slot + 1 .. next.slot - 1 PROVE FALSE
  <2>1. i \in visit + 1 .. Rounds /\ next.slot \in visit + 1 .. Rounds
    BY <1>1, <1>6, <1>7, <1>8
  <2>2. content[i] # Absent
    <3>1. SUFFICES ASSUME content[i] = Absent PROVE FALSE
      OBVIOUS
    <3>2. after_last # Absent /\ after_last <= i
      BY <3>1, <1>1, <2>1 DEF OneProcessBehind
    <3>3. next.slot < after_last
      BY <3>2, <1>1, <1>8, <2>1 DEF OneProcessBehind
    <3>4. after_last \in Int /\ i \in Int /\ i < next.slot
      BY <1>7 DEF ProcInv, ProcTypeOK
    <3> QED
      BY <3>2, <3>3, <3>4, <1>7
  <2>3. \A n \in DOMAIN walked : walked[n].slot # i
    <3>1. ASSUME NEW n \in DOMAIN walked, n # 1 PROVE next.slot < walked[n].slot
      <4>1. 1 < n /\ 1 \in DOMAIN walked
        BY <3>1, <1>2
      <4>2. \A k, m \in DOMAIN walked : k < m => walked[k].slot < walked[m].slot
        BY <1>1 DEF WalkedRows
      <4> QED
        BY <3>1, <4>1, <4>2
    <3> QED
      BY <3>1, <1>5, <1>7
  <2>4. \A n \in DOMAIN fill : fill[n].slot # i
    <3>1. \A n \in DOMAIN fill : n = Len(fill) \/ fill[n].slot < last.slot
      BY <1>1, <1>2 DEF FilledRows
    <3> QED
      BY <3>1, <1>5, <1>7
  <2> QED
    BY <1>1, <2>1, <2>2, <2>3, <2>4 DEF AllSlots
<1>10. last.slot = next.slot - 1
  <2>1. last.slot + 1 \notin last.slot + 1 .. next.slot - 1
    BY <1>9
  <2> QED
    BY <2>1, <1>6, <1>7
<1> QED
  BY <1>2, <1>8, <1>10

LEMMA FillProcProc == ASSUME ProcInv, FillProc PROVE ProcInv'
<1> USE DEF procInput
<1> DEFINE next == Head(walked)
           row == Filled(next)
<1>1. /\ ppc = "fill" /\ walked # <<>> /\ ~Dropped(next)
      /\ fill' = Append(fill, row) /\ walked' = Tail(walked)
      /\ UNCHANGED <<procInput, ppc, visit, start_decide, after_last, before_first>>
  BY DEF FillProc, MoreRows
<1>2. /\ walked \in Seq(ProcRows) /\ fill \in Seq(ProcRows) /\ visit \in Nat /\ Rounds \in Nat
      /\ content \in [1 .. Rounds -> {Missing, Absent} \cup Starts]
      /\ delay \in [1 .. Rounds -> Offsets]
      /\ start_decide \in {Absent} \cup Starts /\ after_last \in 0 .. Rounds
      /\ WalkedRows /\ FilledRows /\ AllSlots /\ OneProcessBehind
  BY <1>1, ProcAssumption DEF ProcInv, ProcTypeOK
<1>3. /\ DOMAIN walked = 1 .. Len(walked) /\ DOMAIN fill = 1 .. Len(fill)
      /\ 1 \in DOMAIN walked /\ next = walked[1] /\ Len(fill) \in Nat /\ Len(walked) \in Nat
      /\ Len(walked) >= 1
  BY <1>1, <1>2
<1>4. \A n \in DOMAIN walked : walked[n] \in ProcRows
  BY <1>2, <1>3, ElementOfSeq
<1>5. \A n \in DOMAIN fill : fill[n] \in ProcRows
  BY <1>2, <1>3, ElementOfSeq
<1>6. /\ \A n \in DOMAIN walked : walked[n].slot \in 1 .. Rounds
      /\ \A n \in DOMAIN fill : fill[n].slot \in 1 .. Rounds
  BY <1>4, <1>5 DEF ProcRows
<1>7. /\ RowTrue(next, visit, content, start_decide) /\ next.type \in {1001, 1003}
      /\ next \in ProcRows /\ next.slot \in 1 .. Rounds
  BY <1>2, <1>3, <1>4, <1>6 DEF WalkedRows, RowTrue
<1>8. /\ row \in ProcRows /\ row.slot = next.slot
      /\ (row.type = 1003) = (next.type = 1003) /\ row.type \in {1001, 1003, 1004}
      /\ row.type = 1001 => row.from = row.slot - 1 /\ content[row.from] = content[row.slot]
  <2>1. CASE next.type = 1003
    BY <2>1, <1>7 DEF Filled
  <2>2. CASE next.type = 1001 /\ Previous1003
    <3>1. row = [next EXCEPT !.type = 1004]
      BY <2>2 DEF Filled
    <3> QED
      BY <3>1, <2>2, <1>7 DEF ProcRows
  <2>3. CASE next.type = 1001 /\ ~Previous1003
    <3>1. row = [next EXCEPT !.from = fill[Len(fill)].slot]
      BY <2>3 DEF Filled
    <3>2. fill # <<>> /\ fill[Len(fill)].type # 1003
      BY <2>3 DEF Previous1003
    <3>3. /\ fill[Len(fill)].slot = next.slot - 1
          /\ content[fill[Len(fill)].slot] = content[next.slot]
      BY <1>1, <2>3, <3>2, Joined
    <3>4. fill[Len(fill)].slot \in 0 .. Rounds
      BY <3>3, <1>2, <1>7
    <3>5. row \in ProcRows /\ row.slot = next.slot /\ row.type = 1001
          /\ row.from = fill[Len(fill)].slot
      <4> HIDE DEF next, row
      <4>1. LET new == [next EXCEPT !.from = fill[Len(fill)].slot] IN
              /\ new \in ProcRows /\ new.slot = next.slot /\ new.type = next.type
              /\ new.from = fill[Len(fill)].slot
        BY <3>4, <1>7, FromInRows
      <4> QED
        BY <4>1, <3>1, <2>3
    <3> QED
      BY <3>3, <3>5, <2>3
  <2> QED
    BY <2>1, <2>2, <2>3, <1>7
<1> HIDE DEF row
<1>9. RowTrue(row, visit, content, start_decide)
  BY <1>7, <1>8 DEF RowTrue
<1>10. after_last # Absent => row.slot < after_last
  <2>1. SUFFICES ASSUME after_last # Absent PROVE row.slot < after_last
    OBVIOUS
  <2>2. ~(CollectTime(next) > SlotTime(after_last))
    BY <1>1, <2>1 DEF Dropped
  <2>3. CollectTime(next) \in Int /\ SlotTime(next.slot) <= CollectTime(next)
    BY <1>2, <1>7, CollectTimeInSlot
  <2>4. ~(after_last < next.slot)
    <3>1. next.slot \in Int /\ after_last \in Int
      BY <1>2, <1>7
    <3>2. SlotTime(next.slot) \in Int /\ SlotTime(after_last) \in Int /\ Step \in Nat \ {0}
      BY <3>1, SlotTimes, SamplesAssumption
    <3>3. after_last < next.slot => SlotTime(after_last) + Step <= SlotTime(next.slot)
      BY <3>1, SlotTimes
    <3> QED
      BY <3>2, <3>3, <2>2, <2>3
  <2>5. content[next.slot] # Absent /\ content[after_last] = Absent
    BY <1>2, <1>7, <2>1, StartsPositive DEF RowTrue, OneProcessBehind, Missing, Absent
  <2> QED
    BY <1>2, <1>7, <1>8, <2>4, <2>5
<1>11. /\ fill' \in Seq(ProcRows) /\ Len(fill') = Len(fill) + 1 /\ DOMAIN fill' = 1 .. Len(fill) + 1
       /\ \A n \in 1 .. Len(fill) : fill'[n] = fill[n]
       /\ fill'[Len(fill) + 1] = row
  BY <1>1, <1>2, <1>8, AppendProperties
<1>12. /\ walked' \in Seq(ProcRows) /\ DOMAIN walked' = 1 .. Len(walked) - 1
       /\ \A n \in DOMAIN walked' : walked'[n] = walked[n + 1] /\ n + 1 \in DOMAIN walked
  <2>1. /\ walked' \in Seq(ProcRows) /\ Len(walked') = Len(walked) - 1
        /\ \A n \in 1 .. Len(walked') : walked'[n] = walked[n + 1]
    BY <1>1, <1>2, HeadTailProperties
  <2> QED
    BY <2>1, <1>3
<1>13. ProcTypeOK'
  BY <1>1, <1>11, <1>12, RecordedKept DEF ProcInv, ProcTypeOK
<1>14. OneProcessBehind'
  BY <1>1 DEF ProcInv, OneProcessBehind
<1>15. WalkEnded'
  BY <1>1 DEF ProcInv, WalkEnded, BeforeStart
<1>16. WalkedRows'
  <2>1. \A n \in DOMAIN walked' :
          RowTrue(walked'[n], visit, content, start_decide) /\ walked'[n].type # 1004
    BY <1>2, <1>12 DEF WalkedRows
  <2>2. ASSUME NEW m \in DOMAIN walked', NEW n \in DOMAIN walked', m < n
        PROVE  walked'[m].slot < walked'[n].slot
    <3>1. m + 1 \in DOMAIN walked /\ n + 1 \in DOMAIN walked /\ m + 1 < n + 1
      BY <2>2, <1>3, <1>12
    <3> QED
      BY <3>1, <1>2, <1>12 DEF WalkedRows
  <2> QED
    BY <2>1, <2>2, <1>1 DEF WalkedRows
<1>17. \A n \in DOMAIN walked' : next.slot < walked'[n].slot
  <2> SUFFICES ASSUME NEW n \in DOMAIN walked' PROVE next.slot < walked'[n].slot
    OBVIOUS
  <2>1. n + 1 \in DOMAIN walked /\ 1 < n + 1 /\ walked'[n] = walked[n + 1]
    BY <1>3, <1>12
  <2> QED
    BY <2>1, <1>2, <1>3 DEF WalkedRows
<1>18. \A n \in DOMAIN fill : fill[n].slot < row.slot
  <2>1. \A n \in DOMAIN fill : fill[n].slot < walked[1].slot
    BY <1>2, <1>3 DEF FilledRows
  <2> QED
    BY <2>1, <1>3, <1>8
<1>19. FilledRows'
  <2>1. \A n \in DOMAIN fill' : (n \in DOMAIN fill /\ fill'[n] = fill[n])
                                \/ (n = Len(fill) + 1 /\ fill'[n] = row)
    BY <1>3, <1>11
  <2>2. \A n \in DOMAIN fill' :
          /\ RowTrue(fill'[n], visit, content, start_decide)
          /\ after_last # Absent => fill'[n].slot < after_last
          /\ fill'[n].type = 1001 =>
               fill'[n].from = fill'[n].slot - 1
               /\ content[fill'[n].from] = content[fill'[n].slot]
    <3> SUFFICES ASSUME NEW n \in DOMAIN fill'
                 PROVE  /\ RowTrue(fill'[n], visit, content, start_decide)
                        /\ after_last # Absent => fill'[n].slot < after_last
                        /\ fill'[n].type = 1001 =>
                             fill'[n].from = fill'[n].slot - 1
                             /\ content[fill'[n].from] = content[fill'[n].slot]
      OBVIOUS
    <3>1. CASE n \in DOMAIN fill /\ fill'[n] = fill[n]
      BY <3>1, <1>2 DEF FilledRows
    <3>2. CASE fill'[n] = row
      BY <3>2, <1>8, <1>9, <1>10
    <3> QED
      BY <3>1, <3>2, <2>1
  <2>3. ASSUME NEW m \in DOMAIN fill', NEW n \in DOMAIN fill', m < n
        PROVE  fill'[m].slot < fill'[n].slot
    <3>1. m \in DOMAIN fill /\ fill'[m] = fill[m]
      BY <2>3, <1>3, <1>11
    <3> QED
      BY <3>1, <2>1, <2>3, <1>2, <1>18 DEF FilledRows
  <2>4. ASSUME NEW m \in DOMAIN fill', NEW n \in DOMAIN walked'
        PROVE  fill'[m].slot < walked'[n].slot
    BY <2>1, <1>2, <1>8, <1>12, <1>17 DEF FilledRows
  <2> QED
    BY <2>2, <2>3, <2>4, <1>1 DEF FilledRows
<1>20. AllSlots'
  <2>1. ASSUME NEW i \in visit + 1 .. Rounds, content[i] # Absent
        PROVE  \/ \E n \in DOMAIN walked' : walked'[n].slot = i
               \/ \E n \in DOMAIN fill' : fill'[n].slot = i
    <3>1. CASE \E n \in DOMAIN walked : walked[n].slot = i
      <4>1. PICK n \in DOMAIN walked : walked[n].slot = i
        BY <3>1
      <4>2. CASE n = 1
        <5>1. Len(fill) + 1 \in DOMAIN fill'
          BY <1>3, <1>11
        <5> QED
          BY <4>1, <4>2, <5>1, <1>3, <1>8, <1>11
      <4>3. CASE n # 1
        <5>1. n - 1 \in DOMAIN walked' /\ (n - 1) + 1 = n
          BY <4>1, <4>3, <1>3, <1>12
        <5> QED
          BY <4>1, <5>1, <1>12
      <4> QED
        BY <4>2, <4>3
    <3>2. CASE \E n \in DOMAIN fill : fill[n].slot = i
      BY <3>2, <1>3, <1>11
    <3> QED
      BY <2>1, <3>1, <3>2, <1>2 DEF AllSlots
  <2> QED
    BY <2>1, <1>1 DEF AllSlots
<1> QED
  BY <1>13, <1>14, <1>15, <1>16, <1>19, <1>20 DEF ProcInv

-----------------------------------------------------------------------------
(* What the report is about: the samples of the process that had the id last  *)
(* all lie behind the walk.  This is where a snapshot has to be written       *)
(* within an interval, so that two intervals before its start are far enough. *)
LEMMA LifeBehind ==
  ASSUME ProcInv, SnapshotsInTime, ppc # "walk", start_decide # Absent,
         NEW i \in 1 .. Rounds, content[i] = start_decide
  PROVE  i > visit
<1>1. /\ visit \in 0 .. Rounds /\ Rounds \in Nat /\ start_decide \in Starts /\ Recorded(content)
      /\ delay \in [1 .. Rounds -> Offsets] /\ OneProcessBehind /\ WalkEnded
  BY ProcAssumption DEF ProcInv, ProcTypeOK
<1>2. SUFFICES ASSUME i <= visit PROVE FALSE
  BY <1>1
<1>3. visit # 0 /\ visit \in 1 .. Rounds
  BY <1>1, <1>2
<1>4. PICK j \in visit + 1 .. Rounds : content[j] = start_decide
  BY <1>1 DEF OneProcessBehind
<1>5. j \in 1 .. Rounds /\ i \in 1 .. j - 1 /\ visit \in i .. j
  BY <1>1, <1>2, <1>3, <1>4
<1>6. CASE content[visit] \notin {Missing, start_decide}
  <2>1. j \in Seen(content) /\ content[i] # Missing
    BY <1>1, <1>4, <1>5, StartsPositive DEF Seen
  <2>2. \A n \in i .. j : content[n] \in {Missing, content[j]}
    BY <1>1, <1>4, <1>5, <2>1 DEF Recorded
  <2> QED
    BY <1>4, <1>5, <1>6, <2>2
<1>7. CASE BeforeStart(visit)
  <2>1. i \in Seen(content)
    BY <1>1 DEF Seen
  <2>2. start_decide <= Taken(i) + Lag
    BY <1>1, <2>1 DEF Recorded
  <2>3. delay[i] \in Nat /\ delay[i] + Lag <= 2 * Step /\ Taken(i) = SlotTime(i) + delay[i]
    BY <1>1, SamplesAssumption DEF SnapshotsInTime, Taken
  <2>4. SlotTime(i) \in Int /\ SlotTime(visit) \in Int /\ Step \in Nat \ {0} /\ i \in Int /\ visit \in Int
    BY <1>3, SlotTimes, SamplesAssumption
  <2>5. SlotTime(i) <= SlotTime(visit)
    <3>1. CASE i = visit
      BY <3>1, <2>4
    <3>2. CASE i < visit
      <4>1. SlotTime(i) + Step <= SlotTime(visit)
        BY <3>2, <2>4, SlotTimes
      <4> QED
        BY <4>1, <2>4
    <3> QED
      BY <3>1, <3>2, <1>2, <2>4
  <2>6. SlotTime(visit) < start_decide - 2 * Step
    BY <1>7 DEF BeforeStart
  <2>7. start_decide \in Int /\ Lag \in Int
    BY <1>1, ProcAssumption
  <2> QED
    BY <2>2, <2>3, <2>4, <2>5, <2>6, <2>7
<1> QED
  BY <1>1, <1>3, <1>6, <1>7 DEF WalkEnded

LEMMA Least ==
  ASSUME NEW S \in SUBSET Nat, S # {} PROVE \E i \in S : \A j \in S : i <= j
<1>1. PICK i \in S : \A j \in S : ~(<<j, i>> \in OpToRel(<, Nat))
  BY NatLessThanWellFounded, WFMin
<1>2. ASSUME NEW j \in S PROVE i <= j
  <2>1. ~(<<j, i>> \in {ss \in Nat \X Nat : ss[1] < ss[2]})
    BY <1>1 DEF OpToRel
  <2>2. j \in Nat /\ i \in Nat
    OBVIOUS
  <2>3. ~(j < i)
    BY <2>1, <2>2
  <2> QED
    BY <2>2, <2>3
<1> QED
  BY <1>2

LEMMA Greatest ==
  ASSUME NEW S \in SUBSET Nat, S # {}, NEW n \in Nat, \A j \in S : j <= n
  PROVE  \E i \in S : \A j \in S : j <= i
<1> DEFINE T == {n - j : j \in S}
<1>1. T \in SUBSET Nat /\ T # {}
  <2>1. \A j \in S : j \in Nat /\ j <= n
    OBVIOUS
  <2>2. \A j \in S : n - j \in Nat
    BY <2>1
  <2>3. \A t \in T : t \in Nat
    BY <2>2
  <2>4. PICK j \in S : TRUE
    OBVIOUS
  <2>5. n - j \in T
    OBVIOUS
  <2> QED
    BY <2>3, <2>5
<1>2. PICK k \in T : \A l \in T : k <= l
  BY <1>1, Least
<1>3. PICK i \in S : k = n - i
  OBVIOUS
<1>4. ASSUME NEW j \in S PROVE j <= i
  <2>1. n - j \in T
    OBVIOUS
  <2>2. n - i <= n - j
    BY <2>1, <1>2, <1>3
  <2> QED
    BY <2>2
<1> QED
  BY <1>4

LEMMA LastFirst ==
  ASSUME ProcTypeOK, Seen(content) # {}
  PROVE  /\ Last \in Seen(content) /\ \A j \in Seen(content) : j <= Last
         /\ First \in Life /\ \A j \in Life : First <= j
         /\ Seen(content) \subseteq 1 .. Rounds
<1>1. Seen(content) \subseteq 1 .. Rounds /\ Rounds \in Nat
  BY ProcAssumption DEF Seen
<1>2. Last \in Seen(content) /\ \A j \in Seen(content) : j <= Last
  <2>1. \E i \in Seen(content) : \A j \in Seen(content) : j <= i
    <3>1. Seen(content) \in SUBSET Nat /\ \A j \in Seen(content) : j <= Rounds
      BY <1>1
    <3> QED
      BY <3>1, <1>1, Greatest
  <2> QED
    BY <2>1 DEF Last
<1>3. Last \in Life /\ Life \in SUBSET Nat
  BY <1>1, <1>2 DEF Life
<1>4. First \in Life /\ \A j \in Life : First <= j
  <2>1. \E i \in Life : \A j \in Life : i <= j
    BY <1>3, Least
  <2> QED
    BY <2>1 DEF First
<1> QED
  BY <1>1, <1>2, <1>4

(* The process of the report is the one that had the id last.                *)
LEMMA LifeOfReport ==
  ASSUME ProcInv, SnapshotsInTime, ppc # "walk"
  PROVE  /\ start_decide = Absent <=> Seen(content) = {}
         /\ Seen(content) # {} =>
              /\ content[Last] = start_decide
              /\ \A i \in 1 .. Rounds : i \in Life <=> content[i] = start_decide
              /\ First \in 1 .. Rounds /\ Last \in 1 .. Rounds /\ First > visit
              /\ First <= Last /\ First \in Life
              /\ \A i \in Life : First <= i /\ i <= Last
<1>1. /\ visit \in 0 .. Rounds /\ Rounds \in Nat /\ start_decide \in {Absent} \cup Starts
      /\ OneProcessBehind /\ WalkEnded /\ ProcTypeOK
  BY ProcAssumption DEF ProcInv, ProcTypeOK
<1>2. CASE start_decide = Absent
  <2>1. visit = 0
    BY <1>1, <1>2 DEF WalkEnded
  <2>2. \A i \in 1 .. Rounds : content[i] \in {Missing, Absent}
    BY <1>1, <1>2, <2>1 DEF OneProcessBehind
  <2> QED
    BY <1>2, <2>2, StartsPositive DEF Seen
<1>3. CASE start_decide # Absent
  <2>1. PICK j \in visit + 1 .. Rounds : content[j] = start_decide
    BY <1>1, <1>3 DEF OneProcessBehind
  <2>2. j \in Seen(content)
    BY <1>1, <1>3, <2>1 DEF Seen
  <2>3. /\ Last \in Seen(content) /\ \A k \in Seen(content) : k <= Last
        /\ First \in Life /\ \A k \in Life : First <= k
        /\ Seen(content) \subseteq 1 .. Rounds
    BY <1>1, <2>2, LastFirst
  <2>4. content[Last] = start_decide
    <3>1. Last \in visit + 1 .. Rounds /\ content[Last] \in Starts
      BY <1>1, <2>1, <2>2, <2>3 DEF Seen
    <3> QED
      BY <3>1, <1>1, StartsPositive DEF OneProcessBehind
  <2>5. \A i \in 1 .. Rounds : i \in Life <=> content[i] = start_decide
    BY <1>1, <1>3, <2>4 DEF Life, Seen
  <2>6. Life \subseteq Seen(content) /\ Last \in Life
    BY <2>3 DEF Life
  <2>7. First > visit
    BY <1>3, <2>3, <2>5, <2>6, LifeBehind
  <2>8. First <= Last
    BY <2>3, <2>6
  <2>9. First \in 1 .. Rounds /\ Last \in 1 .. Rounds
    BY <2>3, <2>6
  <2>10. \A i \in Life : First <= i /\ i <= Last
    BY <2>3, <2>6
  <2> QED
    BY <1>3, <2>2, <2>3, <2>4, <2>5, <2>7, <2>8, <2>9, <2>10
<1> QED
  BY <1>2, <1>3

-----------------------------------------------------------------------------
(* The marks: one row may be put before the others and one behind them.      *)
Ahead == IF before_first # Absent THEN 1 ELSE 0

LEMMA MarksShape ==
  ASSUME ProcInv, Marks
  PROVE  /\ fill' \in Seq(ProcRows) /\ Len(fill) \in Nat /\ DOMAIN fill = 1 .. Len(fill)
         /\ DOMAIN fill' = 1 .. Ahead + Len(fill) + (IF Gone THEN 1 ELSE 0)
         /\ before_first # Absent => fill'[1] = Row(before_first, 1012)
         /\ \A n \in 1 .. Len(fill) : fill'[Ahead + n] = fill[n]
         /\ Gone => fill'[Ahead + Len(fill) + 1] = Row(after_last, 1013)
<1> DEFINE pre == IF before_first # Absent THEN <<Row(before_first, 1012)>> ELSE <<>>
           post == IF Gone THEN <<Row(after_last, 1013)>> ELSE <<>>
<1>1. fill' = pre \o fill \o post
  BY DEF Marks
<1>2. /\ fill \in Seq(ProcRows) /\ Len(fill) \in Nat /\ DOMAIN fill = 1 .. Len(fill)
      /\ before_first \in 0 .. Rounds /\ after_last \in 0 .. Rounds
  BY DEF ProcInv, ProcTypeOK
<1>3. /\ pre \in Seq(ProcRows) /\ Len(pre) = Ahead
      /\ before_first # Absent => pre[1] = Row(before_first, 1012)
  <2>1. CASE before_first # Absent
    <3>1. Row(before_first, 1012) \in ProcRows
      BY <1>2, <2>1, RowInRows DEF Absent
    <3> QED
      BY <3>1, <2>1 DEF Ahead
  <2>2. CASE before_first = Absent
    BY <2>2 DEF Ahead
  <2> QED
    BY <2>1, <2>2
<1>4. /\ post \in Seq(ProcRows) /\ Len(post) = (IF Gone THEN 1 ELSE 0)
      /\ Gone => post[1] = Row(after_last, 1013)
  <2>1. CASE Gone
    <3>1. Row(after_last, 1013) \in ProcRows
      BY <1>2, <2>1, RowInRows DEF Gone, Absent
    <3> QED
      BY <3>1, <2>1
  <2>2. CASE ~Gone
    BY <2>2
  <2> QED
    BY <2>1, <2>2
<1> HIDE DEF pre, post
<1>5. /\ pre \o fill \in Seq(ProcRows) /\ Len(pre \o fill) = Ahead + Len(fill)
      /\ \A n \in 1 .. Ahead + Len(fill) :
           (pre \o fill)[n] = IF n <= Ahead THEN pre[n] ELSE fill[n - Ahead]
  <2>1. /\ pre \o fill \in Seq(ProcRows) /\ Len(pre \o fill) = Len(pre) + Len(fill)
        /\ \A n \in 1 .. Len(pre) + Len(fill) :
             (pre \o fill)[n] = IF n <= Len(pre) THEN pre[n] ELSE fill[n - Len(pre)]
    <3>1. pre \in Seq(ProcRows) /\ fill \in Seq(ProcRows)
      BY <1>2, <1>3
    <3> QED
      BY <3>1, ConcatProperties
  <2> QED
    BY <2>1, <1>3
<1>6. Ahead \in {0, 1} /\ (before_first # Absent => Ahead = 1)
  BY DEF Ahead
<1> DEFINE front == pre \o fill
<1>7. /\ front \in Seq(ProcRows) /\ Len(front) = Ahead + Len(fill)
      /\ before_first # Absent => front[1] = Row(before_first, 1012)
      /\ \A n \in 1 .. Len(fill) : front[Ahead + n] = fill[n]
  <2>1. before_first # Absent => 1 \in 1 .. Ahead + Len(fill) /\ 1 <= Ahead
    BY <1>2, <1>6
  <2>2. \A n \in 1 .. Len(fill) :
          /\ Ahead + n \in 1 .. Ahead + Len(fill) /\ ~(Ahead + n <= Ahead)
          /\ Ahead + n - Ahead = n
    BY <1>2, <1>6
  <2> QED
    BY <1>3, <1>5, <2>1, <2>2
<1> HIDE DEF front
<1>8. /\ fill' \in Seq(ProcRows) /\ Len(fill') = Len(front) + Len(post)
      /\ \A n \in 1 .. Len(front) + Len(post) :
           fill'[n] = IF n <= Len(front) THEN front[n] ELSE post[n - Len(front)]
  <2>1. fill' = front \o post
    BY <1>1 DEF front
  <2> QED
    BY <2>1, <1>4, <1>7, ConcatProperties
<1>9. DOMAIN fill' = 1 .. Len(fill')
  BY <1>8
<1>10. Len(post) \in Nat /\ Len(front) \in Nat /\ (Gone => Len(post) = 1)
  BY <1>2, <1>4, <1>6, <1>7
<1>11. before_first # Absent => fill'[1] = Row(before_first, 1012)
  <2>1. before_first # Absent => 1 \in 1 .. Len(front) + Len(post) /\ 1 <= Len(front)
    BY <1>2, <1>6, <1>7, <1>10
  <2> QED
    BY <2>1, <1>7, <1>8
<1>12. ASSUME NEW n \in 1 .. Len(fill) PROVE fill'[Ahead + n] = fill[n]
  <2>1. Ahead + n \in 1 .. Len(front) + Len(post) /\ Ahead + n <= Len(front)
    BY <1>2, <1>6, <1>7, <1>10
  <2> QED
    BY <2>1, <1>7, <1>8
<1>13. ASSUME Gone PROVE fill'[Ahead + Len(fill) + 1] = Row(after_last, 1013)
  <2>1. /\ Len(front) + 1 \in 1 .. Len(front) + Len(post) /\ ~(Len(front) + 1 <= Len(front))
        /\ Len(front) + 1 - Len(front) = 1
    BY <1>10, <1>13
  <2>2. fill'[Len(front) + 1] = post[1]
    BY <2>1, <1>8
  <2> QED
    BY <2>2, <1>4, <1>7, <1>13
<1> QED
  BY <1>2, <1>4, <1>7, <1>8, <1>9, <1>11, <1>12, <1>13

LEMMA MarksProc == ASSUME ProcInv, Marks PROVE ProcInv'
<1> USE DEF procInput
<1>1. /\ ppc' = "shown" /\ fill' \in Seq(ProcRows) /\ ppc = "marks"
      /\ UNCHANGED <<procInput, visit, start_decide, after_last, before_first, walked>>
  BY MarksShape DEF Marks
<1>2. ProcTypeOK'
  BY <1>1, RecordedKept DEF ProcInv, ProcTypeOK
<1>3. OneProcessBehind'
  BY <1>1 DEF ProcInv, OneProcessBehind
<1>4. WalkEnded'
  BY <1>1 DEF ProcInv, WalkEnded, BeforeStart
<1> QED
  BY <1>1, <1>2, <1>3, <1>4 DEF ProcInv

LEMMA StutterProc == ASSUME ProcInv, UNCHANGED procVars PROVE ProcInv'
<1> USE DEF procInput, procVars
<1>1. ProcTypeOK'
  BY RecordedKept DEF ProcInv, ProcTypeOK
<1>2. OneProcessBehind' /\ WalkEnded'
  BY DEF ProcInv, OneProcessBehind, WalkEnded, BeforeStart
<1>3. (WalkedRows /\ FilledRows /\ AllSlots) => (WalkedRows /\ FilledRows /\ AllSlots)'
  BY DEF WalkedRows, FilledRows, AllSlots
<1> QED
  BY <1>1, <1>2, <1>3 DEF ProcInv

(* Every row that is shown is the mark of the beginning, one of the rows of   *)
(* the pass forward, or the mark of the end.                                 *)
LEMMA ShownRows ==
  ASSUME ProcInv, Marks, NEW n \in DOMAIN fill'
  PROVE  \/ /\ before_first # Absent /\ n = 1 /\ fill'[n] = Row(before_first, 1012)
         \/ n - Ahead \in DOMAIN fill /\ fill'[n] = fill[n - Ahead]
         \/ /\ Gone /\ n = Ahead + Len(fill) + 1 /\ fill'[n] = Row(after_last, 1013)
<1>1. n \in 1 .. Ahead + Len(fill) + (IF Gone THEN 1 ELSE 0) /\ Len(fill) \in Nat
  BY MarksShape
<1>2. Ahead = 0 \/ (Ahead = 1 /\ before_first # Absent)
  BY DEF Ahead
<1>3. CASE n <= Ahead
  BY <1>1, <1>2, <1>3, MarksShape
<1>4. CASE n > Ahead /\ n <= Ahead + Len(fill)
  <2>1. n - Ahead \in 1 .. Len(fill) /\ Ahead + (n - Ahead) = n
    BY <1>1, <1>2, <1>4
  <2> QED
    BY <2>1, MarksShape
<1>5. CASE n > Ahead + Len(fill)
  BY <1>1, <1>2, <1>5, MarksShape
<1> QED
  BY <1>1, <1>2, <1>3, <1>4, <1>5

LEMMA MarksDifferences == ASSUME ProcInv, Marks PROVE DifferencesOfOneProcess'
<1>1. content' = content
  BY DEF Marks, procInput
<1>2. SUFFICES ASSUME NEW n \in DOMAIN fill', fill'[n].type = 1001
               PROVE  /\ fill'[n].from = fill'[n].slot - 1
                      /\ content[fill'[n].from] = content[fill'[n].slot]
                      /\ content[fill'[n].slot] \in Starts
  BY <1>1 DEF DifferencesOfOneProcess, OfType
<1>3. n - Ahead \in DOMAIN fill /\ fill'[n] = fill[n - Ahead]
  BY <1>2, ShownRows DEF Row
<1>4. FilledRows /\ start_decide \in {Absent} \cup Starts
  BY DEF ProcInv, ProcTypeOK, Marks
<1> QED
  BY <1>2, <1>3, <1>4 DEF FilledRows, RowTrue

(* The rows of the pass forward, by their kind.                              *)
LEMMA FilledFacts ==
  ASSUME ProcInv, ppc = "marks"
  PROVE  \A n \in DOMAIN fill :
           /\ fill[n] \in ProcRows /\ fill[n].slot \in visit + 1 .. Rounds
           /\ after_last # Absent => fill[n].slot < after_last
           /\ fill[n].type \in {1001, 1003, 1004}
           /\ fill[n].type = 1003 => content[fill[n].slot] = Missing
           /\ fill[n].type # 1003 => /\ start_decide # Absent
                                     /\ content[fill[n].slot] = start_decide
<1>1. FilledRows /\ fill \in Seq(ProcRows) /\ visit \in Nat /\ Rounds \in Nat
  BY ProcAssumption DEF ProcInv, ProcTypeOK
<1>2. \A n \in DOMAIN fill : fill[n] \in ProcRows
  BY <1>1, ElementOfSeq
<1>3. \A n \in DOMAIN fill : fill[n].slot \in 1 .. Rounds
  BY <1>2 DEF ProcRows
<1>4. \A n \in DOMAIN fill : RowTrue(fill[n], visit, content, start_decide)
                             /\ (after_last # Absent => fill[n].slot < after_last)
  BY <1>1 DEF FilledRows
<1> QED
  BY <1>1, <1>2, <1>3, <1>4 DEF RowTrue

(* A snapshot that the process is in, or that is missing before the process  *)
(* was gone, has its row.                                                    *)
LEMMA SlotsFilled ==
  ASSUME ProcInv, ppc = "marks", NEW i \in visit + 1 .. Rounds, content[i] # Absent,
         after_last # Absent => i < after_last
  PROVE  \E n \in DOMAIN fill : fill[n].slot = i
<1>1. AllSlots /\ after_last \in Int /\ i \in Int
  BY ProcAssumption DEF ProcInv, ProcTypeOK
<1>2. \A n \in DOMAIN walked : walked[n].slot # i
  BY <1>1 DEF AllSlots
<1> QED
  BY <1>1, <1>2 DEF AllSlots

LEMMA MarksLife == ASSUME ProcInv, Marks, SnapshotsInTime PROVE LifeReported'
<1>1. content' = content /\ ppc = "marks"
  BY DEF Marks, procInput
<1>2. Seen(content)' = Seen(content) /\ Life' = Life /\ First' = First /\ Last' = Last
  BY <1>1 DEF Life, First, Last, Seen
<1>3. /\ visit \in Nat /\ Rounds \in Nat /\ OneProcessBehind /\ FilledRows /\ WalkEnded
      /\ start_decide \in {Absent} \cup Starts /\ after_last \in 0 .. Rounds
      /\ before_first \in 0 .. Rounds
  BY <1>1, ProcAssumption DEF ProcInv, ProcTypeOK
<1>4. Len(fill) \in Nat /\ DOMAIN fill = 1 .. Len(fill) /\ Ahead \in {0, 1}
  BY MarksShape DEF Ahead
<1>5. \A m, n \in DOMAIN fill' : m < n => fill'[m].slot < fill'[n].slot
  <2> SUFFICES ASSUME NEW m \in DOMAIN fill', NEW n \in DOMAIN fill', m < n
               PROVE  fill'[m].slot < fill'[n].slot
    OBVIOUS
  <2>1. m \in Int /\ n \in Int
    BY <1>4, MarksShape
  <2>2. CASE before_first # Absent /\ m = 1 /\ fill'[m] = Row(before_first, 1012)
    <3>1. fill'[m].slot = visit
      BY <2>2, <1>3 DEF Row, WalkEnded
    <3>2. fill'[n].slot > visit
      <4>1. CASE n - Ahead \in DOMAIN fill /\ fill'[n] = fill[n - Ahead]
        BY <4>1, <1>1, <1>3, FilledFacts
      <4>2. CASE Gone /\ fill'[n] = Row(after_last, 1013)
        BY <4>2, <1>3 DEF Row, Gone, OneProcessBehind
      <4> QED
        BY <2>2, <4>1, <4>2, ShownRows
    <3> QED
      BY <3>1, <3>2
  <2>3. CASE m - Ahead \in DOMAIN fill /\ fill'[m] = fill[m - Ahead]
    <3>1. CASE before_first # Absent /\ n = 1
      BY <3>1, <2>1, <2>3, <1>4 DEF Ahead
    <3>2. CASE n - Ahead \in DOMAIN fill /\ fill'[n] = fill[n - Ahead]
      <4>1. m - Ahead < n - Ahead
        BY <2>1, <1>4
      <4> QED
        BY <4>1, <2>3, <3>2, <1>3 DEF FilledRows
    <3>3. CASE Gone /\ fill'[n] = Row(after_last, 1013)
      <4>1. fill[m - Ahead].slot < after_last
        BY <1>1, <2>3, <3>3, FilledFacts DEF Gone
      <4> QED
        BY <4>1, <2>3, <3>3 DEF Row
    <3> QED
      BY <3>1, <3>2, <3>3, ShownRows
  <2>4. CASE Gone /\ m = Ahead + Len(fill) + 1
    <3>1. n \in 1 .. Ahead + Len(fill) + 1
      BY <2>4, MarksShape
    <3> QED
      BY <3>1, <2>1, <2>4, <1>4
  <2> QED
    BY <2>2, <2>3, <2>4, ShownRows
<1>6. \A n \in DOMAIN fill : Ahead + n \in DOMAIN fill' /\ fill'[Ahead + n] = fill[n]
  BY <1>4, MarksShape
<1>7. ASSUME NEW i \in visit + 1 .. Rounds, start_decide # Absent, content[i] = start_decide
      PROVE  \E n \in DOMAIN fill' : fill'[n].slot = i /\ fill'[n].type \in {1001, 1004}
  <2>1. content[i] # Absent /\ content[i] # Missing /\ (after_last # Absent => i < after_last)
    BY <1>3, <1>7, StartsPositive DEF OneProcessBehind
  <2>2. PICK n \in DOMAIN fill : fill[n].slot = i
    BY <1>1, <2>1, SlotsFilled
  <2>3. fill[n].type \in {1001, 1004}
    BY <1>1, <2>1, <2>2, FilledFacts
  <2> QED
    BY <1>6, <2>2, <2>3
<1>8. ASSUME NEW n \in DOMAIN fill', fill'[n].type \in {1001, 1004}
      PROVE  /\ start_decide # Absent /\ content[fill'[n].slot] = start_decide
             /\ fill'[n].slot \in 1 .. Rounds
  <2>1. n - Ahead \in DOMAIN fill /\ fill'[n] = fill[n - Ahead]
    BY <1>8, ShownRows DEF Row
  <2> QED
    BY <1>1, <1>3, <1>8, <2>1, FilledFacts
<1>9. {fill'[n].slot : n \in OfType({1001, 1004})'} = (IF Seen(content) = {} THEN {} ELSE Life)
  <2>1. OfType({1001, 1004})' = {n \in DOMAIN fill' : fill'[n].type \in {1001, 1004}}
    BY DEF OfType
  <2>2. CASE Seen(content) = {}
    BY <1>1, <1>8, <2>1, <2>2, LifeOfReport
  <2>3. CASE Seen(content) # {}
    <3>1. /\ start_decide # Absent
          /\ \A i \in 1 .. Rounds : i \in Life <=> content[i] = start_decide
          /\ \A i \in Life : First <= i /\ i <= Last
          /\ First > visit /\ First \in 1 .. Rounds
      BY <1>1, <2>3, LifeOfReport
    <3>2. \A i \in Life : i \in visit + 1 .. Rounds
      <4>1. \A i \in Life : i \in 1 .. Rounds
        BY DEF Life, Seen
      <4> QED
        BY <3>1, <4>1, <1>3
    <3>3. ASSUME NEW i \in Life PROVE i \in {fill'[n].slot : n \in OfType({1001, 1004})'}
      <4>1. content[i] = start_decide
        BY <1>3, <3>1, <3>2
      <4> QED
        BY <1>7, <2>1, <3>1, <3>2, <4>1
    <3>4. ASSUME NEW n \in OfType({1001, 1004})' PROVE fill'[n].slot \in Life
      BY <1>8, <2>1, <3>1
    <3> QED
      BY <2>3, <3>3, <3>4
  <2> QED
    BY <2>2, <2>3
<1>10. ASSUME Seen(content) # {}, NEW i \in First .. Last, content[i] = Missing
       PROVE  \E n \in OfType({1003})' : fill'[n].slot = i
  <2>1. /\ start_decide # Absent /\ Last \in 1 .. Rounds /\ First \in 1 .. Rounds /\ First > visit
        /\ content[Last] = start_decide
    BY <1>1, <1>10, LifeOfReport
  <2>2. i \in visit + 1 .. Rounds /\ Last \in visit + 1 .. Rounds /\ i <= Last
    BY <1>3, <1>10, <2>1
  <2>3. content[i] # Absent /\ content[i] \notin Starts /\ (after_last # Absent => i < after_last)
    <3>1. content[Last] \in Starts /\ Missing # Absent /\ Missing \notin Starts
      BY <1>3, <2>1, StartsPositive DEF Missing, Absent
    <3>2. after_last # Absent => Last < after_last
      BY <1>3, <2>2, <3>1 DEF OneProcessBehind
    <3> QED
      BY <1>3, <1>10, <2>2, <3>1, <3>2
  <2>4. PICK n \in DOMAIN fill : fill[n].slot = i
    BY <1>1, <2>2, <2>3, SlotsFilled
  <2>5. fill[n].type = 1003
    BY <1>1, <1>3, <2>3, <2>4, FilledFacts
  <2> QED
    BY <1>6, <2>4, <2>5 DEF OfType
<1> QED
  BY <1>1, <1>2, <1>5, <1>9, <1>10 DEF LifeReported

(* ">" stands for the first snapshot without the id behind the last sample.  *)
LEMMA MarksAfter ==
  ASSUME ProcInv, ppc = "marks", SnapshotsInTime, Seen(content) # {}, NEW i \in 1 .. Rounds
  PROVE  (/\ content[i] = Absent /\ i > Last
          /\ \A j \in 1 .. Rounds : content[j] = Absent /\ j > Last => i <= j)
           <=> (Gone /\ i = after_last)
<1>1. /\ visit \in Nat /\ Rounds \in Nat /\ OneProcessBehind
      /\ start_decide \in {Absent} \cup Starts /\ after_last \in 0 .. Rounds
  BY ProcAssumption DEF ProcInv, ProcTypeOK
<1>2. /\ start_decide # Absent /\ Last \in 1 .. Rounds /\ First \in 1 .. Rounds /\ First > visit
      /\ First <= Last /\ content[Last] = start_decide
  BY LifeOfReport
<1>3. Last \in visit + 1 .. Rounds /\ content[Last] \in Starts
  BY <1>1, <1>2
<1>4. after_last # Absent => after_last > Last /\ content[after_last] = Absent /\ Gone
  <2>1. SUFFICES ASSUME after_last # Absent
                 PROVE  after_last > Last /\ content[after_last] = Absent /\ Gone
    OBVIOUS
  <2>2. Last < after_last /\ content[after_last] = Absent
    BY <2>1, <1>1, <1>3 DEF OneProcessBehind
  <2>3. visit + 1 < after_last
    BY <2>2, <1>1, <1>2
  <2> QED
    BY <2>1, <2>2, <2>3 DEF Gone
<1>5. \A j \in 1 .. Rounds :
        content[j] = Absent /\ j > Last => after_last # Absent /\ after_last <= j
  BY <1>1, <1>3 DEF OneProcessBehind
<1>6. Gone => after_last # Absent /\ after_last \in 1 .. Rounds
  BY <1>1 DEF Gone, Absent
<1>7. ASSUME content[i] = Absent, i > Last,
             \A j \in 1 .. Rounds : content[j] = Absent /\ j > Last => i <= j
      PROVE  Gone /\ i = after_last
  <2>1. after_last # Absent /\ after_last <= i
    BY <1>5, <1>7
  <2>2. after_last > Last /\ content[after_last] = Absent /\ Gone /\ after_last \in 1 .. Rounds
    BY <2>1, <1>4, <1>6
  <2>3. i <= after_last
    BY <2>2, <1>7
  <2> QED
    BY <2>1, <2>2, <2>3, <1>1
<1> QED
  BY <1>4, <1>5, <1>6, <1>7

(* "<" stands for the last snapshot from before the process.                 *)
LEMMA MarksBefore ==
  ASSUME ProcInv, ppc = "marks", SnapshotsInTime, Seen(content) # {}, NEW i \in 1 .. Rounds
  PROVE  (/\ content[i] = Absent /\ i < First /\ SlotTime(i) >= content[Last] - 2 * Step
          /\ \A j \in i + 1 .. First - 1 : content[j] = Missing)
           <=> (before_first # Absent /\ i = before_first)
<1>1. /\ visit \in 0 .. Rounds /\ Rounds \in Nat /\ OneProcessBehind /\ WalkEnded
      /\ start_decide \in {Absent} \cup Starts /\ after_last \in 0 .. Rounds
      /\ before_first \in 0 .. Rounds
      /\ content \in [1 .. Rounds -> {Missing, Absent} \cup Starts]
  BY ProcAssumption DEF ProcInv, ProcTypeOK
<1>2. /\ start_decide # Absent /\ Last \in 1 .. Rounds /\ First \in 1 .. Rounds /\ First > visit
      /\ First <= Last /\ content[Last] = start_decide /\ First \in Life
      /\ \A j \in Life : First <= j
      /\ \A j \in 1 .. Rounds : j \in Life <=> content[j] = start_decide
  BY LifeOfReport
<1>3. \A j \in visit + 1 .. First - 1 : content[j] = Missing
  <2> SUFFICES ASSUME NEW j \in visit + 1 .. First - 1 PROVE content[j] = Missing
    OBVIOUS
  <2>1. /\ j \in visit + 1 .. Rounds /\ j \in 1 .. Rounds /\ j < First
        /\ First \in visit + 1 .. Rounds
    BY <1>1, <1>2
  <2>2. content[j] # start_decide
    BY <1>2, <2>1
  <2>3. content[First] \in Starts
    BY <1>1, <1>2
  <2>4. content[j] # Absent
    BY <1>1, <2>1, <2>3 DEF OneProcessBehind
  <2> QED
    BY <1>1, <2>1, <2>2, <2>4 DEF OneProcessBehind
<1>4. SlotTime(i) \in Int /\ SlotTime(visit) \in Int /\ Step \in Nat \ {0} /\ start_decide \in Int
  <2>1. i \in Int /\ visit \in Int
    BY <1>1
  <2>2. SlotTime(i) \in Int /\ SlotTime(visit) \in Int
    BY <2>1, SlotTimes
  <2>3. start_decide \in Int
    BY <1>1, StartsPositive DEF Absent
  <2> QED
    BY <2>2, <2>3, SamplesAssumption
<1>5. ASSUME content[i] = Absent, i < First, SlotTime(i) >= content[Last] - 2 * Step,
             \A j \in i + 1 .. First - 1 : content[j] = Missing
      PROVE  before_first # Absent /\ i = before_first
  <2>1. i <= visit /\ visit # 0
    <3>1. i \notin visit + 1 .. First - 1
      BY <1>3, <1>5 DEF Missing, Absent
    <3> QED
      BY <3>1, <1>1, <1>2, <1>5
  <2>2. ~BeforeStart(visit)
    <3>1. SlotTime(i) <= SlotTime(visit)
      <4>1. CASE i = visit
        BY <4>1, <1>4
      <4>2. CASE i < visit
        <5>1. i \in Int /\ visit \in Int
          BY <1>1
        <5>2. SlotTime(i) + Step <= SlotTime(visit)
          BY <4>2, <5>1, SlotTimes
        <5> QED
          BY <5>2, <1>4
      <4> QED
        BY <4>1, <4>2, <2>1, <1>1
    <3>2. SlotTime(i) >= start_decide - 2 * Step
      BY <1>2, <1>5
    <3> QED
      BY <3>1, <3>2, <1>4 DEF BeforeStart
  <2>3. content[visit] \notin {Missing, start_decide}
    BY <1>1, <2>1, <2>2 DEF WalkEnded
  <2>4. i = visit
    BY <1>1, <1>2, <1>5, <2>1, <2>3
  <2> QED
    BY <1>1, <1>5, <2>1, <2>2, <2>4 DEF WalkEnded, Absent
<1>6. ASSUME before_first # Absent, i = before_first
      PROVE  /\ content[i] = Absent /\ i < First /\ SlotTime(i) >= content[Last] - 2 * Step
             /\ \A j \in i + 1 .. First - 1 : content[j] = Missing
  <2>1. i = visit /\ content[visit] = Absent /\ ~BeforeStart(visit)
    BY <1>1, <1>6 DEF WalkEnded
  <2>2. SlotTime(i) >= content[Last] - 2 * Step
    BY <2>1, <1>2, <1>4 DEF BeforeStart
  <2> QED
    BY <2>1, <2>2, <1>2, <1>3
<1> QED
  BY <1>5, <1>6

LEMMA MarksMarks == ASSUME ProcInv, Marks, SnapshotsInTime PROVE MarksTrue'
<1>1. content' = content /\ ppc = "marks"
  BY DEF Marks, procInput
<1>2. Seen(content)' = Seen(content) /\ First' = First /\ Last' = Last
  BY <1>1 DEF Life, First, Last, Seen
<1> SUFFICES ASSUME Seen(content) # {} PROVE MarksTrue'
  BY <1>2 DEF MarksTrue
<1> DEFINE absent == {i \in 1 .. Rounds : content[i] = Absent}
           after  == {i \in absent : i > Last /\ \A j \in absent : j > Last => i <= j}
           before == {i \in absent : /\ i < First /\ SlotTime(i) >= content[Last] - 2 * Step
                                     /\ \A j \in i + 1 .. First - 1 : content[j] = Missing}
<1>3. after = {i \in 1 .. Rounds : Gone /\ i = after_last}
  BY <1>1, MarksAfter
<1>4. before = {i \in 1 .. Rounds : before_first # Absent /\ i = before_first}
  BY <1>1, MarksBefore
<1>5. \A n \in DOMAIN fill' : fill'[n].type = 1013 => Gone /\ fill'[n].slot = after_last
  BY <1>1, ShownRows, FilledFacts DEF Row
<1>6. \A n \in DOMAIN fill' : fill'[n].type = 1012 =>
        before_first # Absent /\ fill'[n].slot = before_first
  BY <1>1, ShownRows, FilledFacts DEF Row
<1>7. Len(fill) \in Nat /\ Ahead \in {0, 1} /\ (before_first # Absent => Ahead = 1)
  BY MarksShape DEF Ahead
<1>8. Gone => \E n \in DOMAIN fill' : fill'[n] = Row(after_last, 1013)
  <2>1. Gone => Ahead + Len(fill) + 1 \in DOMAIN fill'
    BY <1>7, MarksShape
  <2> QED
    BY <2>1, MarksShape
<1>9. before_first # Absent => \E n \in DOMAIN fill' : fill'[n] = Row(before_first, 1012)
  <2>1. before_first # Absent => 1 \in DOMAIN fill'
    BY <1>7, MarksShape
  <2> QED
    BY <2>1, MarksShape
<1>10. \A n \in DOMAIN fill' : fill'[n].slot \in 1 .. Rounds
  <2>1. \A n \in DOMAIN fill' : fill'[n] \in ProcRows
    <3>1. fill' \in Seq(ProcRows)
      BY MarksShape
    <3>2. DOMAIN fill' = 1 .. Len(fill')
      BY <3>1
    <3> QED
      BY <3>1, <3>2, ElementOfSeq
  <2> QED
    BY <2>1 DEF ProcRows
<1>11. {fill'[n].slot : n \in OfType({1013})'} = after
  <2>1. OfType({1013})' = {n \in DOMAIN fill' : fill'[n].type = 1013}
    BY DEF OfType
  <2>2. \A n \in OfType({1013})' : fill'[n].slot \in after
    BY <2>1, <1>3, <1>5, <1>10
  <2>3. ASSUME NEW i \in after PROVE i \in {fill'[n].slot : n \in OfType({1013})'}
    <3>1. Gone /\ i = after_last
      BY <1>3
    <3>2. PICK n \in DOMAIN fill' : fill'[n] = Row(after_last, 1013)
      BY <3>1, <1>8
    <3>3. fill'[n].slot = i /\ n \in OfType({1013})'
      BY <2>1, <3>1, <3>2 DEF Row
    <3> QED
      BY <3>3
  <2> HIDE DEF after
  <2> QED
    BY <2>2, <2>3
<1>12. {fill'[n].slot : n \in OfType({1012})'} = before
  <2>1. OfType({1012})' = {n \in DOMAIN fill' : fill'[n].type = 1012}
    BY DEF OfType
  <2>2. \A n \in OfType({1012})' : fill'[n].slot \in before
    BY <2>1, <1>4, <1>6, <1>10
  <2>3. ASSUME NEW i \in before PROVE i \in {fill'[n].slot : n \in OfType({1012})'}
    <3>1. before_first # Absent /\ i = before_first
      BY <1>4
    <3>2. PICK n \in DOMAIN fill' : fill'[n] = Row(before_first, 1012)
      BY <3>1, <1>9
    <3>3. fill'[n].slot = i /\ n \in OfType({1012})'
      BY <2>1, <3>1, <3>2 DEF Row
    <3> QED
      BY <3>3
  <2> HIDE DEF before
  <2> QED
    BY <2>2, <2>3
<1>13. /\ absent' = absent
       /\ after' = {i \in absent : i > Last /\ \A j \in absent : j > Last => i <= j}
       /\ before' = {i \in absent : /\ i < First /\ SlotTime(i) >= content[Last] - 2 * Step
                                    /\ \A j \in i + 1 .. First - 1 : content[j] = Missing}
  BY <1>1, <1>2 DEF SlotTime
<1>14. after' = after /\ before' = before
  BY <1>13
<1>15. /\ {fill'[n].slot : n \in OfType({1013})'} = after'
       /\ {fill'[n].slot : n \in OfType({1012})'} = before'
  BY <1>11, <1>12, <1>14
<1> QED
  BY <1>15 DEF MarksTrue

-----------------------------------------------------------------------------
(* ProcInv is an invariant of the report on one process id.                  *)
LEMMA NextProc == ASSUME ProcInv, [ProcNext]_procVars PROVE ProcInv'
<1>1. CASE SnapshotMissing
  BY <1>1, SnapshotMissingProc
<1>2. CASE PidAbsent
  BY <1>2, PidAbsentProc
<1>3. CASE OtherProcess
  BY <1>3, OtherProcessProc
<1>4. CASE SampleRead
  BY <1>4, SampleReadProc
<1>5. CASE WalkEnds
  BY <1>5, WalkEndsProc
<1>6. CASE FillProc
  BY <1>6, FillProcProc
<1>7. CASE FillEnds
  BY <1>7, FillEndsProc
<1>8. CASE Marks
  BY <1>8, MarksProc
<1>9. CASE UNCHANGED procVars
  BY <1>9, StutterProc
<1> QED
  BY <1>1, <1>2, <1>3, <1>4, <1>5, <1>6, <1>7, <1>8, <1>9 DEF ProcNext

(* Every row that the walk has passed is of one process and of its own        *)
(* snapshot, none is left out, and the walk ends only where it must.         *)
THEOREM ProcInvariant == ProcSpec => []ProcInv
BY InitProc, NextProc, PTL DEF ProcSpec

(* The report is shown by the step of the marks, and it stays as it is.      *)
LEMMA ShownOnce ==
  ASSUME [ProcNext]_procVars, ppc' = "shown" PROVE Marks \/ UNCHANGED procVars
<1>1. SnapshotMissing \/ PidAbsent \/ OtherProcess \/ SampleRead => ppc' # "shown"
  BY DEF SnapshotMissing, PidAbsent, OtherProcess, SampleRead, WalkGoesOn
<1>2. WalkEnds \/ FillProc \/ FillEnds => ppc' # "shown"
  BY DEF WalkEnds, FillProc, FillEnds
<1> QED
  BY <1>1, <1>2 DEF ProcNext

LEMMA ShownStays ==
  ASSUME UNCHANGED procVars
  PROVE  /\ DifferencesOfOneProcess => DifferencesOfOneProcess'
         /\ LifeReported => LifeReported'
         /\ MarksTrue => MarksTrue'
<1> USE DEF procVars, procInput
<1>1. UNCHANGED <<ppc, fill, content>>
  OBVIOUS
<1>2. Seen(content)' = Seen(content) /\ Life' = Life /\ First' = First /\ Last' = Last
  BY <1>1 DEF Life, First, Last, Seen
<1>3. \A types : OfType(types)' = OfType(types)
  BY <1>1 DEF OfType
<1> QED
  BY <1>1, <1>2, <1>3 DEF DifferencesOfOneProcess, LifeReported, MarksTrue, OfType

(* A difference that is shown for a process id is one between the samples of  *)
(* two neighbouring slots, of one and the same process, however the id was    *)
(* reused and whichever snapshots are missing.                               *)
THEOREM OneProcess == ProcSpec => []DifferencesOfOneProcess
<1>1. ProcInit => DifferencesOfOneProcess
  BY DEF ProcInit, DifferencesOfOneProcess
<1>2. ASSUME ProcInv, DifferencesOfOneProcess, [ProcNext]_procVars
      PROVE  DifferencesOfOneProcess'
  <2>1. CASE ppc' = "shown"
    BY <1>2, <2>1, ShownOnce, ShownStays, MarksDifferences
  <2>2. CASE ppc' # "shown"
    BY <2>2 DEF DifferencesOfOneProcess
  <2> QED
    BY <2>1, <2>2
<1> QED
  BY <1>1, <1>2, ProcInvariant, PTL DEF ProcSpec

(* The report on a process id has every sample of the process that had it     *)
(* last, in order, and none of another, if snapshots are written in time:      *)
(* only then are two intervals before its start far enough back.             *)
THEOREM WholeLife == ASSUME SnapshotsInTime PROVE ProcSpec => []LifeReported
<1>1. ProcInit => LifeReported
  BY DEF ProcInit, LifeReported
<1>2. ASSUME ProcInv, LifeReported, [ProcNext]_procVars PROVE LifeReported'
  <2>1. CASE ppc' = "shown"
    BY <1>2, <2>1, ShownOnce, ShownStays, MarksLife
  <2>2. CASE ppc' # "shown"
    BY <2>2 DEF LifeReported
  <2> QED
    BY <2>1, <2>2
<1> QED
  BY <1>1, <1>2, ProcInvariant, PTL DEF ProcSpec

(* Under the same condition ">" and "<" stand where the process was gone and  *)
(* where it was not there yet, and nowhere else.                             *)
THEOREM TrueMarks == ASSUME SnapshotsInTime PROVE ProcSpec => []MarksTrue
<1>1. ProcInit => MarksTrue
  BY DEF ProcInit, MarksTrue
<1>2. ASSUME ProcInv, MarksTrue, [ProcNext]_procVars PROVE MarksTrue'
  <2>1. CASE ppc' = "shown"
    BY <1>2, <2>1, ShownOnce, ShownStays, MarksMarks
  <2>2. CASE ppc' # "shown"
    BY <2>2 DEF MarksTrue
  <2> QED
    BY <2>1, <2>2
<1> QED
  BY <1>1, <1>2, ProcInvariant, PTL DEF ProcSpec
=============================================================================
