--------------------------- MODULE DataFilesProofs --------------------------
(***************************************************************************)
(* Proofs about DataFiles, for any clock, hours, stamps and intervals.     *)
(***************************************************************************)
EXTENDS DataFiles, TLAPS

-----------------------------------------------------------------------------
(* ReportProcs: where it is between its two searches.                        *)
ProcsInv ==
  /\ src = "none" => pc = "idle" /\ finish_real = NoFile /\ time_point = it_time_point
  /\ src = "procs" =>
    \/ /\ finish_real = NoFile /\ it_time_point = finish
       /\ time_point \in {finish, finish - 1}
    \/ /\ finish_real # NoFile /\ ~adjust /\ time_point = it_time_point
       /\ finish_real[1] - it_time_point = finish - begin
       /\ it_time_point \in {begin, begin - 1}

(* ReportSys: its first search, then the walk from what it found.            *)
SysInv ==
  src = "sys" =>
    \/ /\ adjust /\ finish_real = NoFile /\ it_time_point = finish /\ pc # "done"
       /\ time_point \in {finish, finish - 1}
    \/ /\ ~adjust /\ time_point = it_time_point
       /\ finish_real # NoFile =>
            /\ finish_real[1] = IF adjusted THEN finish - 1 ELSE finish
            /\ it_time_point >= BeginPoint
            /\ pc = "done" => it_time_point - intervals < BeginPoint

(* adjust is on for the first search of ReportProcs and ReportSys only.      *)
AdjustInv == adjust => src \in {"procs", "sys"} /\ finish_real = NoFile

(* A file that was found is of the minute it was looked for.                 *)
FoundInv == pc \in {"answer", "done"} /\ found # NoFile => found[1] = time_point

WalkInv == src \notin {"procs", "sys"} => time_point = it_time_point

CallInv == FilesTypeOK /\ ProcsInv /\ SysInv /\ AdjustInv /\ FoundInv /\ WalkInv

LEMMA HourInt == ASSUME NEW m \in Int PROVE Hour(m) \in Int
BY FilesAssumption DEF Hour

LEMMA InitCall == FilesInit => CallInv
<1> SUFFICES ASSUME FilesInit PROVE CallInv
  OBVIOUS
<1>1. hours \subseteq Int
  <2>1. PICK first \in Int, last \in Int : hours = first .. last
    BY HourInt, FilesAssumption DEF FilesInit
  <2> QED
    BY <2>1
<1>2. disk \subseteq Stamps
  BY DEF FilesInit, Stamps
<1>3. excused \in BOOLEAN /\ adjust = FALSE /\ adjusted = FALSE /\ geted = FALSE
  BY Zenon DEF FilesInit
<1>4. now \in 0 .. MaxMinute /\ ever = disk /\ src = "none" /\ begin = 0 /\ finish = 0
      /\ intervals = 0 /\ it_time_point = 0 /\ time_point = 0 /\ dirs = {} /\ files = {}
      /\ finish_real = NoFile /\ pc = "idle" /\ found = NoFile
  BY DEF FilesInit
<1>a. begin \in Nat /\ finish \in 0 .. MaxMinute /\ 0 \in Points
  BY <1>4, FilesAssumption DEF Points
<1>5. FilesTypeOK
  BY <1>1, <1>2, <1>3, <1>4, <1>a DEF FilesTypeOK
<1>6. ProcsInv /\ SysInv
  BY <1>4 DEF ProcsInv, SysInv
<1>7. AdjustInv
  BY <1>3 DEF AdjustInv
<1>8. FoundInv /\ WalkInv
  BY <1>4 DEF FoundInv, WalkInv
<1> QED
  BY <1>5, <1>6, <1>7, <1>8 DEF CallInv

(* The daemon does not touch the reader's variables.                         *)
LEMMA DaemonCall == ASSUME CallInv, Daemon PROVE CallInv'
<1>1. now' \in 0 .. MaxMinute /\ UNCHANGED readerVars
  BY FilesAssumption
  DEF Daemon, Tick, Rotate, Collect, RecycleFile, RecycleDir, CallInv, FilesTypeOK
<1>2. hours' \subseteq Int
  <2>1. Hour(now) \in Int
    BY HourInt, FilesAssumption DEF CallInv, FilesTypeOK
  <2> QED
    BY <2>1 DEF Daemon, Tick, Rotate, Collect, RecycleFile, RecycleDir, CallInv, FilesTypeOK
<1>3. disk' \subseteq Stamps
  BY DEF Daemon, Tick, Rotate, Collect, RecycleFile, RecycleDir, CallInv, FilesTypeOK, Stamps
<1>4. ever' \subseteq Stamps /\ excused' \in BOOLEAN
  BY <1>3 DEF Daemon, Tick, Rotate, Collect, RecycleFile, RecycleDir, Observed, histVars,
     CallInv, FilesTypeOK
<1> QED
  BY <1>1, <1>2, <1>3, <1>4
  DEF CallInv, FilesTypeOK, ProcsInv, SysInv, BeginPoint, AdjustInv, FoundInv, WalkInv,
      readerVars, optionVars, pointVars, cacheVars, searchVars, adjustVars

(* The search changes neither the points nor what the reports keep.          *)
LEMMA LookKeeps ==
  ASSUME CallInv, UNCHANGED <<daemonVars, optionVars, pointVars, adjustVars, histVars>>,
         pc # "idle", pc' # "idle", FoundInv',
         dirs' \subseteq Int, files' \subseteq Stamps, geted' \in BOOLEAN,
         found' \in Stamps \cup {NoFile},
         pc' \in {"dir", "dirlist", "file", "filelist", "answer"},
         pc' = "dirlist" => seen' \subseteq Int, pc' = "filelist" => seen' \subseteq Stamps
  PROVE  CallInv'
<1> USE DEF daemonVars, optionVars, pointVars, adjustVars, histVars, CallInv
<1>1. FilesTypeOK'
  BY DEF FilesTypeOK
<1>2. ProcsInv' /\ SysInv' /\ WalkInv'
  BY DEF ProcsInv, SysInv, BeginPoint, WalkInv
<1>3. AdjustInv'
  BY DEF AdjustInv
<1> QED
  BY <1>1, <1>2, <1>3

LEMMA LookCall ==
  ASSUME CallInv, GetDataDir \/ GetDataFile \/ ListDirs \/ ListFiles
  PROVE  CallInv'
<1> USE DEF lookFrame, cacheVars, Answer
<1>1. CASE GetDataDir
  <2>1. geted' \in BOOLEAN /\ found' \in Stamps \cup {NoFile} /\ (pc' = "dirlist" => seen' \subseteq Int)
        /\ pc' \in {"file", "answer", "dirlist"} /\ pc # "idle" /\ (pc' = "answer" => found' = NoFile)
    BY <1>1 DEF GetDataDir, CallInv, FilesTypeOK, daemonVars
  <2>2. dirs' \subseteq Int /\ files' \subseteq Stamps
    BY <1>1 DEF GetDataDir, CallInv, FilesTypeOK
  <2> QED
    BY <1>1, <2>1, <2>2, LookKeeps DEF GetDataDir, FoundInv
<1>2. CASE GetDataFile
  <2>1. /\ pc' \in {"answer", "filelist"} /\ geted' = geted /\ pc # "idle"
        /\ pc' = "filelist" => seen' \subseteq disk /\ found' = found
        /\ pc' = "answer" => found' = NoFile \/ found' \in Of(files, time_point)
    BY <1>2 DEF GetDataFile, Earliest
  <2>2. dirs' \subseteq Int /\ files' \subseteq Stamps /\ geted' \in BOOLEAN
    BY <1>2, <2>1 DEF GetDataFile, CallInv, FilesTypeOK
  <2>3. found' \in Stamps \cup {NoFile} /\ (pc' = "filelist" => seen' \subseteq Stamps)
    BY <2>1 DEF CallInv, FilesTypeOK, Of
  <2>4. FoundInv'
    BY <1>2, <2>1 DEF GetDataFile, FoundInv, Of, pointVars
  <2> QED
    BY <1>2, <2>1, <2>2, <2>3, <2>4, LookKeeps DEF GetDataFile
<1>3. CASE ListDirs
  <2>1. dirs' \subseteq Int /\ files' \subseteq Stamps
    BY <1>3 DEF ListDirs, Listings, CallInv, FilesTypeOK
  <2>2. /\ geted' \in BOOLEAN /\ found' \in Stamps \cup {NoFile} /\ pc # "idle"
        /\ pc' \in {"answer", "dir"} /\ (pc' = "answer" => found' = NoFile)
    BY <1>3 DEF ListDirs, CallInv, FilesTypeOK
  <2> QED
    BY <1>3, <2>1, <2>2, LookKeeps DEF ListDirs, FoundInv
<1>4. CASE ListFiles
  <2>1. dirs' \subseteq Int /\ files' \subseteq Stamps
    BY <1>4 DEF ListFiles, Listings, CallInv, FilesTypeOK
  <2>2. /\ geted' \in BOOLEAN /\ found' \in Stamps \cup {NoFile} /\ pc # "idle"
        /\ pc' \in {"answer", "file"} /\ (pc' = "answer" => found' = NoFile)
    BY <1>4 DEF ListFiles, CallInv, FilesTypeOK
  <2> QED
    BY <1>4, <2>1, <2>2, LookKeeps DEF ListFiles, FoundInv
<1> QED
  BY <1>1, <1>2, <1>3, <1>4

(* A search for m that begins while the files and the names stay.            *)
LEMMA SearchKeeps ==
  ASSUME CallInv, NEW m \in Points, Search(m), UNCHANGED <<daemonVars, cacheVars, ever>>,
         it_time_point' \in Points, begin' \in Nat, finish' \in 0 .. MaxMinute,
         intervals' \in Intervals \cup {0}, src' \in {"proc", "procs", "sys", "load2p"},
         src' \in {"proc", "procs", "sys"} => begin' < finish',
         adjust' \in BOOLEAN, adjusted' \in BOOLEAN, finish_real' \in Stamps \cup {NoFile},
         ProcsInv', SysInv', AdjustInv', WalkInv'
  PROVE  CallInv'
<1>1. excused' \in BOOLEAN
  BY Zenon DEF Search
<1>2. FilesTypeOK'
  BY <1>1 DEF Search, CallInv, FilesTypeOK, daemonVars, cacheVars
<1>3. FoundInv'
  BY DEF Search, FoundInv
<1> QED
  BY <1>2, <1>3 DEF CallInv

LEMMA DoneKeeps ==
  ASSUME CallInv, pc = "answer", Done,
         UNCHANGED <<daemonVars, optionVars, cacheVars, adjustVars, ever>>,
         src = "sys" => ~adjust /\ it_time_point - intervals < BeginPoint
  PROVE  CallInv'
<1> USE DEF Done, daemonVars, optionVars, cacheVars, adjustVars, pointVars, CallInv
<1>1. FilesTypeOK'
  BY DEF FilesTypeOK
<1>2. ProcsInv' /\ SysInv' /\ WalkInv' /\ FoundInv'
  BY DEF ProcsInv, SysInv, BeginPoint, WalkInv, FoundInv
<1>3. AdjustInv'
  BY DEF AdjustInv
<1> QED
  BY <1>1, <1>2, <1>3

LEMMA StartCall == ASSUME CallInv, Start PROVE CallInv'
<1>1. PICK hard \in hours, b \in 0 .. now, f \in 0 .. now :
        /\ IF src' = "load2p" THEN b = f ELSE b < f /\ hard * MinutesPerHour < f
        /\ begin' = IF b < hard * MinutesPerHour THEN hard * MinutesPerHour ELSE b
        /\ finish' = f /\ it_time_point' = f /\ Search(f)
  BY DEF Start
<1> DEFINE first == hard * MinutesPerHour
<1>2. first \in Int
  BY FilesAssumption DEF CallInv, FilesTypeOK
<1> HIDE DEF first
<1>3. begin' = (IF b < first THEN first ELSE b) /\ (src' # "load2p" => b < f /\ first < f)
  BY <1>1 DEF first
<1>4. /\ begin' \in Nat /\ (src' # "load2p" => begin' < finish')
      /\ finish' \in 0 .. MaxMinute /\ f \in Points
  BY <1>1, <1>2, <1>3, FilesAssumption DEF CallInv, FilesTypeOK, Points
<1>5. /\ UNCHANGED <<daemonVars, cacheVars, adjusted, finish_real, ever>> /\ src = "none"
      /\ src' \in {"proc", "procs", "sys", "load2p"} /\ intervals' \in Intervals \cup {0}
  BY DEF Start
<1>6. adjust' \in BOOLEAN /\ (adjust' <=> src' \in {"procs", "sys"})
  <2> DEFINE adjusts == src' \in {"procs", "sys"}
  <2>1. adjust' = adjusts /\ adjusts \in BOOLEAN
    BY DEF Start
  <2> HIDE DEF adjusts
  <2>2. adjust' \in BOOLEAN /\ (adjust' <=> adjusts)
    BY <2>1
  <2> QED
    BY <2>2 DEF adjusts
<1>7. finish_real' = NoFile /\ it_time_point' = f /\ time_point' = f /\ finish' = f
  BY <1>1, <1>5 DEF CallInv, ProcsInv, Search
<1>8. ProcsInv' /\ SysInv' /\ WalkInv'
  BY <1>1, <1>5, <1>6, <1>7 DEF ProcsInv, SysInv, WalkInv, Search
<1>9. AdjustInv'
  BY <1>6, <1>7 DEF AdjustInv
<1> QED
  BY <1>1, <1>4, <1>5, <1>6, <1>7, <1>8, <1>9, SearchKeeps DEF CallInv, FilesTypeOK

LEMMA ReportCall ==
  ASSUME CallInv, Start \/ Adjust \/ ReportProc \/ ReportSys \/ FinishFound \/ ProcsDone \/ ReportLoad2p
  PROVE  CallInv'
<1>0. NoFile \notin Stamps
  BY FilesAssumption DEF Stamps
<1>1. CASE Adjust
  <2>1. src \in {"procs", "sys"} /\ finish_real = NoFile /\ it_time_point = finish
    BY <1>0, <1>1 DEF Adjust, Retry, CallInv, AdjustInv, ProcsInv, SysInv
  <2>2. it_time_point - 1 \in Points
    BY <2>1, FilesAssumption DEF CallInv, FilesTypeOK, Points
  <2>3. ProcsInv' /\ SysInv' /\ WalkInv'
    BY <1>1, <2>1 DEF Adjust, Retry, Search, ProcsInv, SysInv, WalkInv, optionVars, adjustVars
  <2>4. AdjustInv'
    BY <1>1 DEF Adjust, CallInv, AdjustInv, optionVars, adjustVars
  <2> QED
    BY <1>1, <2>1, <2>2, <2>3, <2>4, SearchKeeps
    DEF Adjust, CallInv, FilesTypeOK, optionVars, adjustVars
<1>2. CASE ReportProc
  <2>1. CASE it_time_point - intervals >= BeginPoint
    <3>1. it_time_point - intervals \in Points
      BY <2>1, FilesAssumption DEF CallInv, FilesTypeOK, Points, BeginPoint
    <3>2. ProcsInv' /\ WalkInv'
      BY <1>2, <2>1 DEF ReportProc, Ask, Search, ProcsInv, WalkInv, optionVars
    <3>3. SysInv'
      BY <1>2, <2>1
      DEF ReportProc, Ask, Search, CallInv, SysInv, BeginPoint, optionVars, adjustVars
    <3>4. AdjustInv'
      BY <1>2 DEF ReportProc, CallInv, AdjustInv, optionVars, adjustVars
    <3> QED
      BY <1>2, <2>1, <3>1, <3>2, <3>3, <3>4, SearchKeeps
      DEF ReportProc, Ask, CallInv, FilesTypeOK, optionVars, adjustVars
  <2>2. CASE ~(it_time_point - intervals >= BeginPoint)
    <3>1. it_time_point - intervals < BeginPoint
      BY <2>2, FilesAssumption DEF CallInv, FilesTypeOK, Points, BeginPoint
    <3> QED
      BY <1>2, <2>2, <3>1, DoneKeeps DEF ReportProc
  <2> QED
    BY <2>1, <2>2
<1>6. CASE ReportSys
  <2>1. /\ src = "sys" /\ it_time_point = finish /\ time_point \in {finish, finish - 1}
        /\ found # NoFile => found[1] = time_point
    BY <1>6 DEF ReportSys, CallInv, SysInv, FoundInv
  <2>2. PICK m \in {finish, finish - 1} :
          /\ Ask(m)
          /\ found # NoFile => m = time_point
    BY <1>6, <2>1 DEF ReportSys
  <2>3. m \in Points /\ begin < finish /\ begin \in Int /\ finish \in Int
    BY <2>1, <2>2, FilesAssumption DEF CallInv, FilesTypeOK, Points
  <2>4. finish_real' = found /\ adjust' = FALSE /\ UNCHANGED optionVars
    BY <1>6 DEF ReportSys
  <2>5. adjusted' \in BOOLEAN /\ (found # NoFile => (adjusted' <=> time_point # finish))
    BY <1>6, <2>1, Zenon DEF ReportSys
  <2>6. found # NoFile => /\ found[1] = IF adjusted' THEN finish - 1 ELSE finish
                          /\ m = found[1] /\ m >= BeginPoint'
    <3>1. begin' = begin /\ finish' = finish
      BY <2>4 DEF optionVars
    <3>2. CASE adjusted'
      BY <2>1, <2>2, <2>3, <2>5, <3>1, <3>2 DEF BeginPoint
    <3>3. CASE ~adjusted'
      BY <2>1, <2>2, <2>3, <2>5, <3>1, <3>3 DEF BeginPoint
    <3> QED
      BY <3>2, <3>3
  <2>7. ProcsInv' /\ WalkInv'
    BY <2>1, <2>4 DEF ProcsInv, WalkInv, optionVars
  <2>8. SysInv'
    <3>1. it_time_point' = m /\ time_point' = m /\ pc' = "dir" /\ finish' = finish
      BY <2>2, <2>4 DEF Ask, Search, optionVars
    <3>2. ~adjust' /\ finish_real' = found
      BY <2>4
    <3> QED
      BY <2>6, <3>1, <3>2 DEF SysInv
  <2>9. AdjustInv'
    BY <2>4 DEF AdjustInv
  <2> QED
    BY <1>6, <2>1, <2>2, <2>3, <2>4, <2>5, <2>7, <2>8, <2>9, SearchKeeps
    DEF ReportSys, Ask, CallInv, FilesTypeOK, optionVars
<1>3. CASE FinishFound
  <2>1. /\ src = "procs" /\ it_time_point = finish /\ time_point \in {finish, finish - 1}
        /\ found \in Stamps /\ found[1] = time_point
    BY <1>3 DEF FinishFound, CallInv, ProcsInv, FoundInv, FilesTypeOK
  <2>2. PICK m \in {begin, begin - 1} :
          /\ Ask(m) /\ m = IF time_point # finish THEN begin - 1 ELSE begin
    BY <1>3, <2>1 DEF FinishFound
  <2>3. m \in Points /\ begin < finish /\ begin \in Int /\ finish \in Int
    BY <2>1, FilesAssumption DEF CallInv, FilesTypeOK, Points
  <2>4. found[1] - m = finish - begin
    BY <2>1, <2>2, <2>3
  <2>5. finish_real' = found /\ adjust' = FALSE /\ UNCHANGED optionVars
    BY <1>3 DEF FinishFound
  <2>6. adjusted' \in BOOLEAN
    BY <1>3, Zenon DEF FinishFound
  <2>7. ProcsInv' /\ SysInv' /\ WalkInv'
    BY <1>0, <2>1, <2>2, <2>4, <2>5 DEF ProcsInv, SysInv, WalkInv, Ask, Search, optionVars
  <2>8. AdjustInv'
    BY <2>5 DEF AdjustInv
  <2> QED
    BY <1>3, <2>1, <2>2, <2>3, <2>5, <2>6, <2>7, <2>8, SearchKeeps
    DEF FinishFound, Ask, CallInv, FilesTypeOK, optionVars
<1>4. CASE ProcsDone
  BY <1>4, DoneKeeps DEF ProcsDone
<1>5. CASE ReportLoad2p
  <2>1. CASE it_time_point = finish
    <3>1. finish + 1 \in Points
      BY FilesAssumption DEF CallInv, FilesTypeOK, Points
    <3>2. ProcsInv' /\ SysInv' /\ WalkInv'
      BY <1>5, <2>1 DEF ReportLoad2p, Ask, Search, ProcsInv, SysInv, WalkInv, optionVars
    <3>3. AdjustInv'
      BY <1>5 DEF ReportLoad2p, CallInv, AdjustInv, optionVars, adjustVars
    <3> QED
      BY <1>5, <2>1, <3>1, <3>2, <3>3, SearchKeeps
      DEF ReportLoad2p, Ask, CallInv, FilesTypeOK, optionVars, adjustVars
  <2> QED
    BY <1>5, <2>1, DoneKeeps DEF ReportLoad2p
<1> QED
  BY <1>1, <1>2, <1>3, <1>4, <1>5, <1>6, StartCall

LEMMA CallStutter == CallInv /\ UNCHANGED filesVars => CallInv'
BY DEF CallInv, FilesTypeOK, ProcsInv, SysInv, BeginPoint, AdjustInv, FoundInv, WalkInv, filesVars, daemonVars,
   optionVars, pointVars, cacheVars, searchVars, adjustVars, histVars

LEMMA CallInvariant == FilesSpec => []CallInv
<1>1. CallInv /\ [FilesNext]_filesVars => CallInv'
  BY DaemonCall, LookCall, ReportCall, CallStutter DEF FilesNext, Reader
<1> QED
  BY <1>1, InitCall, PTL DEF FilesSpec

(* The type invariant: in particular no search leaves the clock's minutes by *)
(* more than one, however the adjusting minute and the interval are taken    *)
(* off.                                                                      *)
THEOREM FilesTypeCorrect == FilesSpec => []FilesTypeOK
<1>1. CallInv => FilesTypeOK
  BY DEF CallInv
<1> QED
  BY <1>1, CallInvariant, PTL

(* The snapshots that ReportProcs subtracts are the asked range apart, and   *)
(* the points of ReportSys fill it.                                          *)
THEOREM RangeKeptCorrect == FilesSpec => []RangeKept
<1>1. CallInv => RangeKept
  <2> SUFFICES ASSUME CallInv, pc = "done", finish_real # NoFile
               PROVE  RangeKept
    BY DEF RangeKept
  <2>1. src = "procs" /\ found # NoFile => finish_real[1] - found[1] = finish - begin
    BY DEF CallInv, ProcsInv, FoundInv
  <2>2. ASSUME src = "sys"
        PROVE  /\ finish_real[1] - it_time_point <= finish - begin
               /\ finish_real[1] - it_time_point > finish - begin - intervals
    BY <2>2, FilesAssumption DEF CallInv, FilesTypeOK, SysInv, BeginPoint, Points
  <2> QED
    BY <2>1, <2>2 DEF RangeKept
<1> QED
  BY <1>1, CallInvariant, PTL

-----------------------------------------------------------------------------
(* Why a negative answer is never stale: while none is excused, the minute   *)
(* has had the same files on disk since its search began, so the listing     *)
(* made in the search finds its hour and then one of them.                   *)
FreshInv ==
  /\ disk \subseteq ever /\ files \subseteq ever
  /\ pc = "filelist" => seen \subseteq ever
  /\ \A f \in disk : Hour(f[1]) \in hours
  /\ excused \/ Of(disk, time_point) # {}
  /\ pc = "dirlist" => excused \/ Hour(time_point) \in seen
  /\ pc = "dir" /\ geted => excused \/ Hour(time_point) \in dirs
  /\ pc = "filelist" => excused \/ (Of(seen, time_point) # {} /\ Of(seen, time_point) \subseteq disk)
  /\ pc = "file" /\ geted => excused \/ Of(files, time_point) # {}

LEMMA InitFresh == FilesInit => FreshInv
<1> SUFFICES ASSUME FilesInit PROVE FreshInv
  OBVIOUS
<1>1. disk = ever /\ files = {} /\ pc = "idle" /\ \A f \in disk : Hour(f[1]) \in hours
  BY DEF FilesInit
<1>2. excused \/ Of(disk, time_point) # {}
  BY DEF FilesInit
<1> QED
  BY <1>1, <1>2 DEF FreshInv

LEMMA DaemonFresh == ASSUME CallInv, FreshInv, Daemon PROVE FreshInv'
<1>1. UNCHANGED readerVars
  BY DEF Daemon, Tick, Rotate, Collect, RecycleFile, RecycleDir
<1>2. \A f \in disk' : Hour(f[1]) \in hours'
  BY DEF Daemon, Tick, Rotate, Collect, RecycleFile, RecycleDir, FreshInv
<1>3. Observed \/ UNCHANGED <<disk, histVars>>
  BY DEF Daemon, Tick, Rotate, Collect, RecycleFile, RecycleDir
<1>4. disk' \subseteq ever' /\ ever \subseteq ever'
  BY <1>3 DEF Observed, histVars, FreshInv
<1>5. ~excused' => /\ ~excused /\ Of(disk', time_point) # {}
                   /\ Of(disk, time_point) \subseteq disk'
  BY <1>3 DEF Observed, histVars, FreshInv, Of
<1> QED
  BY <1>1, <1>2, <1>4, <1>5
  DEF FreshInv, Of, readerVars, pointVars, cacheVars, searchVars

LEMMA ListedFile ==
  ASSUME NEW S, NEW names, NEW gone \in SUBSET ((S \ names) \cup (names \ S)),
         NEW f \in S, f \in names
  PROVE  f \in (S \cup names) \ gone
OBVIOUS

LEMMA LookFresh ==
  ASSUME CallInv, FreshInv, GetDataDir \/ GetDataFile \/ ListDirs \/ ListFiles
  PROVE  FreshInv'
<1> USE DEF lookFrame, cacheVars, daemonVars, pointVars, histVars, Answer
<1>1. CASE GetDataDir
  <2>1. ~excused => Hour(time_point) \in hours
    BY DEF FreshInv, Of
  <2> QED
    BY <1>1, <2>1 DEF GetDataDir, FreshInv, Of
<1>2. CASE GetDataFile
  BY <1>2 DEF GetDataFile, FreshInv, Of
<1>3. CASE ListDirs
  <2>1. ~excused => Hour(time_point) \in hours
    BY DEF FreshInv, Of
  <2>2. PICK gone \in SUBSET ((seen \ hours) \cup (hours \ seen)) :
          dirs' = dirs \cup ((seen \cup hours) \ gone)
    BY <1>3 DEF ListDirs, Listings
  <2>3. ~excused => Hour(time_point) \in dirs'
    BY <1>3, <2>1, <2>2 DEF ListDirs, FreshInv
  <2> QED
    BY <1>3, <2>3 DEF ListDirs, FreshInv, Of
<1>4. CASE ListFiles
  <2> DEFINE names == {f \in disk : Hour(f[1]) = Hour(time_point)}
  <2>1. PICK gone \in SUBSET ((seen \ names) \cup (names \ seen)) :
          files' = files \cup ((seen \cup names) \ gone)
    BY <1>4 DEF ListFiles, Listings
  <2>2. ~excused => \E f \in seen : f \in names /\ f[1] = time_point
    BY <1>4 DEF ListFiles, FreshInv, Of
  <2>3. ~excused => Of(files', time_point) # {}
    BY <2>1, <2>2 DEF Of
  <2>4. files' \subseteq ever
    BY <1>4, <2>1 DEF ListFiles, FreshInv
  <2> QED
    BY <1>4, <2>3, <2>4 DEF ListFiles, FreshInv, Of
<1> QED
  BY <1>1, <1>2, <1>3, <1>4

LEMMA SearchFresh ==
  ASSUME FreshInv, NEW m, Search(m), UNCHANGED <<daemonVars, cacheVars, ever>> PROVE FreshInv'
<1>1. excused' \/ Of(disk, m) # {}
  BY DEF Search
<1> QED
  BY <1>1 DEF Search, FreshInv, daemonVars, cacheVars

LEMMA ReportFresh ==
  ASSUME FreshInv,
         Start \/ Adjust \/ ReportProc \/ ReportSys \/ FinishFound \/ ProcsDone \/ ReportLoad2p
  PROVE  FreshInv'
<1>1. (\E m : Search(m)) \/ Done
  BY DEF Start, Adjust, ReportProc, ReportSys, FinishFound, ProcsDone, ReportLoad2p, Ask
<1>2. UNCHANGED <<daemonVars, cacheVars, ever>>
  BY DEF Start, Adjust, ReportProc, ReportSys, FinishFound, ProcsDone, ReportLoad2p
<1>3. CASE Done
  BY <1>2, <1>3 DEF Done, FreshInv, daemonVars, cacheVars, pointVars
<1> QED
  BY <1>1, <1>2, <1>3, SearchFresh

LEMMA FreshInvariant == FilesSpec => [](CallInv /\ FreshInv)
<1>1. FreshInv /\ UNCHANGED filesVars => FreshInv'
  BY DEF FreshInv, filesVars, daemonVars, pointVars, cacheVars, searchVars, histVars
<1>2. CallInv /\ FreshInv /\ [FilesNext]_filesVars => FreshInv'
  BY <1>1, DaemonFresh, LookFresh, ReportFresh DEF FilesNext, Reader
<1> QED
  BY <1>2, InitFresh, CallInvariant, PTL DEF FilesSpec

LEMMA LookupOf ==
  ASSUME NEW S \in SUBSET Stamps, NEW m PROVE Lookup!Of(S, m) = Of(S, m)
BY DEF Lookup!Of, Of

LEMMA DaemonLookup ==
  ASSUME CallInv, CallInv', Daemon PROVE Lookup!Change \/ UNCHANGED Lookup!vars
<1>1. UNCHANGED readerVars
  BY DEF Daemon, Tick, Rotate, Collect, RecycleFile, RecycleDir
<1>2. Observed \/ UNCHANGED <<disk, histVars>>
  BY DEF Daemon, Tick, Rotate, Collect, RecycleFile, RecycleDir
<1>3. disk \subseteq Stamps /\ disk' \subseteq Stamps
  BY DEF CallInv, FilesTypeOK
<1>4. UNCHANGED <<time_point, IF pc \in {"dir", "dirlist", "file", "filelist"} THEN {} ELSE {found}>>
  BY <1>1 DEF readerVars, pointVars, searchVars
<1>5. CASE Observed
  <2>1. Lookup!Of(disk', time_point) = Of(disk', time_point)
    BY <1>3, LookupOf
  <2>2. Lookup!Of(disk \ disk', time_point) = Of(disk \ disk', time_point)
    BY <1>3, LookupOf
  <2>3. excused' = (excused \/ Lookup!Of(disk', time_point) = {}
                            \/ Lookup!Of(disk \ disk', time_point) # {})
    BY <1>5, <2>1, <2>2 DEF Observed
  <2> QED
    BY <1>3, <1>4, <1>5, <2>3 DEF Observed, Lookup!Change
<1>6. CASE UNCHANGED <<disk, histVars>>
  BY <1>4, <1>6 DEF Lookup!vars, histVars
<1> QED
  BY <1>2, <1>5, <1>6

LEMMA LookLookup ==
  ASSUME CallInv, FreshInv, GetDataDir \/ GetDataFile \/ ListDirs \/ ListFiles
  PROVE  Lookup!Answer \/ UNCHANGED Lookup!vars
<1> DEFINE answer == IF pc \in {"dir", "dirlist", "file", "filelist"} THEN {} ELSE {found}
<1>1. UNCHANGED <<disk, ever, time_point, excused>> /\ answer = {}
  BY DEF GetDataDir, GetDataFile, ListDirs, ListFiles, lookFrame, daemonVars, pointVars, histVars
<1>2. \/ answer' = {}
      \/ excused /\ answer' = {NoFile}
      \/ \E f \in Of(ever, time_point) : answer' = {f}
  <2> USE DEF Answer
  <2>1. CASE GetDataDir
    BY <2>1 DEF GetDataDir, FreshInv
  <2>2. CASE GetDataFile
    BY <2>2 DEF GetDataFile, Earliest, FreshInv, Of
  <2>3. CASE ListDirs
    <3>1. CASE pc' = "answer"
      <4>1. dirs' = {} /\ found' = NoFile
        BY <2>3, <3>1 DEF ListDirs
      <4>2. ~excused => Hour(time_point) \in hours /\ Hour(time_point) \in seen
        BY <2>3 DEF ListDirs, FreshInv, Of
      <4>3. excused
        BY <2>3, <4>1, <4>2 DEF ListDirs, Listings
      <4> QED
        BY <3>1, <4>1, <4>3
    <3> QED
      BY <2>3, <3>1 DEF ListDirs
  <2>4. CASE ListFiles
    <3>1. CASE pc' = "answer"
      <4>1. files' = {} /\ found' = NoFile
        BY <2>4, <3>1 DEF ListFiles
      <4>2. FreshInv'
        BY LookFresh
      <4>3. ~excused => \E f \in seen : f \in disk /\ Hour(f[1]) = Hour(time_point)
        BY <2>4 DEF ListFiles, FreshInv, Of
      <4>4. excused
        BY <2>4, <4>1, <4>3 DEF ListFiles, Listings
      <4> QED
        BY <3>1, <4>1, <4>4
    <3> QED
      BY <2>4, <3>1 DEF ListFiles
  <2> QED
    BY <2>1, <2>2, <2>3, <2>4
<1>3. Lookup!Of(ever, time_point) = Of(ever, time_point)
  BY LookupOf DEF CallInv, FilesTypeOK
<1> QED
  BY <1>1, <1>2, <1>3 DEF Lookup!Answer, Lookup!vars

LEMMA ReportLookup ==
  ASSUME CallInv, CallInv',
         Start \/ Adjust \/ ReportProc \/ ReportSys \/ FinishFound \/ ProcsDone \/ ReportLoad2p
  PROVE  Lookup!Ask \/ UNCHANGED Lookup!vars
<1>1. UNCHANGED <<disk, ever>>
  BY DEF Start, Adjust, ReportProc, ReportSys, FinishFound, ProcsDone, ReportLoad2p, daemonVars
<1>2. CASE \E m : Search(m)
  <2>1. time_point' \in Points /\ disk \subseteq Stamps
    BY DEF CallInv, FilesTypeOK
  <2>2. excused' = (Lookup!Of(disk, time_point') = {})
    BY <1>2, <2>1, LookupOf DEF Search
  <2> QED
    BY <1>1, <1>2, <2>1, <2>2 DEF Lookup!Ask, Search
<1>3. CASE Done /\ pc = "answer"
  BY <1>1, <1>3 DEF Done, Lookup!vars, pointVars
<1> QED
  BY <1>2, <1>3 DEF Start, Adjust, ReportProc, ReportSys, FinishFound, ProcsDone, ReportLoad2p, Ask

(* Caches, listings and retries implement FileLookup: no report takes a      *)
(* minute for missing that had its file all the time it was looked for.      *)
THEOREM SearchIsFreshCorrect == FilesSpec => SearchIsFresh
<1>1. FilesInit => Lookup!Init
  <2> SUFFICES ASSUME FilesInit PROVE Lookup!Init
    OBVIOUS
  <2>1. disk \subseteq Stamps /\ time_point \in Points /\ excused = (Of(disk, time_point) = {})
    BY InitCall DEF FilesInit, CallInv, FilesTypeOK
  <2>2. excused = (Lookup!Of(disk, time_point) = {})
    BY <2>1, LookupOf
  <2>3. ever = disk /\ found = NoFile /\ pc = "idle"
    BY DEF FilesInit
  <2> QED
    BY <2>1, <2>2, <2>3 DEF Lookup!Init
<1>2. CallInv /\ FreshInv /\ CallInv' /\ [FilesNext]_filesVars => [Lookup!Next]_(Lookup!vars)
  <2>1. UNCHANGED filesVars => UNCHANGED Lookup!vars
    BY DEF filesVars, daemonVars, pointVars, searchVars, histVars, Lookup!vars
  <2> QED
    BY <2>1, DaemonLookup, LookLookup, ReportLookup DEF FilesNext, Reader, Lookup!Next
<1> QED
  BY <1>1, <1>2, FreshInvariant, PTL DEF FilesSpec, SearchIsFresh, Lookup!Spec
=============================================================================
