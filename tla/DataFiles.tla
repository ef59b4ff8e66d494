------------------------------ MODULE DataFiles -----------------------------
(***************************************************************************)
(* The search for data files by the reader, class SreProc of ssar.cpp,     *)
(* while the daemon writes and recycles them.  SreProc keeps the names it  *)
(* has listed, of hour directories in `dirs' and of files in `files', for  *)
(* as long as it lives, adds to them and never forgets one.  A name that is *)
(* not there is looked for on disk once more.                              *)
(*                                                                         *)
(* A time point is a minute: no search looks at the seconds of the point   *)
(* asked for.  A file is <<minute, second>>, its stamp, and is assumed to   *)
(* lie in the directory of its hour: HourRotation shows that of files whose *)
(* check and open fall in one hour, not of one stamped on the hour by a     *)
(* collection that began before it.  Names are listed                      *)
(* in two steps: one that is there at opendir and at the end of readdir is *)
(* found, one that comes or goes in between is found or not.               *)
(***************************************************************************)
EXTENDS Integers, FiniteSets

CONSTANTS
  MinutesPerHour,
  Seconds,          \* seconds within a minute at which a file may be stamped
  Intervals,        \* the values of the option --interval, in minutes
  MaxMinute,        \* bound: the clock stops here
  NoFile

ASSUME FilesAssumption ==
  /\ MinutesPerHour \in Nat \ {0}
  /\ Seconds \subseteq Nat
  /\ Intervals \subseteq Nat \ {0}
  /\ MaxMinute \in Nat
  /\ NoFile \notin (0 .. MaxMinute) \X Seconds

Hour(m) == m \div MinutesPerHour

VARIABLES
  now,            \* the clock, in minutes
  hours, disk,    \* the hour directories and the files on disk
  src,            \* the report: "none" before the reader starts
  begin, finish,  \* time_point_begin and time_point_finish (or _collect)
  intervals,      \* seq_option.intervals
  it_time_point,  \* the minute MakeDataHourPath is asked for
  time_point,     \* the minute it looks for
  dirs, files,    \* SreProc's names
  adjust, adjusted,  \* SreProc's adjust; seq_option.adjust
  pc,             \* SreProc: where it is
  geted,          \* the directory has been listed in this search
  seen,           \* names that were there at opendir
  found,          \* the file found (time_point_real), or NoFile
  finish_real,    \* procs and sys: the file of the first search
  ever, excused   \* history: see FileLookup

daemonVars == <<now, hours, disk>>
optionVars == <<src, begin, finish, intervals>>
cacheVars  == <<dirs, files>>
searchVars == <<pc, geted, seen, found>>
adjustVars == <<adjust, adjusted, finish_real>>
pointVars  == <<it_time_point, time_point>>
histVars   == <<ever, excused>>
filesVars == <<daemonVars, optionVars, pointVars, cacheVars, searchVars, adjustVars, histVars>>

Stamps == (0 .. MaxMinute) \X Seconds
Points == -1 .. MaxMinute + 1
Of(S, m) == {f \in S : f[1] = m}

FilesTypeOK ==
  /\ now \in 0 .. MaxMinute
  /\ hours \subseteq Int
  /\ disk \subseteq Stamps
  /\ src \in {"none", "proc", "procs", "sys", "load2p"}
  /\ begin \in Nat /\ finish \in 0 .. MaxMinute
  /\ src \in {"proc", "procs", "sys"} => begin < finish
  /\ intervals \in Intervals \cup {0}
  /\ it_time_point \in Points /\ time_point \in Points
  /\ dirs \subseteq Int
  /\ files \subseteq Stamps
  /\ adjust \in BOOLEAN /\ adjusted \in BOOLEAN
  /\ pc \in {"idle", "dir", "dirlist", "file", "filelist", "answer", "done"}
  /\ geted \in BOOLEAN
  /\ pc = "dirlist" => seen \subseteq Int
  /\ pc = "filelist" => seen \subseteq Stamps
  /\ found \in Stamps \cup {NoFile}
  /\ finish_real \in Stamps \cup {NoFile}
  /\ ever \subseteq Stamps
  /\ excused \in BOOLEAN

(* The daemon has been at work: any minute may have been missed, and the      *)
(* oldest files recycled.                                                    *)
FilesInit ==
  /\ now \in 0 .. MaxMinute
  /\ \E first \in 0 .. Hour(now), last \in {Hour(now) - 1, Hour(now)} : hours = first .. last
  /\ disk \in SUBSET {f \in Stamps : f[1] <= now /\ Hour(f[1]) \in hours}
  /\ src = "none" /\ begin = 0 /\ finish = 0 /\ intervals = 0
  /\ it_time_point = 0 /\ time_point = 0
  /\ dirs = {} /\ files = {}
  /\ adjust = FALSE /\ adjusted = FALSE /\ finish_real = NoFile
  /\ pc = "idle" /\ geted = FALSE /\ seen = {} /\ found = NoFile
  /\ ever = disk /\ excused = (Of(disk, 0) = {})

-----------------------------------------------------------------------------
(* The daemon while the reader is at work.  What it does to the files is      *)
(* noted for the properties.                                                 *)
Observed ==
  /\ ever' = ever \cup disk'
  /\ excused' = \/ excused
                \/ Of(disk', time_point) = {}
                \/ Of(disk \ disk', time_point) # {}

readerVars == <<optionVars, pointVars, cacheVars, searchVars, adjustVars>>

Tick ==
  /\ now < MaxMinute
  /\ now' = now + 1
  /\ UNCHANGED <<hours, disk, readerVars, histVars>>

(* rotate_thread makes the directory of the hour ...                         *)
Rotate ==
  /\ Hour(now) \notin hours
  /\ hours' = hours \cup {Hour(now)}
  /\ UNCHANGED <<now, disk, readerVars, histVars>>

(* ... and a collector writes a file into it, of most minutes one, of some   *)
(* none, of a minute in which the daemon was started again two.              *)
Collect ==
  /\ Hour(now) \in hours
  /\ \E s \in Seconds :
       /\ \A f \in Of(disk, now) : f[2] < s
       /\ disk' = disk \cup {<<now, s>>}
  /\ Observed
  /\ UNCHANGED <<now, hours, readerVars>>

(* Recycling empties the oldest directory, never the present one, file by    *)
(* file and removes it.                                                      *)
Oldest(h) == h \in hours /\ h < Hour(now) /\ \A g \in hours : h <= g

RecycleFile ==
  /\ \E f \in disk : Oldest(Hour(f[1])) /\ disk' = disk \ {f}
  /\ Observed
  /\ UNCHANGED <<now, hours, readerVars>>

RecycleDir ==
  /\ \E h \in hours :
       /\ Oldest(h) /\ \A f \in disk : Hour(f[1]) # h
       /\ hours' = hours \ {h}
  /\ UNCHANGED <<now, disk, readerVars, histVars>>

Daemon ==
  /\ pc \notin {"idle", "done"}
  /\ Tick \/ Rotate \/ Collect \/ RecycleFile \/ RecycleDir

-----------------------------------------------------------------------------
(* SreProc::GetDataDir and GetDataFile.                                      *)

(* _MakeDataHourPath begins to look for minute m.                            *)
Search(m) ==
  /\ time_point' = m
  /\ pc' = "dir" /\ geted' = FALSE
  /\ excused' = (Of(disk, m) = {})
  /\ UNCHANGED <<seen, found>>

lookFrame == <<daemonVars, optionVars, pointVars, adjustVars, histVars>>

Answer(f) == pc' = "answer" /\ found' = f

(* The hour in the cached names, or listed once, or answer 2.                *)
GetDataDir ==
  /\ pc = "dir"
  /\ IF Hour(time_point) \in dirs
       THEN pc' = "file" /\ geted' = FALSE /\ UNCHANGED <<found, seen>>
     ELSE IF geted THEN Answer(NoFile) /\ UNCHANGED <<geted, seen>>
     ELSE pc' = "dirlist" /\ seen' = hours /\ UNCHANGED <<geted, found>>
  /\ UNCHANGED <<lookFrame, cacheVars>>

Earliest(S) == {f \in S : \A g \in S : f[2] <= g[2]}

\* Mutant: an hour is listed only if none of its files is known.
GetDataFile_ListsOnce ==
  /\ pc = "file"
  /\ LET mine == Of(files, time_point)
         dir  == Hour(time_point) IN
       IF mine # {} THEN (\E f \in Earliest(mine) : Answer(f)) /\ UNCHANGED <<geted, seen>>
       ELSE IF geted \/ dir \notin hours \/ (\E f \in files : Hour(f[1]) = dir)
         THEN Answer(NoFile) /\ UNCHANGED <<geted, seen>>
       ELSE /\ pc' = "filelist" /\ seen' = {f \in disk : Hour(f[1]) = dir}
            /\ UNCHANGED <<geted, found>>
  /\ UNCHANGED <<lookFrame, cacheVars>>

(* The first file of the minute in the cached names, or in its directory     *)
(* listed once, or answer 1, at once if the directory cannot be opened.      *)
GetDataFile ==
  /\ pc = "file"
  /\ LET mine == Of(files, time_point)
         dir  == Hour(time_point) IN
       IF mine # {} THEN (\E f \in Earliest(mine) : Answer(f)) /\ UNCHANGED <<geted, seen>>
       ELSE IF geted \/ dir \notin hours THEN Answer(NoFile) /\ UNCHANGED <<geted, seen>>
       ELSE /\ pc' = "filelist" /\ seen' = {f \in disk : Hour(f[1]) = dir}
            /\ UNCHANGED <<geted, found>>
  /\ UNCHANGED <<lookFrame, cacheVars>>

(* readdir to its end: what was there from seen to names is listed, of what  *)
(* came or went a part.                                                      *)
Listings(names) == {(seen \cup names) \ gone : gone \in SUBSET ((seen \ names) \cup (names \ seen))}

(* GetDirLists fails if no name is known after it.                           *)
ListDirs ==
  /\ pc = "dirlist"
  /\ \E S \in Listings(hours) : dirs' = dirs \cup S
  /\ IF dirs' = {} THEN Answer(NoFile) /\ UNCHANGED geted
     ELSE pc' = "dir" /\ geted' = TRUE /\ UNCHANGED found
  /\ UNCHANGED <<lookFrame, files, seen>>

ListFiles ==
  /\ pc = "filelist"
  /\ \E S \in Listings({f \in disk : Hour(f[1]) = Hour(time_point)}) : files' = files \cup S
  /\ IF files' = {} THEN Answer(NoFile) /\ UNCHANGED geted
     ELSE pc' = "file" /\ geted' = TRUE /\ UNCHANGED found
  /\ UNCHANGED <<lookFrame, dirs, seen>>

-----------------------------------------------------------------------------
(* MakeDataHourPath and the reports that call it.                            *)

(* InitOptions: times in the past, begin before finish and not before the    *)
(* first hour there is.  ReportLoad2p has one time, finish here.             *)
Start ==
  /\ src = "none" /\ hours # {}
  /\ src' \in {"proc", "procs", "sys", "load2p"}
  /\ intervals' \in (IF src' \in {"proc", "sys"} THEN Intervals ELSE {0})
  /\ \E hard \in hours, b \in 0 .. now, f \in 0 .. now :
       /\ \A h \in hours : hard <= h
       /\ IF src' = "load2p" THEN b = f ELSE b < f /\ hard * MinutesPerHour < f
       /\ begin' = IF b < hard * MinutesPerHour THEN hard * MinutesPerHour ELSE b
       /\ finish' = f
       /\ it_time_point' = f
       /\ Search(f)
  /\ adjust' = (src' \in {"procs", "sys"})
  /\ UNCHANGED <<daemonVars, cacheVars, adjusted, finish_real, ever>>

Ask(m) == it_time_point' = m /\ Search(m)

(* The minute before instead, if adjust is on: adjust_unit is 60.            *)
Retry == adjust /\ found = NoFile /\ time_point = it_time_point

Adjust ==
  /\ pc = "answer" /\ Retry
  /\ Search(it_time_point - 1)
  /\ UNCHANGED <<daemonVars, optionVars, it_time_point, cacheVars, adjustVars, ever>>

Done == pc' = "done" /\ UNCHANGED <<geted, seen, found, pointVars, excused>>

(* Where a walk back ends: a minute earlier if finish was moved.             *)
BeginPoint == IF adjusted THEN begin - 1 ELSE begin

(* ReportProc and ReportSys, from finish back.  Of the files that ReportSys   *)
(* looks for at each point one stands for all.                               *)
ReportProc ==
  /\ pc = "answer" /\ src \in {"proc", "sys"} /\ ~adjust
  /\ IF it_time_point - intervals >= BeginPoint THEN Ask(it_time_point - intervals) ELSE Done
  /\ UNCHANGED <<daemonVars, optionVars, cacheVars, adjustVars, ever>>

(* ReportSys begins with a search with adjust, and walks from the file it    *)
(* found; if there is none it goes on as if it had moved.                    *)
ReportSys ==
  /\ pc = "answer" /\ src = "sys" /\ adjust /\ ~Retry
  /\ finish_real' = found
  /\ adjusted' = (found = NoFile \/ time_point # it_time_point)
  /\ adjust' = FALSE
  /\ Ask(IF found = NoFile THEN finish ELSE found[1])
  /\ UNCHANGED <<daemonVars, optionVars, cacheVars, ever>>

\* Mutant: DisableAdjust is forgotten.
FinishFound_StaysAdjust ==
  /\ pc = "answer" /\ src = "procs" /\ finish_real = NoFile
  /\ found # NoFile
  /\ finish_real' = found
  /\ adjusted' = (time_point # it_time_point)
  /\ Ask(IF adjusted' THEN begin - 1 ELSE begin)
  /\ UNCHANGED <<daemonVars, optionVars, cacheVars, ever, adjust>>

(* ReportProcs: the finishing snapshot, with adjust; then the one to begin   *)
(* with, without, as much earlier as the first turned out to be.             *)
FinishFound ==
  /\ pc = "answer" /\ src = "procs" /\ finish_real = NoFile
  /\ found # NoFile
  /\ finish_real' = found
  /\ adjusted' = (time_point # it_time_point)
  /\ adjust' = FALSE
  /\ Ask(IF adjusted' THEN begin - 1 ELSE begin)
  /\ UNCHANGED <<daemonVars, optionVars, cacheVars, ever>>

(* It throws if there is no finishing snapshot; with the second search it is *)
(* done in either case.                                                      *)
ProcsDone ==
  /\ pc = "answer" /\ src = "procs" /\ ~Retry
  /\ finish_real = NoFile => found = NoFile
  /\ Done
  /\ UNCHANGED <<daemonVars, optionVars, cacheVars, adjustVars, ever>>

(* ReportLoad2p: the minute of the collection and the next one.              *)
ReportLoad2p ==
  /\ pc = "answer" /\ src = "load2p"
  /\ IF it_time_point = finish THEN Ask(finish + 1) ELSE Done
  /\ UNCHANGED <<daemonVars, optionVars, cacheVars, adjustVars, ever>>

Reader ==
  \/ Start \/ GetDataDir \/ GetDataFile \/ ListDirs \/ ListFiles
  \/ Adjust \/ ReportProc \/ ReportSys \/ FinishFound \/ ProcsDone \/ ReportLoad2p

FilesNext == Daemon \/ Reader

FilesSpec == FilesInit /\ [][FilesNext]_filesVars

-----------------------------------------------------------------------------
(* Properties.                                                               *)

Lookup == INSTANCE FileLookup WITH
  Files <- Stamps, MinuteOf <- [f \in Stamps |-> f[1]],
  files <- disk, query <- time_point,
  answer <- IF pc \in {"dir", "dirlist", "file", "filelist"} THEN {} ELSE {found}

(* The search through names that may be stale and listings that may miss     *)
(* what comes and goes implements FileLookup: a file is said to be missing   *)
(* only if at some moment of that very search it was, or was recycled, and a *)
(* file is said to be there only if it was since the report began.           *)
SearchIsFresh == Lookup!Spec

(* The two snapshots of ReportProcs are as many minutes apart as the range   *)
(* that was asked for, whether or not the first had to be moved; the points  *)
(* of ReportSys fill that range, to less than an interval.                   *)
RangeKept ==
  pc = "done" /\ finish_real # NoFile =>
    /\ src = "procs" /\ found # NoFile => finish_real[1] - found[1] = finish - begin
    /\ src = "sys" => /\ finish_real[1] - it_time_point <= finish - begin
                      /\ finish_real[1] - it_time_point > finish - begin - intervals
=============================================================================
