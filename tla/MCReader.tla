------------------------------ MODULE MCReader ------------------------------
(* One run of ssar: ActivityReporter makes the report that was asked for, so  *)
(* one of the reader's models moves and the others rest.                     *)
EXTENDS DataFiles, SysReport, ProcReport, LoadReport

VARIABLE report

TwoFiles == <<"a", "b">>

SysRests ==
  /\ sample = <<>> /\ reboot_times = {} /\ spc = "rests" /\ slot = 0 /\ nth = 0
  /\ item = 0 /\ line_float = <<>> /\ ctrl = <<>> /\ next_reboot = -1

ProcRests ==
  /\ delay = <<>> /\ content = <<>> /\ ppc = "rests" /\ visit = 0 /\ start_decide = 0
  /\ after_last = 0 /\ before_first = 0 /\ walked = <<>> /\ fill = <<>>

LoadRests ==
  /\ records = {} /\ kept = {} /\ from = 0 /\ until = 0 /\ lpc = "rests"
  /\ point = 0 /\ it_load5s = <<>> /\ fill_load5s = <<>>

ReaderInit ==
  /\ report \in {"files", "sys", "proc", "load5s"}
  /\ FilesInit /\ (report # "files" => now = 0 /\ hours = {0} /\ disk = {})
  /\ IF report = "sys" THEN SysInit ELSE SysRests
  /\ IF report = "proc" THEN ProcInit ELSE ProcRests
  /\ IF report = "load5s" THEN LoadReportInit ELSE LoadRests

ActivityReporter ==
  \/ report = "files" /\ FilesNext /\ UNCHANGED <<sysVars, procVars, loadVars>>
  \/ report = "sys" /\ SysNext /\ UNCHANGED <<filesVars, procVars, loadVars>>
  \/ report = "proc" /\ ProcNext /\ UNCHANGED <<filesVars, sysVars, loadVars>>
  \/ report = "load5s" /\ LoadReportNext /\ UNCHANGED <<filesVars, sysVars, procVars>>

ReaderNext == ActivityReporter /\ UNCHANGED report

ReaderVars == <<filesVars, sysVars, procVars, loadVars, report>>

ReaderSpec == ReaderInit /\ [][ReaderNext]_ReaderVars
=============================================================================
