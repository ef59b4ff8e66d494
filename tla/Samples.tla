------------------------------- MODULE Samples ------------------------------
(***************************************************************************)
(* The slots of a report: ReportSys and ReportProc look for one sample per  *)
(* interval, from the begin of the report to its finish.  SlotTime is the   *)
(* minute of a slot; a sample of that minute carries a stamp within it.     *)
(***************************************************************************)
EXTENDS Integers, Sequences, FiniteSets

CONSTANTS
  Step,            \* --interval
  Offsets          \* the seconds at which a sample may be stamped, from SlotTime on

ASSUME SamplesAssumption ==
  /\ Step \in Nat \ {0}
  /\ Offsets \subseteq Nat /\ \A o \in Offsets : o < Step

SlotTime(i) == i * Step
=============================================================================
