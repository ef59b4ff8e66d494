--------------------------- MODULE SingleInstance ---------------------------
(***************************************************************************)
(* What the pid lock promises: one daemon at a time writes the data files. *)
(***************************************************************************)

CONSTANT Procs

VARIABLE collecting    \* the daemons that write data files

Init == collecting = {}

Begin(p) ==
  /\ collecting = {}
  /\ collecting' = {p}

Finish(p) ==
  /\ collecting = {p}
  /\ collecting' = {}

Next == \E p \in Procs : Begin(p) \/ Finish(p)

Spec == Init /\ [][Next]_collecting
=============================================================================
