---------------------------- MODULE StopProtocol ----------------------------
(***************************************************************************)
(* What ending the daemon promises, without signals, semaphores or the     *)
(* order of joins: threads start only while the daemon is up, each at most *)
(* once; they may end at any time; the daemon goes down when none runs any *)
(* more, or all at once; and once it is stopping it does go down.          *)
(***************************************************************************)

CONSTANT Threads

VARIABLES
  phase,    \* "up", "stopping" or "down"
  life      \* of each thread: "unborn", "running" or "gone"

vars == <<phase, life>>

Init ==
  /\ phase = "up"
  /\ life = [t \in Threads |-> "unborn"]

Start(t) ==
  /\ phase = "up" /\ life[t] = "unborn"
  /\ life' = [life EXCEPT ![t] = "running"]
  /\ UNCHANGED phase

End(t) ==
  /\ life[t] = "running"
  /\ life' = [life EXCEPT ![t] = "gone"]
  /\ UNCHANGED phase

StoppingEnd(t) == phase = "stopping" /\ End(t)

(* Nothing was started.                                                      *)
GiveUp ==
  /\ phase = "up"
  /\ \A t \in Threads : life[t] = "unborn"
  /\ phase' = "down"
  /\ UNCHANGED life

Stop ==
  /\ phase = "up"
  /\ phase' = "stopping"
  /\ UNCHANGED life

Down ==
  /\ phase = "stopping"
  /\ \A t \in Threads : life[t] # "running"
  /\ phase' = "down"
  /\ UNCHANGED life

(* The process exits and takes its threads with it.                          *)
Vanish ==
  /\ phase # "down"
  /\ phase' = "down"
  /\ life' = [t \in Threads |-> IF life[t] = "running" THEN "gone" ELSE life[t]]

Next ==
  \/ \E t \in Threads : Start(t) \/ End(t)
  \/ GiveUp \/ Stop \/ Down \/ Vanish

Spec == Init /\ [][Next]_vars

FairSpec ==
  /\ Spec
  /\ WF_vars(Down)
  /\ \A t \in Threads : WF_vars(StoppingEnd(t))
=============================================================================
