--------------------------- MODULE LoadZoomProofs ---------------------------
(***************************************************************************)
(* Proofs about LoadZoom, for every ring, level and baseline, any numbers  *)
(* of active threads and any contents of uninitialised nodes.              *)
(***************************************************************************)
EXTENDS LoadZoom, TLAPS

-----------------------------------------------------------------------------
(* The arithmetic.                                                         *)

\* The kernel's step keeps the load a natural number and within one unit of
\* the exact average of the old load and the active threads.
LEMMA CalcLoadBounds ==
  ASSUME NEW load \in Nat, NEW n \in Nat
  PROVE  /\ CalcLoad(load, n) \in Nat
         /\ 2048 * CalcLoad(load, n) > load * 1884 + n * 335872 - 2048
         /\ 2048 * CalcLoad(load, n) <= load * 1884 + n * 335872 + 2047
  BY SMT DEF CalcLoad

\* Two decimals show a load to within a hundredth.
LEMMA ShownBounds ==
  ASSUME NEW load \in Nat
  PROVE  /\ Shown(load) \in Nat
         /\ 2048 * Shown(load) <= load * 100 + 1000
         /\ 2048 * Shown(load) > load * 100 + 1000 - 2048
  BY SMT DEF Shown

\* round of a fraction that is within half a unit of a natural number is that number.
LEMMA RoundNear ==
  ASSUME NEW x \in Int, NEW n \in Nat, x > 16400 * n - 8200, x < 16400 * n + 8200
  PROVE  Round(x, 100 * 164) = n
<1>1. CASE x >= 0
  <2>1. Round(x, 100 * 164) = (2 * x + 16400) \div 32800
    BY <1>1, SMT DEF Round
  <2>2. 32800 * n <= 2 * x + 16400 /\ 2 * x + 16400 < 32800 * n + 32800
    BY SMT
  <2> QED BY <2>1, <2>2, SMT
<1>2. CASE x < 0
  <2>1. n = 0
    BY <1>2, SMT
  <2>2. Round(x, 100 * 164) = -((16400 - 2 * x) \div 32800)
    BY <1>2, SMT DEF Round
  <2>3. 16400 - 2 * x >= 0 /\ 16400 - 2 * x < 32800
    BY <1>2, <2>1, SMT
  <2>4. (16400 - 2 * x) \div 32800 = 0
    BY <2>3, SMT
  <2> QED BY <2>1, <2>2, <2>4, SMT
<1> QED BY <1>1, <1>2

LEMMA RoundInt == ASSUME NEW x \in Int PROVE Round(x, 100 * 164) \in Int
  BY SMT DEF Round

\* From the loads that /proc/loadavg shows before and after one kernel update
\* the formula of load1_thread gives back the number of active threads, exactly.
THEOREM Load5sExact ==
  ASSUME NEW load \in Nat, NEW n \in Nat
  PROVE  Load5s(Shown(CalcLoad(load, n)), Shown(load)) = n
<1> DEFINE new == CalcLoad(load, n)
           x == 2048 * Shown(new) - 1000 - 50 - 1884 * Shown(load)
<1>1. /\ new \in Nat
      /\ 2048 * new > load * 1884 + n * 335872 - 2048
      /\ 2048 * new <= load * 1884 + n * 335872 + 2047
  BY CalcLoadBounds, SMT
<1> HIDE DEF new
<1>2. /\ Shown(load) \in Nat
      /\ 2048 * Shown(load) <= load * 100 + 1000
      /\ 2048 * Shown(load) > load * 100 + 1000 - 2048
  BY ShownBounds, SMT
<1>3. /\ Shown(new) \in Nat
      /\ 2048 * Shown(new) <= new * 100 + 1000
      /\ 2048 * Shown(new) > new * 100 + 1000 - 2048
  BY <1>1, ShownBounds, SMT
<1>4. x \in Int /\ x > 16400 * n - 8200 /\ x < 16400 * n + 8200
  BY <1>1, <1>2, <1>3, SMT
<1>5. Round(x, 100 * 164) = n
  BY <1>4, RoundNear, SMT
<1>6. Load5s(Shown(new), Shown(load)) = Round(x, 100 * 164)
  BY SMT DEF Load5s
<1> QED BY <1>5, <1>6, SMT DEF new

-----------------------------------------------------------------------------
(* The ring.                                                               *)

\* Walking i steps back from the node after n is walking i - 1 back from n.
LEMMA BackFollowing ==
  ASSUME NEW n \in Nodes, NEW i \in 1 .. Level
  PROVE  /\ Following(n) \in Nodes
         /\ Back(n, i) \in Nodes
         /\ i = 1 => Back(Following(n), i) = n
         /\ i > 1 => Back(Following(n), i) = Back(n, i - 1) /\ Back(n, i - 1) # n
  BY LoadZoomAssumption, SMT DEF Following, Nodes, Back

LEMMA NewNodeType ==
  ASSUME TypeOK, NEW load1 \in Nat
  PROVE  /\ NewNode(load1) \in NodeTypes
         /\ Type(load1) \in {1, 5}
         /\ High(load1) \in BOOLEAN /\ Surge(load1) \in BOOLEAN
<1>1. PrevNode \in NodeTypes
  <2>1. 1 \in 1 .. Level
    BY LoadZoomAssumption, SMT
  <2>2. Back(cur, 1) \in Nodes
    BY <2>1, BackFollowing DEF TypeOK
  <2> QED BY <2>2 DEF TypeOK, PrevNode
<1>2. PrevNode.load1 \in Nat
  BY <1>1 DEF NodeTypes
<1>3. Type(load1) \in {1, 5}
  BY DEF Type
<1>4. load1 \div 100 \in Int
  BY SMT
<1>5. Load5s(load1, PrevNode.load1) \in Int
  <2>1. 2048 * load1 - 1000 - 50 - 1884 * PrevNode.load1 \in Int
    BY <1>2, SMT
  <2> QED BY <2>1, RoundInt, SMT DEF Load5s
<1>6. NewLoad5s(load1) \in Int
  BY <1>4, <1>5 DEF NewLoad5s
<1> QED BY <1>3, <1>6 DEF NewNode, NodeTypes, High, Surge

-----------------------------------------------------------------------------
(* Type correctness.                                                       *)

LEMMA InitType == Init => TypeOK
<1> SUFFICES ASSUME Init PROVE TypeOK
  OBVIOUS
<1>1. PICK garbage \in Garbage, zoomed \in GarbageZooms :
        ring = [n \in Nodes |-> [load1 |-> 0, load5s |-> garbage, load5s_state |-> 0,
                                 zoom_state |-> IF n \in zoomed THEN 3 ELSE 0]]
  BY DEF Init
<1>2. ring \in [Nodes -> NodeTypes]
  BY <1>1, LoadZoomAssumption DEF NodeTypes
<1>3. cur \in Nodes
  BY LoadZoomAssumption, SMT DEF Init, Nodes
<1>4. past \in [1 .. Level -> Records]
  BY DEF Init, Records, NoRecord
<1>5. named \in -1 .. MaxSec /\ lacking \in -1 .. MaxSec /\ sec \in 0 .. MaxSec
  BY LoadZoomAssumption, SMT DEF Init
<1>6. avenrun \in Nat
  BY LoadZoomAssumption DEF Init
<1> QED BY <1>2, <1>3, <1>4, <1>5, <1>6 DEF Init, TypeOK

LEMMA PollType == ASSUME TypeOK, Poll PROVE TypeOK'
<1> DEFINE load1 == Shown(avenrun)
<1>1. load1 \in Nat
  <2>1. avenrun \in Nat
    BY DEF TypeOK
  <2> QED BY <2>1, ShownBounds
<1> HIDE DEF load1
<1>2. CASE load1 = PrevNode.load1
  BY <1>2 DEF Poll, TypeOK, ringVars, eventVars, recordVars, load1
<1>3. CASE load1 # PrevNode.load1
  <2>1. ring' \in [Nodes -> NodeTypes] /\ cur' \in Nodes
    <3>1. ring' = [ring EXCEPT ![cur] = NewNode(load1)] /\ cur' = Following(cur)
      BY <1>3 DEF Poll, load1
    <3>2. 1 \in 1 .. Level
      BY LoadZoomAssumption
    <3> QED BY <1>1, <3>1, <3>2, NewNodeType, BackFollowing DEF TypeOK
  <2>2. truth' \in [single : BOOLEAN, type : {1, 5}, active : Nat]
    <3>1. truth' = [single |-> unseen = 1, type |-> Type(load1), active |-> active]
      BY <1>3 DEF Poll, load1
    <3> QED BY <1>1, <3>1, NewNodeType DEF TypeOK
  <2>3. past' \in [1 .. Level -> Records]
    <3> DEFINE new == [made |-> TRUE, high |-> High(load1), surge |-> Surge(load1),
                       zoom |-> NewNode(load1).zoom_state # 0]
    <3>1. past' = [i \in 1 .. Level |-> IF i > 1 THEN past[i - 1] ELSE new]
      BY <1>3 DEF Poll, load1
    <3>2. new \in Records
      BY <1>1, NewNodeType DEF Records
    <3> HIDE DEF new
    <3>3. ASSUME NEW i \in 1 .. Level, i > 1 PROVE i - 1 \in 1 .. Level
      BY <3>3, LoadZoomAssumption, SMT
    <3> QED BY <3>1, <3>2, <3>3 DEF TypeOK
  <2>4. lpc' = "write" /\ unseen' = 0
    BY <1>3 DEF Poll, load1
  <2> QED BY <2>1, <2>2, <2>3, <2>4 DEF Poll, TypeOK, eventVars
<1> QED BY <1>2, <1>3

LEMMA NextType == ASSUME TypeOK, [Next]_vars PROVE TypeOK'
<1>1. CASE Tick
  <2>1. sec' \in 0 .. MaxSec
    BY <1>1, LoadZoomAssumption, SMT DEF Tick, TypeOK
  <2>2. avenrun' \in Nat /\ active' \in Nat /\ unseen' \in Nat
    <3>1. CASE sec' % Period = 0
      <4>1. PICK n \in Actives : /\ avenrun' = CalcLoad(avenrun, n)
                                 /\ active' = n /\ unseen' = unseen + 1
        BY <1>1, <3>1 DEF Tick
      <4>2. n \in Nat
        BY LoadZoomAssumption
      <4>3. unseen + 1 \in Nat
        BY SMT DEF TypeOK
      <4> QED BY <4>1, <4>2, <4>3, CalcLoadBounds DEF TypeOK
    <3>2. CASE sec' % Period # 0
      BY <1>1, <3>2 DEF Tick, TypeOK
    <3> QED BY <3>1, <3>2
  <2> QED BY <1>1, <2>1, <2>2 DEF Tick, TypeOK, ringVars, eventVars, recordVars
<1>2. CASE Turn
  BY <1>2 DEF Turn, TypeOK, ringVars, eventVars, recordVars
<1>3. CASE CheckPartition
  BY <1>3 DEF CheckPartition, TypeOK, ringVars, eventVars, recordVars
<1>4. CASE Poll
  BY <1>4, PollType
<1>5. CASE WriteRecord
  <2>1. lacking' \in {lacking, -1, sec} /\ lpc' \in {"notify", "poll"}
    BY <1>5 DEF WriteRecord
  <2>2. lacking' \in -1 .. MaxSec
    BY <2>1, LoadZoomAssumption, SMT DEF TypeOK
  <2> QED BY <1>5, <2>1, <2>2 DEF WriteRecord, TypeOK, ringVars, eventVars, recordVars
<1>6. CASE Notify
  BY <1>6, SMT DEF Notify, TypeOK, ringVars, recordVars
<1>7. CASE Woken
  BY <1>7 DEF Woken, TypeOK, loadrdKeeps, ringVars, recordVars
<1>8. CASE ReadEvent
  <2>1. count' \in Nat
    BY <1>8, SMT DEF ReadEvent, TypeOK
  <2> QED BY <1>8, <2>1 DEF ReadEvent, TypeOK, loadrdKeeps, ringVars, recordVars
<1>9. CASE Begin
  <2>1. named' = sec /\ lacking' \in {lacking, -1}
    BY <1>9 DEF Begin
  <2>2. named' \in -1 .. MaxSec /\ lacking' \in -1 .. MaxSec
    BY <2>1, LoadZoomAssumption, SMT DEF TypeOK
  <2> QED BY <1>9, <2>2 DEF Begin, TypeOK, ringVars, eventVars, recordVars
<1>10. CASE GiveUp
  BY <1>10 DEF GiveUp, TypeOK, loadrdKeeps, ringVars, eventVars, recordVars
<1>11. CASE End
  BY <1>11 DEF End, TypeOK, loadrdKeeps, ringVars, eventVars, recordVars
<1>12. CASE UNCHANGED vars
  BY <1>12 DEF vars, TypeOK, ringVars, eventVars, recordVars
<1> QED BY <1>1, <1>2, <1>3, <1>4, <1>5, <1>6, <1>7, <1>8, <1>9, <1>10, <1>11, <1>12
        DEF Next, Load1, Loadrd

\* TypeOK always holds: every access to the ring stays within it, and the count of
\* eventfd_load1 is never taken below zero.
THEOREM TypeCorrect == Spec => []TypeOK
<1>1. Init => TypeOK
  BY InitType
<1>2. TypeOK /\ [Next]_vars => TypeOK'
  BY NextType
<1> QED BY <1>1, <1>2, PTL DEF Spec

-----------------------------------------------------------------------------
(* load5s.  With no kernel update since the last poll the node before shows *)
(* the kernel's load, or nothing yet; with one, the load before the update. *)

Shows(load) == PrevNode.load1 \in {0, Shown(load)}

LoadInv ==
  /\ unseen = 0 => Shows(avenrun)
  /\ unseen = 1 => \E load \in Nat : avenrun = CalcLoad(load, active) /\ Shows(load)
  /\ Load5sIsActive

\* The steps other than Tick and Poll.
LoadVars == <<avenrun, unseen, active, ringVars, truth>>

LEMMA LoadQuiet == LoadInv /\ UNCHANGED LoadVars => LoadInv'
  BY DEF LoadVars, ringVars, LoadInv, Shows, Load5sIsActive, PrevNode

\* The node a poll fills is the one before the next current node.
LEMMA PollNode ==
  ASSUME TypeOK, Poll, Shown(avenrun) # PrevNode.load1
  PROVE  PrevNode' = NewNode(Shown(avenrun))
<1>1. ring' = [ring EXCEPT ![cur] = NewNode(Shown(avenrun))] /\ cur' = Following(cur)
  BY DEF Poll
<1>2. 1 \in 1 .. Level
  BY LoadZoomAssumption, SMT
<1>3. cur \in Nodes /\ ring \in [Nodes -> NodeTypes]
  BY DEF TypeOK
<1>4. Back(Following(cur), 1) = cur
  BY <1>2, <1>3, BackFollowing
<1>5. PrevNode' = ring'[Back(Following(cur), 1)]
  BY <1>1 DEF PrevNode, Back
<1> QED BY <1>1, <1>3, <1>4, <1>5

LEMMA LoadPoll == ASSUME TypeOK, LoadInv, Poll PROVE LoadInv'
<1> DEFINE load1 == Shown(avenrun)
<1>1. avenrun' = avenrun /\ unseen' = 0 /\ active' = active
  BY DEF Poll
<1>2. CASE load1 = PrevNode.load1
  <2>1. UNCHANGED <<ring, cur, truth>>
    BY <1>2 DEF Poll, ringVars, recordVars
  <2>2. Shows(avenrun)'
    BY <1>1, <1>2, <2>1 DEF Shows, PrevNode
  <2>3. Load5sIsActive'
    BY <2>1 DEF LoadInv, Load5sIsActive, PrevNode
  <2> QED BY <1>1, <2>2, <2>3 DEF LoadInv
<1>3. CASE load1 # PrevNode.load1
  <2>1. PrevNode' = NewNode(load1)
    BY <1>3, PollNode
  <2>2. Shows(avenrun)'
    BY <1>1, <2>1 DEF Shows, NewNode
  <2>3. truth' = [single |-> unseen = 1, type |-> Type(load1), active |-> active]
    BY <1>3 DEF Poll
  <2>4. ASSUME unseen = 1, Type(load1) = 5 PROVE NewLoad5s(load1) = active
    <3>1. PICK load \in Nat : avenrun = CalcLoad(load, active) /\ Shows(load)
      BY <2>4 DEF LoadInv
    <3>2. PrevNode.load1 = Shown(load)
      BY <2>4, <3>1 DEF Type, Shows
    <3>3. NewLoad5s(load1) = Load5s(Shown(CalcLoad(load, active)), Shown(load))
      BY <2>4, <3>1, <3>2 DEF NewLoad5s
    <3>4. active \in Nat
      BY DEF TypeOK
    <3> QED BY <3>3, <3>4, Load5sExact
  <2>5. Load5sIsActive'
    BY <2>1, <2>3, <2>4 DEF Load5sIsActive, NewNode
  <2> QED BY <1>1, <2>2, <2>5 DEF LoadInv
<1> QED BY <1>2, <1>3

LEMMA LoadTick == ASSUME TypeOK, LoadInv, Tick PROVE LoadInv'
<1>1. UNCHANGED <<ring, cur, truth>>
  BY DEF Tick, ringVars, recordVars
<1>2. PrevNode' = PrevNode
  BY <1>1 DEF PrevNode, Back
<1>3. Load5sIsActive'
  BY <1>1, <1>2 DEF LoadInv, Load5sIsActive
<1>4. CASE sec' % Period = 0
  <2>1. PICK n \in Actives : /\ avenrun' = CalcLoad(avenrun, n)
                             /\ active' = n /\ unseen' = unseen + 1
    BY <1>4 DEF Tick
  <2>2. unseen' # 0 /\ (unseen' = 1 => unseen = 0)
    BY <2>1, SMT DEF TypeOK
  <2>3. unseen' = 1 => Shows(avenrun)
    BY <2>2 DEF LoadInv
  <2>4. avenrun \in Nat
    BY DEF TypeOK
  <2>5. unseen' = 1 => \E load \in Nat :
          avenrun' = CalcLoad(load, active') /\ PrevNode'.load1 \in {0, Shown(load)}
    BY <1>2, <2>1, <2>3, <2>4 DEF Shows
  <2> QED BY <1>3, <2>2, <2>5 DEF LoadInv, Shows, CalcLoad
<1>5. CASE sec' % Period # 0
  <2>1. UNCHANGED <<avenrun, active, unseen>>
    BY <1>5 DEF Tick
  <2> QED BY <1>1, <2>1, LoadQuiet DEF LoadVars, ringVars
<1> QED BY <1>4, <1>5

LEMMA LoadNext == ASSUME TypeOK, LoadInv, [Next]_vars PROVE LoadInv'
<1>1. CASE Tick
  BY <1>1, LoadTick
<1>2. CASE Poll
  BY <1>2, LoadPoll
<1>3. CASE \/ Turn \/ CheckPartition \/ WriteRecord \/ Notify
           \/ Loadrd \/ UNCHANGED vars
  <2>1. UNCHANGED LoadVars
    BY <1>3 DEF LoadVars, recordVars, Turn, CheckPartition, WriteRecord, Notify, Loadrd,
       Woken, ReadEvent, Begin, GiveUp, End, loadrdKeeps, vars
  <2> QED BY <2>1, LoadQuiet
<1> QED BY <1>1, <1>2, <1>3 DEF Next, Load1

LEMMA LoadInit == ASSUME Init PROVE LoadInv
<1>1. 1 \in 1 .. Level /\ 0 \in Nodes
  BY LoadZoomAssumption, SMT DEF Nodes
<1>2. Back(0, 1) \in Nodes
  BY <1>1, BackFollowing
<1>3. cur = 0 /\ unseen = 0 /\ truth.single = FALSE
  BY DEF Init
<1>4. PrevNode.load1 = 0
  BY <1>2, <1>3 DEF Init, PrevNode
<1> QED BY <1>3, <1>4 DEF LoadInv, Shows, Load5sIsActive

\* Load5sIsActive: a 5s record with one kernel update behind it shows exactly the
\* number of active threads, whatever the loads and the earlier polls were.
THEOREM Load5sIsActiveCorrect == Spec => []Load5sIsActive
<1>1. Init => TypeOK /\ LoadInv
  BY InitType, LoadInit
<1>2. TypeOK /\ LoadInv /\ [Next]_vars => (TypeOK /\ LoadInv)'
  BY NextType, LoadNext
<1>3. LoadInv => Load5sIsActive
  BY DEF LoadInv
<1> QED BY <1>1, <1>2, <1>3, PTL DEF Spec

-----------------------------------------------------------------------------
(* The zoom decision.  The nodes behind current_node hold the zooms of the  *)
(* latest records, as far as there have been records; whatever else they    *)
(* hold is of no consequence once there have been Level of them.            *)

RingInv ==
  \A i \in 1 .. Level :
    /\ past[i].zoom => past[i].made
    /\ past[i].made => (ring[Back(cur, i)].zoom_state # 0 <=> past[i].zoom)

ZoomInv == RingInv /\ SustainedZoom /\ ZoomsSpaced

ZoomVars == <<ringVars, past>>

LEMMA ZoomQuiet == ZoomInv /\ UNCHANGED ZoomVars => ZoomInv'
  BY DEF ZoomVars, ringVars, ZoomInv, RingInv, SustainedZoom, ZoomsSpaced, Back

LEMMA ZoomPoll == ASSUME TypeOK, ZoomInv, Poll PROVE ZoomInv'
<1> DEFINE load1 == Shown(avenrun)
           zoom == NewNode(load1).zoom_state # 0
<1>1. CASE load1 = PrevNode.load1
  BY <1>1, ZoomQuiet DEF Poll, ZoomVars, recordVars
<1>2. CASE load1 # PrevNode.load1
  <2>1. /\ ring' = [ring EXCEPT ![cur] = NewNode(load1)]
        /\ cur' = Following(cur)
        /\ past' = [i \in 1 .. Level |-> IF i > 1 THEN past[i - 1] ELSE
             [made |-> TRUE, high |-> High(load1), surge |-> Surge(load1), zoom |-> zoom]]
    BY <1>2 DEF Poll
  <2>2. cur \in Nodes /\ ring \in [Nodes -> NodeTypes]
    BY DEF TypeOK
  <2>3. 1 \in 1 .. Level
    BY LoadZoomAssumption, SMT
  <2>4. ASSUME NEW i \in 1 .. Level, i > 1
        PROVE  i - 1 \in 1 .. Level /\ i - 1 \in 1 .. Level - 1
    BY <2>4, LoadZoomAssumption, SMT
  <2>5. zoom <=> High(load1) /\ (Surge(load1) \/ ~PrevZoomed(ring, cur))
    BY DEF NewNode, Zoom
  <2> HIDE DEF load1, zoom
  \* The new record, and the others moved up by one.
  <2>6. /\ past'[1].made /\ (past'[1].high <=> High(load1))
        /\ (past'[1].surge <=> Surge(load1)) /\ (past'[1].zoom <=> zoom)
    BY <2>1, <2>3
  <2>7. \A i \in 1 .. Level : i > 1 => past'[i] = past[i - 1]
    BY <2>1
  <2>8. RingInv'
    <3>1. ASSUME NEW i \in 1 .. Level
          PROVE  /\ past'[i].zoom => past'[i].made
                 /\ past'[i].made =>
                      (ring'[Back(Following(cur), i)].zoom_state # 0 <=> past'[i].zoom)
      <4>1. CASE i = 1
        <5>1. Back(Following(cur), 1) = cur
          BY <2>2, <2>3, BackFollowing
        <5>2. ring'[cur] = NewNode(load1)
          BY <2>1, <2>2
        <5> QED BY <4>1, <5>1, <5>2, <2>6 DEF zoom
      <4>2. CASE i > 1
        <5>1. Back(Following(cur), i) = Back(cur, i - 1) /\ Back(cur, i - 1) # cur
          BY <4>2, <2>2, BackFollowing
        <5>2. Back(cur, i - 1) \in Nodes
          BY <4>2, <2>2, <2>4, BackFollowing
        <5>3. ring'[Back(cur, i - 1)] = ring[Back(cur, i - 1)]
          BY <2>1, <2>2, <5>1, <5>2
        <5> QED BY <4>2, <2>4, <2>7, <5>1, <5>3 DEF ZoomInv, RingInv
      <4> QED BY <4>1, <4>2, SMT
    <3> QED BY <2>1, <3>1 DEF RingInv, Back
  <2>9. SustainedZoom'
    <3> SUFFICES ASSUME \A i \in 1 .. Level : past'[i].made /\ past'[i].high, ~zoom
                 PROVE  \E i \in 1 .. Level : past'[i].zoom
      BY <2>3, <2>6 DEF SustainedZoom
    <3>1. PrevZoomed(ring, cur)
      BY <2>3, <2>5, <2>6
    <3>2. PICK i \in 1 .. Level - 1 : ring[Back(cur, i)].zoom_state # 0
      BY <3>1 DEF PrevZoomed
    <3>3. i \in 1 .. Level /\ i + 1 \in 1 .. Level /\ i + 1 > 1 /\ (i + 1) - 1 = i
      BY LoadZoomAssumption, SMT
    <3>4. past'[i + 1] = past[i]
      BY <2>7, <3>3
    <3>5. past[i].made
      BY <3>3, <3>4
    <3>6. past[i].zoom
      BY <3>2, <3>3, <3>5 DEF ZoomInv, RingInv
    <3> QED BY <3>3, <3>4, <3>6
  <2>10. ZoomsSpaced'
    <3> SUFFICES ASSUME zoom
                 PROVE  High(load1) /\ (Surge(load1) \/ \A i \in 2 .. Level : ~past'[i].zoom)
      BY <2>6 DEF ZoomsSpaced
    <3>1. High(load1)
      BY <2>5
    <3>2. ASSUME ~Surge(load1), NEW i \in 2 .. Level PROVE ~past'[i].zoom
      <4>1. i \in 1 .. Level /\ i > 1
        BY LoadZoomAssumption, SMT
      <4>2. ring[Back(cur, i - 1)].zoom_state = 0
        BY <2>4, <2>5, <3>2, <4>1 DEF PrevZoomed
      <4>3. ~past[i - 1].zoom
        BY <2>4, <4>1, <4>2 DEF ZoomInv, RingInv
      <4> QED BY <2>7, <4>1, <4>3
    <3> QED BY <3>1, <3>2
  <2> QED BY <2>8, <2>9, <2>10 DEF ZoomInv
<1> QED BY <1>1, <1>2

LEMMA ZoomNext == ASSUME TypeOK, ZoomInv, [Next]_vars PROVE ZoomInv'
<1>1. CASE Poll
  BY <1>1, ZoomPoll
<1>2. CASE \/ Tick \/ Turn \/ CheckPartition \/ WriteRecord \/ Notify
           \/ Loadrd \/ UNCHANGED vars
  <2>1. UNCHANGED ZoomVars
    BY <1>2 DEF ZoomVars, recordVars, Tick, Turn, CheckPartition, WriteRecord, Notify,
       Loadrd, Woken, ReadEvent, Begin, GiveUp, End, loadrdKeeps, vars
  <2> QED BY <2>1, ZoomQuiet
<1> QED BY <1>1, <1>2 DEF Next, Load1

LEMMA ZoomInit == ASSUME Init PROVE ZoomInv
<1>1. \A i \in 1 .. Level : past[i] = NoRecord
  BY DEF Init
<1>2. 1 \in 1 .. Level
  BY LoadZoomAssumption, SMT
<1> QED BY <1>1, <1>2 DEF ZoomInv, RingInv, SustainedZoom, ZoomsSpaced, NoRecord

LEMMA ZoomInvariant == Spec => []ZoomInv
<1>1. Init => TypeOK /\ ZoomInv
  BY InitType, ZoomInit
<1>2. TypeOK /\ ZoomInv /\ [Next]_vars => (TypeOK /\ ZoomInv)'
  BY NextType, ZoomNext
<1> QED BY <1>1, <1>2, PTL DEF Spec

\* SustainedZoom: among any Level consecutive records of high load one is zoomed,
\* for every size of the ring and whatever malloc left in it.
THEOREM SustainedZoomCorrect == Spec => []SustainedZoom
<1>1. ZoomInv => SustainedZoom
  BY DEF ZoomInv
<1> QED BY <1>1, ZoomInvariant, PTL

\* ZoomsSpaced: a zoom is of a high record, and without a surge it is the only one
\* among Level records.
THEOREM ZoomsSpacedCorrect == Spec => []ZoomsSpaced
<1>1. ZoomInv => ZoomsSpaced
  BY DEF ZoomInv
<1> QED BY <1>1, ZoomInvariant, PTL

-----------------------------------------------------------------------------
(* The wake-up.  The count covers the edge epoll has to report and the one  *)
(* loadrd_thread is about to read.                                          *)

EventInv ==
  /\ edge => count > 0
  /\ rpc = "woken" => count > 0
  /\ rpc = "woken" /\ edge => count > 1
  /\ owed => edge \/ rpc \in {"woken", "gate"}

LEMMA EventNext == ASSUME TypeOK, EventInv, [Next]_vars PROVE EventInv'
<1> USE DEF EventInv
<1>1. CASE \/ Tick \/ Turn \/ CheckPartition \/ Poll \/ WriteRecord \/ UNCHANGED vars
  BY <1>1 DEF Tick, Turn, CheckPartition, Poll, WriteRecord, vars, eventVars
<1>2. CASE Notify
  BY <1>2, SMT DEF Notify, TypeOK
<1>3. CASE Woken
  BY <1>3, SMT DEF Woken, TypeOK
<1>4. CASE ReadEvent
  BY <1>4, SMT DEF ReadEvent, TypeOK
<1>5. CASE Begin
  BY <1>5 DEF Begin, eventVars
<1>6. CASE GiveUp
  BY <1>6 DEF GiveUp, eventVars
<1>7. CASE End
  BY <1>7 DEF End, eventVars
<1> QED BY <1>1, <1>2, <1>3, <1>4, <1>5, <1>6, <1>7 DEF Next, Load1, Loadrd

\* ZoomPending: however many writes one wake-up stands for, a zoom that has not been
\* acted on is never without one, and epoll never finds the count at zero.
THEOREM ZoomPendingCorrect == Spec => []ZoomPending
<1>1. Init => TypeOK /\ EventInv
  BY InitType DEF Init, EventInv
<1>2. TypeOK /\ EventInv /\ [Next]_vars => (TypeOK /\ EventInv)'
  BY NextType, EventNext
<1>3. EventInv => ZoomPending
  BY DEF EventInv, ZoomPending
<1> QED BY <1>1, <1>2, <1>3, PTL DEF Spec
=============================================================================
