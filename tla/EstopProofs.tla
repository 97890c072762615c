---------------------------- MODULE EstopProofs ----------------------------
(***************************************************************************)
(* What module Estop guarantees whatever orders arrive, and that the       *)
(* system of module EstopSystem, whose orders come from the commander and  *)
(* the E-stop window, is an instance of it.                                *)
(***************************************************************************)
EXTENDS EstopSystem, TLAPS

\* The properties are inductive together.
EstopInv == NavTypeOK /\ DriveOnlyInRun /\ InitializeBeforeGo

\* It holds when the navigator starts, paused.
LEMMA EstopInvInit == NavInit => EstopInv
  BY DEF NavInit, EstopInv, NavTypeOK, DriveOnlyInRun, InitializeBeforeGo,
         EstopStates, Behaviors, CarCmds

\* One navigator cycle, on any order, keeps the invariant.
LEMMA EstopInvCycle ==
  ASSUME EstopInv, NEW b \in Behaviors, Cycle(b)
  PROVE  EstopInv'
<1> USE DEF EstopInv, NavTypeOK, DriveOnlyInRun, InitializeBeforeGo,
            EstopStates, Behaviors, CarCmds, SetSpeed
<1>0. behavior' = b /\ polygons' = polygons
  BY DEF Cycle
<1>1. CASE ActionToDone(b)
  BY <1>0, <1>1 DEF ActionToDone, Rest
<1>2. CASE ActionInDone(b)
  BY <1>0, <1>2 DEF ActionInDone, Rest
<1>3. CASE ActionInPause(b)
  BY <1>0, <1>3 DEF ActionInPause, Rest
<1>4. CASE ActionToSuspend(b)
  BY <1>0, <1>4 DEF ActionToSuspend, Rest
<1>5. CASE ActionInSuspend(b)
  BY <1>0, <1>5 DEF ActionInSuspend, Rest
<1>6. CASE RunWaits(b)
  BY <1>0, <1>6 DEF RunWaits, EnterRun
<1>7. CASE RunInitialize(b)
  BY <1>0, <1>7 DEF RunInitialize, EnterRun
<1>8. CASE RunGo(b)
  BY <1>0, <1>8 DEF RunGo, EnterRun
<1>9. CASE RunUnsupported(b)
  BY <1>0, <1>9 DEF RunUnsupported, EnterRun
<1> QED
  BY <1>1, <1>2, <1>3, <1>4, <1>5, <1>6, <1>7, <1>8, <1>9 DEF Cycle

\* So does every step: a cycle, or a lanes message.
LEMMA EstopInvNext == EstopInv /\ [NavNext]_nav => EstopInv'
<1> SUFFICES ASSUME EstopInv, [NavNext]_nav PROVE EstopInv'
  OBVIOUS
<1>1. CASE \E b \in Behaviors : Cycle(b)
  BY <1>1, EstopInvCycle
<1>2. CASE ProcessRoadMap
  BY <1>2 DEF ProcessRoadMap, lamps, EstopInv, NavTypeOK, DriveOnlyInRun,
              InitializeBeforeGo
<1>3. CASE UNCHANGED nav
  BY <1>3 DEF nav, lamps, EstopInv, NavTypeOK, DriveOnlyInRun,
              InitializeBeforeGo
<1> QED
  BY <1>1, <1>2, <1>3 DEF NavNext

\* Under arbitrary orders the robot is told to drive only in Run state with the
\* alarm on (estop.cc), and after a Suspend only once Initialize has found a
\* way-point (Run::initialize).
THEOREM EstopSafe ==
  NavSpec => [](NavTypeOK /\ DriveOnlyInRun /\ InitializeBeforeGo)
<1>1. EstopInv => NavTypeOK /\ DriveOnlyInRun /\ InitializeBeforeGo
  BY DEF EstopInv
<1> QED
  BY <1>1, EstopInvInit, EstopInvNext, PTL DEF NavSpec

\* Whatever orders arrive, the E-stop machine, its pending abort, the lamp wishes
\* and the command to the pilot keep their types (estop.cc, run.cc); in
\* particular an unsupported behaviour leaves the machine in a state of its table.
THEOREM EstopTypes == NavSpec => []NavTypeOK
  BY EstopSafe, PTL

-----------------------------------------------------------------------------
\* A step that takes the pending abort enters Done.
LEMMA AbortStep ==
  ASSUME EstopInv, [NavNext]_nav, pending = "Abort", pending' # pending
  PROVE  estop' = "Done"
<1>1. PICK b \in Behaviors : Cycle(b)
  BY DEF NavNext, ProcessRoadMap, nav
<1>2. estop = "Run" /\ current_event(b) = "Abort"
  BY DEF EstopInv, DriveOnlyInRun, current_event
<1> QED
  BY <1>1, <1>2 DEF Cycle, ActionToDone, ActionInDone, ActionInPause,
     ActionToSuspend, ActionInSuspend, RunWaits, RunInitialize, RunGo,
     RunUnsupported, EnterRun

\* A result that Estop cannot handle (ActionInRun) disables the robot before any
\* later order has an effect.
THEOREM EstopAborts == NavSpec => AbortWins
<1>1. EstopInv /\ [NavNext]_nav =>
        [pending = "Abort" /\ pending' # pending => estop' = "Done"]_nav
  BY AbortStep
<1> QED
  BY <1>1, EstopInvInit, EstopInvNext, PTL DEF NavSpec, AbortWins

-----------------------------------------------------------------------------
\* The behaviors that can be in the queue or latched.
OrdersOK ==
  /\ behavior \in Behaviors
  /\ cmdq \in Behaviors \cup {"empty"}
  /\ want \in {"NONE", "Pause", "Run", "Suspend"}

\* Every step of the system is a step of the navigator on some order, or leaves
\* the navigator alone.
LEMMA SystemStep ==
  ASSUME OrdersOK, [SysNext]_svars
  PROVE  OrdersOK' /\ [NavNext]_nav
<1> USE DEF OrdersOK
<1>1. CASE NavCycle
  <2> DEFINE b == IF cmdq = "empty" THEN behavior ELSE cmdq
  <2>1. b \in Behaviors /\ Cycle(b)
    BY <1>1 DEF NavCycle
  <2>2. behavior' = b
    BY <2>1 DEF Cycle
  <2> QED
    BY <1>1, <2>1, <2>2 DEF NavCycle, NavNext
<1>2. CASE RoadMapArrives
  BY <1>2 DEF RoadMapArrives, ProcessRoadMap, window, NavNext
<1>3. ASSUME NEW b \in {"Pause", "Run", "Suspend"}, Press(b)
      PROVE  OrdersOK' /\ [NavNext]_nav
  BY <1>3 DEF Press, nav, lamps
<1>4. CASE check_state
  BY <1>4 DEF check_state, nav, Behaviors
<1>5. CASE CmdrRead
  BY <1>5 DEF CmdrRead, nav, window
<1>6. CASE CmdrSend
  <2> USE DEF Send, nav, window, Behaviors
  <2>1. CASE CmdrExit
    BY <2>1 DEF CmdrExit
  <2>2. CASE CmdrWait
    BY <2>2 DEF CmdrWait
  <2>3. CASE CmdrInitialize
    BY <2>3 DEF CmdrInitialize
  <2>4. CASE CmdrFSM
    BY <2>4 DEF CmdrFSM
  <2> QED
    BY <1>6, <2>1, <2>2, <2>3, <2>4 DEF CmdrSend
<1>7. CASE UNCHANGED svars
  BY <1>7 DEF svars, nav, window
<1> QED
  BY <1>1, <1>2, <1>3, <1>4, <1>5, <1>6, <1>7 DEF SysNext

\* The navigator of the whole system, with its lossy queue and its two sources
\* of orders, is the navigator of module Estop.
THEOREM SystemImplementsNav == SysSpec => NavSpec
<1>1. SysInit => NavInit /\ OrdersOK
  BY DEF SysInit, NavInit, OrdersOK, Behaviors
<1> QED
  BY <1>1, SystemStep, PTL DEF SysSpec, NavSpec

\* So the safety of the navigator carries over to the system.
THEOREM SystemSafe ==
  SysSpec => [](NavTypeOK /\ DriveOnlyInRun /\ InitializeBeforeGo) /\ AbortWins
  BY SystemImplementsNav, EstopSafe, EstopAborts, PTL
-----------------------------------------------------------------------------
\* The orders that the window sends, of which none drives the robot.
WindowOrders == {"Pause", "Run", "Suspend"}

\* No order of the commander is left in the queue.  Send is the only action that
\* puts one there, and a navigator cycle, which empties the queue, comes between it
\* and the next CmdrRead.
QueueQuiet ==
  /\ ticks \in Nat
  /\ exited => ~computing
  /\ computing \/ exited \/ ticks > 0 => cmdq \in WindowOrders \cup {"empty"}

\* The commander has left its main loop, or has read the state that makes it
\* leave.
Leaving == exited \/ (computing /\ navstate.estop = "Done")

\* From then on the latched order is one of the window's, or still the one on
\* which the navigator came to Done: Done is left by a Suspend only.
LeavingRests ==
  Leaving => /\ estop = "Done" \/ behavior \in WindowOrders
             /\ ~(estop = "Run" /\ car_cmd # "halt")

\* What makes ShutdownFinal inductive.
ShutdownInv == EstopInv /\ OrdersOK /\ QueueQuiet /\ LeavingRests

\* It holds when the three nodes start.
LEMMA ShutdownInit == SysInit => ShutdownInv
<1>1. SysInit => EstopInv
  BY EstopInvInit DEF SysInit
<1> QED
  BY <1>1 DEF SysInit, NavInit, ShutdownInv, OrdersOK, Behaviors, QueueQuiet,
     WindowOrders, LeavingRests, Leaving

\* A navigator cycle empties the queue and, once the commander is leaving, runs on
\* an order of the window or stays in Done.
LEMMA ShutdownNavCycle ==
  ASSUME ShutdownInv, NavCycle
  PROVE  QueueQuiet' /\ LeavingRests'
<1> DEFINE b == IF cmdq = "empty" THEN behavior ELSE cmdq
<1>1. Cycle(b) /\ behavior' = b
  BY DEF NavCycle, Cycle
<1>2. QueueQuiet'
  BY PeriodAssumption DEF ShutdownInv, QueueQuiet, NavCycle
<1>3. ASSUME Leaving'
      PROVE  /\ estop' = "Done" \/ behavior' \in WindowOrders
             /\ ~(estop' = "Run" /\ car_cmd' # "halt")
  <2>1. Leaving /\ cmdq \in WindowOrders \cup {"empty"}
    BY <1>3 DEF Leaving, NavCycle, ShutdownInv, QueueQuiet
  <2>2. estop = "Done" \/ b \in WindowOrders
    BY <2>1 DEF ShutdownInv, LeavingRests
  <2>3. CASE estop = "Done"
    <3>1. pending = "None"
      BY <2>3 DEF ShutdownInv, EstopInv, DriveOnlyInRun, NavTypeOK
    <3> QED
      BY <1>1, <2>3, <3>1 DEF Cycle, ActionToDone, ActionInDone, ActionInPause,
         ActionToSuspend, ActionInSuspend, RunWaits, RunInitialize, RunGo,
         RunUnsupported, EnterRun, current_event, EstopEvents, WindowOrders
  <2>4. CASE b \in WindowOrders
    BY <1>1, <2>4 DEF Cycle, ActionToDone, ActionInDone, ActionInPause,
       ActionToSuspend, ActionInSuspend, RunWaits, RunInitialize, RunGo,
       RunUnsupported, EnterRun, SetSpeed, WindowOrders
  <2> QED
    BY <2>2, <2>3, <2>4
<1> QED
  BY <1>2, <1>3 DEF LeavingRests

\* Every step of the system keeps it.
LEMMA ShutdownStep == ShutdownInv /\ [SysNext]_svars => ShutdownInv'
<1> SUFFICES ASSUME ShutdownInv, [SysNext]_svars PROVE ShutdownInv'
  OBVIOUS
<1>1. EstopInv' /\ OrdersOK'
  BY SystemStep, EstopInvNext DEF ShutdownInv
<1>2. CASE NavCycle
  BY <1>1, <1>2, ShutdownNavCycle DEF ShutdownInv
<1> USE DEF QueueQuiet, LeavingRests, Leaving
<1>3. CASE RoadMapArrives
  BY <1>1, <1>3 DEF RoadMapArrives, ProcessRoadMap, commander, ShutdownInv
<1>4. ASSUME NEW b \in {"Pause", "Run", "Suspend"}, Press(b)
      PROVE  ShutdownInv'
  BY <1>1, <1>4 DEF Press, commander, nav, ShutdownInv
<1>5. CASE check_state
  BY <1>1, <1>5 DEF check_state, commander, nav, ShutdownInv, OrdersOK,
     WindowOrders
<1>6. CASE CmdrRead
  BY <1>1, <1>6, PeriodAssumption DEF CmdrRead, nav, ShutdownInv
<1>7. CASE CmdrSend
  <2> USE DEF Send, nav, ShutdownInv
  <2>1. CASE CmdrExit
    BY <1>1, <2>1 DEF CmdrExit
  <2>2. CASE CmdrWait
    BY <1>1, <2>2 DEF CmdrWait
  <2>3. CASE CmdrInitialize
    BY <1>1, <2>3 DEF CmdrInitialize
  <2>4. CASE CmdrFSM
    BY <1>1, <2>4 DEF CmdrFSM
  <2> QED
    BY <1>7, <2>1, <2>2, <2>3, <2>4 DEF CmdrSend
<1>8. CASE UNCHANGED svars
  BY <1>1, <1>8 DEF svars, commander, nav, ShutdownInv
<1> QED
  BY <1>2, <1>3, <1>4, <1>5, <1>6, <1>7, <1>8 DEF SysNext

\* Once the commander has left its main loop (ros_node.cc) the robot does not
\* drive by itself again, whatever the operator does with the window (estop.py)
\* and however the orders of the two nodes overtook each other in the queue.
THEOREM SystemShutdown == SysSpec => []ShutdownFinal
<1>1. ShutdownInv => ShutdownFinal
  BY DEF ShutdownInv, LeavingRests, Leaving, ShutdownFinal
<1> QED
  BY <1>1, ShutdownInit, ShutdownStep, PTL DEF SysSpec
=============================================================================
