---------------------------- MODULE EstopSystem ----------------------------
(***************************************************************************)
(* The three nodes that decide whether the robot may move: the navigator   *)
(* (module Estop), the commander (commander/ros_node.cc with the state     *)
(* machine of commander/FSM.cc) and the operator's E-stop window           *)
(* (navigator/estop.py).                                                   *)
(*                                                                         *)
(* The commander and the window publish their orders on the same topic,    *)
(* navigator/cmd, which the navigator subscribes to with a queue of one    *)
(* message: an order that has not been read yet is lost when the other     *)
(* node publishes.  The window repeats its order for every state message   *)
(* of the navigator until the state is the one the operator wants.  The    *)
(* commander reads a state, computes, and publishes later.                 *)
(***************************************************************************)
EXTENDS Estop

CONSTANT CmdrPeriod    \* navigator cycles between two orders of the commander

ASSUME PeriodAssumption == CmdrPeriod \in Nat \ {0}

VARIABLES
  cmdq,        \* the queue of navigator/cmd: a behavior, or "empty"
  gui_in,      \* the window has not seen the last navigator state yet
  want,        \* estop.py new_behavior_: the operator's wish
  navstate,    \* CommanderNode::navState_
  computing,   \* the commander has read navState_ and not yet published
  ticks,       \* navigator cycles since the last order, up to CmdrPeriod
  cmdr,        \* CmdrFSM::state
  route,       \* the commander has a route
  exited,      \* the commander has left its main loop
  over         \* history: the navigator has been in state Done

window == <<gui_in, want>>
commander == <<navstate, computing, ticks, cmdr, route, exited>>
svars == <<nav, cmdq, window, commander, over>>

-----------------------------------------------------------------------------
(* The navigator. *)

\* One navigator cycle: read the queue, or run on the latched order; publish the
\* state.  The window handles a state message before the next one is sent.
NavCycle ==
  /\ ~gui_in
  /\ Cycle(IF cmdq = "empty" THEN behavior ELSE cmdq)
  /\ cmdq' = "empty"
  /\ gui_in' = TRUE
  /\ ticks' = IF ticks < CmdrPeriod THEN ticks + 1 ELSE ticks
  /\ over' = (over \/ estop' = "Done")
  /\ UNCHANGED <<want, navstate, computing, cmdr, route, exited>>

RoadMapArrives ==
  ProcessRoadMap /\ UNCHANGED <<cmdq, window, commander, over>>

-----------------------------------------------------------------------------
(* The E-stop window. *)

\* The run, pause and suspend buttons only record the wish.
Press(b) ==
  /\ want' = b
  /\ UNCHANGED <<nav, cmdq, gui_in, commander, over>>

\* Mutant of check_state: nothing is sent while the navigator is paused.
QuietWhilePaused ==
  /\ gui_in
  /\ gui_in' = FALSE
  /\ cmdq' = IF want # "NONE" /\ estop # want /\ estop # "Pause"
             THEN want ELSE cmdq
  /\ UNCHANGED <<nav, want, commander, over>>

\* estop.py check_state: repeat the order until the state is the wanted one.
check_state ==
  /\ gui_in
  /\ gui_in' = FALSE
  /\ cmdq' = IF want # "NONE" /\ estop # want THEN want ELSE cmdq
  /\ UNCHANGED <<nav, want, commander, over>>

-----------------------------------------------------------------------------
(* The commander. *)

\* Mutant of CmdrRead: the commander runs as often as the navigator.
CmdrReadAlways ==
  /\ ~exited /\ ~computing
  /\ computing' = TRUE
  /\ navstate' = [estop |-> estop, located |-> located]
  /\ UNCHANGED <<nav, cmdq, window, ticks, cmdr, route, exited, over>>

\* Mutant of CmdrRead: the main loop is not left when the navigator is Done.
CmdrReadOn ==
  /\ ~computing /\ ticks = CmdrPeriod
  /\ computing' = TRUE
  /\ navstate' = [estop |-> estop, located |-> located]
  /\ UNCHANGED <<nav, cmdq, window, ticks, cmdr, route, exited, over>>

\* spinOnce at the begin of a commander cycle.
CmdrRead ==
  /\ ~exited /\ ~computing /\ ticks = CmdrPeriod
  /\ computing' = TRUE
  /\ navstate' = [estop |-> estop, located |-> located]
  /\ UNCHANGED <<nav, cmdq, window, ticks, cmdr, route, exited, over>>

\* The rest of the cycle publishes b, "NONE" when there is nothing to say.
Send(b) ==
  /\ computing
  /\ computing' = FALSE
  /\ ticks' = 0
  /\ cmdq' = IF b = "NONE" THEN cmdq ELSE b
  /\ UNCHANGED <<nav, window, navstate, over>>

\* The navigator has shut down: leave the main loop.
CmdrExit ==
  /\ navstate.estop = "Done"
  /\ Send("NONE")
  /\ exited' = TRUE
  /\ UNCHANGED <<cmdr, route>>

\* Commander::command: nothing to do unless the navigator is running.
CmdrWait ==
  /\ navstate.estop \notin {"Done", "Run"}
  /\ Send("NONE")
  /\ UNCHANGED <<cmdr, route, exited>>

\* It has no way-point yet.
CmdrInitialize ==
  /\ navstate.estop = "Run" /\ ~navstate.located
  /\ Send("Initialize")
  /\ UNCHANGED <<cmdr, route, exited>>

\* CmdrFSM::control.  A first plan that fails aborts, and stays in Road with an
\* empty route; with a route the mission goes on, is completed, or fails.
CmdrFSM ==
  /\ navstate.estop = "Run" /\ navstate.located
  /\ \/ cmdr = "Init" /\ Send("Go") /\ cmdr' = "Road" /\ route' = TRUE
     \/ cmdr = "Init" /\ Send("Abort") /\ cmdr' = "Road" /\ UNCHANGED route
     \/ cmdr = "Road" /\ ~route /\ Send("Abort") /\ UNCHANGED <<cmdr, route>>
     \/ cmdr = "Road" /\ route /\ Send("Go") /\ UNCHANGED <<cmdr, route>>
     \/ /\ cmdr = "Road" /\ route
        /\ \E b \in {"Quit", "Abort"} : Send(b)
        /\ cmdr' = "Done"
        /\ UNCHANGED route
     \/ cmdr = "Done" /\ Send("Quit") /\ UNCHANGED <<cmdr, route>>
  /\ UNCHANGED exited

CmdrSend == CmdrExit \/ CmdrWait \/ CmdrInitialize \/ CmdrFSM

-----------------------------------------------------------------------------
\* The option -r makes the commander publish a Run order when it starts.
SysInit ==
  /\ NavInit
  /\ cmdq \in {"empty", "Run"}
  /\ gui_in = FALSE /\ want = "NONE"
  /\ navstate = [estop |-> "Pause", located |-> FALSE]
  /\ computing = FALSE /\ ticks = 0
  /\ cmdr = "Init" /\ route = FALSE /\ exited = FALSE
  /\ over = FALSE

SysNext ==
  \/ NavCycle \/ RoadMapArrives
  \/ \E b \in {"Pause", "Run", "Suspend"} : Press(b)
  \/ check_state
  \/ CmdrRead \/ CmdrSend

SysSpec == SysInit /\ [][SysNext]_svars

\* Each node has a main loop or a callback that keeps running; the operator and
\* the map server owe nothing.
SysFairness ==
  /\ WF_svars(NavCycle)
  /\ WF_svars(check_state)
  /\ WF_svars(CmdrRead)
  /\ WF_svars(CmdrSend)

SysFairSpec == SysSpec /\ SysFairness

-----------------------------------------------------------------------------
\* If the operator goes on wanting Pause the navigator comes to rest for good,
\* in Pause or Done: although the commander goes on overwriting the window's
\* orders in the queue, and orders of before are still under way.
PauseHonoured ==
  <>[](want = "Pause") => <>[](estop \in {"Pause", "Done"})

\* If the operator goes on wanting Run and the lanes are known, the commander's
\* orders end up in force: the robot is under a Go order with a way-point
\* reached, or the mission is over.
RunStarts ==
  <>[](want = "Run" /\ polygons) =>
    <>(estop = "Done" \/ (estop = "Run" /\ located /\ behavior = "Go"))

\* Once the commander has seen Done and left its main loop, the robot does not
\* drive by itself any more: the operator may lead the navigator from Done to
\* Suspend and to Run again, but no Go order is left in the queue to take effect
\* then (estop.cc: "the commander has already shut down, so the car will not begin
\* a new mission").
ShutdownFinal == exited => ~(estop = "Run" /\ car_cmd # "halt")

\* The same from the moment the navigator was Done, whether the commander has
\* seen it or not.
MissionOver == over => ~(estop = "Run" /\ car_cmd # "halt")
=============================================================================
