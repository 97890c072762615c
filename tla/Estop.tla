------------------------------- MODULE Estop -------------------------------
(***************************************************************************)
(* The top of the navigator: the E-stop state machine (navigator/estop.cc),*)
(* the Run controller below it (navigator/run.cc) and the cycle that calls *)
(* them (Navigator::navigate, NavQueueMgr::spin).                          *)
(*                                                                         *)
(* One step is one navigator cycle.  The order is latched: when no new     *)
(* command has arrived the cycle runs on the behavior of the last one, so  *)
(* an order is an event again in every cycle until the next one replaces   *)
(* it.  The road controller is reduced to what it returns and commands;    *)
(* module Road models it in full.                                          *)
(***************************************************************************)
EXTENDS Integers

VARIABLES
  estop,       \* Estop::state
  pending,     \* Estop::pending_event: "None" or "Abort"
  behavior,    \* order->behavior, latched
  located,     \* navdata->last_waypt is set
  polygons,    \* course->polygons is not empty
  car_cmd,     \* last command published to the pilot: "halt", "go" or "back"
  flasher, alarm

lamps == <<flasher, alarm>>
nav == <<estop, pending, behavior, located, polygons, car_cmd, lamps>>

EstopStates == {"Pause", "Run", "Done", "Suspend"}
Behaviors == {"Abort", "Quit", "Pause", "Run", "Suspend", "Initialize", "Go",
              "NONE"}
CarCmds == {"halt", "go", "back"}
EstopEvents == {"Abort", "Quit", "Pause", "Run", "Suspend"}

\* Mutant of current_event: a new order is looked at before the pending event.
OrderFirst(b) ==
  IF b \in EstopEvents THEN b ELSE pending

\* Estop::current_event.  A pending event comes before the order; behaviors that
\* only matter to lower controllers are no event here.
current_event(b) ==
  IF pending # "None" THEN pending
  ELSE IF b \in EstopEvents THEN b
  ELSE "None"

\* Mutant of SetSpeed: nothing is sent to the pilot in Pause either.
QuietWhenPaused(cmd) ==
  car_cmd' = IF estop' \in {"Suspend", "Pause"} THEN car_cmd ELSE cmd

\* NavQueueMgr::SetSpeed publishes nothing while suspended, so the joystick can
\* drive the car.
SetSpeed(cmd) == car_cmd' = IF estop' = "Suspend" THEN car_cmd ELSE cmd

\* Halt with the lamps f and a, and no result that would abort.
Rest(f, a) ==
  /\ flasher' = f
  /\ alarm' = a
  /\ SetSpeed("halt")
  /\ pending' = "None"

-----------------------------------------------------------------------------
(* The action methods of estop.cc, in the cycle whose order has behavior b. *)

\* Abort and Quit disable the robot, and Done is only left by a Suspend.
ActionToDone(b) ==
  /\ current_event(b) \in {"Abort", "Quit"}
  /\ estop # "Done"
  /\ estop' = "Done"
  /\ Rest(FALSE, FALSE)
  /\ UNCHANGED located

ActionInDone(b) ==
  /\ estop = "Done"
  /\ current_event(b) # "Suspend"
  /\ estop' = "Done"
  /\ Rest(FALSE, FALSE)
  /\ UNCHANGED located

ActionInPause(b) ==
  /\ \/ estop = "Pause" /\ current_event(b) = "None"
     \/ estop # "Done" /\ current_event(b) = "Pause"
  /\ estop' = "Pause"
  /\ Rest(TRUE, FALSE)
  /\ UNCHANGED located

\* Mutant of ActionToSuspend: last_waypt is kept.
SuspendKeepsWaypt(b) ==
  /\ estop # "Suspend"
  /\ current_event(b) = "Suspend"
  /\ estop' = "Suspend"
  /\ Rest(TRUE, FALSE)
  /\ UNCHANGED located

\* Resets last_waypt, so that the commander will Initialize again.
ActionToSuspend(b) ==
  /\ estop # "Suspend"
  /\ current_event(b) = "Suspend"
  /\ estop' = "Suspend"
  /\ located' = FALSE
  /\ Rest(TRUE, FALSE)

ActionInSuspend(b) ==
  /\ estop = "Suspend"
  /\ current_event(b) \in {"None", "Suspend"}
  /\ estop' = "Suspend"
  /\ Rest(TRUE, FALSE)
  /\ UNCHANGED located

\* ActionToRun and ActionInRun up to the call of run->control.
EnterRun(b) ==
  /\ \/ estop = "Run" /\ current_event(b) = "None"
     \/ estop # "Done" /\ current_event(b) = "Run"
  /\ estop' = "Run"
  /\ flasher' = TRUE
  /\ alarm' = TRUE

\* Run::control waits for a new behavior and for the map.
RunWaits(b) ==
  /\ EnterRun(b)
  /\ b = "Run" \/ ~polygons
  /\ SetSpeed("halt")
  /\ pending' = "None"
  /\ UNCHANGED located

\* Run::initialize looks for the way-point to start from.
RunInitialize(b) ==
  /\ EnterRun(b)
  /\ b = "Initialize" /\ polygons
  /\ SetSpeed("halt")
  /\ \E found \in BOOLEAN :
       /\ located' = (found \/ located)
       /\ pending' = IF found THEN "None" ELSE "Abort"

\* Run::go.  An order that does not contain last_waypt is used up by
\* begin_run_cycle, and the car halts.  Otherwise the road controller drives, or
\* returns NotApplicable.
RunGo(b) ==
  /\ EnterRun(b)
  /\ b = "Go" /\ polygons
  /\ \/ SetSpeed("halt") /\ pending' = "None"
     \/ /\ located
        /\ \E cmd \in CarCmds : SetSpeed(cmd)
        /\ pending' \in {"None", "Abort"}
  /\ UNCHANGED located

\* Mutant of RunUnsupported: an event is left that Estop never has pending.
UnsupportedQuits(b) ==
  /\ EnterRun(b)
  /\ b = "NONE" /\ polygons
  /\ SetSpeed("halt")
  /\ pending' = "Quit"
  /\ UNCHANGED located

\* Run::control with a behavior it does not know: NotImplemented.
RunUnsupported(b) ==
  /\ EnterRun(b)
  /\ b = "NONE" /\ polygons
  /\ SetSpeed("halt")
  /\ pending' = "Abort"
  /\ UNCHANGED located

\* NavQueueMgr::spin: one cycle on the behavior b.
Cycle(b) ==
  /\ \/ ActionToDone(b) \/ ActionInDone(b)
     \/ ActionInPause(b)
     \/ ActionToSuspend(b) \/ ActionInSuspend(b)
     \/ RunWaits(b) \/ RunInitialize(b) \/ RunGo(b) \/ RunUnsupported(b)
  /\ behavior' = b
  /\ UNCHANGED polygons

\* NavQueueMgr::processRoadMap: a lanes message arrives, perhaps an empty one.
ProcessRoadMap ==
  /\ polygons' \in BOOLEAN
  /\ UNCHANGED <<estop, pending, behavior, located, car_cmd, lamps>>

NavInit ==
  /\ estop = "Pause" /\ pending = "None" /\ behavior = "Pause"
  /\ located = FALSE /\ polygons = FALSE /\ car_cmd = "halt"
  /\ flasher = FALSE /\ alarm = FALSE

\* Any node may publish any order at any time.
NavNext == (\E b \in Behaviors : Cycle(b)) \/ ProcessRoadMap

NavSpec == NavInit /\ [][NavNext]_nav

-----------------------------------------------------------------------------
\* The types of what the navigator keeps between cycles (estop.h, navigator_internal.h).
NavTypeOK ==
  /\ estop \in EstopStates
  /\ pending \in {"None", "Abort"}
  /\ behavior \in Behaviors
  /\ {located, polygons, flasher, alarm} \subseteq BOOLEAN
  /\ car_cmd \in CarCmds

\* Outside Run the pilot has been told to halt, unless the joystick has taken
\* over; an abort that is still pending belongs to a Run cycle; and the alarm,
\* which warns bystanders of a robot that may move, sounds whenever the last
\* command of an enabled robot was to drive.
DriveOnlyInRun ==
  /\ car_cmd # "halt" => estop \in {"Run", "Suspend"}
  /\ car_cmd # "halt" /\ estop = "Run" => alarm /\ flasher
  /\ pending = "Abort" => estop = "Run"

\* A result that cannot be handled disables the robot in the very next cycle,
\* whatever the operator or the commander order meanwhile.
AbortWins == [][pending = "Abort" /\ pending' # pending => estop' = "Done"]_nav

\* A robot that was suspended, and perhaps moved, has no way-point: it does not
\* drive again before Initialize has found one, even if a Go order computed
\* before the Suspend arrives late or the operator's Run overtakes it.
InitializeBeforeGo ==
  /\ estop = "Suspend" => ~located
  /\ estop = "Run" /\ car_cmd # "halt" => located
=============================================================================
