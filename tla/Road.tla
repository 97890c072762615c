-------------------------------- MODULE Road --------------------------------
(***************************************************************************)
(* The road state machine of the navigator (navigator/road.cc) with the    *)
(* controllers it calls: FollowLane, FollowSafely, StopArea, StopLine,     *)
(* Passing, Uturn and Halt, and the part of Course that decides which      *)
(* way-point was reached and what the vehicle plans to follow.             *)
(*                                                                         *)
(* One step is one navigator cycle in Run state under a Go order: the      *)
(* table of road.cc selects an action method from the road state and the   *)
(* event the previous cycle left pending, the method runs to its end, and  *)
(* it leaves a pilot command, a pending event and the new state.  What the *)
(* sensors and the map say in that cycle is chosen by \E.  Between two     *)
(* cycles a new order may arrive (processNavCmd), the vehicle may be       *)
(* paused, or the operator may suspend it and run it again elsewhere.      *)
(*                                                                         *)
(* The order is a window on the commander's route.  w0 is the kind of the  *)
(* way-point last reached, w1 the kind of the next one, ahead how many     *)
(* way-points after w0 the navigator knows (waypt[] repeats its last entry *)
(* when it is used up, see begin_run_cycle), nu the next_uturn index.  The *)
(* kind of a way-point is discovered when it becomes w1.                   *)
(***************************************************************************)
EXTENDS Integers, NavTimer

CONSTANTS
  Kinds,            \* kinds of way-points on the routes considered
  N_WAYPTS,         \* way-points in an order
  PassingDelay,     \* passing_delay, in navigator cycles
  StopLineDelay,    \* stop_line_delay
  PrecedenceDelay,  \* precedence_delay
  MaxObjects,       \* bound on the cars counted at an intersection
  LanesAlways,      \* the map server always covers the planned lane
  CloseWaypts,      \* way-points may be closer than the front overhang
  Prompt,           \* the commander extends the order before it runs out
  StaleOrders       \* orders may arrive that do not match last_waypt

AllKinds == {"lane", "stop", "exit", "change", "uturn", "perimeter"}

ASSUME KindsAssumption == Kinds \subseteq AllKinds /\ Kinds # {}
ASSUME WindowAssumption == N_WAYPTS \in Nat /\ N_WAYPTS >= 3
ASSUME DelayAssumption ==
  /\ PassingDelay \in Nat \ {0}
  /\ StopLineDelay \in Nat \ {0}
  /\ PrecedenceDelay \in Nat \ {0}
ASSUME ObjectsAssumption == MaxObjects \in Nat
ASSUME FlagsAssumption ==
  {LanesAlways, CloseWaypts, Prompt, StaleOrders} \subseteq BOOLEAN

VARIABLES
  state,             \* Road::state
  pending,           \* Road::pending_event
  status,            \* "running"; "aborted" after a result that makes Estop
                     \* abort; "crashed" after an uncaught exception
  pcmd,              \* the pilot command: "halt", "go" or "back"
  checked,           \* course->waypoint_checked at end_run_cycle
  w0, w1, ahead, nu, \* the order, see above
  saved,             \* saved_waypt_id and saved_replan_num: the value of
                     \* ahead when they were saved, -1 if the route or the
                     \* position in it is another one now
  road_blocked,      \* navdata->road_blocked
  replan_waypt,      \* navdata->replan_waypt is set
  plan,              \* course->plan: "none" if empty, "lane" or "passing"
  passed_lane,       \* course->passed_lane: "none" or "lane"
  uturn,             \* Uturn::state
  do_init,           \* Uturn::do_init
  reverse,           \* navdata->reverse
  in_passing_lane,   \* Passing::in_passing_lane
  lane_direction,    \* Road::lane_direction: "Straight" or "Side"
  passing_timer, stop_line_timer, precedence_timer,
  prev_nobjects,     \* Road::prev_nobjects
  \* history, not in the code:
  waited,            \* cycles of this WaitStop
  quiet,             \* cycles since its count of cars last changed
  obs_clear,         \* what the Intersection observer said in its last cycle
  moved,             \* the car may have been driven while the passing timer ran
  patience,          \* cycles in WaitPass since it last drove, none while moved
  yielded,           \* w0 is no stop, or WaitStop was left by its own decision
  crossed            \* w0 is no stop or exit, or WaitCross saw it clear

order == <<w0, w1, ahead, nu>>
timers == <<passing_timer, stop_line_timer, precedence_timer>>
blockage == <<road_blocked, replan_waypt>>
uturning == <<uturn, do_init, reverse>>
passing == <<in_passing_lane, passed_lane>>
stopping == <<stop_line_timer, precedence_timer, prev_nobjects, waited, quiet,
              obs_clear>>
waiting == <<patience, moved>>
ghosts == <<waited, quiet, obs_clear, waiting, yielded, crossed>>
vars == <<state, pending, status, pcmd, checked, order, saved, blockage, plan,
          passing, uturning, lane_direction, timers, prev_nobjects, ghosts>>

States == {"Init", "Block", "Evade", "Follow", "Pass", "Uturn", "WaitCross",
           "WaitLane", "WaitPass", "WaitStop", "Zone"}
Events == {"None", "Block", "ChangeLane", "Collision", "FollowLane", "Merge",
           "Pass", "Perimeter", "StopLine", "Uturn", "WaitPass"}

CapTo(n, cap) == IF n < cap THEN n ELSE cap

-----------------------------------------------------------------------------
(* The transition table: the <<state, event>> pairs that call each method. *)

ttable ==
  [ActionInBlock         |-> {<<"Block", "None">>},
   ActionToBlock         |-> {<<"Follow", "Block">>, <<"WaitPass", "Block">>},
   ActionPassToBlock     |-> {<<"Pass", "Block">>},
   ActionInEvade         |-> {<<"Evade", "None">>, <<"Evade", "WaitPass">>},
   ActionToEvade         |-> {<<"Block", "Collision">>,
                              <<"Follow", "Collision">>,
                              <<"WaitPass", "Collision">>},
   ActionPassToEvade     |-> {<<"Pass", "Collision">>},
   ActionInFollow        |-> {<<"Follow", "None">>, <<"Follow", "FollowLane">>},
   ActionToFollow        |-> {<<"Block", "FollowLane">>, <<"Init", "FollowLane">>,
                              <<"Uturn", "FollowLane">>,
                              <<"WaitCross", "FollowLane">>,
                              <<"WaitLane", "FollowLane">>},
   ActionEvadeToFollow   |-> {<<"Evade", "FollowLane">>},
   ActionPassToFollow    |-> {<<"Pass", "FollowLane">>},
   ActionWaitPassToFollow |-> {<<"WaitPass", "FollowLane">>},
   ActionInInit          |-> {<<"Init", "None">>},
   ActionInPass          |-> {<<"Pass", "None">>, <<"Pass", "Pass">>},
   ActionToPass          |-> {<<"Evade", "Pass">>, <<"WaitPass", "Pass">>},
   ActionInUturn         |-> {<<"Uturn", "None">>},
   ActionToUturn         |-> {<<"Block", "Uturn">>, <<"Follow", "Uturn">>},
   ActionInWaitCross     |-> {<<"WaitCross", "None">>, <<"WaitCross", "Merge">>},
   ActionToWaitCross     |-> {<<"Follow", "Merge">>, <<"Init", "Merge">>,
                              <<"WaitStop", "Merge">>},
   ActionInWaitLane      |-> {<<"WaitLane", "None">>,
                              <<"WaitLane", "ChangeLane">>},
   ActionToWaitLane      |-> {<<"Follow", "ChangeLane">>},
   ActionInWaitPass      |-> {<<"WaitPass", "None">>, <<"WaitPass", "WaitPass">>},
   ActionToWaitPass      |-> {<<"Follow", "WaitPass">>},
   ActionInWaitStop      |-> {<<"WaitStop", "None">>, <<"WaitStop", "StopLine">>},
   ActionToWaitStop      |-> {<<"Follow", "StopLine">>},
   ActionInZone          |-> {<<"Zone", "None">>},
   ActionToZone          |-> {<<"Follow", "Perimeter">>, <<"Init", "Perimeter">>},
   ActionZoneToWaitCross |-> {<<"Zone", "Perimeter">>}]

ValidPairs == UNION {ttable[m] : m \in DOMAIN ttable}

\* Road::control takes the pending event and calls the method of the table.
\* Run::go calls it only if the order holds a way-point not yet reached.
Control(pairs, next) ==
  /\ status = "running"
  /\ ahead > 0
  /\ <<state, pending>> \in pairs
  /\ state' = next

-----------------------------------------------------------------------------
(* The subordinate controllers. *)

\* Halt::control: it also tells Course that no way-point was reached.
Halt == pcmd' = "halt" /\ checked' = TRUE

\* FollowSafely::control.  An obstacle is "near" when it is closer than the
\* following time or the stopping distance allows.  A "far" one only lowers the
\* speed and is told apart from none when it approaches.
Fronts == [front : {"none", "far", "near"}, approaching : BOOLEAN,
           stopped : BOOLEAN]

InFront(i) == /\ i.front = "none" => ~i.approaching
              /\ i.front = "far" => i.approaching

FollowSafely(i) ==
  IF i.approaching THEN "Collision"
  ELSE IF i.front = "near" /\ i.stopped THEN "Blocked"
  ELSE "OK"

\* What one cycle of FollowLane learns from the sensors and the map.
\*   safety  in an intersection or a stop line safety area (StopArea)
\*   bumper  the front bumper is at the stop way-point
\*   second  which is waypt[2]
\*   past    the car is in front of the pose of waypt[1]
FollowInputs ==
  [front : {"none", "far", "near"}, approaching : BOOLEAN, stopped : BOOLEAN,
   safety : BOOLEAN, bumper : BOOLEAN, second : BOOLEAN, past : BOOLEAN]

\* Course::uturn_waypt(windex).
uturn_waypt(windex) == nu = windex

\* An exit that leads to another lane: both ends must be in the order.
IsExit == w1 \in {"exit", "uturn"} /\ ahead >= 2

\* FollowLane::approaching_waypoint_type finds a stopping point at waypt[1].
StopAhead == w1 \in {"stop", "change", "perimeter"} \/ uturn_waypt(1) \/ IsExit

\* Course::lane_waypoint_reached leaves stops and U-turns to StopLine.
LaneWaypt == w1 = "perimeter" \/ ~(w1 = "stop" \/ uturn_waypt(1))

\* The readings that can occur.  Two lanes meet at w0 unless it is an ordinary
\* way-point of a lane (or of one zone perimeter); a Prompt commander extends the
\* order before its last way-point is reached.
Possible(i) ==
  /\ InFront(i)
  /\ w0 \in {"stop", "exit", "change", "uturn"} => i.safety
  /\ i.bumper => StopAhead \/ i.second
  /\ i.second => CloseWaypts /\ i.bumper /\ w1 = "lane" /\ nu # 1 /\ ahead >= 2
  /\ i.past => LaneWaypt
  /\ Prompt /\ (i.past \/ i.bumper) => ahead >= 2

\* StopLine::control reports Finished: stopped with the bumper at the line.
StopReached(i) == i.bumper /\ i.stopped

\* How far last_waypt advances in the cycle.
Reached(i) ==
  IF i.past THEN 1
  ELSE IF StopReached(i) THEN (IF i.second THEN 2 ELSE 1)
  ELSE 0

\* FollowLane::control, its result.
FollowLane(i) ==
  IF StopReached(i) THEN "Finished"
  ELSE IF i.safety /\ FollowSafely(i) # "OK" THEN "Unsafe"
  ELSE FollowSafely(i)

\* FollowLane::control, its pilot command.
FollowSpeed(i) == IF i.front = "near" \/ i.bumper THEN "halt" ELSE "go"

\* Mutant of set_waypt_event: an exit that is also a stop is taken for an exit.
ExitBeforeStop(i, event) ==
  IF Reached(i) # 1 THEN event
  ELSE IF w1 = "perimeter" THEN "Perimeter"
  ELSE IF w1 = "stop" THEN "Merge"
  ELSE IF uturn_waypt(1) THEN "Uturn"
  ELSE IF w1 = "change" THEN "ChangeLane"
  ELSE IF IsExit THEN "Merge"
  ELSE event

\* Road::set_waypt_event, given the event already pending.
set_waypt_event(i, event) ==
  IF Reached(i) # 1 THEN event
  ELSE IF w1 = "perimeter" THEN "Perimeter"
  ELSE IF w1 = "stop" THEN "StopLine"
  ELSE IF uturn_waypt(1) THEN "Uturn"
  ELSE IF w1 = "change" THEN "ChangeLane"
  ELSE IF IsExit THEN "Merge"
  ELSE event

\* Course::begin_run_cycle of the next cycle drops the n way-points reached in
\* this one.  next_uturn keeps its value, though the index it names moves.
\* The saved way-points are now sv.
Advance(n, sv) ==
  \/ /\ n = 0
     /\ saved' = sv
     /\ UNCHANGED <<w0, w1, ahead, yielded, crossed>>
  \/ /\ n > 0
     /\ saved' = -1
     /\ w0' \in IF n = 1 THEN {w1} ELSE Kinds \ {"lane"}
     /\ w1' \in Kinds
     /\ ahead' = ahead - n
     /\ yielded' = (w0' # "stop")
     /\ crossed' = (w0' \notin {"stop", "exit"})

\* Course::find_travel_lane keeps a valid plan or makes a new one, which is
\* empty when the lanes message does not cover the way-points of the order.
FindTravelLane == plan' \in {"lane"} \cup (IF LanesAlways THEN {} ELSE {"none"})

\* The whole of FollowLane::control.
FollowLaneControl(i, sv) ==
  /\ Possible(i)
  /\ pcmd' = FollowSpeed(i)
  /\ checked' = TRUE
  /\ FindTravelLane
  /\ Advance(Reached(i), sv)
  /\ UNCHANGED nu

-----------------------------------------------------------------------------
(* Block: wait for the commander to find another route. *)

\* history: the car drives while the passing timer stays as it is
Driven == patience' = 0 /\ moved' = (passing_timer # Cancelled)

\* ActionInBlock without a new order: keep trying to execute the old one.
\* blocked and replan are the flags road_blocked and replan_waypt, sv the saved
\* way-points at this point of the cycle.
RetryInBlock(blocked, replan, sv) ==
  \E i \in FollowInputs :
    /\ FollowLaneControl(i, sv)
    /\ LET r == FollowLane(i)
       IN  /\ pending' = IF r = "Collision" THEN "Collision"
                         ELSE IF r = "Blocked" THEN "None"
                         ELSE set_waypt_event(i, "FollowLane")
           /\ road_blocked' = (r \in {"Collision", "Blocked"} /\ blocked)
           /\ replan_waypt' = (r \in {"Collision", "Blocked"} /\ replan)
           /\ IF i.stopped THEN UNCHANGED waiting ELSE Driven

\* ActionInBlock when Course::new_waypts holds.
NewOrderInBlock ==
  /\ Halt
  /\ pending' = IF uturn_waypt(0) THEN "Uturn" ELSE "FollowLane"
  /\ road_blocked' = FALSE
  /\ replan_waypt' = FALSE
  /\ UNCHANGED <<order, saved, plan, waiting, yielded, crossed>>

ActionInBlock ==
  /\ Control(ttable.ActionInBlock, "Block")
  /\ \/ saved # ahead /\ NewOrderInBlock
     \/ saved = ahead /\ RetryInBlock(road_blocked, replan_waypt, saved)
  /\ UNCHANGED <<status, passing, uturning, lane_direction, timers,
                 prev_nobjects, waited, quiet, obs_clear>>

\* ActionToBlock with plan p.  Course::replan_roadblock saves the order and
\* takes the polygon of the plan nearest to the car: plan.at(-1) throws if the
\* plan is empty.  It may find no reverse lane, a null replan_waypt.  Then
\* follow_lane->reset() and ActionInBlock, for which the order is not new.
ToBlock(p) ==
  \/ /\ p = "none"
     /\ status' = "crashed"
     /\ pending' = "None"
     /\ road_blocked' = TRUE
     /\ saved' = ahead
     /\ plan' = p
     /\ UNCHANGED <<pcmd, checked, order, replan_waypt, uturning, waiting,
                    yielded, crossed>>
  \/ /\ p # "none"
     /\ \E found \in BOOLEAN : RetryInBlock(TRUE, found, ahead)
     /\ reverse' = FALSE
     /\ UNCHANGED <<status, uturn, do_init>>

ActionToBlock ==
  /\ Control(ttable.ActionToBlock, "Block")
  /\ ToBlock(plan)
  /\ UNCHANGED <<passing, lane_direction, timers, prev_nobjects, waited, quiet,
                 obs_clear>>

\* course->reset(), then course->plan = course->passed_lane.
ActionPassToBlock ==
  /\ Control(ttable.ActionPassToBlock, "Block")
  /\ ToBlock(passed_lane)
  /\ UNCHANGED <<passing, lane_direction, timers, prev_nobjects, waited, quiet,
                 obs_clear>>

-----------------------------------------------------------------------------
(* Evade: the evade controller was never ported, the car only halts. *)

ActionInEvade ==
  /\ Control(ttable.ActionInEvade, "Evade")
  /\ Halt
  /\ pending' = "None"
  /\ UNCHANGED <<status, order, saved, blockage, plan, passing, uturning,
                 lane_direction, timers, prev_nobjects, ghosts>>

\* Course::find_passing_lane needs a plan near the car and an adjacent lane.
FindPassingLane == IF plan = "none" THEN {FALSE} ELSE BOOLEAN

\* Mutant of ActionToEvade: without a passing lane it reports a road block.
EvadeReportsBlock ==
  /\ Control(ttable.ActionToEvade, "Evade")
  /\ Halt
  /\ \E found \in FindPassingLane, clear \in BOOLEAN :
       pending' = IF found /\ clear THEN "Pass" ELSE "Block"
  /\ UNCHANGED <<status, order, saved, blockage, plan, passing, uturning,
                 lane_direction, timers, prev_nobjects, ghosts>>

ActionToEvade ==
  /\ Control(ttable.ActionToEvade, "Evade")
  /\ Halt
  /\ \E found \in FindPassingLane, clear \in BOOLEAN :
       pending' = IF found /\ clear THEN "Pass" ELSE "None"
  /\ UNCHANGED <<status, order, saved, blockage, plan, passing, uturning,
                 lane_direction, timers, prev_nobjects, ghosts>>

-----------------------------------------------------------------------------
(* Follow: drive along the lane to the next way-point. *)

\* Mutant of InFollow: moving does not cancel the passing timer.
FollowKeepsTimer(rev) ==
  /\ \E i \in FollowInputs :
       /\ FollowLaneControl(i, saved)
       /\ patience' = IF i.stopped THEN patience ELSE 0
       /\ moved' = (moved /\ i.stopped)
       /\ pending' = IF FollowLane(i) = "Blocked" THEN "WaitPass"
                     ELSE IF FollowLane(i) = "Collision" THEN "Collision"
                     ELSE set_waypt_event(i, "None")
  /\ reverse' = rev
  /\ UNCHANGED <<status, blockage, passing, uturn, do_init, lane_direction,
                 passing_timer, stopping>>

\* ActionInFollow; rev is navdata->reverse when it is called.
InFollow(rev) ==
  /\ \E i \in FollowInputs :
       /\ FollowLaneControl(i, saved)
       /\ passing_timer' = IF i.stopped THEN passing_timer ELSE Cancelled
       /\ patience' = IF i.stopped THEN patience ELSE 0
       /\ moved' = (moved /\ i.stopped)
       /\ pending' = IF FollowLane(i) = "Blocked" THEN "WaitPass"
                     ELSE IF FollowLane(i) = "Collision" THEN "Collision"
                     ELSE set_waypt_event(i, "None")
  /\ reverse' = rev
  /\ UNCHANGED <<status, blockage, passing, uturn, do_init, lane_direction,
                 stopping>>

ActionInFollow ==
  Control(ttable.ActionInFollow, "Follow") /\ InFollow(reverse)

\* follow_lane->reset() clears reverse.  The passing timer keeps running.
ActionToFollow ==
  Control(ttable.ActionToFollow, "Follow") /\ InFollow(FALSE)

\* Both reset the course first: the plan is made anew by FindTravelLane.
ActionPassToFollow ==
  Control(ttable.ActionPassToFollow, "Follow") /\ InFollow(FALSE)

ActionWaitPassToFollow ==
  Control(ttable.ActionWaitPassToFollow, "Follow") /\ InFollow(FALSE)

ActionInInit ==
  /\ Control(ttable.ActionInInit, "Init")
  /\ Halt
  /\ pending' = IF w0 = "perimeter" THEN "Perimeter" ELSE "FollowLane"
  /\ UNCHANGED <<status, order, saved, blockage, plan, passing, uturning,
                 lane_direction, timers, prev_nobjects, ghosts>>

-----------------------------------------------------------------------------
(* Pass: drive around an obstacle in the adjacent lane. *)

\* ActionInPass and Passing::control; in is in_passing_lane when it is called.
\* Passing neither runs StopLine nor turns a way-point it passes into an event.
InPass(in) ==
  \E arrived, clear, done, past \in BOOLEAN :
    /\ past => LaneWaypt /\ (Prompt => ahead >= 2)
    /\ in_passing_lane' = (in \/ arrived)
    /\ \/ /\ ~(in \/ arrived \/ clear)
          /\ Halt
          /\ pending' = "None"
          /\ Advance(0, saved)
       \/ /\ in \/ arrived \/ clear
          /\ pcmd' = "go"
          /\ checked' = TRUE
          /\ pending' = IF done THEN "FollowLane" ELSE "None"
          /\ Advance(IF past THEN 1 ELSE 0, saved)

ActionInPass ==
  /\ Control(ttable.ActionInPass, "Pass")
  /\ InPass(in_passing_lane)
  /\ UNCHANGED <<status, nu, blockage, plan, passed_lane, uturning,
                 lane_direction, timers, prev_nobjects, waited, quiet,
                 obs_clear, waiting>>

\* Course::switch_to_passing_lane fails without an aim polygon in the passing
\* lane, before it saves the plan, or without a polygon beyond, after that.
ActionToPass ==
  /\ Control(ttable.ActionToPass, "Pass")
  /\ \/ /\ \/ UNCHANGED <<plan, passed_lane>>
           \/ passed_lane' = plan /\ plan' = "none"
        /\ Halt
        /\ pending' = "Block"
        /\ UNCHANGED <<order, saved, in_passing_lane, reverse, passing_timer,
                       waiting, yielded, crossed>>
     \/ /\ passed_lane' = plan
        /\ plan' = "passing"
        /\ passing_timer' = Cancelled
        /\ patience' = 0
        /\ moved' = FALSE
        /\ reverse' = FALSE
        /\ InPass(FALSE)
        /\ UNCHANGED nu
  /\ UNCHANGED <<status, blockage, uturn, do_init, lane_direction, stopping>>

-----------------------------------------------------------------------------
(* Uturn: turn hard left, forward and backward until the heading fits. *)

\* Uturn::control in its own state Wait: the entry lane must be clear.
UturnWait ==
  /\ uturn' \in {"Wait", "Forward"}
  /\ pcmd' = "halt"
  /\ pending' = "None"

\* Forward: a front wheel outside the lanes, or StopLine's sibling Stop is
\* done: back up once stopped.  Finished when the heading is close to the goal.
UturnForward ==
  \/ /\ \E stopped \in BOOLEAN :
          /\ uturn' = IF stopped THEN "Backward" ELSE "Forward"
          /\ reverse' = (stopped \/ reverse)
     /\ pcmd' = "halt"
     /\ pending' = "None"
  \/ /\ pcmd' = "go"
     /\ pending' = "FollowLane"
     /\ UNCHANGED <<uturn, reverse>>
  \/ /\ pcmd' \in {"go", "halt"}
     /\ pending' = "None"
     /\ UNCHANGED <<uturn, reverse>>

\* Mutant of UturnBackward: it changes direction without clearing reverse.
ForwardInReverse ==
  /\ pending' = "None"
  /\ \/ /\ uturn' \in {"Forward", "Backward"}
        /\ pcmd' = "halt"
     \/ /\ pcmd' \in {"back", "halt"}
        /\ UNCHANGED uturn
  /\ UNCHANGED reverse

\* Backward: go forward again, once stopped, when a rear wheel is outside the
\* lanes, the way forward is long enough, or Stop is done.
UturnBackward ==
  /\ pending' = "None"
  /\ \/ /\ \E stopped \in BOOLEAN :
             /\ uturn' = IF stopped THEN "Forward" ELSE "Backward"
             /\ reverse' = (reverse /\ ~stopped)
        /\ pcmd' = "halt"
     \/ /\ pcmd' \in {"back", "halt"}
        /\ UNCHANGED <<uturn, reverse>>

\* Uturn::initialize may find no polygons for the two lanes, or none around the
\* middle of the entry, after it cleared do_init: NotApplicable, with the pilot
\* command still at the speed limit Run::control set.
UturnInit ==
  /\ status' = "aborted"
  /\ pcmd' = "go"
  /\ pending' = "None"
  /\ do_init' \in BOOLEAN

ActionInUturn ==
  /\ Control(ttable.ActionInUturn, "Uturn")
  /\ \/ do_init /\ UturnInit /\ UNCHANGED <<uturn, reverse>>
     \/ /\ \/ uturn = "Wait" /\ UturnWait /\ UNCHANGED reverse
           \/ uturn = "Forward" /\ UturnForward
           \/ uturn = "Backward" /\ UturnBackward
        /\ do_init' = FALSE
        /\ UNCHANGED status
  /\ checked' = TRUE
  /\ Driven
  /\ UNCHANGED <<order, saved, blockage, plan, passing, lane_direction,
                 passing_timer, stopping, yielded, crossed>>

\* uturn->reset() before the first cycle.
ActionToUturn ==
  /\ Control(ttable.ActionToUturn, "Uturn")
  /\ reverse' = FALSE
  /\ \/ UturnInit /\ uturn' = "Wait"
     \/ UturnWait /\ do_init' = FALSE /\ UNCHANGED status
  /\ checked' = TRUE
  /\ Driven
  /\ UNCHANGED <<order, saved, blockage, plan, passing, lane_direction,
                 passing_timer, stopping, yielded, crossed>>

-----------------------------------------------------------------------------
(* The waiting states. *)

\* Wait until the Merge_across_all observer finds the intersection clear.
WaitCross ==
  /\ Halt
  /\ \E clear \in BOOLEAN :
       /\ pending' = IF clear THEN "FollowLane" ELSE "None"
       /\ crossed' = (crossed \/ clear)
  /\ waited' = 0
  /\ quiet' = 0
  /\ obs_clear' = FALSE
  /\ UNCHANGED <<status, order, saved, blockage, plan, passing, uturning,
                 lane_direction, timers, prev_nobjects, waiting, yielded>>

ActionInWaitCross ==
  Control(ttable.ActionInWaitCross, "WaitCross") /\ WaitCross

ActionToWaitCross ==
  Control(ttable.ActionToWaitCross, "WaitCross") /\ WaitCross

ActionZoneToWaitCross ==
  Control(ttable.ActionZoneToWaitCross, "WaitCross") /\ WaitCross

\* Wait for the observer of the lane to enter, unless polygons are missing.
WaitLane(direction) ==
  /\ Halt
  /\ \E clear \in BOOLEAN :
       pending' = IF direction = "Straight" \/ clear THEN "FollowLane" ELSE "None"
  /\ UNCHANGED <<status, order, saved, blockage, plan, passing, uturning, timers,
                 prev_nobjects, ghosts>>

ActionInWaitLane ==
  /\ Control(ttable.ActionInWaitLane, "WaitLane")
  /\ WaitLane(lane_direction)
  /\ UNCHANGED lane_direction

ActionToWaitLane ==
  /\ Control(ttable.ActionToWaitLane, "WaitLane")
  /\ lane_direction' \in {"Straight", "Side"}
  /\ WaitLane(lane_direction')

\* ActionInWaitPass with the passing timer at t before its Check.  The answer
\* of FollowSafely overrides a decision to pass.
InWaitPass(t) ==
  /\ Halt
  /\ passing_timer' = Checked(t)
  /\ patience' = IF moved' THEN patience ELSE CapTo(patience + 1, PassingDelay)
  /\ \E clear \in BOOLEAN, i \in Fronts :
       /\ InFront(i)
       /\ pending' = IF FollowSafely(i) = "OK" THEN "FollowLane"
                     ELSE IF FollowSafely(i) = "Collision" THEN "Collision"
                     ELSE IF Expired(Checked(t)) /\ clear THEN "Pass"
                     ELSE "None"
  /\ UNCHANGED <<status, order, saved, blockage, plan, passing, uturning,
                 lane_direction, stopping, yielded, crossed>>

ActionInWaitPass ==
  /\ Control(ttable.ActionInWaitPass, "WaitPass")
  /\ UNCHANGED moved
  /\ InWaitPass(passing_timer)

ActionToWaitPass ==
  /\ Control(ttable.ActionToWaitPass, "WaitPass")
  /\ \/ /\ TRUE \in FindPassingLane
        /\ moved' = (moved /\ passing_timer > 0)
        /\ InWaitPass(Restart(passing_timer, PassingDelay))
     \/ /\ Halt
        /\ pending' = "Block"
        /\ UNCHANGED <<status, order, saved, blockage, plan, passing, uturning,
                       lane_direction, timers, prev_nobjects, ghosts>>

\* ActionInWaitStop with the timers at st and pt and the last count at prev, when
\* the Intersection observer says clear and, if applicable, n cars.  q is the
\* value of quiet so far.
WaitStop(st, pt, prev, q, clear, applicable, n) ==
  LET ours    == Expired(Checked(st)) /\ clear
      changed == applicable /\ n # prev
      rest    == IF ours THEN Cancelled ELSE pt
      running == IF changed THEN Start(rest, PrecedenceDelay) ELSE rest
      timeout == Expired(Checked(running))
  IN  /\ Halt
      /\ pending' = IF ours \/ timeout THEN "Merge" ELSE "None"
      /\ stop_line_timer' = IF ours \/ timeout THEN Cancelled ELSE Checked(st)
      /\ precedence_timer' = IF timeout THEN Cancelled ELSE Checked(running)
      /\ prev_nobjects' = IF changed THEN n ELSE prev
      /\ obs_clear' = clear
      /\ quiet' = IF changed THEN 1 ELSE CapTo(q + 1, PrecedenceDelay)
      /\ yielded' = (yielded \/ ours \/ timeout)

InWaitStop(st, pt, prev, q) ==
  \E clear, applicable \in BOOLEAN, n \in 0 .. MaxObjects :
    /\ clear => applicable
    /\ WaitStop(st, pt, prev, q, clear, applicable, n)

ActionInWaitStop ==
  /\ Control(ttable.ActionInWaitStop, "WaitStop")
  /\ InWaitStop(stop_line_timer, precedence_timer, prev_nobjects, quiet)
  /\ waited' = CapTo(waited + 1, StopLineDelay)
  /\ UNCHANGED <<status, order, saved, blockage, plan, passing, uturning,
                 lane_direction, passing_timer, waiting, crossed>>

ActionToWaitStop ==
  /\ Control(ttable.ActionToWaitStop, "WaitStop")
  /\ InWaitStop(Start(stop_line_timer, StopLineDelay),
                Start(precedence_timer, PrecedenceDelay), -1, 0)
  /\ waited' = 1
  /\ UNCHANGED <<status, order, saved, blockage, plan, passing, uturning,
                 lane_direction, passing_timer, waiting, crossed>>

-----------------------------------------------------------------------------
(* Zone, and the entries the table does not have. *)

\* The zone controller was never ported: the command stays as Run::control set
\* it, straight ahead at the speed limit, and no way-point is checked.  It is
\* called only from ActionToZone, for the event it raises leaves the state.
ActionInZone ==
  /\ pcmd' = "go"
  /\ checked' = FALSE
  /\ pending' = "Perimeter"
  /\ Driven
  /\ UNCHANGED <<status, order, saved, blockage, plan, passing, uturning,
                 lane_direction, timers, prev_nobjects, waited, quiet, obs_clear,
                 yielded, crossed>>

ActionToZone == Control(ttable.ActionToZone, "Zone") /\ ActionInZone

\* NotApplicable makes Estop abort in the next cycle.
ActionError ==
  /\ status = "running"
  /\ ahead > 0
  /\ <<state, pending>> \notin ValidPairs
  /\ Halt
  /\ pending' = "None"
  /\ status' = "aborted"
  /\ UNCHANGED <<state, order, saved, blockage, plan, passing, uturning,
                 lane_direction, timers, prev_nobjects, ghosts>>

-----------------------------------------------------------------------------
(* What happens between two cycles of the road state machine. *)

\* Run::go has no way-point to go to; or the navigator is not in Run state, or
\* has no polygons yet.  The road controller is not called: its timers stand
\* still and its pending event waits.  After a NotApplicable this is how Estop
\* stops the car.
HaltedCycle ==
  /\ status # "crashed"
  /\ Halt
  /\ UNCHANGED <<state, pending, status, order, saved, blockage, plan, passing,
                 uturning, lane_direction, timers, prev_nobjects, ghosts>>

\* Commander::prepare_order: the next_uturn index of an order that starts with
\* way-points of kinds k0 and k1 (an index above 1 is not distinguished).
NextUturn(k0, k1) ==
  IF k0 = "uturn" THEN 0 ELSE IF k1 = "uturn" THEN 1 ELSE -1

Arrives == status = "running" /\ UNCHANGED <<state, pending, status, pcmd,
             checked, blockage, plan, passing, uturning, lane_direction, timers,
             prev_nobjects, waited, quiet, obs_clear, waiting>>

\* An order that continues the same route.  With lag = 1 the commander had not
\* yet seen the last way-point reached: begin_run_cycle drops one way-point, and
\* next_uturn is off by one.
NavCmdContinue(lag) ==
  /\ Arrives
  /\ ahead' = N_WAYPTS - 1 - lag
  /\ nu' \in IF lag = 0 THEN {NextUturn(w0, w1)}
             ELSE {0 : k \in Kinds \cap {"uturn"}}
                    \cup {IF w0 = "uturn" THEN 1 ELSE -1}
  /\ UNCHANGED <<w0, w1, saved, yielded, crossed>>

\* An order with a replanned route from the last way-point, which may begin with
\* the U-turn edge that Blockages::add_block put into the graph.
NavCmdReplan ==
  /\ Arrives
  /\ ahead' = N_WAYPTS - 1
  /\ w0' \in {w0} \cup (Kinds \cap {"uturn"})
  /\ w1' \in Kinds
  /\ nu' = NextUturn(w0', w1')
  /\ saved' = -1
  /\ UNCHANGED <<yielded, crossed>>

\* An order that does not contain last_waypt: begin_run_cycle shifts until all
\* way-points are equal, and Run::go halts.
NavCmdStale ==
  /\ StaleOrders
  /\ Arrives
  /\ ahead' = 0
  /\ UNCHANGED <<w0, w1, nu, saved, yielded, crossed>>

\* The operator suspends the vehicle, perhaps drives it elsewhere, and runs it
\* again: Run::initialize finds a new last_waypt and the commander a new order.
\* Nothing resets the road controller, and its passing timer goes on where it
\* stood.
Resume ==
  /\ status \in {"running", "aborted"}
  /\ status' = "running"
  /\ Halt
  /\ w0' \in Kinds
  /\ w1' \in Kinds
  /\ ahead' = N_WAYPTS - 1
  /\ nu' = NextUturn(w0', w1')
  /\ saved' = -1
  /\ yielded' = TRUE
  /\ crossed' = TRUE
  /\ Driven
  /\ UNCHANGED <<state, pending, blockage, plan, passing, uturning,
                 lane_direction, timers, prev_nobjects, waited, quiet,
                 obs_clear>>

-----------------------------------------------------------------------------
Init ==
  /\ state = "Init" /\ pending = "None" /\ status = "running"
  /\ pcmd = "halt" /\ checked = TRUE
  /\ w0 \in Kinds /\ w1 \in Kinds
  /\ ahead = N_WAYPTS - 1 /\ nu = NextUturn(w0, w1) /\ saved = -1
  /\ road_blocked = FALSE /\ replan_waypt = FALSE
  /\ plan = "none" /\ passed_lane = "none" /\ in_passing_lane = FALSE
  /\ uturn = "Wait" /\ do_init = TRUE /\ reverse = FALSE
  /\ lane_direction = "Straight"
  /\ passing_timer = Cancelled
  /\ stop_line_timer = Cancelled
  /\ precedence_timer = Cancelled
  /\ prev_nobjects = -1
  /\ waited = 0 /\ quiet = 0 /\ obs_clear = FALSE
  /\ patience = 0 /\ moved = FALSE
  /\ yielded = TRUE /\ crossed = TRUE

RoadCycle ==
  \/ ActionInBlock \/ ActionToBlock \/ ActionPassToBlock
  \/ ActionInEvade \/ ActionToEvade
  \/ ActionInFollow \/ ActionToFollow \/ ActionPassToFollow
  \/ ActionWaitPassToFollow
  \/ ActionInInit
  \/ ActionInPass \/ ActionToPass
  \/ ActionInUturn \/ ActionToUturn
  \/ ActionInWaitCross \/ ActionToWaitCross \/ ActionZoneToWaitCross
  \/ ActionInWaitLane \/ ActionToWaitLane
  \/ ActionInWaitPass \/ ActionToWaitPass
  \/ ActionInWaitStop \/ ActionToWaitStop
  \/ ActionToZone
  \/ ActionError

NavCmd == NavCmdContinue(0) \/ NavCmdContinue(1) \/ NavCmdReplan \/ NavCmdStale

Next == RoadCycle \/ HaltedCycle \/ NavCmd \/ Resume

Spec == Init /\ [][Next]_vars

\* The navigator main loop runs at 20 Hz and the commander sends an order in
\* each of its 10 Hz cycles.
Fairness == WF_vars(RoadCycle) /\ WF_vars(NavCmdContinue(0))

FairSpec == Spec /\ Fairness

-----------------------------------------------------------------------------
(* Properties. *)

TypeOK ==
  /\ state \in States
  /\ pending \in Events
  /\ status \in {"running", "aborted", "crashed"}
  /\ pcmd \in {"halt", "go", "back"}
  /\ checked \in BOOLEAN
  /\ w0 \in Kinds \cup {"uturn"} /\ w1 \in Kinds
  /\ ahead \in 0 .. N_WAYPTS - 1 /\ nu \in -1 .. 1
  /\ saved \in -1 .. N_WAYPTS - 1
  /\ road_blocked \in BOOLEAN /\ replan_waypt \in BOOLEAN
  /\ plan \in {"none", "lane", "passing"}
  /\ passed_lane \in {"none", "lane", "passing"}
  /\ in_passing_lane \in BOOLEAN
  /\ uturn \in {"Wait", "Forward", "Backward"}
  /\ do_init \in BOOLEAN /\ reverse \in BOOLEAN
  /\ lane_direction \in {"Straight", "Side"}
  /\ passing_timer \in Timers(PassingDelay)
  /\ stop_line_timer \in Timers(StopLineDelay)
  /\ precedence_timer \in Timers(PrecedenceDelay)
  /\ prev_nobjects \in -1 .. MaxObjects
  /\ waited \in 0 .. StopLineDelay
  /\ quiet \in 0 .. PrecedenceDelay
  /\ patience \in 0 .. PassingDelay /\ moved \in BOOLEAN
  /\ obs_clear \in BOOLEAN /\ yielded \in BOOLEAN /\ crossed \in BOOLEAN

\* Outside Block no sequence of cycles and orders leaves an event pending that
\* the table has no entry for, which would abort the mission: in particular
\* never a Block event in Evade, the entry road.cc has commented out as
\* impossible.
ValidEvents == state # "Block" => <<state, pending>> \in ValidPairs

\* navdata->reverse, which makes Run::control negate the speed and SetSpeed turn
\* the wheels the other way, is set exactly while a U-turn is backing, whatever
\* aborts, suspensions and new orders come in between.
ReverseOnlyInUturn ==
  /\ reverse <=> (state = "Uturn" /\ uturn = "Backward")
  /\ pcmd = "back" => reverse

\* The car drives on from a stop line it reached only after WaitStop gave it its
\* turn and WaitCross then saw the intersection clear.
StopThenGo == w0 = "stop" /\ pcmd = "go" => yielded /\ crossed

\* The decision of WaitStop to go (its pending Merge) comes after the initial
\* stop with the observer reporting clear, or after a full precedence delay in
\* which the count of cars having precedence has not changed.
IntersectionPatience ==
  state = "WaitStop" /\ pending = "Merge" =>
    (waited >= StopLineDelay /\ obs_clear) \/ quiet >= PrecedenceDelay

\* The decision to pass comes after passing_delay cycles in WaitPass since the
\* car last drove, although it may have flickered between WaitPass and Follow;
\* unless, while the timer ran, the car was driven where nothing cancels it: by
\* the operator, in a U-turn, in a zone, or before a road block that dissolved.
PassPatience ==
  state = "WaitPass" /\ pending = "Pass" => patience >= PassingDelay \/ moved

\* A car at a stop line does not wait for ever if the observer never reports the
\* intersection clear: the cycle in which the count of cars with precedence has
\* been the same for the precedence delay decides to go, and no other event takes
\* the place of that decision.
PrecedenceTimeout ==
  state = "WaitStop" /\ quiet >= PrecedenceDelay => pending = "Merge"

\* No sequence of cycles leaves an event without an entry in the table.
NoInvalidEvent == <<state, pending>> \in ValidPairs

\* Reporting a road block never throws.
NoCrash == status # "crashed"

\* The car drives on from an exit way-point it reached, into another lane, only
\* after WaitCross saw the intersection clear.
MergeWaits == [][RoadCycle /\ w0 = "exit" /\ pcmd' = "go" => crossed]_vars
=============================================================================
