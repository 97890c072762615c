# A TLA+ development for the ART vehicle stack

The repository is the control software of an autonomous car (DARPA Urban
Challenge, later ported to ROS).  This directory models it from the files it
starts from to the serial lines of its servos: TLA+ modules translated from the
code, TLC runs on small instances, and theorems checked by TLAPS for all values
of the constants.  Paths below are relative to `stacks/art_vehicle/` unless they
name a file of this directory.

## 1. Inventory

| part | state it keeps | operations | talks to |
|---|---|---|---|
| **navigator node** `art_nav/src/navigator/queue_mgr.cc`, `navigator.cc` | latched order, odometry, lanes, lamps as reported | a 20 Hz cycle: handle messages, `navigate`, `SetSpeed`, `SetRelays`, `PublishState` | commander and E-stop window (`navigator/cmd`, queue of one), pilot (`pilot/cmd`), relays, map |
| **E-stop controller** `estop.cc` | Pause, Run, Done, Suspend; a pending abort | one table entry per state and event | Run below it |
| **run controller** `run.cc` | behaviour of the order, `last_waypt` | wait, `initialize`, `go` | road controller |
| **road controller** `road.cc` | 11 states, a pending event, 4 timers, the count of cars with precedence | 27 action methods | FollowLane, FollowSafely, StopArea, StopLine, Passing, Uturn, Halt, Course, Obstacle |
| **timers** `ntimer.h` | cycles that remain | Start, Restart, Check, Cancel | |
| **course** `course.cc` | plan, passed lane, saved order, way-point reached | `begin_run_cycle`, `find_travel_lane`, `find_passing_lane`, `switch_to_passing_lane`, `replan_roadblock`, way-point tests | map polygons |
| **U-turn** `uturn.cc` | Wait, Forward, Backward; `do_init`; `navdata->reverse` | a three-point turn | |
| **commander** `art_nav/src/commander/` | Init, Road, Done; route; checkpoints; blockages | a 10 Hz cycle: read the navigator state, pick an event, publish an order | navigator |
| **E-stop window** `estop.py`, `art_teleop/scripts/nav_estop.py` | the state the operator wants | three buttons, a callback that repeats the order | navigator |
| **pilot** `art_pilot` | target, shift under way, servo commands and reports | 20 Hz cycle, commands, device monitoring, acceleration controllers | servos |
| **servo drivers** `art_servo` | positions, calibration, set points, driver states | open, calibrate, self-test, poll, command, close | serial devices with lossy lines |
| **observers** `art_observers` | local map, pose, two filters each | one update per obstacle cloud | map, odometry, lasers; road controller |
| **road map** `art_map` | parser state, graph, lane polygons | RNDF and MDF parsing, graph, lane changes, polygons | all of art_nav |
| **mission file** `art_nav/src/lib/Mission.cc` | check-points left | save, load | commander |
| teleoperation, applanix, simulator, common, images, launch files | | drivers, GUIs, configuration | |

What is hard here:

- *Sequences.*  The road controller is a table driven by events that six other
  controllers raise; a pair without an entry aborts the mission.  Way-points,
  obstacles and new orders meet in one cycle in every combination.
- *Timers that count cycles.*  They stand still while another state is active
  and survive state changes.
- *Stale data.*  Orders are computed from a navigator state that has moved on;
  the plan saved before a pass, the U-turn index and the passing timer are used
  cycles after they were written.
- *Concurrency.*  Three nodes with their own clocks; two of them publish into
  one queue of depth one; the commander samples a state that changes twice
  between its samples.
- *Serial lines.*  Answers are lost, damaged or late; the throttle numbers its
  commands, the brake and the steering do not, and relative moves are repeated.
- *Files.*  A line lost from a road network, or a mission file half written.
- *Numbers.*  Limits that are moved after the fact, infinities and NaN in filters.
- *Failure.*  An abort, a suspension by the operator or missing lanes may come
  at any point of a manoeuvre, and nothing resets the road controller then.

What makes each part correct:

- road: no event without an entry; the car stops, waits its turn and sees the
  intersection clear before it crosses; it waits before it passes; it drives
  backwards only inside a U-turn; no state is for ever.
- E-stop: the pilot drives only in Run, with the lamps on, from a way-point
  found since the last suspension; an abort is final.
- the three nodes: what the operator wants is what happens in the end.
- commander: checkpoints are ticked off in order and only when reached, every
  road block leads to another route, a mission survives a restart.
- pilot: a device failure wipes out the command before it; a gear asked for is
  reached.
- servos: success is reported only of what was done; calibrations survive noise
  and slip; a human at the wheel is left alone.
- files and map: damage is noticed or harmless; edges, speeds, lane changes and
  polygon numbers are consistent; a resumed mission is the rest of the old one.
- observers: what is reported is an obstacle of the lane, and old values go away.

`PROJECT.json` lists the hazards line by line with the properties that would
catch them.

## 2. Modules

| module | models |
|---|---|
| `NavTimer` | `ntimer.h`: a timer as one integer, -1 when cancelled |
| `Road` | `road.cc` with the controllers and the part of `course.cc` it calls |
| `RoadProofs` | theorems about `Road` |
| `Estop` | `estop.cc`, `run.cc` and the navigator cycle, open to any order |
| `EstopSystem` | `Estop` composed with the commander loop and the E-stop window |
| `EstopProofs` | theorems about `Estop` and `EstopSystem` |
| `Commander` | `FSM.cc`, `command.cc`, `Blockage.cc`, `Path.h`, `Mission.cc`, `GraphSearch.cc` with what they see of the navigator |
| `MCCommander` | the road network of the runs of `Commander` |
| `CommanderProofs` | theorems about `Commander` |
| `IOadr` | `art_servo/src/ioadr`: the relay board and its driver |
| `Lamps` | `Estop` composed with `IOadr` and `relays.py` |
| `Pilot` | `art_pilot` composed with `IOadr`, the transmission and the plant of `vehicle_model.cc` |
| `MCPilot`, `PilotProofs` | its instance, its theorem |
| `ServoCall` | abstract: what a command on a serial line promises |
| `Throttle`, `ThrottleProofs` | `art_servo/src/throttle`; it implements `ServoCall` |
| `Brake`, `BrakeProofs` | `art_servo/src/brake` with the actuator of `model_brake.cc` |
| `Steering`, `SteeringProofs` | `art_servo/src/steering` with the motor controller; its theorems |
| `RoadGraph` | `RNDF.cc` (prep_graph), `Graph.cc`, `MapLanes.cc`, as functions |
| `RoadFiles`, `MCRoadFiles` | the parsers of `RNDF.cc`, `build_graph`, `buildRoadMap`, `Mission.cc` |
| `RoadFilesProofs` | theorems about `RoadFiles` and `RoadGraph` |
| `Observers`, `MCObservers` | `art_observers` and the local map of `mapl.cc` |

### Road

One step is one navigator cycle in Run state under a Go order.  `Control` is
`Road::control`: the pair (state, pending event) selects an action; an action
is the whole method with every controller it calls.  Sensor readings are chosen
by `\E` over records (`FollowInputs`, `Fronts`) restricted by `Possible` to the
readings that can occur together.  Distances and speeds appear as the outcome
of the comparison that the code makes with them.

The order is a window: the kinds of `waypt[0]` and `waypt[1]` (`w0`, `w1`), the
number of way-points ahead and the `next_uturn` index.  Kinds are lane, stop,
exit, change (of lanes), uturn and perimeter.  A way-point reached in a cycle
is dropped from the window in the same step (`Advance`), which is what
`begin_run_cycle` does at the start of the next.  Between cycles an order may
arrive (`NavCmdContinue`, `NavCmdReplan`, `NavCmdStale`; late by one way-point
or not at all on the route), the car may be halted (`HaltedCycle`), or be
suspended and run again elsewhere (`Resume`).

History variables (`waited`, `quiet`, `obs_clear`, `patience`, `moved`,
`yielded`, `crossed`) record what the properties speak about and are read by no
guard.  `patience` counts the cycles of WaitPass since the car last drove or may
have been driven.  Follow and Pass cancel the passing timer then; a U-turn, a
zone, a road block that dissolves and a suspension (`Resume`) do not (`Driven`),
and `moved` says that the timer was running in one of these; nothing is counted
then.

Some code has no effect in this build and therefore no action: the evade and
zone controllers and the escape state are not ported, `Passing::control` never
returns Blocked or Collision, so `roadblock_timer`, `ActionPassToEvade` and
`ActionEvadeToFollow` are never reached, and `ActionInZone` is reached only
through `ActionToZone`.  The table (`ttable`) has their entries all the same.

### Estop and EstopSystem

`Estop` is one cycle on a behaviour `b` chosen freely: any node may publish
any order at any time.  The road controller is reduced to its command and to
whether it returns NotApplicable.  `EstopSystem` restricts the orders to what
the commander (`CmdrRead`, then later `CmdrSend`) and the window
(`check_state`) put into the queue of one.  `SystemImplementsNav` proves that
this is a restriction.

### Commander

`CmdrEnter` is the first cycle of the commander; `CmdrDone`, `CmdrBlocked`,
`CmdrGoal` and `CmdrContinue` are the four outcomes of a later one, after the
part they share (`CmdrCycle`: walk the route to `last_waypt`, tick off goals).
A cycle reads the navigator state and puts an order in the queue.  `route` is a
sequence of edges, `edges` the graph with the edges that blockages closed or
added, in the order of the vector, because `pop_block` takes the first edge with
the right ends.  The retry of `replan_route` after each removed blockage is the
least number of removals that gives a path.  `astar_search` is stated by its
result.  `CmdrRestart` loads the mission file, which holds what `mission` holds.

The navigator is the order it holds (shifted as `begin_run_cycle` does), its way
to the next way-point (`Drive`), and its Block state (`Report`, `Unblock`,
`NavOrder`).  A suspension (`Resume`) replaces the held and the queued order.
`hits` counts the check-points visited in order and is read by no guard.

Two assumptions are in the guards, both about timing.  After Block is left, the
commander reads the state before the next report: at least three navigator
cycles lie between.  While an order is in the queue (50 ms), a way-point is
passed only if it is the next one of that order too, so that a new plan is not
left before it arrives; `OffRoute` drops this one.

`Drivable`, `Within` and `Spaced` at the end of the module model no code: they
are the hypotheses of the theorems (section 5).  `MCCommander` evaluates them on
the network of the run.

The Replan event needs `replan_waypt` without `road_blocked`, which only the
escape code that is not compiled sets; Fail needs a way-point that is not in the
graph.  Neither has an action.

### Lamps and IOadr

`IOadr` is one turn of the board driver's `Main`: forget the last request, take
the queued one, read, write; an error on the way loses the request.  `Lamps`
adds the navigator's `SetRelays`, which compares the lamps it wants with the
lamps it believes on, and `processRelays`, whose test `relays && BIT` believes
all four on as soon as one relay is.  Because the wish is never all four at
once, such a belief always differs from the wish and the request is repeated in
every cycle: that is why `LampsFollow` holds, and why it holds with messages
lost.

### Pilot

One step is a pilot cycle, a message in, a device report, a driver cycle of the
shifter board, a shift of the transmission, or a change of speed.  A servo is
on or off; the acceleration controllers (`adjust`) choose over what their PIDs,
matrix and learned table may ask for, with the order and the conditions in which
the code turns it into brake and throttle requests.  Reports lag; a request equal to the
reported position is not published.  `armed` is history.

### Throttle and ServoCall

`phase` is the place in the driver: opening, calibrating, polling, commanding,
or ended.  A host step begins a command or ends one attempt at it (`Receive`,
`BadResponse`, `Timeout`); the controller takes commands from the line and
answers; the line loses, damages and delays, in order.  A flush takes what has
arrived and not what is still under way.  `ServoCall` has three variables: the
call in progress, whether the device has carried it out since it began, and the
last result; the refinement maps them to `op`, `done` and `rc`.  A reading of the
sensor is any number.  Two next to `avr_pos_max` settle the calibration on that
start value, after which `avr_pos_range` is 0 and a position is what the division
gives: an infinity or a NaN, which `limit_travel` and `pos2avr` handle as floats.

### Brake

The pressure branch of the driver (`pressure` is its default).  Commands carry
no number: `overdue` says that an answer may still come and be taken for the
next one, and a relative move may be made up to three times.  The clutch slips
within `MaxSlip`.  The PID of the node is its sign and the fact that without an
error from the start it stays at zero (`dstate`), which is what training mode
rests on.

### Steering

`step` is the place in the 20 Hz cycle of `ArtSteer`.  `backlog` holds answers
by kind: an answer names the kind of its command only.  Set points are
acknowledged, status and register queries are not; a command is retried after
20 ms and the buffer is flushed only after a failed attempt, so the backlog
lives from one command to the next.  The parameters `training` and `test_wheel`
take all values.  In training `servo_cmd` returns success and sends nothing
(`devsteer.cc:604`) and a human turns the wheel (`HumanSteers`); status and
encoder are queried all the same.  Without `test_wheel` the self-test succeeds
at once (`testwheel.cc:94`).

### RoadGraph and RoadFiles

A line of a file is its token and its numbers.  `RoadFiles` damages a good file
once (cut, a line lost, a line doubled), parses it line by line with the
parser's states, temporaries and validity checks, builds graph, lane changes,
speeds and polygons (`RoadGraph`, functions of their arguments), and then runs a
mission: check-points reached, the file saved line by line, a crash before
`fopen` empties the file, at any line or within one, a restart that loads or
refuses.  Uninitialized numbers are chosen from `Garbage`.  `FilesAssumption`
says what a text is: each line has the numbers, or the marking, that its token
asks for (`WellFormed`).  Nothing is assumed of their values, of the order of
the lines or of the counts.  The index of a node counts the way-points read
before it, an id that is read again takes the later index, and `populate_graph`
writes each node at its index into an array with one place for each id.  A node past the end of the array
is not found again; `find_mapxy` then dereferences a null pointer, and the write
itself may end the process (phase "crashed").  Coordinates are integers; distances are compared by squares,
bearings by the sign of a cross product.

### Observers

One of the four observers, any one, with the map node that feeds it.  Its road is
a constant; `MCObservers` assumes, and TLC evaluates, that it is what `RoadGraph`
builds from the street's way-points.  Polygons are one unit long; a velocity is
its sign, infinite, or NaN, and the filters are the last `Window` values.  The code's order is kept: an update measures the
distance to the first obstacle polygon in the order of the cloud (backwards the
order is reversed first).

## 3. Runs

| run | checks | instance |
|---|---|---|
| `RoadIntersection` | `StopThenGo`, `IntersectionPatience`, `PrecedenceTimeout` | lanes, stops, exits, lane changes; stop line delay 2, precedence delay 3, one car; late and stale orders |
| `RoadManoeuvre` | `TypeOK`, `ValidEvents`, `ReverseOnlyInUturn`, `PassPatience` | lanes, U-turns, perimeters; close way-points; lanes may be missing; passing delay 2; late and stale orders |
| `Lamps` | `NavTypeOK`, `DriveOnlyInRun`, `InitializeBeforeGo`, `AbortWins`, `LampsFollow` under `LampsFairSpec` | all orders, all lamps, the laser script |
| `EstopOperator` | `PauseHonoured`, `RunStarts` under `SysFairSpec`, `ShutdownFinal` | commander at half the navigator's rate |
| `CommanderMission` | `BlocksHeld`, `CheckpointsReached`, `RouteOpen`, `PlanAvoidsBlock`, `MissionCompletes` under `FairSpec` | two lanes side by side with loops and a side road, three check-points, two obstacles one after the other, one suspension, one restart |
| `Throttle` | `CallImplemented` (the refinement), `TargetHeld`, `CalibrationConfirmed`, `CommandEnds` under `FairSpec` | two packets in transit each way, three sequence numbers, sensor readings 0, 2 and 3 with `avr_pos_max` 3 |
| `Brake` | `RangeKept`, `TrainingUntouched` | travel 2 against a parameter of 3, slip 1, two moves per loop, two calibrations |
| `Steering` | `SelfTestGuards`, `AckHonest` | two answers in the backlog, wheel angles -1 to 1, a test of three cycles; training or not, self-test or not |
| `Pilot` | `FailureForgets`, `GearReached` under `FairSpec` | all gears, both command topics, a hold of two cycles |
| `RoadFiles` | `NetworkIntact`, `MissionIntact`, `SpeedsAsStated`, `EdgesAnchored`, `ChangesLegal`, `PolysFollowRoad`, `MissionRestored` | networks of two segments with four lanes, without a zone and with one whose perimeter has two or three points; every single damage; a mission with crashes |
| `Observers` | `DistanceIsObstacle`, `ObservationSettles` under `ObserversFairSpec` | two lanes of four polygons, three poses, clouds of two polygons, a window of 3 |
| `PilotShift` | `ShiftStopped`, which fails (section 4) | the instance of `Pilot` |

What they show, where the table does not say it:

- `CallImplemented`, `TargetHeld`: sequence number and checksum are enough
  although the number is the same for all attempts and the line keeps copies.
- `CalibrationConfirmed`: the value taken for idle was next to another reading,
  and no smaller value was.  The start value `avr_pos_max` is not read; it becomes
  idle only if nothing below it was confirmed and one reading next to it was.
- `AckHonest`: the backlog shifts answers, but a set point is always sent
  between two queries whose answers are not acknowledgements, so a stale
  acknowledgement never stands for it.  In training the register stays as it is.
- `SelfTestGuards` speaks of a driver that is configured to test and is not in
  training; in the other configurations RUNNING with an open breaker is reached
  (section 4).
- `PassPatience`: every cycle of a passing delay was spent waiting, and the car
  stood where it is, unless it may have moved while the timer ran (section 4).
- `NetworkIntact`, `MissionIntact`, `SpeedsAsStated`: a damaged file that is read to its
  `end_file` has all way-points of lanes and perimeters, all check-points of the
  mission, and the speeds of the undamaged one.  What the format does not count
  is excluded in the statement.
- `EdgesAnchored`: whatever damage a network was accepted with, every edge has its
  nodes, or a way-point was read twice.  In the run that is always one of a spot:
  those of lanes and perimeters are counted.
- `ChangesLegal`, `PolysFollowRoad`: for every damaged network that is accepted.
  At a way-point where one of two lanes ends, the way of both lanes in
  `ChangesLegal` is that of the piece before it, as in `lanes_in_same_direction`.
- `ObservationSettles`: infinities and NaN stay for at most a window.

Bounds.  `N_WAYPTS` is 3 instead of 5: no controller looks beyond `waypt[2]`,
and three entries let an order be used up.  The delays are 1 to 3 cycles, so
that a timer can be started, interrupted, counted and expired; a delay that no
property of a run speaks about is 1.  `MaxObjects` is 1: the code only asks
whether the count has changed.  The kinds are split over the runs because each
property concerns two or three of them; the theorems below cover all kinds and
all delays together.  In `Commander` the obstacles may trap the vehicle between
two blockages, so that blockages have to be removed; a second restart or
suspension adds no new kind of state, for each forgets what the one before did.
Three sequence numbers and two packets are the least with which a late answer
can meet the command after its own and the number after that (the theorem
covers every larger line).  A brake parameter larger than the travel makes the
switches close before the limits are reached.  Two answers in the backlog let a
set point be sent with an answer before it and one after it.  The observers'
window of 3 instead of 5 is the least in which a NaN, the values before and the
values after it meet; two polygons per cloud are the least that have an order.
One damage per file: two that cancel each other are not looked for.

Deadlock is not checked in the runs of `Commander` and `RoadFiles` (a mission
ends, a file is refused), of `Brake` (the node exits), of `Observers` (the node
dies on an empty map, section 4), nor in those of `Road`: after the exception
that section 4 describes the navigator process is gone.  In every other state
of `Road` a halted cycle is possible.

Fairness.  `Road`: the main loop runs at 20 Hz (`WF(RoadCycle)`) and the
commander sends an order in each of its 10 Hz cycles
(`WF(NavCmdContinue(0))`); nothing is assumed of sensors and observers.
`Commander`: both loops go on, and a vehicle under a Go order on a free lane
reaches its next way-point; obstacles may stay.
`EstopSystem`: the navigator loop, the commander loop and the callback of the
window go on; the operator and the map server owe nothing.  Two timing facts
are in the guards.  The window handles a state message before the next one is
published (50 ms).  `CmdrPeriod` = 2 navigator cycles lie between the orders of
the commander (20 Hz and 10 Hz): with a commander as fast as the navigator its
orders could overwrite every one of the window's, which is the mutant of
`PauseHonoured`.
`Lamps`: the navigator loop goes on, and a board that is asked again and again
takes a request some time (`SF`).  `Pilot`: its loop and the board driver's go
on, the driver reads the gear, and board and transmission take what they are
asked again and again.  `Throttle`: `poll` returns after 15 ms.  `Observers`:
clouds go on coming.

## 4. Disagreements between code and comments

`PilotShift` is a run that TLC must find violated; `PROJECT.json` quotes the
lines.  `speedControl` says that the vehicle is stopped before a shift relay is
set; the request goes out in the first cycle, whatever the speed.

Seven more were found on instances that are not kept as runs; each violates the
property named.  Those of `Road` have `N_WAYPTS` 3, delays 1, `MaxObjects` 0,
`LanesAlways` TRUE and `CloseWaypts`, `Prompt` and `StaleOrders` FALSE, those of
`Commander` the constants of `CommanderMission`, where the table says nothing
else; the last two do not meet the `ASSUME` of `MCCommander`, which has to go.

| property | instance | what happens |
|---|---|---|
| `NoInvalidEvent` of `Road` | `Spec`, kinds lane and stop | an obstacle that clears at a stop line, exit or lane change leaves an event with no entry in Block (`road.cc:338`, "maybe generate another event, if way-point reached"): the mission aborts |
| `NoCrash` of `Road` | `Spec`, lanes only | a failed switch to the passing lane restores an empty plan (`road.cc:591`, "restore original plan"), which is then indexed with -1 |
| `MergeWaits` of `Road` | `FairSpec`, kinds lane and exit, `Prompt` TRUE | an exit reached in a cycle that reports an obstacle is not merged from (`follow_lane.cc:90`, "stop and wait until it is clear to go") |
| `MissionOver` of `EstopSystem` | `SysSpec`, `CmdrPeriod` 2 | Done, left by a Suspend within one commander cycle, is not final (`estop.cc:79`, "the commander has already shut down").  `ShutdownFinal` is what is left of it |
| `CheckpointsReached` of `Commander` | `Spec`, one obstacle, one suspension, no restart, `OffRoute` TRUE | a vehicle that is run again off the route: check-points are ticked off unvisited (`command.cc:87`) |
| `PlanAvoidsBlock` of `Commander` | `FairSpec`, `Checkpoints <- MCThereAndBack`, `Obstructible <- MCSideBySide`, no suspension, no restart | a road block on a U-turn edge: the new plan is the blocked one, for ever (`Blockage.cc:171`) |
| `CheckpointsReached` of `Commander` | `Spec`, the mission `<<"a3", "a2">>` | the vehicle passes a2 and a3 between two cycles of the commander, which compares both goals with the set of way-points passed (`FSM.cc:212`): a2 is ticked off, and the mission is over, although it was not visited after a3 (`command.cc:87`, "called when the current checkpoint has just been reached") |

Facts about this build that modelling showed and no run states:

- Evade raises no event and is never left, and Zone checks no way-point: both
  controllers are not ported (`ActionInEvade`, `ActionInZone`).  A commander
  restarted at the last check-point ticks it off and aborts.
- The passing timer survives a U-turn, a zone, a road block that dissolves and a
  suspension, for only Follow and Pass cancel it, `Road::reset` is not called
  (`estop.cc:273`, `run.cc:157`) and `Restart` keeps a timer that runs
  (`ntimer.h:61`).  The next obstacle may then be passed at once, where
  `road.cc:493` says "wait a while to give obstacle a chance to move".  These
  cases are the disjunct `moved` of `PassPatience`.
- Pilot: at rest `halt` sets the brake only and leaves an open throttle
  (`pilot.cc:259` forbids the two together); a brake command equal to the
  reported position is not published, so one still under way stays while the
  throttle opens.
- Relays: `ioadr.cc:393` says a request that failed is tried again; `Main`
  clears it (437).
- Brake: `apply_on_exit` is to "apply full brake during shutdown"
  (`brake.cc:58`); the deceleration limiter of `devbrake.cc:138` makes it less.
- Steering: closing and opening again restarts the controller, which leaves its
  move mode, but keeps the flags of the first calibration and test, so an open
  breaker is not noticed (`steering.cc:313`) and the set point not sent again
  (460).  `SelfTestGuards` therefore stops at the second open.  With
  `test_wheel` false, as `art_run/launch/servo.launch:22` sets it for the vehicle,
  the driver is RUNNING with an open breaker or without its move mode from the
  first open on.  In training the controller is restarted all the same: that
  command (`devsteer.cc:426`) does not go through `servo_cmd` (`devsteer.h:28`, "do
  not send it any commands").
- Throttle: two readings next to `avr_pos_max` (204) settle the calibration at
  once on the value its search starts with (`devthrottle.cc:246`), with one
  confirmation; `avr_pos_range` is then 0, a position read is NaN or infinite,
  and a relative command from a NaN goes out as 0.
- Observers: after an empty lane, Inf - Inf puts a NaN into the mean, and the
  lane is reported clear and applicable with an obstacle in it for up to a
  window (`nearest_forward.cc:88`); the distance is to the first obstacle in
  the order of the cloud, not to the nearest (63); an empty local map is indexed
  with -1 (49), and a negative range gives one.
- Files: a file cut short is accepted without `end_file` (`RNDF.h:240`); a
  doubled spot way-point, which no count reveals, gives the nodes read after it an
  index one too high: the last is written past the end of the array
  (`RNDF.cc:1219`), and if it has an edge `find_mapxy` dereferences a null pointer
  (`Graph.cc:393`);
  counts of the mission file are only printed (555, 582);
  `add_speed_limits` overwrites the 6.0 of the lane changes (`Graph.cc:592`);
  a finished mission is saved with 0 check-points, which `load` refuses.
- Graph: `Graph.cc:611` stores the result of a comparison for the distance, so
  a change to the right goes to the second point it meets; a way-point without
  a lane to its left, or with a stop there, is given no change to the right
  either, and the right case does not ask for stops.
- `NavQueueMgr::shutdown` returns false, so the navigator's `main` returns 3.

## 5. Proofs

`RoadProofs`, from the assumptions on the constants of `Road` alone:

- `RoadTypeCorrect`, `RoadEventsValid`, `RoadReverse`.  The inductive invariant
  is their conjunction `RoadInv`: which events an action can raise depends on
  the types, and reverse is cleared on the way out of Uturn only because the
  table gives Uturn a single exit, to Follow, whose entry resets FollowLane.
- `RoadStopsAtLines`: `StopThenGo`, assuming that way-points are not closer
  than the overhang (`~CloseWaypts`; with a stop way-point closer to
  its predecessor than that, FollowLane stops for it before the predecessor is
  passed, no event is raised and the line is driven over).  The property is not
  inductive.  `StopInv` adds where the car can be
  while the way-point behind it is a stop it has not been released from: in
  Follow with StopLine pending, in WaitStop, in WaitCross after `yielded`, or
  halted in a state that cannot drive.
- `RoadPatience`: `IntersectionPatience`.  `PatienceInv` ties the timers to the
  history: while WaitStop runs, the cycles counted plus the cycles that remain
  on each timer are its delay.
- `RoadPrecedence`: `PrecedenceTimeout`, from the same invariant: a car at a stop
  line gets its turn although the observer never reports clear.
- `RoadPassPatience`: `PassPatience`, for all kinds of way-points and with every
  interruption.  `PassInv` ties the passing timer to the history: a timer that
  runs and the patience shown so far make up the delay, unless the car may have
  moved while it ran; and in WaitPass a decision to pass means that it runs or
  has expired.  `DrivenMoves` is the case of the steps that move the car and
  leave the timer alone.

`EstopProofs`:

- `EstopSafe`, `EstopAborts`, `EstopTypes`: inductive as the conjunction
  `EstopInv`; the types are inductive by themselves.
- `SystemImplementsNav`: every step of the three nodes is a step of the open
  navigator or leaves it alone; the only fact needed is that the queue holds
  behaviours.  `SystemSafe` transfers the safety properties.
- `SystemShutdown`: `ShutdownFinal`.  `ShutdownInv` adds that no order of the
  commander waits in the queue while it reads a state or after it left
  (`QueueQuiet`: a navigator cycle lies between its orders), and that from the
  moment it has read Done the navigator is in Done or its latched order is one
  of the window's (`LeavingRests`).

`ThrottleProofs`, for every length of the line, number of sequence numbers above
two, sensor and configuration:

- `ThrottleImplementsCall`: the driver implements `ServoCall`.  Every step is
  mapped to a step of the call or to none (`CallStep`); what is needed is that an
  answer with the number of the command in progress was made for it after it was
  sent.
- `ThrottleHoldsTarget`.  Both rest on `ThrottleInv`: behind a copy of the
  command in progress there are only such copies (`InOrder`); once it has been
  carried out nothing else is left on the way (`DoneIsLast`); an answer with its
  number tells the truth (`AnswersTrue`); and while a goal is held every GOTO
  still on the line asks for it (`GoalHeld`).  `EndedIsIdle` says that a closed
  driver has no command.
- `ThrottleCalibrates`: `CalibrationConfirmed`, for every set of readings.
  `Sampling` says what the loop of `calibrate_idle` knows between two samples: its
  minimum is a confirmed reading, or still the start value `PosMax`, and no value
  below it was confirmed.

`BrakeProofs`, for all constants of `Brake`:

- `BrakeKeepsRange`, from `RangeInv`: calibration is not begun again once
  configured, and every way to move a limit moves both.
- `BrakeTrainingSafe`, from `TrainingInv`: in training mode position, set point
  and PID are all zero and calibration is never entered; the property alone is
  not inductive.

`SteeringProofs`, for every wheel range, self-test, set of requests, and value of
`training` and `test_wheel`:

- `SteeringAckHonest`: `AckHonest`.  `BacklogOK` bounds what three attempts leave
  behind and says where an acknowledgement can be in it: nowhere when
  `steering_absolute` begins, because `check_status` has just succeeded, and not
  in second place at the end of a cycle, because `publish_diag` came last.  In
  training nothing is sent and the register does not change.
- `SteeringSelfTest`: `SelfTestGuards`, whose hypotheses (self-test configured, no
  training) are its own.  `Standing` says that a wheel that does
  not obey stands where it was measured, so that the test never comes to its way
  back; `Progress` that RUNNING comes after the test.

`RoadFilesProofs`, for all pairs of well-formed texts, every damage of section 2
and every `Garbage`:

- `ParseInv`: what the parsers build has its types, each parser is in one of its
  own states, and a road network that was accepted names only way-points that it
  defines.
- `FilesEdgesAnchored`: `EdgesAnchored`, from `ParseInv` and `GraphInv` (a graph
  that exists is the one built from a valid network, and the network does not
  change after that).  The lemmas follow `prep_graph`: vertices, exits, marking
  of exits, one node for each id; then the array.  If no id was read twice there
  are as many nodes as way-points, by the bijection between the two, so every
  index is below the size of the array (`IndicesFit`), `populate_graph` keeps all
  nodes and the process goes on (`Fits`).
- `FilesChangesLegal`: `ChangesLegal`, from the same two; `ImplicitJoins` follows
  `find_implicit_edges`.
- `FilesMissionRestored`: `MissionRestored`.  The property speaks of a running
  commander only.  `MissionInv` adds the rest: the mission in memory is what is
  left after `reached` or one check-point less, the file holds all of that or
  what a crash left of it, and between `nextPoint` and `save` it is one behind.
  The heart is `LoadIsRest`: whatever prefix of the saved lines is there, with
  its last line torn in any way, `load` refuses it or gives back exactly the
  mission that was saved.  The count in the second line makes every line necessary,
  and the element id of the last one is compared with the graph.
- `FilesMissionIntact`: `MissionIntact`, for one damage at any place of a mission
  of any length.  `DamageInv` says of every moment of the reading that what has
  been parsed is what the lines read so far say (`ReadTo`, one lemma for each
  kind of line) and that the damaged text is the stated one with one line lost,
  doubled or made unreadable.  At the end `CountsCatch` compares: if the damaged
  line is a check-point or a speed limit, the count line is still there and no
  longer fits; if it is the count line, the list is whole.
- `FilesSpeedsAsStated`: `SpeedsAsStated`, from `RunInv`: the speeds of the edges
  are those the accepted mission states (`SpeedOf`, the last limit for a segment
  counts), and the accepted mission is whole by `FilesMissionIntact`.

The last two rest on `MissionAssumption`, which TLC evaluates: the undamaged
mission has its `end_file` at the end and the counts it states are right, and
it has no comment over several lines, which is true of the `.mdf` files of the
repository.  With two of them a lost comment end hides the lines up to the end
of the next one, a count line among them, and what is then compared is a count
that was never set.

Sequences of any length are reasoned about by induction in the form of a set:
a set of indices that contains 0 and with each its successor contains all of
them (`Induction`, from the well-foundedness of the naturals).  A recursive
definition is a recursive function on `0..n` whose values are found with it
(`Iterates`).  `Those` and `FlattenSeq` are handled that way.

`CommanderProofs`: `CommanderCheckpoints` and `CommanderOnRoute`, for every road
network, mission, window of at least three way-points, and any number of road
blocks, suspensions and restarts, under three hypotheses on the constants.
`~OffRoute`: the vehicle is found where it was.  `Spaced(Roads)`: no check-point
lies within `N_WAYPTS - 2` edges before its predecessor in the mission.  It is
needed: `current_event` compares both goals with the set of way-points passed
since its last cycle, so that of two check-points passed in the wrong order both
are ticked off (the last line of the table in section 4 is what the proof
attempt without it ran into).  `Drivable(Roads)`: `Roads` holds the edges of the
RNDF and the U-turns `add_block` can make of them.  It restricts no network: it
says over which edges `Spaced` measures, and the smaller the set, the weaker
`Spaced`.

`CheckpointsReached` speaks of two counts.  What makes it inductive
(`CommanderInv`) is where they come from.  In Road the vehicle is at some
way-point k of the route (`At`); the order it holds, and one in the queue, is
the window of the route from k or from 0, with the padding of `prepare_order`;
and if the next check-points are all among the way-points the walk will find
passed (`Seen`), the vehicle has visited them, in order (`Counted`).  The first
way-point of a route is not among them unless the route has one edge, because
the loop of `current_event` pops before it looks.  A step of the vehicle adds one
way-point to `Seen`, and `Spaced` excludes that it completes two check-points in
the wrong order; a cycle of the commander takes from `Seen` what it ticks off.
The rest keeps the routes inside `Roads`: edges that the graph search finds are
edges of the graph (`SearchPath`, over all paths), `pop_block` only opens and
erases, and `add_block` adds U-turns that start where the vehicle is, or at the
beginning of the last edge when the vehicle stands at its end, at a check-point.

`PilotProofs`: `PilotForgets`, from `FailureInv`: without a command since the
last failure there is no target, and without a target every controller halts,
which applies the brake and never opens the throttle.

Only model-checked:

- Liveness (`PauseHonoured`, `RunStarts`, `MissionCompletes`, `LampsFollow`,
  `GearReached`, `CommandEnds`, `ObservationSettles`), which is beyond this
  prover.
- `RouteOpen`, `BlocksHeld` and `PlanAvoidsBlock` of `Commander`.  They are not
  true of every road network: with two edges between the same way-points, or a
  blockage on a U-turn (section 4), they can fail.  A theorem needs assumptions
  that characterise the networks for which they hold.  That the route is
  connected and ends at a check-point, which is part of `RouteOpen`, is proved.
- `DistanceIsObstacle`, which rests on the geometry of the road constant, of
  which `MCObservers` assumes what TLC evaluates.
- `NetworkIntact`, which compares the network that was read with the undamaged
  text: it holds for texts of the right grammar (counts that match, blocks in
  order, one end), which is stronger than `FilesAssumption` and would have to be
  stated line by line.  Its counterpart for the mission is proved.
- `PolysFollowRoad`: a fold over the edges, for networks whose lanes are in the
  order of the file.

## 6. Not modelled

- Geometry on reals: aim points, headings, arcs, the shape of polygons
  (`PolyOps`, `ZoneOps`, `SmoothCurve`), Kalman filters and vision
  (`VisualLanes`, `KF`), coordinate conversions.  Their answers are inputs where
  a module needs them.  Way-points are taken to be farther apart than their
  polygons are long: `MapLanes.cc:465` puts no polygon between nearer ones.
- Speeds of the navigator, `adjustSteering` of the pilot, PID and learned-table
  arithmetic, dynamic reconfiguration, logging.
- Edge times in the A* search: the model takes a path of fewest edges.
- Brake: the potentiometer branch.  Steering: the simulated angle,
  `center_on_exit`, and a driver without a serial port.  Throttle: rpm, E-stop and PID queries.  The analogue and
  digital inputs of the relay board.
- Events that cannot occur in this build (Replan of the commander, the escape
  and evade code).
- Parking and zone controllers (not compiled), the Applanix driver (packet
  parsing and arithmetic), teleoperation scripts, Stage, launch files.

## 7. Plan

1. Theorems: `BlocksHeld` and `RouteOpen`, for networks without parallel edges;
   `DistanceIsObstacle` from assumptions on the road that `MapRNDF` satisfies;
   `NetworkIntact` from the grammar of a road network.
2. `Commander` composed with the Block states of `Road` in place of `Report`,
   `Unblock` and `NavOrder`, and with the mission file of `RoadFiles`.
3. `Pilot` composed with `Throttle` and `Brake` through `ServoCall`: a halt ends
   in brakes applied.
4. `Observers` as the specification of the inputs of `Road`.
5. An abstract stop-sign specification (approach, stop, wait, cross) that
   `Road` implements, with the refinement proved.
6. The joystick nodes as a second source of pilot commands.
