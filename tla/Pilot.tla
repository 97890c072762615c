-------------------------------- MODULE Pilot --------------------------------
(***************************************************************************)
(* The pilot (art_pilot), which turns driving commands into orders for the *)
(* brake, the throttle, the steering and the transmission, together with   *)
(* the driver of the shifter relays (IOadr), the transmission and the      *)
(* vehicle model of the simulator.                                         *)
(*                                                                         *)
(* A servo is on (1) or off (0), a speed is 0 when below Epsilon::speed.   *)
(* The PID controllers may ask for any position: their gains are           *)
(* reconfigured at run time.  The report of a servo lags its command.      *)
(***************************************************************************)
EXTENDS IOadr, Integers

CONSTANTS
    Drives,         \* the CarDrive commands of pilot/drive
    LimitForward, LimitReverse,
    Hold,           \* pilot cycles in shift_duration_
    HumanSteering   \* config_.human_steering

Gear == {"Park", "Reverse", "Neutral", "Drive"}
Devices == {"brake", "imu", "odom", "steering", "throttle"}

ASSUME PilotAssumption ==
    /\ Relay = Gear
    /\ Drives \subseteq [gear : Gear \cup {"Naught"}, speed : Int, accel : Int]
    /\ LimitForward \in Nat /\ LimitReverse \in Nat
    /\ Hold \in Nat \ {0} /\ HumanSteering \in BOOLEAN

VARIABLES
    target,         \* pstate_msg_.target
    preempted,      \* pstate_msg_.preempted
    is_shifting,    \* is_shifting_
    busy,           \* cycles for which shifter_->busy()
    seen,           \* last shifter/state received
    accel,          \* the acceleration controller, and braking_ of one with PIDs
    brake,          \* last brake command, and position last reported
    throttle,       \* last throttle command, and position last reported
    speed,          \* odometry
    shifter_gear,   \* shifter_gear_ of the relays' driver
    transmission,   \* gear of the transmission
    armed           \* history: a command has come since the last device failure

pilotVars == <<target, preempted, is_shifting, busy, seen, accel>>
servos == <<brake, throttle>>
plant == <<speed, transmission>>
vars == <<ioVars, pilotVars, servos, plant, shifter_gear, armed>>

Abs(x) == IF x < 0 THEN 0 - x ELSE x
clamp(lower, value, upper) == IF value < lower THEN lower
                              ELSE IF value > upper THEN upper ELSE value

\* art_msgs::CarDrive()
NoDrive == [gear |-> "Naught", speed |-> 0, accel |-> 0]

-----------------------------------------------------------------------------
(* Commands. *)

validateTarget(t) ==
    [t EXCEPT !.speed = clamp(0, Abs(@), IF t.gear = "Reverse" THEN LimitReverse
                                                               ELSE LimitForward),
              !.accel = Abs(@)]

Take(t) == /\ target' = validateTarget(t)
           /\ armed' = TRUE
           /\ UNCHANGED <<ioVars, preempted, is_shifting, busy, seen, accel, servos,
                          plant, shifter_gear>>

processCarDrive == \E d \in Drives : Take(d)

\* the sign of the velocity chooses the gear
processCarCommand ==
    \E v \in {-1, 0, 1} :
        Take([gear |-> IF v > 0 THEN "Drive" ELSE IF v < 0 THEN "Reverse" ELSE "Naught",
              speed |-> v, accel |-> 0])

processLearning == /\ preempted' \in BOOLEAN
                   /\ UNCHANGED <<ioVars, target, is_shifting, busy, seen, accel, servos,
                                  plant, shifter_gear, armed>>

\* RECONFIGURE_CLOSE makes a new controller: one with PIDs, which begins with the
\* brake, or one that looks up changes in a table and has no state of its own
allocAccel == {"braking", "table"}
reconfig == /\ accel' \in allocAccel
            /\ UNCHANGED <<ioVars, target, preempted, is_shifting, busy, seen, servos,
                           plant, shifter_gear, armed>>

-----------------------------------------------------------------------------
(* Brake and throttle. *)

\* the device interfaces remember the last request
publish(servo, position) == [servo EXCEPT !.cmd = position]

\* a request is published when it differs from the position reported
Ask(servo, position) == IF position # servo.pos THEN publish(servo, position) ELSE servo

\* The vehicle stands: only the brake is set.  It moves: throttle off, full brake.
halt ==
    /\ brake' = publish(brake, 1)
    /\ throttle' = IF speed = 0 THEN throttle ELSE publish(throttle, 0)
    /\ UNCHANGED accel

\* What an acceleration controller asks for in a cycle, and the controller it
\* is then.  Those with two PID controllers use one at a time: the brake until
\* it is off and reported off, then the throttle until it is off.
BrakePID == {[accel |-> IF brake.pos = 0 /\ b = 0 THEN "throttle" ELSE "braking",
              b |-> b, t |-> 0] : b \in 0..1}
ThrottlePID == {[accel |-> IF t = 0 THEN "braking" ELSE "throttle",
                 b |-> 0, t |-> t] : t \in 0..1}

\* The acceleration matrix changes the last requests a little.  It adds no brake
\* while throttle is asked for, and no throttle while brake is.
Matrix == [accel : {"table"},
           b : {brake.cmd} \cup (IF throttle.cmd > 0 THEN {} ELSE {1}), t : {throttle.cmd, 0}]
     \cup [accel : {"table"},
           b : {brake.cmd, 0}, t : {throttle.cmd} \cup (IF brake.cmd > 0 THEN {} ELSE {1})]

\* The learned policy takes one of five actions; to start from the brake it
\* must take the one that opens the throttle.
getAction(t) == IF speed = 0 /\ t.speed > 0 /\ brake.cmd > 0 THEN {3} ELSE 0..4
Acts(act) == [b : CASE act = 0 -> {brake.cmd}
                    [] act = 1 -> {1}
                    [] act = 2 -> {brake.cmd, 0}
                    [] act \in {3, 4} -> {0},
              t : CASE act = 0 -> {throttle.cmd}
                    [] act \in {1, 2} -> {0}
                    [] act = 3 -> {1}
                    [] act = 4 -> {throttle.cmd, 0}]
Learned(t) == {[accel |-> "table", b |-> r.b, t |-> r.t] :
                 r \in UNION {Acts(act) : act \in getAction(t)}}

\* which of the two it is does not matter: neither has a state
AccelSpeed(t) == Matrix \cup Learned(t)

adjust(t) ==
    \E r \in CASE accel = "braking" -> BrakePID
              [] accel = "throttle" -> ThrottlePID
              [] accel = "table" -> AccelSpeed(t) :
        /\ accel' = r.accel
        /\ brake' = Ask(brake, r.b)
        /\ throttle' = Ask(throttle, r.t)

-----------------------------------------------------------------------------
(* One cycle of the pilot. *)

is_reset == seen.relays = {}

\* The first part of speedControl: the relays are seen reset, or it is time
\* to reset them.
Resets == is_shifting /\ ~is_reset /\ busy = 0

GearRelay(g) == [mask |-> Relay, bits |-> IF g = "Naught" THEN {} ELSE {g}]

speedControl(t, running) ==
    LET shifting == is_shifting /\ ~is_reset
        held == IF Resets THEN Hold ELSE busy
    IN
    IF preempted THEN
        /\ busy' = IF busy > 0 THEN busy - 1 ELSE 0
        /\ UNCHANGED <<is_shifting, request, accel, brake, throttle>>
    ELSE IF t.gear \in {seen.gear, "Naught"} THEN
        /\ is_shifting' = shifting
        /\ IF Resets THEN Publish(GearRelay("Naught")) ELSE UNCHANGED request
        /\ busy' = IF held > 0 THEN held - 1 ELSE 0
        /\ IF \/ ~running \/ t.gear \in {"Park", "Neutral"} \/ held > 0
              \/ t.speed = 0 /\ (t.accel = 0 \/ speed = 0)
           THEN halt ELSE adjust(t)
    ELSE
        /\ is_shifting' = TRUE
        /\ IF Resets THEN Publish(GearRelay("Naught"))
           ELSE IF held = 0 THEN Publish(GearRelay(t.gear)) ELSE UNCHANGED request
        /\ busy' = (IF held = 0 THEN Hold ELSE held) - 1
        /\ halt

\* Mutant of monitorHardware: the target survives a failure.
monitorKeeps(running) == target

\* The target of this cycle: forgotten when a critical device is not running.
monitorHardware(running) == IF running THEN target ELSE NoDrive

\* devices with no recent message, or a steering driver not running
Lost == {{}} \cup {{d} : d \in Devices}

Cycle ==
    \E lost \in Lost :
        LET running == lost \ (IF HumanSteering THEN {"steering"} ELSE {}) = {}
            t == monitorHardware(running)
        IN  /\ target' = t
            /\ armed' = (armed /\ running)
            /\ speedControl(t, running)
            /\ UNCHANGED <<board, relays, preempted, seen, speed, transmission, shifter_gear>>

-----------------------------------------------------------------------------
(* The relays' driver, the servos, the transmission and the vehicle. *)

\* poll_ShifterInd, which may fail, then the relays, then the state message.
PollDevice ==
    /\ \/ UNCHANGED shifter_gear
       \/ shifter_gear' = transmission
    /\ GetSetRelays
    /\ seen' = [gear |-> shifter_gear', relays |-> relays']
    /\ UNCHANGED <<target, preempted, is_shifting, busy, accel, servos, plant, armed>>

ShifterRestart ==
    /\ Restart
    /\ shifter_gear' = "Park"
    /\ UNCHANGED <<pilotVars, servos, plant, armed>>

\* A servo has reached its set point and reports it.
Report ==
    /\ \/ brake' = [brake EXCEPT !.pos = brake.cmd] /\ UNCHANGED throttle
       \/ throttle' = [throttle EXCEPT !.pos = throttle.cmd] /\ UNCHANGED brake
    /\ UNCHANGED <<ioVars, pilotVars, plant, shifter_gear, armed>>

\* The transmission follows a relay that is held.
Shift ==
    /\ \E g \in Gear : board = {g} /\ transmission' = g
    /\ UNCHANGED <<ioVars, pilotVars, servos, speed, shifter_gear, armed>>

\* ModelAcceleration: without brake the vehicle moves, be it at idle; the brake
\* stops it, and against the throttle either may win.
ModelAcceleration ==
    /\ \/ (brake.pos = 0 \/ throttle.pos = 1) /\ speed' = 1
       \/ brake.pos = 1 /\ speed' = 0
    /\ UNCHANGED <<ioVars, pilotVars, servos, transmission, shifter_gear, armed>>

-----------------------------------------------------------------------------
\* Both nodes start with their default messages: Drive at the pilot, Park at
\* the driver, the brake on.
Init ==
    /\ IOInit
    /\ target = NoDrive /\ preempted = FALSE
    /\ is_shifting = FALSE /\ busy = 0
    /\ seen = [gear |-> "Drive", relays |-> {}]
    /\ accel \in allocAccel
    /\ brake = [cmd |-> 1, pos |-> 1]
    /\ throttle = [cmd |-> 0, pos |-> 0]
    /\ speed = 0
    /\ shifter_gear = "Park" /\ transmission \in {"Park", "Drive"}
    /\ armed = FALSE

Next == \/ processCarDrive \/ processCarCommand \/ processLearning \/ reconfig
        \/ Cycle \/ PollDevice \/ ShifterRestart
        \/ Report \/ Shift \/ ModelAcceleration

Spec == Init /\ [][Next]_vars

\* The nodes' main loops run, and the driver reads the gear; a board that is
\* asked again and again takes a request some time; so does the transmission.
Fairness ==
    /\ WF_vars(Cycle)
    /\ WF_vars(PollDevice /\ shifter_gear' = transmission)
    /\ SF_vars(PollDevice /\ SetRelays)
    /\ SF_vars(Shift)

FairSpec == Spec /\ Fairness

-----------------------------------------------------------------------------
\* A gear that stays the target is engaged in the end and stays so, although
\* requests to the relays get lost, the gear reported is late or, after a
\* restart of the relays' driver, wrong, and every request is followed by a
\* reset (speedControl).
GearReached ==
    \A g \in Gear : <>[](target.gear = g /\ ~preempted) => <>[](transmission = g)

\* After a failure of a critical device the vehicle is not set in motion by a
\* command given before it: neither is the throttle opened nor the brake
\* released (monitorHardware resets the target).
FailureForgets ==
    [][throttle'.cmd > throttle.cmd \/ brake'.cmd < brake.cmd => armed']_vars

\* What pilot.cc says of speedControl: if a gear shift is requested, "the
\* vehicle must first be brought to a stop, then one of the transmission shift
\* relays set".
ShiftStopped ==
    [][\A g \in Gear : g \in board' \ board /\ transmission \in {"Drive", "Reverse"} \ {g}
          => speed = 0]_vars
=============================================================================
