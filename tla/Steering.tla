------------------------------- MODULE Steering -------------------------------
(***************************************************************************)
(* The steering driver (art_servo/src/steering): the states of ArtSteer,   *)
(* the calibration of the wheel, the self-test of testwheel, and the       *)
(* commands devsteer exchanges with the Quicksilver controller.            *)
(*                                                                         *)
(* Answers name their command's kind but not the command.  What is read is *)
(* the oldest answer in the input buffer, which is flushed only after a    *)
(* failed attempt: one late answer shifts all that follow.  Angles are     *)
(* integers; the wheel's position sensor is the real one (simulate false). *)
(* The node's parameters training and test_wheel take either value: in     *)
(* training a human steers and servo_cmd sends nothing, and without        *)
(* test_wheel the self-test succeeds at once.                              *)
(***************************************************************************)
EXTENDS Integers, Sequences

CONSTANTS
    MaxSteer,       \* max_steer_degrees
    TestAngle,      \* test_angle of the self-test
    Tolerance,      \* test_tolerance
    TestTime,       \* test_timeout, in cycles
    Periods,        \* calibration_periods
    MaxBacklog,     \* answers in the input buffer
    Angles          \* sizes of the angles in steering/cmd messages

ASSUME SteeringAssumption ==
    /\ MaxSteer \in Nat /\ Tolerance \in Nat /\ TestAngle \in Nat
    /\ Tolerance < TestAngle
    /\ TestTime \in Nat \ {0} /\ Periods \in Nat \ {0} /\ MaxBacklog \in Nat \ {0}
    /\ Angles \subseteq Nat

VARIABLES
    driver_state,   \* CLOSED, OPENED or RUNNING
    step,           \* place in the driver's cycle
    known,          \* angle_known_
    calibrated,     \* wheel_calibrated_
    tested,         \* wheel_tested_
    angle,          \* steering_angle_
    fresh,          \* cur_sensor_time_ > last_sensor_time_
    cycles,         \* calibration_cycle_
    set_point,      \* set_point_
    last_set,       \* last_set_point_
    test,           \* state, start and target of testwheel, and its timer
    backlog,        \* answers that have arrived or are about to
    reg,            \* the controller's register 20
    pmc,            \* controller in Profile Move Continuous mode
    zero,           \* wheel angle that the controller takes for zero
    error,          \* moving error in the controller's status word
    wheel,          \* the wheel's angle
    power,          \* steering breaker on
    training,       \* parameter training_
    test_wheel,     \* parameter test_wheel
    reopened        \* history: has the device been opened before?

cycleVars == <<driver_state, step, fresh, cycles>>
flags == <<known, calibrated, tested, angle>>
points == <<set_point, last_set>>
controller == <<reg, pmc, zero, error>>
setup == <<power, training, test_wheel>>
vars == <<cycleVars, flags, points, test, backlog, controller, wheel, setup, reopened>>

Preposterous == 180

limit_travel(a) == IF a > MaxSteer THEN MaxSteer ELSE IF a < -MaxSteer THEN -MaxSteer ELSE a

-----------------------------------------------------------------------------
(* send_cmd: three attempts of 20 ms, a flush after each that failed.      *)

Copies(kind, n) == [i \in 1..n |-> kind]

\* Success, with the answer ans: the oldest of the buffer, which may be of an
\* earlier command while this one is lost; or, after timeouts, its own, and
\* the answers of the attempts before come late.
Reply(kind, ans, executed) ==
    \/ /\ executed
       /\ ans = Head(Append(backlog, kind))
       /\ backlog' = Tail(Append(backlog, kind))
    \/ /\ ~executed /\ backlog # <<>>
       /\ ans = Head(backlog)
       /\ backlog' = Tail(backlog)
    \/ /\ executed
       /\ ans = kind
       /\ \E n \in 0..2 : n <= MaxBacklog /\ backlog' = Copies(kind, n)

\* All three attempts have failed.
Silent(kind) == \E n \in 0..1 : backlog' = Copies(kind, n)

\* Mutant of ServoOk: any answer counts as an acknowledgement.
AnyAnswerOk(executed) ==
    \/ training /\ ~executed /\ UNCHANGED backlog
    \/ ~training /\ \E ans \in {"ack", "status", "encoder"} : Reply("ack", ans, executed)

\* servo_cmd: in training a success with nothing sent; else the answer must be
\* an acknowledgement
ServoOk(executed) ==
    \/ training /\ ~executed /\ UNCHANGED backlog
    \/ ~training /\ Reply("ack", "ack", executed)
ServoFails(executed) ==
    /\ ~training
    /\ \/ Silent("ack")
       \/ \E ans \in {"status", "encoder"} : Reply("ack", ans, executed)

\* write_register(20, v): in PMC mode the wheel seeks that position
WriteOk(v) == \E ex \in BOOLEAN : ServoOk(ex) /\ reg' = IF ex THEN v ELSE reg
WriteFails(v) == \E ex \in BOOLEAN : ServoFails(ex) /\ reg' = IF ex THEN v ELSE reg

-----------------------------------------------------------------------------
(* spinOnce: at most one message of each topic. *)

InSpin == step = "spin" /\ UNCHANGED <<driver_state, step, cycles>>

\* steering/cmd
GetCmd(request, a) ==
    /\ InSpin
    /\ set_point' = limit_travel(IF request = "Degrees" THEN a ELSE set_point + a)
    /\ UNCHANGED <<fresh, flags, last_set, test, backlog, controller, wheel, setup, reopened>>

\* ioadr/state
GetPos ==
    /\ InSpin
    /\ angle' = limit_travel(wheel)
    /\ fresh' = TRUE
    /\ known' = TRUE
    /\ UNCHANGED <<calibrated, tested, points, test, backlog, controller, wheel, setup, reopened>>

EndSpin ==
    /\ step = "spin" /\ step' = "switch"
    /\ UNCHANGED <<driver_state, fresh, cycles, flags, points, test, backlog, controller,
                   wheel, setup, reopened>>

-----------------------------------------------------------------------------
(* The switch on the driver's state. *)

To(state) == driver_state' = state /\ step' = "publish"

\* The buffer is flushed and the controller restarted, in training too, which
\* takes it out of PMC mode and makes the wheel's angle its zero; then its
\* registers are set with servo_cmd.
configure_steering ==
    /\ \E n \in 0..1 : backlog' = Copies("ack", n) /\ (training => n = 0)
    /\ reg' = 0 /\ pmc' = FALSE /\ zero' = wheel /\ error' = FALSE

\* ArtSteer::open and devsteer::Open
open ==
    /\ step = "switch" /\ driver_state = "CLOSED"
    /\ To("OPENED") \/ To("CLOSED")
    /\ set_point' = Preposterous /\ last_set' = Preposterous
    /\ angle' = 0 /\ cycles' = 0
    /\ configure_steering
    /\ UNCHANGED <<fresh, known, calibrated, tested, test, wheel, setup, reopened>>

\* ArtSteer::close
close == To("CLOSED") /\ reopened' = TRUE

Opened == step = "switch" /\ driver_state = "OPENED"

StartRunning ==
    /\ Opened /\ tested
    /\ To("RUNNING")
    /\ UNCHANGED <<fresh, cycles, flags, points, test, backlog, controller, wheel, setup, reopened>>

\* calibrate_wheel_position: only a new sensor reading counts
Calibrate ==
    /\ Opened /\ ~tested /\ ~calibrated
    /\ cycles' = IF known /\ fresh THEN cycles + 1 ELSE cycles
    /\ step' = IF known /\ fresh /\ cycles + 1 >= Periods THEN "initial" ELSE "publish"
    /\ UNCHANGED <<driver_state, fresh, flags, points, test, backlog, controller, wheel,
                   setup, reopened>>

\* set_initial_angle: write the wheel's angle to register 20, ...
InitialAngle ==
    /\ step = "initial"
    /\ \/ WriteOk(angle) /\ step' = "limits" /\ UNCHANGED <<driver_state, reopened>>
       \/ WriteFails(angle) /\ close
    /\ UNCHANGED <<fresh, cycles, flags, points, test, pmc, zero, error, wheel, setup>>

\* ... set the two soft stops, whatever the answers, ...
SoftStops ==
    /\ step \in {"limits", "limits2"}
    /\ step' = IF step = "limits" THEN "limits2" ELSE "pmc"
    /\ \E ex \in BOOLEAN : ServoOk(ex) \/ ServoFails(ex)
    /\ UNCHANGED <<driver_state, fresh, cycles, flags, points, test, controller, wheel,
                   setup, reopened>>

\* ... and enter PMC mode.
EnterPmc ==
    /\ step = "pmc"
    /\ \E ex \in BOOLEAN :
          /\ \/ ServoOk(ex) /\ calibrated' = TRUE /\ To("OPENED") /\ UNCHANGED reopened
             \/ ServoFails(ex) /\ close /\ UNCHANGED calibrated
          /\ pmc' = (pmc \/ ex)
          /\ zero' = IF ex THEN wheel - reg ELSE zero
    /\ UNCHANGED <<fresh, cycles, known, tested, angle, points, test, reg, error, wheel, setup>>

-----------------------------------------------------------------------------
(* testwheel::Run, called in each cycle until the test is over.            *)

Near(a, b) == a - b <= Tolerance /\ b - a <= Tolerance

\* steering_absolute(a), and the state after it
Turn(a, state, t) ==
    \/ /\ WriteOk(limit_travel(a))
       /\ test' = [t EXCEPT !.state = state, !.time = TestTime]
       /\ To("OPENED")
       /\ UNCHANGED <<tested, reopened>>
    \/ /\ WriteFails(limit_travel(a))
       /\ test' = [t EXCEPT !.state = "Done"]
       /\ close
       /\ UNCHANGED tested

\* Mutant of Ends: the result of the test is not looked at.
EndsWell(result) ==
    /\ test' = [test EXCEPT !.state = "Done", !.time = 0]
    /\ tested' = TRUE
    /\ To("OPENED")
    /\ UNCHANGED <<backlog, reg, reopened>>

Ends(result) ==
    /\ test' = [test EXCEPT !.state = "Done", !.time = 0]
    /\ tested' = result
    /\ IF result THEN To("OPENED") /\ UNCHANGED reopened ELSE close
    /\ UNCHANGED <<backlog, reg>>

Begin == /\ test.state = "Begin"
         /\ \/ /\ test_wheel
               /\ Turn(angle + TestAngle, "Move",
                       [test EXCEPT !.start = angle, !.target = angle + TestAngle])
            \/ ~test_wheel /\ Ends(TRUE)

Waits(goal) ==
    /\ test.time > 1 /\ ~Near(angle, goal)
    /\ test' = [test EXCEPT !.time = @ - 1]
    /\ To("OPENED")
    /\ UNCHANGED <<tested, reopened, backlog, reg>>

Move == /\ test.state = "Move"
        /\ \/ Waits(test.target)
           \/ test.time <= 1 /\ Ends(FALSE)
           \/ test.time > 1 /\ Near(angle, test.target) /\ Turn(test.start, "Back", test)

Back == /\ test.state = "Back"
        /\ \/ Waits(test.start)
           \/ test.time <= 1 /\ Ends(FALSE)
           \/ test.time > 1 /\ Near(angle, test.start) /\ Ends(TRUE)

Done == test.state = "Done" /\ Ends(TRUE)

SelfTest ==
    /\ Opened /\ ~tested /\ calibrated
    /\ Begin \/ Move \/ Back \/ Done
    /\ UNCHANGED <<fresh, cycles, known, calibrated, angle, points, pmc, zero, error, wheel, setup>>

-----------------------------------------------------------------------------
(* RUNNING: check_status, then the set point if it has changed. *)

\* no answer, or the answer of another command
NoStatusWord ==
    \/ Silent("status")
    \/ \E ex \in BOOLEAN, ans \in {"ack", "encoder"} : Reply("status", ans, ex)

CheckStatus ==
    /\ step = "switch" /\ driver_state = "RUNNING"
    /\ \/ NoStatusWord /\ close
       \/ /\ \E ex \in BOOLEAN : Reply("status", "status", ex)
          /\ \/ error /\ close
             \/ /\ ~error \/ backlog # <<>> \* a status word of before
                /\ UNCHANGED <<driver_state, reopened>>
                /\ step' = IF set_point # last_set THEN "command" ELSE "publish"
    /\ UNCHANGED <<fresh, cycles, flags, points, test, controller, wheel, setup>>

SteeringAbsolute ==
    /\ step = "command"
    /\ To("RUNNING")
    /\ \/ WriteOk(limit_travel(set_point)) /\ last_set' = set_point
       \/ WriteFails(limit_travel(set_point)) /\ UNCHANGED last_set
    /\ UNCHANGED <<fresh, cycles, flags, set_point, test, pmc, zero, error, wheel, setup, reopened>>

\* publish_diag reads the encoder, whatever the answer
get_encoder ==
    \/ Silent("encoder")
    \/ \E ex \in BOOLEAN, ans \in {"ack", "status", "encoder"} : Reply("encoder", ans, ex)

PublishStatus ==
    /\ step = "publish" /\ step' = "spin"
    /\ fresh' = FALSE
    /\ IF driver_state = "CLOSED" THEN UNCHANGED backlog ELSE get_encoder
    /\ UNCHANGED <<driver_state, cycles, flags, points, test, controller, wheel, setup, reopened>>

-----------------------------------------------------------------------------
(* The controller and the wheel (external). *)

WheelMoves ==
    LET goal == limit_travel(reg + zero) IN
    /\ power /\ pmc /\ ~error
    /\ wheel # goal
    /\ wheel' = IF wheel < goal THEN wheel + 1 ELSE wheel - 1
    /\ UNCHANGED <<cycleVars, flags, points, test, backlog, controller, setup, reopened>>

\* in training a human drives
HumanSteers ==
    /\ training
    /\ wheel' \in {wheel - 1, wheel + 1} \cap (-MaxSteer)..MaxSteer
    /\ UNCHANGED <<cycleVars, flags, points, test, backlog, controller, setup, reopened>>

MovingError ==
    /\ driver_state = "RUNNING" /\ ~error
    /\ error' = TRUE
    /\ UNCHANGED <<cycleVars, flags, points, test, backlog, reg, pmc, zero, wheel, setup, reopened>>

Init ==
    /\ driver_state = "CLOSED" /\ step = "spin"
    /\ known = FALSE /\ calibrated = FALSE /\ tested = FALSE
    /\ angle = 0 /\ fresh = FALSE /\ cycles = 0
    /\ set_point = Preposterous /\ last_set = Preposterous
    /\ test = [state |-> "Begin", start |-> 0, target |-> 0, time |-> 0]
    /\ backlog = <<>>
    /\ reg = 0 /\ pmc = FALSE /\ zero = 0 /\ error = FALSE
    /\ wheel \in (-MaxSteer)..MaxSteer
    /\ power \in BOOLEAN /\ training \in BOOLEAN /\ test_wheel \in BOOLEAN
    /\ reopened = FALSE

Next ==
    \/ \E r \in {"Degrees", "Relative"}, a \in Angles \cup {-b : b \in Angles} : GetCmd(r, a)
    \/ GetPos \/ EndSpin
    \/ open \/ StartRunning \/ Calibrate
    \/ InitialAngle \/ SoftStops \/ EnterPmc
    \/ SelfTest
    \/ CheckStatus \/ SteeringAbsolute
    \/ PublishStatus
    \/ WheelMoves \/ HumanSteers \/ MovingError

Spec == Init /\ [][Next]_vars

-----------------------------------------------------------------------------
(* Properties. *)

(***************************************************************************)
(* When steering_absolute has succeeded the set point is in the            *)
(* controller's register: an acknowledgement left over from an earlier     *)
(* command is never taken for its own, because check_status before it and  *)
(* publish_diag after it do not accept acknowledgements.  In training,     *)
(* where servo_cmd reports success too, the register is left alone.        *)
(***************************************************************************)
AckHonest ==
    [][(step = "command" /\ last_set' = set_point) =>
            reg' = IF training THEN reg ELSE set_point]_vars

(***************************************************************************)
(* With the self-test configured and outside training, until the device is *)
(* opened for the second time the driver runs only with a wheel that       *)
(* obeys: testwheel notices an open breaker, and a PMC command that was    *)
(* lost.                                                                   *)
(***************************************************************************)
SelfTestGuards ==
    (driver_state = "RUNNING" /\ ~reopened /\ test_wheel /\ ~training) => power /\ pmc
=============================================================================
