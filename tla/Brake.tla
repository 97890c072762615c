-------------------------------- MODULE Brake --------------------------------
(***************************************************************************)
(* The brake driver (art_servo/src/brake): the node's cycle, the device    *)
(* class devbrake with its calibration and its deceleration limiter, and   *)
(* the actuator as model_brake.cc simulates it, with a clutch that slips.  *)
(*                                                                         *)
(* Commands carry no sequence number and a relative move is repeated when  *)
(* its answer is late: a move may be made up to three times, and an answer *)
(* that is overdue may be taken for the next one.  Positions are integers, *)
(* Full standing for 1.0; encoder, potentiometer and pressure have one     *)
(* unit, the cable's travel.  The driver uses the pressure sensor.         *)
(***************************************************************************)
EXTENDS Integers

CONSTANTS
    Full,           \* position 1.0: fully on
    Threshold,      \* deceleration_threshold
    Limit,          \* deceleration_limit
    Travel,         \* the cable's travel between the limit switches
    EncoderMax,     \* parameter encoder_max
    PressureOff,    \* the pressure that counts as brake off (1.0 volt)
    OffStep,        \* distance of one move of configure_brake
    OnStep,         \* distance of one move of calibrate_brake
    MaxMoves,       \* number of such moves
    MaxRetries,     \* calibrations Open tries
    MaxSlip,        \* bound on the clutch's slip
    Positions,      \* positions in brake/cmd messages
    ApplyOnExit     \* parameter apply_on_exit

ASSUME BrakeAssumption ==
    /\ Full \in Nat /\ Threshold \in 1..(Full - 1) /\ Limit \in 1..Full
    /\ Travel \in Nat \ {0} /\ EncoderMax \in Nat \ {0} /\ PressureOff \in Nat
    /\ OffStep \in Nat /\ OnStep \in Nat
    /\ MaxMoves \in Nat \ {0} /\ MaxRetries \in Nat \ {0} /\ MaxSlip \in Nat
    /\ Positions \subseteq Nat
    /\ ApplyOnExit \in BOOLEAN

VARIABLES
    phase,          \* place in the driver
    training,       \* training mode: a human drives
    tries,          \* moves left in a loop of configure or calibrate
    retries,        \* calibrations left
    configured,     \* already_configured
    enc,            \* encoder_min, encoder_max and encoder_range
    press,          \* pressure_min, pressure_max
    prev_pressure,  \* the pressure filter's state
    cur_position,   \* position by the last pressure read
    brake_pos,      \* position published and used for control
    set_point,      \* position asked for
    dstate,         \* the PID control's state: the output it has been at
                    \* since the start without an error, or -1
    overdue,        \* an answer may still be under way
    cable,          \* the cable's position, 0..Travel
    goal,           \* where the motor is heading
    slip,           \* encoder value less cable position
    calibrated,     \* history: the encoder range found by calibration
    moved           \* history: has a move been sent by this process?

driver == <<phase, tries, retries, configured, enc, press, prev_pressure,
            cur_position, brake_pos, set_point, dstate, calibrated>>
motor == <<cable, goal, slip>>
vars == <<driver, training, overdue, motor, moved>>

-----------------------------------------------------------------------------
(* Conversions. *)

limit_travel(p) == IF p > Full THEN Full ELSE IF p < 0 THEN 0 ELSE p
clamp_encoder(x) == IF x > Travel THEN Travel ELSE IF x < 0 THEN 0 ELSE x

\* A range of zero makes an infinity or no number at all: anything may result.
press2pos(p) ==
    LET range == press.max - press.min IN
    IF range > 0 THEN {limit_travel(((p - press.min) * Full) \div range)}
    ELSE IF range < 0 THEN {limit_travel(((press.min - p) * Full) \div (-range))}
    ELSE 0..Full

\* RC_filter with any gain: a value from the new reading to the old output
RC_filter(x, y) == IF x < y THEN x..y ELSE y..x

-----------------------------------------------------------------------------
(* query_cmd: up to three attempts.  When one has timed out its answer may *)
(* come later and be read as the answer of the next command.               *)

Overdue == overdue' \in BOOLEAN
InTime == overdue' = FALSE

\* What a sensor query returns: what is true, or what an overdue answer says
Reads(actual, all) == IF overdue THEN all ELSE {actual}

EncoderValues == (-MaxSlip)..(Travel + MaxSlip)
encoder == cable + slip

Switches == [m |-> cable = 0, p |-> cable = Travel]
AnyStatus == [m : BOOLEAN, p : BOOLEAN]

\* cur_status as servo_cmd leaves it
Statuses == Reads(Switches, AnyStatus)

\* "D=%d RW G": made n times before an answer was read
Move(delta, n) ==
    /\ goal' = IF n = 0 THEN goal ELSE clamp_encoder(cable + n * delta)
    /\ moved' = (moved \/ n > 0)
    /\ UNCHANGED <<cable, slip>>

-----------------------------------------------------------------------------
(* The encoder limits. *)

\* Mutant of check_encoder_limits: only the limit that was passed is moved.
OneLimitMoves(e, x) ==
    IF ~configured THEN e
    ELSE IF x > e.max THEN [e EXCEPT !.max = x]
    ELSE IF x < e.min THEN [e EXCEPT !.min = x]
    ELSE e

\* out of range: the motor has slipped, the range stays the same
check_encoder_limits(e, x) ==
    IF ~configured THEN e
    ELSE IF x > e.max THEN [min |-> e.min + (x - e.max), max |-> x, range |-> e.range]
    ELSE IF x < e.min THEN [min |-> x, max |-> e.max - (e.min - x), range |-> e.range]
    ELSE e

\* a limit switch is on: the encoder value there is the limit
at_full(e, x) ==
    LET m == IF configured THEN e.min + x - e.max ELSE e.min
    IN  [min |-> m, max |-> x, range |-> x - m]

at_off(e, x) ==
    LET m == IF configured THEN e.max + x - e.min ELSE e.max
    IN  [min |-> x, max |-> m, range |-> m - x]

\* encoder_goto after a move that was answered with status st: at a switch it
\* queries the encoder, and leaves the limits alone if that fails
AfterFull(e, delta, st) ==
    {e} \cup IF st.p /\ delta >= 0
             THEN {at_full(check_encoder_limits(e, x), x) : x \in Reads(encoder, EncoderValues)}
             ELSE {}

AfterOff(e, delta, st) ==
    {e} \cup IF st.m /\ delta <= 0
             THEN {at_off(check_encoder_limits(e, x), x) : x \in Reads(encoder, EncoderValues)}
             ELSE {}

GotoSucceeds(delta, st) ==
    /\ \/ InTime /\ Move(delta, 1)
       \/ Overdue /\ \E n \in 1..3 : Move(delta, n)
    /\ \E e \in AfterFull(enc, delta, st) : enc' \in AfterOff(e, delta, st)

GotoFails(delta) ==
    /\ Overdue
    /\ \E n \in 0..3 : Move(delta, n)
    /\ UNCHANGED enc

-----------------------------------------------------------------------------
(* Open: configure_brake and calibrate_brake. *)

Still == UNCHANGED <<motor, moved>>
Rest == UNCHANGED <<prev_pressure, brake_pos, set_point, dstate, training>>
Loop(ph) == phase' = ph /\ tries' = MaxMoves

\* the eleven commands that set up the controller
Configure ==
    /\ phase = "configure"
    /\ \/ (InTime \/ Overdue) /\ Loop("release")
       \/ Overdue /\ phase' = "closed" /\ UNCHANGED tries
    /\ Still /\ Rest
    /\ UNCHANGED <<retries, configured, enc, press, cur_position, calibrated>>

\* find the negative limit
Release ==
    /\ phase = "release"
    /\ \/ \E st \in Statuses :
          /\ GotoSucceeds(-OffStep, st)
          /\ phase' = IF st.m THEN "origin" ELSE IF tries > 1 THEN "release" ELSE "closed"
          /\ tries' = IF phase' = "release" THEN tries - 1 ELSE MaxMoves
       \/ GotoFails(-OffStep) /\ phase' = "closed" /\ UNCHANGED tries
    /\ Rest
    /\ UNCHANGED <<retries, configured, press, cur_position, calibrated>>

\* "O=0": the encoder's origin is here
Origin ==
    /\ phase = "origin"
    /\ \/ /\ InTime \/ Overdue
          /\ phase' = "off"
          /\ enc' = [min |-> 0, max |-> enc.max, range |-> enc.max]
          /\ cur_position' = 0
          /\ slip' = -cable
       \/ /\ Overdue
          /\ phase' = "closed"
          /\ slip' \in {slip, -cable}
          /\ UNCHANGED <<enc, cur_position>>
    /\ Rest
    /\ UNCHANGED <<tries, retries, configured, press, calibrated, cable, goal, moved>>

\* calibrate_brake has failed: Open starts again, seven times at the most
CalibrationFails ==
    /\ retries' = retries - 1
    /\ phase' = IF retries > 1 THEN "configure" ELSE "closed"
    /\ tries' = MaxMoves
    /\ UNCHANGED <<configured, press, prev_pressure, cur_position, calibrated>>

\* read_stable_value: two readings that agree, so the cable is at rest
Stable == cable = goal

\* pot_off and pressure_min with the brake released
CalibrateOff ==
    /\ phase = "off"
    /\ \/ /\ Stable /\ cable <= PressureOff
          /\ InTime \/ Overdue
          /\ press' = [press EXCEPT !.min = cable]
          /\ prev_pressure' = cable
          /\ Loop("pull")
          /\ UNCHANGED <<retries, configured, enc, cur_position, calibrated>>
       \/ CalibrationFails /\ Overdue /\ UNCHANGED enc
    /\ Still
    /\ UNCHANGED <<brake_pos, set_point, dstate, training>>

\* apply full brake; that the limit is not reached is only logged
Pull ==
    /\ phase = "pull"
    /\ \/ \E st \in Statuses :
          /\ GotoSucceeds(OnStep, st)
          /\ phase' = IF st.p \/ tries = 1 THEN "full" ELSE "pull"
          /\ tries' = IF phase' = "pull" THEN tries - 1 ELSE MaxMoves
          /\ UNCHANGED <<retries, configured, press, prev_pressure, cur_position, calibrated>>
       \/ GotoFails(OnStep) /\ CalibrationFails
    /\ UNCHANGED <<brake_pos, set_point, dstate, training>>

\* encoder_max, pot_full and pressure_max; already_configured
CalibrateFull ==
    /\ phase = "full"
    /\ \/ /\ Stable
          /\ InTime \/ Overdue
          /\ enc' = [min |-> enc.min, max |-> encoder, range |-> encoder - enc.min]
          /\ calibrated' = encoder - enc.min
          /\ press' = [press EXCEPT !.max = cable]
          /\ prev_pressure' = cable
          /\ cur_position' = Full
          /\ configured' = TRUE
          /\ phase' = "apply"
          /\ UNCHANGED <<tries, retries>>
       \/ CalibrationFails /\ Overdue /\ UNCHANGED enc
    /\ Still
    /\ UNCHANGED <<brake_pos, set_point, dstate, training>>

-----------------------------------------------------------------------------
(* Moving the brake. *)

\* brake_relative: where it wants to be, its travel limited near full brake
NewPosition(delta) ==
    LET p == limit_travel(cur_position + delta) IN
    IF ~(delta > 0 /\ p > Threshold) THEN p
    ELSE IF cur_position < Threshold
         THEN limit_travel(IF p < Threshold + Limit THEN p ELSE Threshold + Limit)
    ELSE IF delta > Limit THEN limit_travel(cur_position + Limit)
    ELSE p

\* rintf of the distance in encoder ticks
Ticks(delta) ==
    (2 * (NewPosition(delta) - cur_position) * enc.range + Full) \div (2 * Full)

Succeeds(ticks) == \E st \in Statuses : GotoSucceeds(ticks, st)

brake_relative(delta) == Succeeds(Ticks(delta)) \/ GotoFails(Ticks(delta))

\* the end of Open and of Setup: the brake's position is the first set point
Apply ==
    /\ phase = "apply"
    /\ \/ Succeeds(Ticks(Full - cur_position)) /\ phase' = "poll"
       \/ GotoFails(Ticks(Full - cur_position)) /\ phase' = "closed"
    /\ set_point' = cur_position
    /\ brake_pos' = cur_position
    /\ dstate' = cur_position
    /\ UNCHANGED <<training, tries, retries, configured, press, prev_pressure,
                   cur_position, calibrated>>

-----------------------------------------------------------------------------
(* The cycle of main: PollDevice, spinOnce, the PID control. *)

query_encoder ==
    \/ enc' = enc
    \/ \E x \in Reads(encoder, EncoderValues) : enc' = check_encoder_limits(enc, x)

\* Mutant of query_pressure: the position is computed before calibration too.
PressureAtOnce ==
    \/ UNCHANGED <<prev_pressure, cur_position>>
    \/ \E x \in Reads(cable, 0..Travel) :
       \E p \in RC_filter(x, prev_pressure) :
          prev_pressure' = p /\ cur_position' \in press2pos(p)

query_pressure ==
    \/ UNCHANGED <<prev_pressure, cur_position>>
    \/ \E x \in Reads(cable, 0..Travel) :
       \E p \in RC_filter(x, prev_pressure) :
          /\ prev_pressure' = p
          /\ IF configured THEN cur_position' \in press2pos(p)
                           ELSE UNCHANGED cur_position

\* the potentiometer has no effect while the pressure sensor is used
get_state == query_encoder /\ query_pressure /\ (InTime \/ Overdue)

PollDevice ==
    /\ phase = "poll"
    /\ get_state
    /\ brake_pos' = cur_position'
    /\ phase' = "spin"
    /\ Still
    /\ UNCHANGED <<training, tries, retries, configured, press, set_point, dstate, calibrated>>

\* brake/cmd messages; the queue holds one
Requests == [request : {"Absolute", "Relative", "Other"},
             position : Positions \cup {-p : p \in Positions}]

Received(sp) ==
    /\ phase = "spin"
    /\ phase' = "control"
    /\ set_point' = sp
    /\ Still
    /\ UNCHANGED <<training, overdue, tries, retries, configured, enc, press, prev_pressure,
                   cur_position, brake_pos, dstate, calibrated>>

ProcessCommand(m) ==
    Received(IF training \/ m.request = "Other" THEN set_point
             ELSE limit_travel(IF m.request = "Absolute" THEN m.position
                               ELSE brake_pos + m.position))

SpinEmpty == Received(set_point)

\* Pid::Update for any gains: nothing is left when there never was an error
Update(error, output) ==
    IF error = 0 /\ output = dstate THEN {0} ELSE (-Full)..Full

Control ==
    LET error == set_point - brake_pos IN
    /\ phase = "control"
    /\ phase' = "poll"
    /\ dstate' = IF error = 0 /\ brake_pos = dstate THEN dstate ELSE -1
    /\ \E ctlout \in Update(error, brake_pos) :
          IF ctlout = 0 THEN UNCHANGED <<enc, overdue, motor, moved>>
                        ELSE brake_relative(ctlout)
    /\ UNCHANGED <<training, tries, retries, configured, press, prev_pressure, cur_position,
                   brake_pos, set_point, calibrated>>

\* ros::ok() is false: Shutdown and devbrake::Close
Close ==
    /\ phase = "poll"
    /\ IF ApplyOnExit /\ ~training
       THEN \/ Succeeds(Ticks(Full - cur_position)) /\ phase' = "applied"
            \/ GotoFails(Ticks(Full - cur_position)) /\ phase' = "closed"
       ELSE phase' = "closed" /\ UNCHANGED <<enc, overdue, motor, moved>>
    /\ UNCHANGED <<training, tries, retries, configured, press, prev_pressure, cur_position,
                   brake_pos, set_point, dstate, calibrated>>

-----------------------------------------------------------------------------
(* The actuator: it moves towards its goal, and its clutch slips. *)

ActuatorMove ==
    /\ cable # goal
    /\ cable' = IF cable < goal THEN cable + 1 ELSE cable - 1
    /\ UNCHANGED <<driver, training, overdue, goal, slip, moved>>

ActuatorSlip ==
    /\ \E s \in {-1, 1} : /\ slip' = slip + s
                          /\ encoder + s \in EncoderValues
    /\ UNCHANGED <<driver, training, overdue, cable, goal, moved>>

-----------------------------------------------------------------------------
\* the constructor of devbrake
NewDevice == configured = FALSE /\ cur_position = 0 /\ prev_pressure = 0

Init ==
    /\ training \in BOOLEAN
    /\ phase = IF training THEN "poll" ELSE "configure"
    /\ NewDevice
    /\ tries = MaxMoves /\ retries = MaxRetries
    /\ enc = [min |-> 0, max |-> EncoderMax, range |-> EncoderMax]
    /\ press = [min |-> 0, max |-> Travel]
    /\ brake_pos = 0 /\ set_point = 0
    /\ dstate = 0
    /\ overdue = FALSE
    /\ cable \in {0, Travel} /\ goal = cable /\ slip = 0
    /\ calibrated = 0 /\ moved = FALSE

Next ==
    \/ Configure \/ Release \/ Origin \/ CalibrateOff \/ Pull \/ CalibrateFull \/ Apply
    \/ PollDevice
    \/ \E m \in Requests : ProcessCommand(m)
    \/ SpinEmpty \/ Control \/ Close
    \/ ActuatorMove \/ ActuatorSlip

Spec == Init /\ [][Next]_vars

-----------------------------------------------------------------------------
(* Properties. *)

(***************************************************************************)
(* Whatever the clutch does, and whichever answers are lost or mistaken    *)
(* for others, adjusting the encoder limits keeps the range that the       *)
(* calibration has found, on which every later move is scaled.             *)
(***************************************************************************)
RangeKept ==
    configured => enc.range = calibrated /\ enc.max - enc.min = calibrated

(***************************************************************************)
(* "Must avoid touching the brake when in training mode": no move is sent, *)
(* although the control loop runs there as well.                           *)
(***************************************************************************)
TrainingUntouched == training => ~moved
=============================================================================
