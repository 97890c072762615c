------------------------------ MODULE PilotProofs ------------------------------
(***************************************************************************)
(* After the failure of a device the pilot does not set the vehicle in     *)
(* motion before it gets a new command, for all commands, limits and       *)
(* acceleration controllers of module Pilot.                               *)
(***************************************************************************)
EXTENDS Pilot, TLAPS

Servo == [cmd : 0..1, pos : 0..1]
Controllers == {"braking", "throttle", "table"}
Asked == [accel : Controllers, b : 0..1, t : 0..1]

\* Without a command since the last failure there is no target.
FailureInv ==
    /\ armed \in BOOLEAN
    /\ ~armed => target = NoDrive
    /\ brake \in Servo /\ throttle \in Servo
    /\ accel \in Controllers

-----------------------------------------------------------------------------
\* A request is passed on or not (publish).
LEMMA AskServo ==
  ASSUME NEW servo \in Servo, NEW r \in 0..1
  PROVE  Ask(servo, r) \in Servo
  BY DEF Ask, publish, Servo

\* halt asks for the brake and never opens the throttle (PilotNode::halt).
LEMMA HaltServos ==
  ASSUME brake \in Servo, throttle \in Servo, halt
  PROVE  /\ brake' \in Servo /\ throttle' \in Servo
         /\ brake'.cmd = 1 /\ throttle'.cmd <= throttle.cmd
  BY DEF halt, publish, Servo

\* What the policy looks up is a position that exists (LearnedSpeedControl).
LEMMA LearnedServos ==
  ASSUME brake \in Servo, throttle \in Servo, NEW t, NEW r \in Learned(t)
  PROVE  r \in Asked
<1>0. {brake.cmd, 0, 1} \subseteq 0..1 /\ {throttle.cmd, 0, 1} \subseteq 0..1
  BY DEF Servo
<1>1. getAction(t) \subseteq 0..4
  BY DEF getAction
<1>2. \A act \in 0..4 : Acts(act) \subseteq [b : 0..1, t : 0..1]
  <2> SUFFICES ASSUME NEW act \in {0, 1, 2, 3, 4} PROVE Acts(act) \subseteq [b : 0..1, t : 0..1]
    OBVIOUS
  <2>1. CASE act = 0
    BY <1>0, <2>1 DEF Acts
  <2>2. CASE act = 1
    BY <1>0, <2>2 DEF Acts
  <2>3. CASE act = 2
    BY <1>0, <2>3 DEF Acts
  <2>4. CASE act = 3
    BY <1>0, <2>4 DEF Acts
  <2>5. CASE act = 4
    BY <1>0, <2>5 DEF Acts
  <2> QED
    BY <2>1, <2>2, <2>3, <2>4, <2>5
<1>3. PICK q \in UNION {Acts(act) : act \in getAction(t)} :
        r = [accel |-> "table", b |-> q.b, t |-> q.t]
  BY DEF Learned
<1>4. q \in [b : 0..1, t : 0..1]
  BY <1>1, <1>2, <1>3
<1> QED
  BY <1>3, <1>4 DEF Asked, Controllers

\* The acceleration controllers ask for positions that exist.
LEMMA AdjustServos ==
  ASSUME brake \in Servo, throttle \in Servo, accel \in Controllers, NEW t, adjust(t)
  PROVE  brake' \in Servo /\ throttle' \in Servo /\ accel' \in Controllers
<1>0. {brake.cmd, 0, 1} \subseteq 0..1 /\ {throttle.cmd, 0, 1} \subseteq 0..1
  BY DEF Servo
<1>1. BrakePID \subseteq Asked /\ ThrottlePID \subseteq Asked
  BY DEF BrakePID, ThrottlePID, Asked, Controllers
<1>2. AccelSpeed(t) \subseteq Asked
  <2>1. Matrix \subseteq Asked
    BY <1>0 DEF Matrix, Asked, Controllers
  <2> QED
    BY <2>1, LearnedServos DEF AccelSpeed
<1>3. PICK r \in Asked : /\ accel' = r.accel
                         /\ brake' = Ask(brake, r.b) /\ throttle' = Ask(throttle, r.t)
  BY <1>1, <1>2 DEF adjust, Controllers
<1>4. r.accel \in Controllers /\ r.b \in 0..1 /\ r.t \in 0..1
  BY DEF Asked
<1> QED
  BY <1>3, <1>4, AskServo

-----------------------------------------------------------------------------
\* A cycle moves servos within their range; without a target it only halts
\* (PilotNode::speedControl).
LEMMA ControlServos ==
  ASSUME FailureInv, NEW t, NEW running \in BOOLEAN, speedControl(t, running)
  PROVE  /\ brake' \in Servo /\ throttle' \in Servo /\ accel' \in Controllers
         /\ t = NoDrive => brake'.cmd >= brake.cmd /\ throttle'.cmd <= throttle.cmd
<1>0. /\ brake \in Servo /\ throttle \in Servo /\ accel \in Controllers
      /\ brake.cmd \in 0..1 /\ throttle.cmd \in 0..1
  BY DEF FailureInv, Servo
<1>1. CASE UNCHANGED <<accel, brake, throttle>>
  BY <1>0, <1>1
<1>2. CASE halt
  <2>1. accel' = accel
    BY <1>2 DEF halt
  <2> QED
    BY <1>0, <1>2, <2>1, HaltServos
<1>3. CASE adjust(t) /\ t # NoDrive
  BY <1>0, <1>3, AdjustServos
<1>4. t = NoDrive => t.gear = "Naught" /\ t.speed = 0 /\ t.accel = 0
  BY DEF NoDrive
<1> QED
  BY <1>1, <1>2, <1>3, <1>4 DEF speedControl

\* The pilot begins without a target.
LEMMA FailureInit == Init => FailureInv
<1> SUFFICES ASSUME Init PROVE FailureInv
  OBVIOUS
<1>1. brake \in Servo /\ throttle \in Servo /\ accel \in Controllers
  BY DEF Init, Servo, Controllers, allocAccel
<1>2. armed \in BOOLEAN /\ target = NoDrive
  BY Zenon DEF Init
<1> QED
  BY <1>1, <1>2 DEF FailureInv

\* Every step keeps the invariant and sets nothing in motion without a command.
LEMMA FailureNext ==
  ASSUME FailureInv, [Next]_vars
  PROVE  /\ FailureInv'
         /\ throttle'.cmd > throttle.cmd \/ brake'.cmd < brake.cmd => armed'
<1>0. brake.cmd \in 0..1 /\ throttle.cmd \in 0..1
  BY DEF FailureInv, Servo
<1>a. ASSUME UNCHANGED <<brake, throttle, target, armed>>, accel' \in Controllers
      PROVE  /\ FailureInv'
             /\ throttle'.cmd > throttle.cmd \/ brake'.cmd < brake.cmd => armed'
  BY <1>0, <1>a DEF FailureInv
<1>1. ASSUME NEW t, Take(t)
      PROVE  FailureInv' /\ armed'
  BY <1>1 DEF Take, FailureInv, servos
<1>2. CASE processCarDrive \/ processCarCommand
  BY <1>1, <1>2 DEF processCarDrive, processCarCommand
<1>3. CASE processLearning \/ reconfig
  BY <1>3, <1>a DEF processLearning, reconfig, servos, allocAccel, Controllers, FailureInv
<1>4. CASE Cycle
  <2>1. PICK lost : LET running == lost \ (IF HumanSteering THEN {"steering"} ELSE {}) = {}
                        t == monitorHardware(running)
                    IN  target' = t /\ armed' = (armed /\ running) /\ speedControl(t, running)
    BY <1>4 DEF Cycle
  <2> DEFINE running == lost \ (IF HumanSteering THEN {"steering"} ELSE {}) = {}
  <2>2. running \in BOOLEAN
    OBVIOUS
  <2>3. /\ target' = monitorHardware(running) /\ armed' = (armed /\ running)
        /\ speedControl(target', running)
    BY <2>1
  <2> HIDE DEF running
  <2>4. ~armed' => target' = NoDrive
    BY <2>2, <2>3, Zenon DEF monitorHardware, FailureInv
  <2>5. /\ brake' \in Servo /\ throttle' \in Servo /\ accel' \in Controllers
        /\ target' = NoDrive => brake'.cmd >= brake.cmd /\ throttle'.cmd <= throttle.cmd
    BY <2>2, <2>3, ControlServos
  <2>6. armed' \in BOOLEAN
    BY <2>3
  <2>7. brake'.cmd \in 0..1 /\ throttle'.cmd \in 0..1
    BY <2>5 DEF Servo
  <2> QED
    BY <1>0, <2>4, <2>5, <2>6, <2>7 DEF FailureInv
<1>5. CASE PollDevice \/ ShifterRestart \/ Shift \/ ModelAcceleration
  BY <1>5, <1>a DEF PollDevice, ShifterRestart, Shift, ModelAcceleration, servos, pilotVars,
                    FailureInv
<1>6. CASE Report
  <2>1. /\ brake' \in Servo /\ throttle' \in Servo
        /\ brake'.cmd = brake.cmd /\ throttle'.cmd = throttle.cmd
    BY <1>6 DEF Report, FailureInv, Servo
  <2>2. UNCHANGED <<target, armed, accel>>
    BY <1>6 DEF Report, pilotVars
  <2> QED
    BY <1>0, <2>1, <2>2 DEF FailureInv
<1>7. CASE UNCHANGED vars
  BY <1>7, <1>a DEF vars, servos, pilotVars, FailureInv
<1> QED
  BY <1>2, <1>3, <1>4, <1>5, <1>6, <1>7 DEF Next

\* After a failure of a critical device neither the throttle is opened nor the
\* brake released for a command given before it, whichever acceleration controller
\* is in use and whatever its gains and tables say (PilotNode::monitorHardware,
\* speedControl).
THEOREM PilotForgets == Spec => FailureForgets
<1>1. FailureInv /\ [Next]_vars => FailureInv'
  BY FailureNext
<1>2. FailureInv /\ [Next]_vars =>
        [throttle'.cmd > throttle.cmd \/ brake'.cmd < brake.cmd => armed']_vars
  BY FailureNext
<1> QED
  BY <1>1, <1>2, FailureInit, PTL DEF Spec, FailureForgets
=============================================================================
