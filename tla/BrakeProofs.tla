------------------------------ MODULE BrakeProofs ------------------------------
(***************************************************************************)
(* What the brake driver keeps whatever its actuator and its line do: the  *)
(* range its calibration has found, and its hands off the brake in         *)
(* training mode.  Both hold for all constants of module Brake.            *)
(***************************************************************************)
EXTENDS Brake, TLAPS

Limits == [min : Int, max : Int, range : Int]

\* The limits agree with the range found; calibration is not begun again after it.
RangeInv ==
    /\ enc \in Limits /\ calibrated \in Int
    /\ cable \in Int /\ slip \in Int
    /\ configured => phase \notin {"configure", "release", "origin", "off", "pull", "full"}
    /\ RangeKept

\* Limits with the range that the calibration has found, if there was one.
Ranged(e) == e \in Limits /\ (configured => e.range = calibrated /\ e.max - e.min = calibrated)

-----------------------------------------------------------------------------
\* An encoder value outside the limits moves both (check_encoder_limits).
LEMMA LimitsMoveTogether ==
  ASSUME calibrated \in Int, NEW e, Ranged(e), NEW x \in Int
  PROVE  Ranged(check_encoder_limits(e, x))
  BY DEF Ranged, Limits, check_encoder_limits

\* So does a limit switch that is on (encoder_goto).
LEMMA SwitchMovesBoth ==
  ASSUME calibrated \in Int, NEW e, Ranged(e), NEW x \in Int
  PROVE  Ranged(at_full(e, x)) /\ Ranged(at_off(e, x))
  BY DEF Ranged, Limits, at_full, at_off

\* What the encoder is read as is a number.
LEMMA EncoderReadings ==
  ASSUME RangeInv, NEW x \in Reads(encoder, EncoderValues)
  PROVE  x \in Int
  BY BrakeAssumption DEF RangeInv, Reads, EncoderValues, encoder

\* A move keeps the range, whatever it is answered (encoder_goto).
LEMMA GotoKeepsRange ==
  ASSUME RangeInv, NEW delta, NEW st, GotoSucceeds(delta, st) \/ GotoFails(delta),
         configured' = configured, calibrated' = calibrated
  PROVE  /\ enc' \in Limits
         /\ RangeKept'
         /\ cable' = cable /\ slip' = slip
<1>0. Ranged(enc) /\ calibrated \in Int
  BY DEF RangeInv, RangeKept, Ranged
<1>1. UNCHANGED <<cable, slip>>
  BY DEF GotoSucceeds, GotoFails, Move
<1>2. ASSUME NEW e, Ranged(e), NEW f \in AfterFull(e, delta, st) PROVE Ranged(f)
  <2>1. f = e \/ \E x \in Reads(encoder, EncoderValues) : f = at_full(check_encoder_limits(e, x), x)
    BY <1>2 DEF AfterFull
  <2> QED
    BY <1>0, <1>2, <2>1, EncoderReadings, LimitsMoveTogether, SwitchMovesBoth
<1>3. ASSUME NEW e, Ranged(e), NEW f \in AfterOff(e, delta, st) PROVE Ranged(f)
  <2>1. f = e \/ \E x \in Reads(encoder, EncoderValues) : f = at_off(check_encoder_limits(e, x), x)
    BY <1>3 DEF AfterOff
  <2> QED
    BY <1>0, <1>3, <2>1, EncoderReadings, LimitsMoveTogether, SwitchMovesBoth
<1>4. Ranged(enc')
  <2>1. CASE GotoFails(delta)
    BY <1>0, <2>1 DEF GotoFails
  <2>2. CASE GotoSucceeds(delta, st)
    BY <1>0, <1>2, <1>3, <2>2 DEF GotoSucceeds
  <2> QED
    BY <2>1, <2>2
<1> QED
  BY <1>1, <1>4 DEF Ranged, RangeKept

\* So does reading the encoder in a cycle (query_encoder).
LEMMA QueryKeepsRange ==
  ASSUME RangeInv, query_encoder, configured' = configured, calibrated' = calibrated
  PROVE  enc' \in Limits /\ RangeKept'
<1>0. Ranged(enc) /\ calibrated \in Int
  BY DEF RangeInv, RangeKept, Ranged
<1>1. Ranged(enc')
  <2>1. CASE enc' = enc
    BY <1>0, <2>1
  <2>2. CASE \E x \in Reads(encoder, EncoderValues) : enc' = check_encoder_limits(enc, x)
    BY <1>0, <2>2, EncoderReadings, LimitsMoveTogether
  <2> QED
    BY <2>1, <2>2 DEF query_encoder
<1> QED
  BY <1>1 DEF Ranged, RangeKept

\* The calibration begins with the limits of the parameters.
LEMMA RangeInit == Init => RangeInv
<1> SUFFICES ASSUME Init PROVE RangeInv
  OBVIOUS
<1>1. enc \in Limits
  BY BrakeAssumption DEF Init, NewDevice, Limits
<1> QED
  BY <1>1, BrakeAssumption DEF Init, NewDevice, RangeInv, RangeKept

\* Every step keeps the range.
LEMMA RangeNext == RangeInv /\ [Next]_vars => RangeInv'
<1> SUFFICES ASSUME RangeInv, [Next]_vars PROVE RangeInv'
  OBVIOUS
<1>a. ASSUME UNCHANGED <<enc, cable, slip, calibrated, configured>>,
             configured => phase' \notin {"configure", "release", "origin", "off", "pull", "full"}
      PROVE  RangeInv'
  BY <1>a DEF RangeInv, RangeKept
<1>b. ASSUME NEW delta, NEW st, GotoSucceeds(delta, st) \/ GotoFails(delta),
             UNCHANGED <<calibrated, configured>>,
             configured => phase' \notin {"configure", "release", "origin", "off", "pull", "full"}
      PROVE  RangeInv'
  BY <1>b, GotoKeepsRange DEF RangeInv
<1>1. CASE Configure
  BY <1>1, <1>a DEF Configure, Still, motor, RangeInv
<1>2. CASE Release
  BY <1>2, <1>b DEF Release, RangeInv
<1>3. CASE Origin
  <2>0. enc \in Limits /\ enc.max \in Int /\ -cable \in Int
    BY DEF RangeInv, Limits
  <2>1. [min |-> 0, max |-> enc.max, range |-> enc.max] \in Limits
    BY <2>0 DEF Limits
  <2>2. enc' \in Limits /\ slip' \in Int
    BY <1>3, <2>0, <2>1 DEF Origin, RangeInv
  <2> QED
    BY <1>3, <2>2 DEF Origin, RangeInv, RangeKept
<1>4. CASE CalibrateOff
  BY <1>4, <1>a DEF CalibrateOff, CalibrationFails, Still, motor, RangeInv
<1>5. CASE Pull
  BY <1>5, <1>b DEF Pull, CalibrationFails, RangeInv
<1>6. CASE CalibrateFull
  <2>1. CASE CalibrationFails /\ UNCHANGED enc
    BY <1>6, <1>a, <2>1 DEF CalibrateFull, CalibrationFails, Still, motor, RangeInv
  <2>2. CASE /\ enc' = [min |-> enc.min, max |-> encoder, range |-> encoder - enc.min]
             /\ calibrated' = encoder - enc.min
             /\ phase' = "apply"
    <3>1. encoder \in Int /\ enc \in Limits /\ UNCHANGED <<cable, slip>>
      BY <1>6 DEF CalibrateFull, RangeInv, encoder, Still, motor
    <3>2. enc.min \in Int /\ encoder - enc.min \in Int
      BY <3>1 DEF Limits
    <3>3. enc' \in Limits /\ enc'.range = calibrated' /\ enc'.max - enc'.min = calibrated'
      BY <2>2, <3>1, <3>2 DEF Limits
    <3> QED
      BY <2>2, <3>1, <3>2, <3>3 DEF RangeInv, RangeKept
  <2> QED
    BY <1>6, <2>1, <2>2 DEF CalibrateFull
<1>7. CASE Apply
  BY <1>7, <1>b DEF Apply, Succeeds
<1>8. CASE PollDevice
  <2>1. UNCHANGED <<cable, slip, calibrated, configured>> /\ query_encoder /\ phase' = "spin"
    BY <1>8 DEF PollDevice, get_state, Still, motor
  <2> QED
    BY <2>1, QueryKeepsRange DEF RangeInv
<1>9. ASSUME NEW sp, Received(sp) PROVE RangeInv'
  BY <1>9, <1>a DEF Received, Still, motor
<1>10. ASSUME NEW m \in Requests, ProcessCommand(m) PROVE RangeInv'
  BY <1>9, <1>10 DEF ProcessCommand
<1>11. CASE SpinEmpty
  BY <1>9, <1>11 DEF SpinEmpty
<1>12. CASE Control
  BY <1>12, <1>a, <1>b DEF Control, brake_relative, Succeeds, motor
<1>13. CASE Close
  BY <1>13, <1>a, <1>b DEF Close, Succeeds, motor
<1>14. CASE ActuatorMove
  BY <1>14 DEF ActuatorMove, driver, RangeInv, RangeKept
<1>15. CASE ActuatorSlip
  BY <1>15 DEF ActuatorSlip, driver, RangeInv, RangeKept
<1>16. CASE UNCHANGED vars
  BY <1>16 DEF vars, driver, motor, RangeInv, RangeKept
<1> QED
  BY <1>1, <1>2, <1>3, <1>4, <1>5, <1>6, <1>7, <1>8, <1>10, <1>11, <1>12, <1>13, <1>14, <1>15,
     <1>16 DEF Next

\* Whatever the clutch does, and whichever answers are lost or taken for others,
\* the encoder range on which moves are scaled stays the one that calibrate_brake
\* has found (check_encoder_limits, encoder_goto).
THEOREM BrakeKeepsRange == Spec => []RangeKept
<1>1. RangeInv => RangeKept
  BY DEF RangeInv
<1> QED
  BY <1>1, RangeInit, RangeNext, PTL DEF Spec

-----------------------------------------------------------------------------
\* In training mode the control loop runs on zeros: no calibration, so no
\* position; no command, so no set point; so no error and no move.
TrainingInv ==
    training => /\ phase \in {"poll", "spin", "control", "closed"}
                /\ ~configured /\ ~moved
                /\ cur_position = 0 /\ brake_pos = 0 /\ set_point = 0 /\ dstate = 0

\* Every step keeps the zeros.
LEMMA TrainingNext == TrainingInv /\ [Next]_vars => TrainingInv'
<1> SUFFICES ASSUME TrainingInv, [Next]_vars PROVE TrainingInv'
  OBVIOUS
<1> USE DEF TrainingInv
<1>0. training' = training
  BY DEF Next, Configure, Release, Origin, CalibrateOff, Pull, CalibrateFull, Apply, PollDevice,
         ProcessCommand, SpinEmpty, Received, Control, Close, ActuatorMove, ActuatorSlip, Rest, vars
<1>1. CASE \/ Configure \/ Release \/ Origin \/ CalibrateOff \/ Pull \/ CalibrateFull \/ Apply
  BY <1>0, <1>1 DEF Configure, Release, Origin, CalibrateOff, Pull, CalibrateFull, Apply
<1>2. CASE PollDevice
  <2>1. training => cur_position' = cur_position
    BY <1>2 DEF PollDevice, get_state, query_pressure
  <2> QED
    BY <1>0, <1>2, <2>1 DEF PollDevice, Still
<1>3. ASSUME NEW m \in Requests, ProcessCommand(m) PROVE TrainingInv'
  BY <1>0, <1>3 DEF ProcessCommand, Received, Still
<1>4. CASE SpinEmpty
  BY <1>0, <1>4 DEF SpinEmpty, Received, Still
<1>5. CASE Control
  <2>1. training => Update(set_point - brake_pos, brake_pos) = {0}
    BY DEF Update
  <2>2. training => UNCHANGED <<moved, dstate>>
    BY <1>5, <2>1 DEF Control
  <2> QED
    BY <1>0, <1>5, <2>2 DEF Control
<1>6. CASE Close
  BY <1>0, <1>6 DEF Close
<1>7. CASE ActuatorMove \/ ActuatorSlip
  BY <1>0, <1>7 DEF ActuatorMove, ActuatorSlip, driver
<1>8. CASE UNCHANGED vars
  BY <1>8 DEF vars, driver
<1> QED
  BY <1>1, <1>2, <1>3, <1>4, <1>5, <1>6, <1>7, <1>8 DEF Next

\* The driver sends the brake no move in training mode, although its control loop
\* runs there as in any other (Control, query_pressure).
THEOREM BrakeTrainingSafe == Spec => []TrainingUntouched
<1>1. Init => TrainingInv
  BY DEF Init, NewDevice, TrainingInv
<1>2. TrainingInv => TrainingUntouched
  BY DEF TrainingInv, TrainingUntouched
<1> QED
  BY <1>1, <1>2, TrainingNext, PTL DEF Spec
=============================================================================
