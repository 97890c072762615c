---------------------------- MODULE SteeringProofs ----------------------------
(***************************************************************************)
(* The steering driver for every size of the wheel's range, every self-    *)
(* test and every set of requests: what an acknowledgement is worth        *)
(* although answers are late, and what a passed self-test is worth.        *)
(***************************************************************************)
EXTENDS Steering, TLAPS

Kinds == {"ack", "status", "encoder"}

-----------------------------------------------------------------------------
(* Part 1: the answers in the input buffer. *)

\* Three attempts leave no more than two answers behind.  In a cycle of a device
\* that is open publish_diag comes last, so that the second of them is no
\* acknowledgement.  When check_status has succeeded, no acknowledgement is left.
BacklogOK ==
  /\ backlog \in Seq(Kinds) /\ Len(backlog) \in 0..2
  /\ step \in {"spin", "switch"} /\ driver_state # "CLOSED" /\ Len(backlog) = 2 =>
       backlog[2] # "ack"
  /\ step = "command" => \A i \in 1..Len(backlog) : backlog[i] # "ack"

\* A set point is within the wheel's range, or has not been given since open; a
\* command is sent for a set point that is not the last.
PointsOK ==
  /\ set_point \in Int
  /\ \/ limit_travel(set_point) = set_point
     \/ set_point = Preposterous /\ last_set = Preposterous
  /\ step = "command" => set_point # last_set

AckInv == BacklogOK /\ PointsOK

\* An angle is limited once.
LEMMA LimitTwice ==
  ASSUME NEW a \in Int
  PROVE  limit_travel(a) \in Int /\ limit_travel(limit_travel(a)) = limit_travel(a)
  BY SteeringAssumption DEF limit_travel

\* Copies of one answer.
LEMMA CopiesOK ==
  ASSUME NEW kind \in Kinds, NEW n \in 0..2
  PROVE  /\ Copies(kind, n) \in Seq(Kinds) /\ Len(Copies(kind, n)) = n
         /\ \A i \in 1..n : Copies(kind, n)[i] = kind
<1>1. Copies(kind, n) \in [1..n -> Kinds] /\ n \in Nat
  BY DEF Copies
<1>2. Copies(kind, n) \in Seq(Kinds)
  BY <1>1
<1> QED
  BY <1>1, <1>2 DEF Copies

\* What is left after an exchange of a command of that kind: the answers that were
\* behind the oldest one, and answers of that kind.
After(kind) ==
  /\ backlog' \in Seq(Kinds) /\ Len(backlog') \in 0..2
  /\ \A i \in 1..Len(backlog') :
       backlog'[i] = kind \/ (i + 1 \in 1..Len(backlog) /\ backlog'[i] = backlog[i + 1])

\* A reply is the command's own or the oldest of the buffer; one to a command that
\* was lost is the oldest of the buffer.
LEMMA ReplyOK ==
  ASSUME backlog \in Seq(Kinds), Len(backlog) \in 0..2,
         NEW kind \in Kinds, NEW ans, NEW ex \in BOOLEAN, Reply(kind, ans, ex)
  PROVE  /\ After(kind)
         /\ ~ex => backlog # <<>> /\ ans = backlog[1]
         /\ ans # kind => backlog # <<>> /\ ans = backlog[1]
<1>1. CASE /\ ex
           /\ ans = Head(Append(backlog, kind))
           /\ backlog' = Tail(Append(backlog, kind))
  <2> DEFINE b == Append(backlog, kind)
  <2>1. b \in Seq(Kinds) /\ Len(b) = Len(backlog) + 1 /\ b # <<>>
        /\ b[Len(backlog) + 1] = kind
        /\ \A i \in 1..Len(backlog) : b[i] = backlog[i]
    <3>1. b \in Seq(Kinds) /\ Len(b) = Len(backlog) + 1
      OBVIOUS
    <3>2. b[Len(backlog) + 1] = kind
      OBVIOUS
    <3>3. \A i \in 1..Len(backlog) : b[i] = backlog[i]
      OBVIOUS
    <3> QED
      BY <3>1, <3>2, <3>3
  <2> HIDE DEF b
  <2>2. Tail(b) \in Seq(Kinds) /\ Len(Tail(b)) = Len(backlog)
        /\ \A i \in 1..Len(backlog) : Tail(b)[i] = b[i + 1]
    BY <2>1
  <2>3. backlog' = Tail(b) /\ ans = b[1]
    BY <1>1, <2>1 DEF b
  <2>4. ASSUME NEW i \in 1..Len(backlog')
        PROVE  backlog'[i] = kind
               \/ (i + 1 \in 1..Len(backlog) /\ backlog'[i] = backlog[i + 1])
    <3>1. i \in 1..Len(backlog) /\ backlog'[i] = b[i + 1]
      BY <2>2, <2>3, <2>4
    <3>2. CASE i = Len(backlog)
      BY <2>1, <3>1, <3>2
    <3>3. CASE i # Len(backlog)
      BY <2>1, <3>1, <3>3
    <3> QED
      BY <3>2, <3>3
  <2>5. ans # kind => backlog # <<>> /\ ans = backlog[1]
    BY <2>1, <2>3
  <2> QED
    BY <1>1, <2>2, <2>3, <2>4, <2>5 DEF After
<1>2. CASE /\ ~ex /\ backlog # <<>>
           /\ ans = Head(backlog)
           /\ backlog' = Tail(backlog)
  <2>1. Tail(backlog) \in Seq(Kinds) /\ Len(Tail(backlog)) = Len(backlog) - 1
        /\ \A i \in 1..Len(Tail(backlog)) : Tail(backlog)[i] = backlog[i + 1]
    BY <1>2
  <2> QED
    BY <1>2, <2>1 DEF After
<1>3. CASE /\ ex
           /\ ans = kind
           /\ \E n \in 0..2 : n <= MaxBacklog /\ backlog' = Copies(kind, n)
  <2>1. PICK n \in 0..2 : backlog' = Copies(kind, n)
    BY <1>3
  <2>2. /\ backlog' \in Seq(Kinds) /\ Len(backlog') = n
        /\ \A i \in 1..n : backlog'[i] = kind
    BY <2>1, CopiesOK
  <2> QED
    BY <1>3, <2>2 DEF After
<1> QED
  BY <1>1, <1>2, <1>3 DEF Reply

\* The same when no answer came at all.
LEMMA SilentOK ==
  ASSUME NEW kind \in Kinds, Silent(kind)
  PROVE  After(kind)
<1>1. PICK n \in 0..1 : backlog' = Copies(kind, n)
  BY DEF Silent
<1>2. n \in 0..2
  OBVIOUS
<1>3. /\ backlog' \in Seq(Kinds) /\ Len(backlog') = n
      /\ \A i \in 1..n : backlog'[i] = kind
  BY <1>1, <1>2, CopiesOK
<1> QED
  BY <1>3 DEF After

\* A command that wants an acknowledgement, successful or not; in training the
\* buffer is not touched.
LEMMA ServoAfter ==
  ASSUME AckInv, NEW ex \in BOOLEAN, ServoOk(ex) \/ ServoFails(ex)
  PROVE  After("ack") \/ UNCHANGED backlog
  BY ReplyOK, SilentOK DEF AckInv, BacklogOK, ServoOk, ServoFails, Kinds

\* The two outcomes of write_register.
LEMMA WriteAfter ==
  ASSUME AckInv, NEW v, WriteOk(v) \/ WriteFails(v)
  PROVE  After("ack") \/ UNCHANGED backlog
  BY ServoAfter DEF WriteOk, WriteFails

\* Where nothing is required of the order of the answers.
LEMMA AfterOK ==
  ASSUME AckInv, NEW kind, After(kind) \/ UNCHANGED backlog,
         step' \notin {"spin", "switch", "command"}
  PROVE  BacklogOK'
  BY DEF After, AckInv, BacklogOK

\* PublishStatus leaves a buffer whose second answer is that of the encoder.
LEMMA PublishBacklog ==
  ASSUME AckInv, PublishStatus
  PROVE  BacklogOK'
<1>1. CASE driver_state = "CLOSED"
  BY <1>1 DEF AckInv, BacklogOK, PublishStatus
<1>2. CASE driver_state # "CLOSED"
  <2>1. After("encoder")
    BY <1>2, ReplyOK, SilentOK
       DEF AckInv, BacklogOK, PublishStatus, get_encoder, Kinds
  <2> QED
    BY <2>1 DEF AckInv, BacklogOK, After, PublishStatus
<1> QED
  BY <1>1, <1>2

\* CheckStatus goes on to a command only with a buffer free of acknowledgements:
\* the status word was the oldest answer, and the one behind it was the encoder's.
LEMMA CheckStatusBacklog ==
  ASSUME AckInv, CheckStatus
  PROVE  BacklogOK'
<1>1. After("status")
  BY ReplyOK, SilentOK DEF AckInv, BacklogOK, CheckStatus, NoStatusWord, Kinds
<1>2. CASE step' # "command"
  BY <1>1, <1>2, AfterOK DEF CheckStatus, close, To
<1>3. CASE step' = "command"
  <2>1. ASSUME NEW i \in 1..Len(backlog'), backlog'[i] = "ack" PROVE FALSE
    <3>1. i + 1 \in 1..Len(backlog) /\ backlog[i + 1] = "ack"
      BY <1>1, <2>1 DEF After
    <3>2. i + 1 = 2 /\ Len(backlog) = 2
      BY <3>1 DEF AckInv, BacklogOK
    <3> QED
      BY <3>1, <3>2 DEF AckInv, BacklogOK, CheckStatus
  <2> QED
    BY <1>1, <1>3, <2>1 DEF After, BacklogOK
<1> QED
  BY <1>2, <1>3

\* The buffer and the set points at the start.
LEMMA AckInit == Init => AckInv
  BY DEF Init, AckInv, BacklogOK, PointsOK, Preposterous, Kinds

\* Every action keeps what is known of the buffer.
LEMMA BacklogStep ==
  ASSUME AckInv, [Next]_vars
  PROVE  BacklogOK'
<1> USE DEF AckInv
<1>1. ASSUME UNCHANGED <<driver_state, step, backlog>> PROVE BacklogOK'
  BY <1>1 DEF BacklogOK
<1>2. ASSUME NEW r \in {"Degrees", "Relative"},
             NEW a \in Angles \cup {-b : b \in Angles}, GetCmd(r, a)
      PROVE  BacklogOK'
  BY <1>1, <1>2 DEF GetCmd, InSpin
<1>3. CASE GetPos
  BY <1>1, <1>3 DEF GetPos, InSpin
<1>4. CASE EndSpin
  BY <1>4 DEF EndSpin, BacklogOK
<1>5. CASE open
  <2>1. PICK n \in 0..1 : backlog' = Copies("ack", n)
    BY <1>5 DEF open, configure_steering
  <2>2. Silent("ack")
    BY <2>1 DEF Silent
  <2>3. After("ack") /\ step' = "publish"
    BY <1>5, <2>2, SilentOK DEF open, To, Kinds
  <2> QED
    BY <2>3, AfterOK
<1>6. CASE StartRunning \/ Calibrate
  BY <1>6 DEF StartRunning, Calibrate, To, BacklogOK
<1>7. CASE InitialAngle
  <2>1. /\ After("ack") \/ UNCHANGED backlog
        /\ step' \notin {"spin", "switch", "command"}
    BY <1>7, WriteAfter DEF InitialAngle, close, To
  <2> QED
    BY <2>1, AfterOK
<1>8. CASE SoftStops
  <2>1. /\ After("ack") \/ UNCHANGED backlog
        /\ step' \notin {"spin", "switch", "command"}
    BY <1>8, ServoAfter DEF SoftStops
  <2> QED
    BY <2>1, AfterOK
<1>9. CASE EnterPmc
  <2>1. /\ After("ack") \/ UNCHANGED backlog
        /\ step' \notin {"spin", "switch", "command"}
    BY <1>9, ServoAfter DEF EnterPmc, close, To
  <2> QED
    BY <2>1, AfterOK
<1>10. CASE SelfTest
  <2>1. step' = "publish"
    BY <1>10 DEF SelfTest, Begin, Move, Back, Done, Turn, Waits, Ends, To, close
  <2>2. After("ack") \/ UNCHANGED backlog
    BY <1>10, WriteAfter DEF SelfTest, Begin, Move, Back, Done, Turn, Waits, Ends
  <2> QED
    BY <2>1, <2>2, AfterOK DEF BacklogOK
<1>11. CASE CheckStatus
  BY <1>11, CheckStatusBacklog
<1>12. CASE SteeringAbsolute
  <2>1. /\ After("ack") \/ UNCHANGED backlog
        /\ step' \notin {"spin", "switch", "command"}
    BY <1>12, WriteAfter DEF SteeringAbsolute, To
  <2> QED
    BY <2>1, AfterOK
<1>13. CASE PublishStatus
  BY <1>13, PublishBacklog
<1>14. CASE WheelMoves \/ HumanSteers \/ MovingError
  BY <1>1, <1>14 DEF WheelMoves, HumanSteers, MovingError, cycleVars
<1>15. CASE UNCHANGED vars
  BY <1>1, <1>15 DEF vars, cycleVars
<1> QED
  BY <1>2, <1>3, <1>4, <1>5, <1>6, <1>7, <1>8, <1>9, <1>10, <1>11, <1>12, <1>13,
     <1>14, <1>15 DEF Next

\* And what is known of the set points.
LEMMA PointsStep ==
  ASSUME AckInv, [Next]_vars
  PROVE  PointsOK'
<1> USE DEF AckInv
<1>1. ASSUME UNCHANGED points, step' # "command" \/ UNCHANGED step PROVE PointsOK'
  BY <1>1 DEF PointsOK, points, limit_travel
<1>2. ASSUME NEW r \in {"Degrees", "Relative"},
             NEW a \in Angles \cup {-b : b \in Angles}, GetCmd(r, a)
      PROVE  PointsOK'
  <2>1. a \in Int
    BY SteeringAssumption
  <2> DEFINE p == IF r = "Degrees" THEN a ELSE set_point + a
  <2>2. p \in Int
    BY <2>1 DEF PointsOK
  <2>3. set_point' = limit_travel(p) /\ step' = "spin"
    BY <1>2 DEF GetCmd, InSpin
  <2> HIDE DEF p
  <2>4. set_point' \in Int /\ limit_travel(set_point') = set_point'
    BY <2>2, <2>3, LimitTwice
  <2> QED
    BY <2>3, <2>4 DEF PointsOK, limit_travel
<1>3. CASE GetPos
  BY <1>1, <1>3 DEF GetPos, InSpin
<1>4. CASE EndSpin
  BY <1>1, <1>4 DEF EndSpin
<1>5. CASE open
  BY <1>5 DEF open, To, PointsOK, Preposterous
<1>6. CASE StartRunning \/ Calibrate
  BY <1>1, <1>6 DEF StartRunning, Calibrate, To
<1>7. CASE InitialAngle
  BY <1>1, <1>7 DEF InitialAngle, close, To
<1>8. CASE SoftStops
  BY <1>1, <1>8 DEF SoftStops
<1>9. CASE EnterPmc
  BY <1>1, <1>9 DEF EnterPmc, close, To
<1>10. CASE SelfTest
  <2>1. step' = "publish"
    BY <1>10 DEF SelfTest, Begin, Move, Back, Done, Turn, Waits, Ends, To, close
  <2> QED
    BY <1>1, <1>10, <2>1 DEF SelfTest
<1>11. CASE CheckStatus
  BY <1>11 DEF CheckStatus, close, To, points, PointsOK, limit_travel
<1>12. CASE SteeringAbsolute
  BY <1>12 DEF SteeringAbsolute, To, PointsOK, limit_travel
<1>13. CASE PublishStatus
  BY <1>1, <1>13 DEF PublishStatus
<1>14. CASE WheelMoves \/ HumanSteers \/ MovingError
  BY <1>1, <1>14 DEF WheelMoves, HumanSteers, MovingError, cycleVars
<1>15. CASE UNCHANGED vars
  BY <1>1, <1>15 DEF vars, cycleVars
<1> QED
  BY <1>2, <1>3, <1>4, <1>5, <1>6, <1>7, <1>8, <1>9, <1>10, <1>11, <1>12, <1>13,
     <1>14, <1>15 DEF Next

\* A set point that becomes the last one has been written, but not in training.
LEMMA AckStep ==
  ASSUME AckInv, [Next]_vars, step = "command", last_set' = set_point
  PROVE  reg' = IF training THEN reg ELSE set_point
<1>1. set_point # last_set /\ limit_travel(set_point) = set_point
  BY DEF AckInv, PointsOK
<1>2. SteeringAbsolute
  BY <1>1 DEF Next, vars, points, GetCmd, GetPos, InSpin, EndSpin, open, Opened,
     StartRunning, Calibrate, InitialAngle, SoftStops, EnterPmc, SelfTest,
     CheckStatus, PublishStatus, WheelMoves, HumanSteers, MovingError
<1>3. WriteOk(set_point)
  BY <1>1, <1>2 DEF SteeringAbsolute
<1>4. PICK ex \in BOOLEAN : ServoOk(ex) /\ reg' = IF ex THEN set_point ELSE reg
  BY <1>3 DEF WriteOk
<1>5. training \/ (~ex => backlog # <<>> /\ backlog[1] = "ack")
  BY <1>4, ReplyOK DEF ServoOk, AckInv, BacklogOK, Kinds
<1>6. training => ~ex
  BY <1>4 DEF ServoOk
<1>7. backlog # <<>> => 1 \in 1..Len(backlog)
  BY DEF AckInv, BacklogOK
<1> QED
  BY <1>4, <1>5, <1>6, <1>7 DEF AckInv, BacklogOK

\* When steering_absolute returns success the controller has the set point,
\* however late the answers of the commands before came; in training, where the
\* success is feigned, its register keeps its value (devsteer::servo_cmd).
THEOREM SteeringAckHonest == Spec => AckHonest
<1>1. AckInv /\ [Next]_vars => AckInv'
  BY BacklogStep, PointsStep DEF AckInv
<1>2. AckInv /\ [Next]_vars =>
        [(step = "command" /\ last_set' = set_point) =>
             reg' = IF training THEN reg ELSE set_point]_vars
  BY AckStep
<1> QED
  BY <1>1, <1>2, AckInit, PTL DEF Spec, AckHonest

-----------------------------------------------------------------------------
(* Part 2: the self-test. *)

\* The wheel follows the controller.
Obeys == power /\ pmc

\* The steps of set_initial_angle.
InitialSteps == {"initial", "limits", "limits2", "pmc"}

\* There is a reading of the wheel's sensor since the device was opened.
Measured == calibrated \/ step \in InitialSteps
            \/ (fresh /\ step \in {"spin", "switch"})

TestStates == {"Begin", "Move", "Back", "Done"}
TestRecords == [state : TestStates, start : Int, target : Int, time : Int]

TestTypes ==
  /\ angle \in Int /\ wheel \in Int
  /\ test \in TestRecords

\* How far the driver has come with a device that it has opened once.
Progress ==
  /\ step \in InitialSteps \/ calibrated => driver_state \in {"OPENED", "RUNNING"}
  /\ test.state \in {"Move", "Back"} \/ tested => calibrated
  /\ test.state = "Done" => tested
  /\ step = "command" => driver_state = "RUNNING"
  /\ driver_state = "RUNNING" => tested

\* A wheel that does not obey stands where it was measured, so that the test cannot
\* come to its second half.
Standing ==
  /\ Measured => Obeys \/ angle = limit_travel(wheel)
  /\ test.state = "Move" => /\ test.target = test.start + TestAngle
                            /\ Obeys \/ test.start = limit_travel(wheel)
  /\ test.state = "Back" \/ tested => Obeys

\* The device is open for the first time, with a self-test to come, and the
\* driver's commands are sent.
Examined == ~reopened /\ test_wheel /\ ~training

TestInv == TestTypes /\ (Examined => Progress /\ Standing)

\* The driver starts untested, with a device that is closed.
LEMMA TestInit == Init => TestInv
  BY SteeringAssumption
     DEF Init, TestInv, TestTypes, TestRecords, TestStates, Progress, Standing, Measured,
         InitialSteps

\* A wheel that stands is not near an angle that the test asks for.
LEMMA StandingIsFar ==
  ASSUME NEW a \in Int
  PROVE  ~Near(a, a + TestAngle)
  BY SteeringAssumption DEF Near

\* What the assignments of testwheel::Run change of its record.
LEMMA TestRecordOK ==
  ASSUME NEW t \in TestRecords, NEW s \in TestStates, NEW n \in Int, NEW a \in Int
  PROVE  /\ [t EXCEPT !.state = s, !.time = n] \in TestRecords
         /\ [t EXCEPT !.state = s] \in TestRecords
         /\ [t EXCEPT !.time = n] \in TestRecords
         /\ [t EXCEPT !.start = a, !.target = a + TestAngle] \in TestRecords
<1>1. a + TestAngle \in Int
  BY SteeringAssumption
<1> QED
  BY <1>1 DEF TestRecords

\* So does the self-test as a whole.
LEMMA SelfTestTypes ==
  ASSUME TestInv, SelfTest
  PROVE  TestTypes'
<1> DEFINE t0 == [test EXCEPT !.start = angle, !.target = angle + TestAngle]
<1>0. test \in TestRecords /\ angle \in Int
  BY DEF TestInv, TestTypes
<1>1. \/ \E t \in {test, t0}, st \in {"Move", "Back"} :
              test' = [t EXCEPT !.state = st, !.time = TestTime]
      \/ \E t \in {test, t0} : test' = [t EXCEPT !.state = "Done"]
      \/ test' = [test EXCEPT !.state = "Done", !.time = 0]
      \/ test' = [test EXCEPT !.time = @ - 1]
  BY DEF SelfTest, Begin, Move, Back, Done, Turn, Waits, Ends
<1>2. t0 \in TestRecords
  BY <1>0, TestRecordOK DEF TestStates
<1>3. TestTime \in Int /\ 0 \in Int /\ test.time - 1 \in Int
  BY <1>0, SteeringAssumption DEF TestRecords
<1> HIDE DEF t0
<1>4. test' \in TestRecords
  <2>1. "Move" \in TestStates /\ "Back" \in TestStates /\ "Done" \in TestStates
    BY DEF TestStates
  <2>2. ASSUME NEW t \in {test, t0}, NEW st \in {"Move", "Back"}
        PROVE  /\ [t EXCEPT !.state = st, !.time = TestTime] \in TestRecords
               /\ [t EXCEPT !.state = "Done"] \in TestRecords
    BY <1>0, <1>2, <1>3, <2>1, TestRecordOK
  <2>3. /\ [test EXCEPT !.state = "Done", !.time = 0] \in TestRecords
        /\ [test EXCEPT !.time = test.time - 1] \in TestRecords
    BY <1>0, <1>3, <2>1, TestRecordOK
  <2> QED
    BY <1>1, <2>2, <2>3
<1> QED
  BY <1>4 DEF SelfTest, TestInv, TestTypes

\* Each of its steps leaves a wheel that obeys, or a test that has not got past
\* its first half.
LEMMA SelfTestStep ==
  ASSUME TestInv, SelfTest, Examined'
  PROVE  Progress' /\ Standing'
<1>1. /\ calibrated /\ ~tested /\ driver_state = "OPENED"
      /\ UNCHANGED <<angle, wheel, power, pmc, calibrated, training, test_wheel>>
  BY DEF SelfTest, Opened, setup
<1>2. Examined /\ ~reopened' /\ test_wheel
  BY <1>1 DEF Examined, SelfTest, Begin, Move, Back, Done, Turn, Waits, Ends, close
<1>3. TestTypes /\ Progress /\ Standing
  BY <1>2 DEF TestInv
<1>4. Obeys \/ angle = limit_travel(wheel)
  BY <1>1, <1>3 DEF Standing, Measured
<1>5. driver_state' = "OPENED" /\ step' = "publish"
  BY <1>2 DEF SelfTest, Begin, Move, Back, Done, Turn, Waits, Ends, close, To
<1>6. CASE Begin
  <2>1. /\ test'.state = "Move" /\ test'.start = angle /\ test'.target = angle + TestAngle
        /\ UNCHANGED tested
    BY <1>3, <1>6, <1>2 DEF Begin, Turn, close, TestTypes, TestRecords
  <2> QED
    BY <1>1, <1>3, <1>4, <1>5, <2>1
       DEF Progress, Standing, Obeys, Measured, InitialSteps, limit_travel
<1>7. CASE Move
  <2>1. CASE Waits(test.target)
    BY <1>1, <1>3, <1>4, <1>5, <1>7, <2>1
       DEF Move, Waits, Progress, Standing, Obeys, Measured, TestTypes, InitialSteps,
           limit_travel
  <2>2. CASE Ends(FALSE)
    BY <1>2, <2>2 DEF Ends, close
  <2>3. CASE Near(angle, test.target) /\ Turn(test.start, "Back", test)
    <3>1. test.target = test.start + TestAngle /\ test.start \in Int
      BY <1>3, <1>7 DEF Move, Standing, TestTypes, TestRecords
    <3>2. Obeys
      BY <1>3, <1>4, <1>7, <2>3, <3>1, StandingIsFar DEF Move, Standing
    <3>3. test'.state = "Back" /\ UNCHANGED tested
      BY <1>2, <1>3, <2>3 DEF Turn, close, TestTypes, TestRecords
    <3> QED
      BY <1>1, <1>3, <1>5, <3>2, <3>3 DEF Progress, Standing, Obeys, InitialSteps
  <2> QED
    BY <1>7, <2>1, <2>2, <2>3 DEF Move
<1>8. CASE Back
  <2>1. Obeys /\ Obeys'
    BY <1>1, <1>3, <1>8 DEF Back, Standing, Obeys
  <2>2. \/ test'.state = "Back" /\ UNCHANGED tested
        \/ test'.state = "Done" /\ tested'
    BY <1>2, <1>3, <1>8 DEF Back, Waits, Ends, close, TestTypes, TestRecords
  <2> QED
    BY <1>1, <1>3, <1>5, <2>1, <2>2 DEF Progress, Standing, InitialSteps
<1>9. CASE Done
  BY <1>1, <1>3, <1>9 DEF Done, Progress
<1> QED
  BY <1>6, <1>7, <1>8, <1>9 DEF SelfTest

\* Every action keeps the invariant.
LEMMA TestStep ==
  ASSUME TestInv, [Next]_vars
  PROVE  TestInv'
<1> USE DEF TestInv, Examined, setup
<1>0. ASSUME NEW a \in Int PROVE limit_travel(a) \in Int
  BY <1>0, LimitTwice
<1>1. ASSUME UNCHANGED <<driver_state, flags, test, pmc, setup, wheel, reopened>>,
             step' \in InitialSteps => step \in InitialSteps,
             step' = "command" => step = "command",
             fresh' /\ step' \in {"spin", "switch"} => fresh /\ step \in {"spin", "switch"}
      PROVE  TestInv'
  BY <1>1 DEF flags, TestTypes, Progress, Standing, Measured, Obeys, limit_travel
<1>2. ASSUME NEW r \in {"Degrees", "Relative"},
             NEW a \in Angles \cup {-b : b \in Angles}, GetCmd(r, a)
      PROVE  TestInv'
  BY <1>1, <1>2 DEF GetCmd, InSpin, controller
<1>3. CASE GetPos
  BY <1>0, <1>3 DEF GetPos, InSpin, controller, TestTypes, Progress, Standing, Measured,
     Obeys, InitialSteps, limit_travel
<1>4. CASE EndSpin
  BY <1>1, <1>4 DEF EndSpin, controller, InitialSteps
<1>5. CASE open
  BY <1>5 DEF open, To, configure_steering, TestTypes, Progress, Standing, Measured,
     Obeys, InitialSteps
<1>6. CASE StartRunning
  BY <1>6 DEF StartRunning, Opened, To, flags, controller, TestTypes, Progress, Standing,
     Measured, Obeys, InitialSteps, limit_travel
<1>7. CASE Calibrate
  BY <1>7 DEF Calibrate, Opened, flags, controller, TestTypes, Progress, Standing,
     Measured, Obeys, InitialSteps, limit_travel
<1>8. CASE InitialAngle
  BY <1>8 DEF InitialAngle, close, To, flags, TestTypes, Progress, Standing, Measured,
     Obeys, InitialSteps, limit_travel
<1>9. CASE SoftStops
  BY <1>1, <1>9 DEF SoftStops, controller, InitialSteps
<1>10. CASE EnterPmc
  <2>1. /\ UNCHANGED <<tested, angle, test, wheel, setup>> /\ step = "pmc"
        /\ step' = "publish" /\ (pmc => pmc')
        /\ reopened' \/ (driver_state' = "OPENED" /\ calibrated' /\ UNCHANGED reopened)
    BY <1>10 DEF EnterPmc, close, To
  <2> QED
    BY <2>1 DEF TestTypes, Progress, Standing, Measured, Obeys, InitialSteps, limit_travel
<1>11. CASE SelfTest
  BY <1>11, SelfTestTypes, SelfTestStep
<1>12. CASE CheckStatus
  <2>1. /\ UNCHANGED <<flags, test, wheel, setup, pmc>>
        /\ step' \in {"publish", "command"} /\ driver_state = "RUNNING"
        /\ reopened' \/ UNCHANGED <<driver_state, reopened>>
    BY <1>12 DEF CheckStatus, close, To, controller
  <2> QED
    BY <2>1 DEF flags, TestTypes, Progress, Standing, Measured, Obeys, InitialSteps,
       limit_travel
<1>13. CASE SteeringAbsolute
  BY <1>13 DEF SteeringAbsolute, To, flags, TestTypes, Progress, Standing, Measured,
     Obeys, InitialSteps, limit_travel
<1>14. CASE PublishStatus
  BY <1>1, <1>14 DEF PublishStatus, controller, InitialSteps
<1>15. CASE WheelMoves
  BY <1>15 DEF WheelMoves, cycleVars, flags, controller, TestTypes, Progress, Standing,
     Measured, Obeys
<1>16. CASE HumanSteers
  <2>1. wheel' \in Int
    BY <1>16, SteeringAssumption DEF HumanSteers
  <2> QED
    BY <1>16, <2>1 DEF HumanSteers, cycleVars, flags, TestTypes
<1>17. CASE MovingError
  BY <1>1, <1>17 DEF MovingError, cycleVars
<1>18. CASE UNCHANGED vars
  BY <1>1, <1>18 DEF vars, cycleVars, controller
<1> QED
  BY <1>2, <1>3, <1>4, <1>5, <1>6, <1>7, <1>8, <1>9, <1>10, <1>11, <1>12, <1>13,
     <1>14, <1>15, <1>16, <1>17, <1>18 DEF Next

\* With test_wheel set and outside training, until the device is opened for the
\* second time the driver runs only with the breaker on and the controller in PMC
\* mode (testwheel::Run, ArtSteer::run).
THEOREM SteeringSelfTest == Spec => []SelfTestGuards
<1>1. TestInv => SelfTestGuards
  BY DEF TestInv, Examined, Progress, Standing, Obeys, SelfTestGuards
<1> QED
  BY <1>1, TestInit, TestStep, PTL DEF Spec
=============================================================================
