------------------------------- MODULE Throttle -------------------------------
(***************************************************************************)
(* The throttle driver (art_servo/src/throttle): the node's main loop, the *)
(* device class devthrottle and the command protocol it speaks with the    *)
(* AVR controller over a serial line that loses, damages and delays        *)
(* packets.                                                                *)
(*                                                                         *)
(* One step of the host is the begin of a command, or the end of one       *)
(* attempt at it.  `phase' is the place in the driver from which the       *)
(* command is sent.  Positions are integers, Full standing for 1.0, or     *)
(* what a division by 0 gives; controller values are the sensor's units.   *)
(***************************************************************************)
EXTENDS Integers, Sequences

CONSTANTS
    Full,       \* position 1.0: wide open
    Limit,      \* throttle_limit
    PosMax,     \* avr_pos_max
    PosEst,     \* avr_pos_min before calibration
    Epsilon,    \* avr_pos_epsilon
    Absurd,     \* AVR_POS_ABSURD
    Readings,   \* what the position sensor may read
    SeqMod,     \* sequence numbers, 255 in the code
    MaxLine,    \* packets in transit in either direction
    Positions,  \* sizes of the positions in throttle/cmd messages
    NaN, PlusInf, MinusInf  \* floats that are no numbers

NonFinite == {NaN, PlusInf, MinusInf}

ASSUME ThrottleAssumption ==
    /\ Full \in Nat \ {0} /\ Limit \in 0..Full
    /\ PosMax \in Nat /\ PosEst \in 0..(PosMax - 1)
    /\ Epsilon \in Nat \ {0} /\ Absurd \in Nat
    /\ Readings \subseteq Nat
    /\ MaxLine \in Nat \ {0}
    /\ SeqMod \in Nat /\ SeqMod > 2
    /\ Positions \subseteq Nat
    /\ \A f \in NonFinite : f \notin Int
    /\ NaN \notin {PlusInf, MinusInf} /\ PlusInf # MinusInf

VARIABLES
    phase,          \* place in the driver
    training,       \* training mode: a human drives
    op,             \* cmd: the command being tried, or NoOp
    attempts,       \* attempts left
    rc,             \* outcome of the last command
    next_seq,       \* static counter of format_cmd
    posMin,         \* avr_pos_min
    cal,            \* actual_pos_min and prev_pos of calibrate_idle
    seen,           \* history of a calibration: the reading before, and how
                    \* often each value was read close to the one before it
    last_req,       \* last position requested
    cur_position,   \* best estimate of the position
    stat,           \* latest STATUS response: pvld and pos
    toAvr,          \* commands on their way
    fromAvr,        \* responses on their way
    target,         \* the controller's target position
    done,           \* history: was op carried out since it was first sent?
    goal            \* history: what the last GOTO that succeeded asked for, or
                    \* -1 when a later one has begun

hostVars == <<phase, training, op, attempts, rc, next_seq, posMin, cal, seen,
              last_req, cur_position, stat>>
lineVars == <<toAvr, fromAvr>>
vars == <<hostVars, lineVars, target, done, goal>>

\* throttle/cmd messages; Other stands for a request that is neither
Requests == [request : {"Absolute", "Relative", "Other"}, position : Positions \cup {-p : p \in Positions}]

NoOp == [com |-> "none", data |-> 0, seq |-> -1]
Attempts == 3
NoStatus == [pvld |-> FALSE, pos |-> 0]

-----------------------------------------------------------------------------
(* Conversions. *)

\* a NaN passes both comparisons
limit_travel(p) ==
    IF p = NaN THEN NaN
    ELSE IF p = PlusInf THEN Limit
    ELSE IF p = MinusInf THEN 0
    ELSE IF p > Limit THEN Limit ELSE IF p < 0 THEN 0 ELSE p

\* rintf, with halves rounded up; a NaN is converted to INT_MIN, whose low byte is 0
pos2avr(p) ==
    IF p = NaN THEN 0
    ELSE posMin + (2 * p * (PosMax - posMin) + Full) \div (2 * Full)

\* avr_pos_range is 0 when avr_pos_min is avr_pos_max
avr2pos(v) ==
    IF posMin # PosMax THEN ((v - posMin) * Full) \div (PosMax - posMin)
    ELSE IF v > posMin THEN PlusInf ELSE IF v < posMin THEN MinusInf ELSE NaN

\* the target of throttle_relative
Moved(p, delta) == IF p \in NonFinite THEN p ELSE p + delta

-----------------------------------------------------------------------------
(* The line.  Before each write tcflush drops the responses that have      *)
(* arrived and what was not transmitted; what is under way stays.  A       *)
(* packet is never late by more than one command (three timeouts).         *)

Flush(line) == {SubSeq(line, n + 1, Len(line)) : n \in 0..Len(line)}

\* what is left of a line: the end of it, packets of the command `before' only
Late(line, before) == {l \in Flush(line) : \A i \in 1..Len(l) : l[i].seq = before}

Transmit(c, before) ==
    /\ fromAvr' \in Late(fromAvr, before)
    /\ \E l \in Late(toAvr, before) : Len(l) < MaxLine /\ toAvr' = Append(l, c)

\* the packet of a command, with the next number
format_cmd(com, data) == [com |-> com, data |-> data, seq |-> (next_seq + 1) % SeqMod]

\* send_cmd and the first write of servo_cmd
Send(com, data) ==
    LET c == format_cmd(com, data) IN
    /\ op = NoOp
    /\ next_seq' = c.seq
    /\ op' = c
    /\ attempts' = Attempts
    /\ Transmit(c, next_seq)
    /\ done' = FALSE
    /\ goal' = IF com = "GOTO" THEN -1 ELSE goal
    /\ UNCHANGED <<rc, target>>

(***************************************************************************)
(* The controller (firmware, external): it carries out a command with a    *)
(* good checksum, once more if it is repeated, and answers with the        *)
(* number of the command.  It may refuse a command.                        *)
(***************************************************************************)
Status == {NoStatus} \cup [pvld : {TRUE}, pos : Readings]

Answer(c, com, s) ==
    fromAvr' = IF Len(fromAvr) < MaxLine
               THEN Append(fromAvr, [seq |-> c.seq, com |-> com, ok |-> TRUE, stat |-> s])
               ELSE fromAvr

AvrCommand ==
    /\ toAvr # <<>>
    /\ LET c == Head(toAvr) IN
       \/ /\ target' = IF c.com = "GOTO" THEN c.data ELSE target
          /\ done' = (done \/ c.seq = op.seq)
          /\ IF c.com = "STATUS" THEN \E s \in Status : Answer(c, "STATUS", s)
                                 ELSE Answer(c, "ACK", NoStatus)
       \/ Answer(c, "NAK", NoStatus) /\ UNCHANGED <<target, done>>
    /\ toAvr' = Tail(toAvr)
    /\ UNCHANGED <<hostVars, goal>>

LineFault ==
    /\ \/ toAvr # <<>> /\ toAvr' = Tail(toAvr) /\ UNCHANGED fromAvr
       \/ fromAvr # <<>> /\ fromAvr' = Tail(fromAvr) /\ UNCHANGED toAvr
       \/ /\ fromAvr # <<>> /\ fromAvr[1].ok
          /\ fromAvr' = [fromAvr EXCEPT ![1].ok = FALSE]
          /\ UNCHANGED toAvr
    /\ UNCHANGED <<hostVars, target, done, goal>>

-----------------------------------------------------------------------------
(* The end of a call: what the driver does with the outcome ok and, for a  *)
(* STATUS command, the response r.                                         *)

Goto(ph) == phase' = ph
Keep == UNCHANGED <<posMin, cal, seen, last_req, cur_position, stat>>

ConfigSteps == <<"config1", "config2", "config3", "config4", "config5">>

\* When Open fails, Servo::Close is called and the process ends.
ConfigureReturns(ok) ==
    /\ \E i \in 1..5 :
          /\ phase = ConfigSteps[i]
          /\ Goto(IF ~ok THEN "ended" ELSE IF i = 5 THEN "calibrate" ELSE ConfigSteps[i + 1])
    /\ Keep

\* send_goto(0) of calibrate_idle
CalibrateReturns(ok) ==
    /\ phase = "calibrate"
    /\ IF ok THEN /\ Goto("sample")
                  /\ cur_position' = 0 /\ last_req' = 0
                  /\ cal' = [min |-> PosMax, prev |-> -(2 * Epsilon)]
             ELSE Goto("ended") /\ UNCHANGED <<cur_position, last_req, cal>>
    /\ UNCHANGED <<posMin, stat, seen>>

Close(a, b) == a - b <= Epsilon /\ b - a <= Epsilon

\* Mutant of CalibrationStep: a reading need not confirm the one before.
UnconfirmedStep(pos) ==
    LET lower   == pos < cal.min
        settled == ~lower /\ pos < cal.min + Epsilon
    IN  IF pos <= Absurd
        THEN Goto("ended") /\ UNCHANGED <<posMin, cal>>
        ELSE /\ Goto(IF settled THEN "setidle" ELSE "sample")
             /\ posMin' = IF settled THEN cal.min ELSE posMin
             /\ cal' = [min |-> IF lower THEN pos ELSE cal.min, prev |-> pos]

\* one turn of the loop of calibrate_idle
CalibrationStep(pos) ==
    LET stable  == Close(pos, cal.prev)
        lower   == stable /\ pos < cal.min
        settled == stable /\ ~lower /\ pos < cal.min + Epsilon
    IN  IF stable /\ pos <= Absurd
        THEN Goto("ended") /\ UNCHANGED <<posMin, cal>>
        ELSE /\ Goto(IF settled THEN "setidle" ELSE "sample")
             /\ posMin' = IF settled THEN cal.min ELSE posMin
             /\ cal' = [min |-> IF lower THEN pos ELSE cal.min, prev |-> pos]

\* history: which values were read close to the reading before
Record(pos) ==
    seen' = [prev |-> pos,
             times |-> IF Close(pos, seen.prev) /\ seen.times[pos] < 2
                       THEN [seen.times EXCEPT ![pos] = @ + 1] ELSE seen.times]

SampleReturns(ok, r) ==
    /\ phase = "sample"
    /\ IF ok /\ r.pvld THEN CalibrationStep(r.pos) /\ Record(r.pos)
                       ELSE Goto("ended") /\ UNCHANGED <<posMin, cal, seen>>
    /\ UNCHANGED <<last_req, cur_position, stat>>

NothingSeen == [prev |-> -(2 * Epsilon), times |-> [v \in Readings |-> 0]]

\* SET_IDLE: the outcome is not looked at
SetIdleReturns ==
    /\ phase = "setidle"
    /\ Goto("idle")
    /\ seen' = NothingSeen
    /\ cal' = [min |-> PosMax, prev |-> -(2 * Epsilon)]
    /\ UNCHANGED <<posMin, last_req, cur_position, stat>>

\* throttle_absolute(0.0), the last command of Open
IdleReturns(ok) == phase = "idle" /\ Goto(IF ok THEN "setup" ELSE "ended") /\ Keep

\* throttle_absolute(0.0) of Throttle::Setup
SetupReturns(ok) == phase = "setup" /\ Goto(IF ok THEN "poll" ELSE "close") /\ Keep

\* query_status and Throttle::PollDevice
PollReturns(ok, r) ==
    LET s == IF ok THEN r ELSE stat IN
    /\ phase = "poll"
    /\ Goto("spin")
    /\ stat' = s
    /\ cur_position' = IF s.pvld /\ s.pos > Absurd THEN avr2pos(s.pos) ELSE last_req
    /\ UNCHANGED <<posMin, cal, seen, last_req>>

GetCmdReturns == phase = "command" /\ Goto("poll") /\ Keep

\* Throttle::Shutdown, then devthrottle::Close
ShutdownReturns == phase = "shutdown" /\ Goto("close") /\ Keep
CloseReturns == phase = "close" /\ Goto("ended") /\ Keep

Returns(ok, r) ==
    /\ \/ ConfigureReturns(ok)
       \/ CalibrateReturns(ok)
       \/ SampleReturns(ok, r)
       \/ SetIdleReturns
       \/ IdleReturns(ok)
       \/ SetupReturns(ok)
       \/ PollReturns(ok, r)
       \/ GetCmdReturns
       \/ ShutdownReturns
       \/ CloseReturns
    /\ op' = NoOp
    /\ rc' = IF ok THEN "ok" ELSE "failed"
    /\ goal' = IF ok /\ op.com = "GOTO" THEN op.data ELSE goal
    /\ done' = FALSE
    /\ UNCHANGED <<training, attempts, next_seq, target, toAvr>>

-----------------------------------------------------------------------------
(* servo_cmd: read a response packet and validate it, or time out. *)

\* Mutants of validate_response: the sequence number is not compared, and a
\* refusal is not told from an acknowledgement.
AnyNumber(r) == r.ok /\ r.com # "NAK"
AnyAnswer(r) == r.ok /\ r.seq = op.seq

validate_response(r) == r.ok /\ r.seq = op.seq /\ r.com # "NAK"

Receive ==
    /\ op # NoOp
    /\ fromAvr # <<>>
    /\ validate_response(Head(fromAvr))
    /\ Returns(TRUE, Head(fromAvr).stat)
    /\ fromAvr' = Tail(fromAvr)

\* Mutant of Retry: attempts are not counted.
RetryForever ==
    /\ Transmit(op, op.seq)
    /\ UNCHANGED <<phase, training, op, attempts, rc, next_seq, posMin, cal, seen,
                   last_req, cur_position, stat, target, done, goal>>

\* the attempt has failed: once more with the same number, or give up
Retry ==
    IF attempts > 1
    THEN /\ attempts' = attempts - 1
         /\ Transmit(op, op.seq)
         /\ UNCHANGED <<phase, training, op, rc, next_seq, posMin, cal, seen, last_req,
                        cur_position, stat, target, done, goal>>
    ELSE /\ Returns(FALSE, NoStatus)
         /\ fromAvr' \in Flush(fromAvr)

BadResponse ==
    /\ op # NoOp
    /\ fromAvr # <<>>
    /\ ~validate_response(Head(fromAvr))
    /\ Retry

\* poll() reports nothing for 15 ms; the response may still be under way
Timeout == op # NoOp /\ Retry

-----------------------------------------------------------------------------
(* The driver's calls. *)

Unmoved == UNCHANGED <<phase, training, posMin, cal, seen, last_req, cur_position, stat>>

configure_controller ==
    /\ \E i \in 1..5 : phase = ConfigSteps[i] /\ Send("CONFIG", 0)
    /\ Unmoved

calibrate_idle ==
    /\ \/ phase = "calibrate" /\ Send("GOTO", 0)
       \/ phase = "sample" /\ Send("STATUS", 0)
       \/ phase = "setidle" /\ Send("SET_IDLE", posMin)
    /\ Unmoved

query_status == phase = "poll" /\ Send("STATUS", 0) /\ Unmoved

throttle_absolute(p) ==
    /\ last_req' = limit_travel(p)
    /\ Send("GOTO", pos2avr(limit_travel(p)))
    /\ UNCHANGED <<training, posMin, cal, seen, cur_position, stat>>

GoIdle ==
    /\ phase \in {"idle", "setup", "shutdown", "close"}
    /\ throttle_absolute(0)
    /\ UNCHANGED phase

NoCall == UNCHANGED <<training, op, attempts, rc, next_seq, lineVars, target, done, goal>>

\* spinOnce with a message in the queue
GetCmd(m) ==
    /\ phase = "spin"
    /\ IF training \/ m.request = "Other"
       THEN Goto("poll") /\ Keep /\ NoCall
       ELSE /\ Goto("command")
            /\ throttle_absolute(IF m.request = "Absolute" THEN m.position
                                 ELSE Moved(cur_position, m.position))

\* spinOnce without a message
SpinEmpty == phase = "spin" /\ Goto("poll") /\ Keep /\ NoCall

\* ros::ok() is false at the end of the cycle
Shutdown ==
    /\ phase = "spin"
    /\ Goto(IF training THEN "close" ELSE "shutdown")
    /\ Keep /\ NoCall

\* The process is killed.
Crash ==
    /\ phase # "ended"
    /\ Goto("ended")
    /\ op' = NoOp /\ done' = FALSE
    /\ rc' = IF op = NoOp THEN rc ELSE "failed"
    /\ UNCHANGED <<training, attempts, next_seq, lineVars, target, goal>> /\ Keep

\* The process at its start: Open, which does nothing in training mode.
Started(train) ==
    [phase |-> IF train THEN "poll" ELSE ConfigSteps[1],
     cal |-> [min |-> PosMax, prev |-> -(2 * Epsilon)]]

Init ==
    /\ training \in BOOLEAN
    /\ phase = Started(training).phase
    /\ cal = Started(training).cal
    /\ op = NoOp /\ attempts = Attempts /\ rc = "failed" /\ next_seq = 0
    /\ posMin = PosEst /\ seen = NothingSeen
    /\ last_req = 0 /\ cur_position = 0 /\ stat = NoStatus
    /\ toAvr = <<>> /\ fromAvr = <<>>
    /\ target = PosEst /\ done = FALSE /\ goal = -1

\* A new process; by then nothing is under way on the line.
Restart ==
    /\ phase = "ended"
    /\ training' \in BOOLEAN
    /\ phase' = Started(training').phase
    /\ cal' = Started(training').cal
    /\ attempts' = Attempts /\ next_seq' = 0
    /\ posMin' = PosEst /\ seen' = NothingSeen
    /\ last_req' = 0 /\ cur_position' = 0 /\ stat' = NoStatus
    /\ toAvr' = <<>> /\ fromAvr' = <<>>
    /\ UNCHANGED <<op, rc, target, done, goal>>

Next ==
    \/ configure_controller \/ calibrate_idle \/ query_status \/ GoIdle
    \/ \E m \in Requests : GetCmd(m)
    \/ SpinEmpty \/ Shutdown
    \/ Receive \/ BadResponse \/ Timeout
    \/ AvrCommand \/ LineFault
    \/ Crash \/ Restart

Spec == Init /\ [][Next]_vars

\* poll() in read_byte returns after 15 ms at the latest
FairSpec == Spec /\ WF_vars(Receive \/ BadResponse \/ Timeout)

-----------------------------------------------------------------------------
(* Properties. *)

Caller == INSTANCE ServoCall WITH
    Command <- [com : {"CONFIG", "GOTO", "STATUS", "SET_IDLE"},
                data : Int, seq : 0..(SeqMod - 1)],
    NoCommand <- NoOp, call <- op, result <- rc

(***************************************************************************)
(* The retries, sequence numbers and checksums of servo_cmd make a call    *)
(* out of the line: success is never reported for a command that the       *)
(* controller has not carried out, not even when answers of an earlier     *)
(* command are late.                                                       *)
(***************************************************************************)
CallImplemented == Caller!Spec

(***************************************************************************)
(* When throttle_absolute has returned success the controller holds that   *)
(* position until another one is asked for, whatever copies of earlier     *)
(* commands are still on the line.                                         *)
(***************************************************************************)
TargetHeld == goal # -1 => target = goal

(***************************************************************************)
(* calibrate_idle takes as idle the lowest value that the sensor confirmed *)
(* by a reading next to it, and no value read only once: a bogus reading   *)
(* never becomes the idle position.  avr_pos_max, with which the search    *)
(* starts, becomes idle only when nothing below it was confirmed and one   *)
(* reading next to it was.                                                 *)
(***************************************************************************)
CalibrationConfirmed ==
    phase = "setidle" =>
        /\ posMin # PosMax => seen.times[posMin] >= 1
        /\ \E v \in Readings :
              /\ v - posMin \in 0..(Epsilon - 1)
              /\ seen.times[v] >= IF v = posMin /\ posMin # PosMax THEN 2 ELSE 1
        /\ \A v \in Readings : v < posMin => seen.times[v] = 0

\* Every command ends, after three attempts at the latest.
CommandEnds == op # NoOp ~> op = NoOp
=============================================================================
