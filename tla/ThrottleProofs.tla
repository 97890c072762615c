---------------------------- MODULE ThrottleProofs ----------------------------
(***************************************************************************)
(* The command protocol of the throttle driver makes a call out of its     *)
(* serial line, for every length of the line, number of sequence numbers   *)
(* above two, sensor and configuration of module Throttle.                 *)
(***************************************************************************)
EXTENDS Throttle, SequenceTheorems, TLAPS

Commands == [com : {"CONFIG", "GOTO", "STATUS", "SET_IDLE"},
             data : Int, seq : 0..(SeqMod - 1)]
Responses == [seq : 0..(SeqMod - 1), com : {"ACK", "NAK", "STATUS"},
              ok : BOOLEAN, stat : Status]

\* Positions, and what a division by a range of 0 gives.
Floats == Int \cup NonFinite

\* The types of what the protocol computes with.
ThrottleTypes ==
    /\ next_seq \in 0..(SeqMod - 1)
    /\ op \in Commands \cup {NoOp}
    /\ toAvr \in Seq(Commands)
    /\ fromAvr \in Seq(Responses)
    /\ posMin \in 0..PosMax
    /\ cal \in [min : 0..PosMax, prev : Int]
    /\ last_req \in Floats
    /\ cur_position \in Floats
    /\ stat \in Status
    /\ done \in BOOLEAN

\* Commands leave the line in the order of their numbers: behind a copy of the
\* command in progress there are only such copies.
InOrder ==
    op # NoOp =>
        /\ op.seq = next_seq
        /\ \A i \in 1..Len(toAvr) : toAvr[i].seq = next_seq =>
              \A j \in i..Len(toAvr) : toAvr[j] = op

\* Once the command in progress has been carried out, only copies of it are left.
DoneIsLast ==
    done => /\ op # NoOp
            /\ \A i \in 1..Len(toAvr) : toAvr[i] = op
            /\ op.com = "GOTO" => target = op.data

\* An answer with the number of the command in progress tells the truth.
AnswersTrue ==
    op # NoOp => \A i \in 1..Len(fromAvr) :
        fromAvr[i].seq = op.seq /\ fromAvr[i].com # "NAK" => done

\* What is left of earlier commands cannot disturb a position reached.
GoalHeld ==
    /\ goal # -1 => /\ target = goal
                    /\ \A i \in 1..Len(toAvr) : toAvr[i].com = "GOTO" => toAvr[i].data = goal
    /\ op.com = "GOTO" => goal = -1

ThrottleInv == ThrottleTypes /\ InOrder /\ DoneIsLast /\ AnswersTrue /\ GoalHeld

-----------------------------------------------------------------------------
\* The placeholder for no command is no command.
LEMMA NoOpIsNone == NoOp \notin Commands
  BY DEF NoOp, Commands

\* The next sequence number differs from the last (format_cmd).
LEMMA NextNumber ==
  ASSUME NEW n \in 0..(SeqMod - 1)
  PROVE  (n + 1) % SeqMod \in 0..(SeqMod - 1) /\ (n + 1) % SeqMod # n
<1>1. CASE n + 1 = SeqMod
  <2>1. SeqMod % SeqMod = 0
    BY ThrottleAssumption
  <2> QED
    BY <1>1, <2>1, ThrottleAssumption
<1>2. CASE n + 1 # SeqMod
  <2>1. n + 1 \in 0..(SeqMod - 1)
    BY <1>2, ThrottleAssumption
  <2>2. (n + 1) % SeqMod = n + 1
    BY <2>1, ThrottleAssumption
  <2> QED
    BY <2>1, <2>2
<1> QED
  BY <1>1, <1>2

\* What tcflush leaves of a line is its end.
LEMMA FlushLeavesEnd ==
  ASSUME NEW S, NEW line \in Seq(S), NEW l \in Flush(line)
  PROVE  /\ l \in Seq(S)
         /\ \A i \in 1..Len(l) : \E j \in 1..Len(line) : l[i] = line[j]
<1>1. PICK n \in 0..Len(line) : l = SubSeq(line, n + 1, Len(line))
  BY DEF Flush
<1>2. Len(line) \in Nat
  OBVIOUS
<1>3. /\ l \in Seq(S)
      /\ Len(l) = Len(line) - n
      /\ \A i \in 1..Len(l) : l[i] = line[n + i]
  BY <1>1, <1>2
<1>4. ASSUME NEW i \in 1..Len(l) PROVE \E j \in 1..Len(line) : l[i] = line[j]
  BY <1>2, <1>3
<1> QED
  BY <1>3, <1>4

\* The end of a line that is left over keeps its packets and their numbers.
LEMMA LateLeavesEnd ==
  ASSUME NEW S, NEW line \in Seq(S), NEW b, NEW l \in Late(line, b)
  PROVE  /\ l \in Seq(S)
         /\ \A i \in 1..Len(l) : l[i].seq = b /\ \E j \in 1..Len(line) : l[i] = line[j]
  BY FlushLeavesEnd DEF Late

\* The invariant holds when the driver starts.
LEMMA ThrottleInit == Init => ThrottleInv
<1> SUFFICES ASSUME Init PROVE ThrottleInv
  OBVIOUS
<1>1. ThrottleTypes
  <2>1. cal = [min |-> PosMax, prev |-> -(2 * Epsilon)]
    BY DEF Init, Started
  <2>2. next_seq \in 0..(SeqMod - 1) /\ posMin \in 0..PosMax
        /\ PosMax \in 0..PosMax /\ -(2 * Epsilon) \in Int
    BY ThrottleAssumption DEF Init
  <2>3. toAvr \in Seq(Commands) /\ fromAvr \in Seq(Responses)
    BY DEF Init
  <2>4. cal \in [min : 0..PosMax, prev : Int]
    BY <2>1, <2>2
  <2>5. op \in Commands \cup {NoOp} /\ stat \in Status /\ done \in BOOLEAN
    BY Zenon DEF Init, Status
  <2>6. last_req \in Floats /\ cur_position \in Floats
    BY DEF Init, Floats
  <2> QED
    BY <2>2, <2>3, <2>4, <2>5, <2>6 DEF ThrottleTypes
<1>2. op.com # "GOTO" /\ goal = -1 /\ op = NoOp /\ done = FALSE
  BY DEF Init, NoOp
<1> QED
  BY <1>1, <1>2 DEF ThrottleInv, InOrder, DoneIsLast, AnswersTrue, GoalHeld

-----------------------------------------------------------------------------
\* The first attempt at a command (format_cmd, servo_cmd).
LEMMA SendKeeps ==
  ASSUME ThrottleInv, NEW com \in {"CONFIG", "GOTO", "STATUS", "SET_IDLE"}, NEW data \in Int,
         Send(com, data)
  PROVE  /\ next_seq' \in 0..(SeqMod - 1) /\ op' \in Commands /\ done' = FALSE
         /\ toAvr' \in Seq(Commands) /\ fromAvr' \in Seq(Responses)
         /\ (InOrder /\ DoneIsLast /\ AnswersTrue /\ GoalHeld)'
<1> DEFINE c == [com |-> com, data |-> data, seq |-> (next_seq + 1) % SeqMod]
<1>0. ThrottleTypes
  BY DEF ThrottleInv
<1>1. c.seq \in 0..(SeqMod - 1) /\ c.seq # next_seq
  BY <1>0, NextNumber DEF ThrottleTypes
<1>2. c \in Commands /\ c # NoOp
  BY <1>1, NoOpIsNone DEF Commands
<1>3. op' = c /\ next_seq' = c.seq /\ done' = FALSE /\ op = NoOp /\ Transmit(c, next_seq)
      /\ goal' = (IF com = "GOTO" THEN -1 ELSE goal) /\ target' = target
  BY DEF Send, format_cmd
<1> HIDE DEF c
<1>4. fromAvr' \in Seq(Responses) /\ \A i \in 1..Len(fromAvr') : fromAvr'[i].seq = next_seq
  <2>1. fromAvr' \in Late(fromAvr, next_seq)
    BY <1>3 DEF Transmit
  <2> QED
    BY <1>0, <2>1, LateLeavesEnd DEF ThrottleTypes
<1>5. PICK l \in Late(toAvr, next_seq) : toAvr' = Append(l, c)
  BY <1>3 DEF Transmit
<1>6. /\ l \in Seq(Commands)
      /\ \A i \in 1..Len(l) : l[i].seq = next_seq /\ \E j \in 1..Len(toAvr) : l[i] = toAvr[j]
  BY <1>0, <1>5, LateLeavesEnd DEF ThrottleTypes
<1>7. /\ toAvr' \in Seq(Commands) /\ Len(toAvr') = Len(l) + 1 /\ Len(l) \in Nat
      /\ \A i \in 1..Len(l) : toAvr'[i] = l[i]
      /\ toAvr'[Len(l) + 1] = c
  BY <1>2, <1>5, <1>6
<1>8. InOrder'
  <2>1. \A i \in 1..Len(toAvr') : toAvr'[i].seq = c.seq => i = Len(l) + 1
    BY <1>1, <1>6, <1>7
  <2> QED
    BY <1>3, <1>7, <2>1 DEF InOrder
<1>9. DoneIsLast' /\ AnswersTrue'
  BY <1>1, <1>3, <1>4 DEF DoneIsLast, AnswersTrue
<1>10. GoalHeld'
  <2>1. c.com = com
    BY DEF c
  <2>2. CASE com = "GOTO"
    BY <1>3, <2>2 DEF GoalHeld
  <2>3. CASE com # "GOTO"
    <3>1. ASSUME goal # -1, NEW i \in 1..Len(toAvr'), toAvr'[i].com = "GOTO"
          PROVE  toAvr'[i].data = goal
      <4>1. i # Len(l) + 1
        BY <1>7, <2>1, <2>3, <3>1
      <4>2. i \in 1..Len(l)
        BY <1>7, <4>1
      <4> QED
        BY <1>6, <1>7, <3>1, <4>2 DEF ThrottleInv, GoalHeld
    <3> QED
      BY <1>3, <2>1, <2>3, <3>1 DEF ThrottleInv, GoalHeld
  <2> QED
    BY <2>2, <2>3
<1> QED
  BY <1>1, <1>2, <1>3, <1>4, <1>7, <1>8, <1>9, <1>10

\* Another attempt with the same number (servo_cmd).
LEMMA RepeatKeeps ==
  ASSUME ThrottleInv, op # NoOp, Transmit(op, op.seq),
         UNCHANGED <<op, next_seq, done, target, goal>>
  PROVE  /\ toAvr' \in Seq(Commands) /\ fromAvr' \in Seq(Responses)
         /\ (InOrder /\ DoneIsLast /\ AnswersTrue /\ GoalHeld)'
<1>0. ThrottleTypes /\ op \in Commands /\ op.seq = next_seq
  BY DEF ThrottleInv, ThrottleTypes, InOrder
<1>4. /\ fromAvr' \in Seq(Responses)
      /\ \A i \in 1..Len(fromAvr') : \E j \in 1..Len(fromAvr) : fromAvr'[i] = fromAvr[j]
  <2>1. fromAvr' \in Late(fromAvr, op.seq)
    BY DEF Transmit
  <2> QED
    BY <1>0, <2>1, LateLeavesEnd DEF ThrottleTypes
<1>5. PICK l \in Late(toAvr, op.seq) : toAvr' = Append(l, op)
  BY DEF Transmit
<1>6. /\ l \in Seq(Commands)
      /\ \A i \in 1..Len(l) : l[i].seq = op.seq /\ \E j \in 1..Len(toAvr) : l[i] = toAvr[j]
  BY <1>0, <1>5, LateLeavesEnd DEF ThrottleTypes
<1>7. /\ toAvr' \in Seq(Commands) /\ Len(toAvr') = Len(l) + 1 /\ Len(l) \in Nat
      /\ \A i \in 1..Len(l) : toAvr'[i] = l[i]
      /\ toAvr'[Len(l) + 1] = op
  BY <1>0, <1>5, <1>6
<1>8. \A i \in 1..Len(toAvr') : toAvr'[i] = op
  <2>0. Len(toAvr) \in Nat
    BY <1>0 DEF ThrottleTypes
  <2>1. \A j \in 1..Len(toAvr) : toAvr[j].seq = op.seq => toAvr[j] = op
    BY <1>0, <2>0 DEF ThrottleInv, InOrder
  <2>2. \A i \in 1..Len(l) : l[i] = op
    BY <1>6, <2>1
  <2> QED
    BY <1>7, <2>2
<1>9. Len(toAvr') \in Nat
  BY <1>7
<1>10. (InOrder /\ DoneIsLast)'
  BY <1>0, <1>8, <1>9 DEF ThrottleInv, InOrder, DoneIsLast
<1>11. AnswersTrue'
  BY <1>4 DEF ThrottleInv, AnswersTrue
<1>12. GoalHeld'
  BY <1>8 DEF ThrottleInv, GoalHeld
<1> QED
  BY <1>4, <1>7, <1>10, <1>11, <1>12

-----------------------------------------------------------------------------
\* What a packet leaving the line of responses does.
LEMMA TailOfSeq ==
  ASSUME NEW S, NEW line \in Seq(S), line # <<>>
  PROVE  /\ Head(line) = line[1] /\ Head(line) \in S /\ 1 \in 1..Len(line)
         /\ Tail(line) \in Seq(S)
         /\ \A i \in 1..Len(Tail(line)) : i + 1 \in 1..Len(line) /\ Tail(line)[i] = line[i + 1]
  OBVIOUS

\* The controller answers, or the answer gets lost.
LEMMA AnswerKeeps ==
  ASSUME fromAvr \in Seq(Responses), NEW c \in Commands, NEW com \in {"ACK", "NAK", "STATUS"},
         NEW s \in Status, Answer(c, com, s)
  PROVE  /\ fromAvr' \in Seq(Responses)
         /\ \A i \in 1..Len(fromAvr') :
               \/ fromAvr'[i].seq = c.seq /\ fromAvr'[i].com = com
               \/ \E j \in 1..Len(fromAvr) : fromAvr'[i] = fromAvr[j]
<1> DEFINE r == [seq |-> c.seq, com |-> com, ok |-> TRUE, stat |-> s]
<1>1. r \in Responses
  BY DEF Commands, Responses
<1>2. CASE fromAvr' = Append(fromAvr, r)
  <2>1. \A i \in 1..Len(fromAvr') : i \in 1..Len(fromAvr) \/ fromAvr'[i] = r
    BY <1>1, <1>2
  <2>2. \A i \in 1..Len(fromAvr) : fromAvr'[i] = fromAvr[i]
    BY <1>1, <1>2
  <2> QED
    BY <1>1, <1>2, <2>1, <2>2
<1>3. CASE fromAvr' = fromAvr
  BY <1>3
<1> QED
  BY <1>2, <1>3 DEF Answer

\* The controller takes a command from the line.
LEMMA AvrKeeps ==
  ASSUME ThrottleInv, AvrCommand
  PROVE  ThrottleInv'
<1> DEFINE c == Head(toAvr)
<1>0. ThrottleTypes /\ UNCHANGED <<hostVars, goal>> /\ toAvr # <<>> /\ toAvr' = Tail(toAvr)
  BY DEF ThrottleInv, AvrCommand
<1>1. /\ c = toAvr[1] /\ c \in Commands /\ 1 \in 1..Len(toAvr)
      /\ toAvr' \in Seq(Commands)
      /\ \A i \in 1..Len(toAvr') : i + 1 \in 1..Len(toAvr) /\ toAvr'[i] = toAvr[i + 1]
  BY <1>0, TailOfSeq DEF ThrottleTypes
<1>2. /\ UNCHANGED <<op, next_seq, posMin, cal, last_req, cur_position, stat, goal>>
  BY <1>0 DEF hostVars
<1>3. Len(toAvr) \in Nat /\ Len(toAvr') \in Nat
  BY <1>0, <1>1 DEF ThrottleTypes
<1> HIDE DEF c
<1>4. InOrder'
  <2> SUFFICES ASSUME op # NoOp, NEW i \in 1..Len(toAvr'), toAvr'[i].seq = next_seq,
                      NEW j \in i..Len(toAvr')
               PROVE  toAvr'[j] = op
    BY <1>2 DEF ThrottleInv, InOrder
  <2>1. i + 1 \in 1..Len(toAvr) /\ toAvr[i + 1].seq = next_seq
    BY <1>1
  <2>2. j + 1 \in (i + 1)..Len(toAvr) /\ toAvr'[j] = toAvr[j + 1]
    BY <1>1, <1>3
  <2> QED
    BY <2>1, <2>2 DEF ThrottleInv, InOrder
\* Only what is behind it is left when the command in progress is carried out.
<1>5. ASSUME c.seq = op.seq
      PROVE  op # NoOp /\ c = op /\ \A i \in 1..Len(toAvr') : toAvr'[i] = op
  <2>1. op # NoOp
    BY <1>1, <1>5 DEF Commands, NoOp
  <2>2. \A j \in 1..Len(toAvr) : toAvr[j] = op
    BY <1>1, <1>5, <2>1 DEF ThrottleInv, InOrder
  <2> QED
    BY <1>1, <2>1, <2>2
<1>6. CASE \* carried out and acknowledged
        /\ target' = IF c.com = "GOTO" THEN c.data ELSE target
        /\ done' = (done \/ c.seq = op.seq)
        /\ IF c.com = "STATUS" THEN \E s \in Status : Answer(c, "STATUS", s)
                               ELSE Answer(c, "ACK", NoStatus)
  <2>1. /\ fromAvr' \in Seq(Responses)
        /\ \A i \in 1..Len(fromAvr') : \/ fromAvr'[i].seq = c.seq
                                       \/ \E j \in 1..Len(fromAvr) : fromAvr'[i] = fromAvr[j]
    <3>1. NoStatus \in Status /\ fromAvr \in Seq(Responses)
      BY <1>0 DEF Status, ThrottleTypes
    <3>2. CASE c.com = "STATUS"
      BY <1>1, <1>6, <3>1, <3>2, AnswerKeeps
    <3>3. CASE c.com # "STATUS"
      BY <1>1, <1>6, <3>1, <3>3, AnswerKeeps
    <3> QED
      BY <3>2, <3>3
  <2>2. ThrottleTypes'
    BY <1>0, <1>1, <1>2, <1>6, <2>1 DEF ThrottleTypes
  <2>3. DoneIsLast'
    <3>1. done => op # NoOp /\ c = op /\ \A i \in 1..Len(toAvr') : toAvr'[i] = op
      BY <1>1 DEF ThrottleInv, DoneIsLast
    <3>2. done' => op # NoOp /\ c = op /\ \A i \in 1..Len(toAvr') : toAvr'[i] = op
      BY <1>5, <1>6, <3>1
    <3> QED
      BY <1>2, <1>6, <3>2 DEF DoneIsLast
  <2>4. AnswersTrue'
    BY <1>2, <1>6, <2>1 DEF ThrottleInv, AnswersTrue
  <2>5. GoalHeld'
    BY <1>1, <1>2, <1>6 DEF ThrottleInv, GoalHeld
  <2> QED
    BY <1>4, <2>2, <2>3, <2>4, <2>5 DEF ThrottleInv
<1>7. CASE \* refused
        Answer(c, "NAK", NoStatus) /\ UNCHANGED <<target, done>>
  <2>1. /\ fromAvr' \in Seq(Responses)
        /\ \A i \in 1..Len(fromAvr') : \/ fromAvr'[i].com = "NAK"
                                       \/ \E j \in 1..Len(fromAvr) : fromAvr'[i] = fromAvr[j]
    <3>1. NoStatus \in Status /\ fromAvr \in Seq(Responses)
      BY <1>0 DEF Status, ThrottleTypes
    <3> QED
      BY <1>1, <1>7, <3>1, AnswerKeeps
  <2>2. ThrottleTypes'
    BY <1>0, <1>1, <1>2, <1>7, <2>1 DEF ThrottleTypes
  <2>3. DoneIsLast'
    BY <1>1, <1>2, <1>7 DEF ThrottleInv, DoneIsLast
  <2>4. AnswersTrue'
    BY <1>2, <1>7, <2>1 DEF ThrottleInv, AnswersTrue
  <2>5. GoalHeld'
    BY <1>1, <1>2, <1>7 DEF ThrottleInv, GoalHeld
  <2> QED
    BY <1>4, <2>2, <2>3, <2>4, <2>5 DEF ThrottleInv
<1> QED
  BY <1>6, <1>7 DEF AvrCommand, c

-----------------------------------------------------------------------------
\* The line loses or damages a packet.
LEMMA FaultKeeps ==
  ASSUME ThrottleInv, LineFault
  PROVE  ThrottleInv'
<1>0. ThrottleTypes /\ UNCHANGED <<hostVars, target, done, goal>>
  BY DEF ThrottleInv, LineFault
<1>1. UNCHANGED <<op, next_seq, posMin, cal, last_req, cur_position, stat, target, done, goal>>
  BY <1>0 DEF hostVars
<1>2. CASE toAvr # <<>> /\ toAvr' = Tail(toAvr) /\ UNCHANGED fromAvr
  <2>1. /\ toAvr' \in Seq(Commands)
        /\ \A i \in 1..Len(toAvr') : i + 1 \in 1..Len(toAvr) /\ toAvr'[i] = toAvr[i + 1]
    BY <1>0, <1>2, TailOfSeq DEF ThrottleTypes
  <2>2. Len(toAvr) \in Nat /\ Len(toAvr') \in Nat
    BY <1>0, <2>1 DEF ThrottleTypes
  <2>3. InOrder'
    <3> SUFFICES ASSUME op # NoOp, NEW i \in 1..Len(toAvr'), toAvr'[i].seq = next_seq,
                        NEW j \in i..Len(toAvr')
                 PROVE  toAvr'[j] = op
      BY <1>1 DEF ThrottleInv, InOrder
    <3>1. i + 1 \in 1..Len(toAvr) /\ toAvr[i + 1].seq = next_seq
      BY <2>1
    <3>2. j + 1 \in (i + 1)..Len(toAvr) /\ toAvr'[j] = toAvr[j + 1]
      BY <2>1, <2>2
    <3> QED
      BY <3>1, <3>2 DEF ThrottleInv, InOrder
  <2>4. ThrottleTypes'
    BY <1>0, <1>1, <1>2, <2>1 DEF ThrottleTypes
  <2>5. (DoneIsLast /\ AnswersTrue /\ GoalHeld)'
    BY <1>1, <1>2, <2>1 DEF ThrottleInv, DoneIsLast, AnswersTrue, GoalHeld
  <2> QED
    BY <2>3, <2>4, <2>5 DEF ThrottleInv
<1>3. ASSUME UNCHANGED toAvr, fromAvr' \in Seq(Responses),
             \A i \in 1..Len(fromAvr') : \E j \in 1..Len(fromAvr) :
                 fromAvr'[i].seq = fromAvr[j].seq /\ fromAvr'[i].com = fromAvr[j].com
      PROVE  ThrottleInv'
  <2>1. ThrottleTypes'
    BY <1>0, <1>1, <1>3 DEF ThrottleTypes
  <2>2. (InOrder /\ DoneIsLast /\ GoalHeld)'
    BY <1>1, <1>3 DEF ThrottleInv, InOrder, DoneIsLast, GoalHeld
  <2>3. AnswersTrue'
    BY <1>1, <1>3 DEF ThrottleInv, AnswersTrue
  <2> QED
    BY <2>1, <2>2, <2>3 DEF ThrottleInv
<1>4. CASE fromAvr # <<>> /\ fromAvr' = Tail(fromAvr) /\ UNCHANGED toAvr
  <2>1. /\ fromAvr' \in Seq(Responses)
        /\ \A i \in 1..Len(fromAvr') : i + 1 \in 1..Len(fromAvr) /\ fromAvr'[i] = fromAvr[i + 1]
    BY <1>0, <1>4, TailOfSeq DEF ThrottleTypes
  <2> QED
    BY <1>3, <1>4, <2>1
<1>5. CASE /\ fromAvr # <<>>
           /\ fromAvr' = [fromAvr EXCEPT ![1].ok = FALSE]
           /\ UNCHANGED toAvr
  <2> DEFINE r == [fromAvr[1] EXCEPT !.ok = FALSE]
  <2>1. fromAvr \in Seq(Responses) /\ 1 \in 1..Len(fromAvr) /\ fromAvr[1] \in Responses
    BY <1>0, <1>5, TailOfSeq DEF ThrottleTypes
  <2>2. r \in Responses /\ r.seq = fromAvr[1].seq /\ r.com = fromAvr[1].com
    BY <2>1 DEF Responses
  <2>3. fromAvr' = [fromAvr EXCEPT ![1] = r]
    BY <1>5
  <2> HIDE DEF r
  <2>4. /\ fromAvr' \in Seq(Responses) /\ Len(fromAvr') = Len(fromAvr)
        /\ \A i \in 1..Len(fromAvr) : fromAvr'[i] = IF i = 1 THEN r ELSE fromAvr[i]
    BY <2>1, <2>2, <2>3, ExceptSeq
  <2> QED
    BY <1>3, <1>5, <2>2, <2>4
<1> QED
  BY <1>2, <1>4, <1>5 DEF LineFault

-----------------------------------------------------------------------------
(* The end of a call. *)

\* A position that is valid is a reading of the sensor.
LEMMA ValidReading ==
  ASSUME NEW r \in Status, r.pvld
  PROVE  r.pos \in Readings
<1>1. NoStatus.pvld = FALSE
  BY DEF NoStatus
<1>2. r # NoStatus
  BY <1>1
<1>3. r \in [pvld : {TRUE}, pos : Readings]
  BY <1>2 DEF Status
<1> QED
  BY <1>3

\* What the driver computes from an outcome stays in its type.
LEMMA ReturnTypes ==
  ASSUME ThrottleTypes, NEW ok \in BOOLEAN, NEW r \in Status, Returns(ok, r)
  PROVE  /\ posMin' \in 0..PosMax
         /\ cal' \in [min : 0..PosMax, prev : Int]
         /\ last_req' \in Floats /\ cur_position' \in Floats /\ stat' \in Status
<1> USE DEF ThrottleTypes
<1>0. [min |-> PosMax, prev |-> -(2 * Epsilon)] \in [min : 0..PosMax, prev : Int]
  <2>1. PosMax \in 0..PosMax /\ -(2 * Epsilon) \in Int
    BY ThrottleAssumption
  <2> QED
    BY <2>1
<1>1. CASE ConfigureReturns(ok)
  BY <1>1 DEF ConfigureReturns, Keep
<1>2. CASE CalibrateReturns(ok)
  BY <1>0, <1>2 DEF CalibrateReturns, Floats
<1>3. CASE SampleReturns(ok, r)
  <2>1. CASE ok /\ r.pvld
    <3>1. r.pos \in Nat
      BY <2>1, ValidReading, ThrottleAssumption
    <3>2. CalibrationStep(r.pos) /\ UNCHANGED <<last_req, cur_position, stat>>
      BY <1>3, <2>1 DEF SampleReturns
    <3>3. cal.min \in 0..PosMax /\ cal.prev \in Int /\ PosMax \in Nat
      BY <3>1, ThrottleAssumption
    <3>4. cal' = cal \/ cal' = [min |-> IF Close(r.pos, cal.prev) /\ r.pos < cal.min
                                        THEN r.pos ELSE cal.min, prev |-> r.pos]
      BY <3>2 DEF CalibrationStep
    <3>5. cal' \in [min : 0..PosMax, prev : Int]
      BY <3>1, <3>3, <3>4
    <3>6. posMin' = posMin \/ posMin' = cal.min
      BY <3>2 DEF CalibrationStep
    <3>7. posMin' \in 0..PosMax
      BY <3>3, <3>6
    <3> QED
      BY <3>2, <3>5, <3>7
  <2>2. CASE ~(ok /\ r.pvld)
    BY <1>3, <2>2 DEF SampleReturns
  <2> QED
    BY <2>1, <2>2
<1>4. CASE SetIdleReturns
  BY <1>0, <1>4 DEF SetIdleReturns
<1>5. CASE IdleReturns(ok)
  BY <1>5 DEF IdleReturns, Keep
<1>6. CASE SetupReturns(ok)
  BY <1>6 DEF SetupReturns, Keep
<1>7. CASE PollReturns(ok, r)
  <2> DEFINE s == IF ok THEN r ELSE stat
  <2>1. s \in Status /\ stat' = s /\ UNCHANGED <<posMin, cal, seen, last_req>>
    BY <1>7 DEF PollReturns
  <2>2. cur_position' = IF s.pvld /\ s.pos > Absurd THEN avr2pos(s.pos) ELSE last_req
    BY <1>7 DEF PollReturns
  <2> HIDE DEF s
  <2>3. ASSUME s.pvld PROVE avr2pos(s.pos) \in Floats
    <3>0. s.pos \in Readings
      BY <2>1, <2>3, ValidReading, Zenon
    <3>1. CASE posMin = PosMax
      BY <3>1 DEF avr2pos, Floats, NonFinite
    <3>2. CASE posMin # PosMax
      <4>1. \A v \in Readings : (v - posMin) * Full \in Int
        BY ThrottleAssumption
      <4>2. (s.pos - posMin) * Full \in Int
        BY <3>0, <4>1, Zenon
      <4>3. PosMax - posMin \in Nat \ {0}
        BY <3>2, ThrottleAssumption
      <4>4. ((s.pos - posMin) * Full) \div (PosMax - posMin) \in Int
        BY <4>2, <4>3
      <4> QED
        BY <3>2, <4>4 DEF avr2pos, Floats
    <3> QED
      BY <3>1, <3>2
  <2> QED
    BY <2>1, <2>2, <2>3
<1>8. CASE GetCmdReturns
  BY <1>8 DEF GetCmdReturns, Keep
<1>9. CASE ShutdownReturns
  BY <1>9 DEF ShutdownReturns, Keep
<1>10. CASE CloseReturns
  BY <1>10 DEF CloseReturns, Keep
<1> QED
  BY <1>1, <1>2, <1>3, <1>4, <1>5, <1>6, <1>7, <1>8, <1>9, <1>10 DEF Returns

\* A call that returns leaves nothing behind that could pass for another one.
LEMMA ReturnKeeps ==
  ASSUME ThrottleInv, NEW ok \in BOOLEAN, NEW r \in Status, op # NoOp, ok => done,
         Returns(ok, r), fromAvr' \in Seq(Responses)
  PROVE  ThrottleInv'
<1>0. /\ ThrottleTypes
      /\ op' = NoOp /\ done' = FALSE /\ UNCHANGED <<next_seq, target, toAvr>>
      /\ goal' = IF ok /\ op.com = "GOTO" THEN op.data ELSE goal
  BY DEF ThrottleInv, Returns
<1>1. ThrottleTypes'
  <2>1. done' \in BOOLEAN /\ op' \in Commands \cup {NoOp}
    BY <1>0, Zenon
  <2>2. /\ posMin' \in 0..PosMax
        /\ cal' \in [min : 0..PosMax, prev : Int]
        /\ last_req' \in Floats /\ cur_position' \in Floats /\ stat' \in Status
    BY <1>0, ReturnTypes
  <2> QED
    BY <1>0, <2>1, <2>2 DEF ThrottleTypes
<1>2. (InOrder /\ DoneIsLast /\ AnswersTrue)'
  BY <1>0 DEF InOrder, DoneIsLast, AnswersTrue
<1>3. GoalHeld'
  <2>0. op'.com # "GOTO"
    BY <1>0 DEF NoOp
  <2>1. CASE ok /\ op.com = "GOTO"
    BY <1>0, <2>0, <2>1 DEF ThrottleInv, DoneIsLast, GoalHeld
  <2>2. CASE ~(ok /\ op.com = "GOTO")
    BY <1>0, <2>0, <2>2 DEF ThrottleInv, GoalHeld
  <2> QED
    BY <2>1, <2>2
<1> QED
  BY <1>1, <1>2, <1>3 DEF ThrottleInv

\* A call returns success only on an answer to the command itself, and it has
\* been carried out then (validate_response).
LEMMA ReceiveTruth ==
  ASSUME ThrottleInv, Receive
  PROVE  /\ op # NoOp /\ done
         /\ Head(fromAvr).stat \in Status /\ fromAvr' \in Seq(Responses)
<1>1. fromAvr \in Seq(Responses) /\ fromAvr # <<>> /\ fromAvr' = Tail(fromAvr)
  BY DEF ThrottleInv, ThrottleTypes, Receive
<1>2. /\ Head(fromAvr) = fromAvr[1] /\ Head(fromAvr) \in Responses /\ 1 \in 1..Len(fromAvr)
      /\ fromAvr' \in Seq(Responses)
  BY <1>1, TailOfSeq
<1>3. op # NoOp /\ fromAvr[1].seq = op.seq /\ fromAvr[1].com # "NAK"
  BY <1>2 DEF Receive, validate_response
<1> QED
  BY <1>2, <1>3 DEF ThrottleInv, AnswersTrue, Responses

\* A failed attempt is repeated or ends the call (servo_cmd).
LEMMA RetryKeeps ==
  ASSUME ThrottleInv, op # NoOp, Retry
  PROVE  ThrottleInv'
<1>0. ThrottleTypes
  BY DEF ThrottleInv
<1>1. CASE attempts > 1
  <2>1. /\ Transmit(op, op.seq)
        /\ UNCHANGED <<op, next_seq, posMin, cal, last_req, cur_position, stat, done, target, goal>>
    BY <1>1 DEF Retry
  <2>2. /\ toAvr' \in Seq(Commands) /\ fromAvr' \in Seq(Responses)
        /\ (InOrder /\ DoneIsLast /\ AnswersTrue /\ GoalHeld)'
    BY <2>1, RepeatKeeps
  <2>3. ThrottleTypes'
    BY <1>0, <2>1, <2>2 DEF ThrottleTypes
  <2> QED
    BY <2>2, <2>3 DEF ThrottleInv
<1>2. CASE ~(attempts > 1)
  <2>1. Returns(FALSE, NoStatus) /\ fromAvr' \in Flush(fromAvr)
    BY <1>2 DEF Retry
  <2>2. fromAvr' \in Seq(Responses)
    BY <1>0, <2>1, FlushLeavesEnd DEF ThrottleTypes
  <2>3. NoStatus \in Status
    BY DEF Status
  <2> QED
    BY <2>1, <2>2, <2>3, ReturnKeeps
<1> QED
  BY <1>1, <1>2

-----------------------------------------------------------------------------
(* The driver's calls. *)

\* A position asked for becomes a number (pos2avr), a NaN too.
LEMMA PositionIsNumber ==
  ASSUME ThrottleTypes, NEW p \in Floats
  PROVE  limit_travel(p) \in Floats /\ pos2avr(limit_travel(p)) \in Int
<1>1. limit_travel(p) \in Int \cup {NaN}
  BY ThrottleAssumption DEF limit_travel, Floats, NonFinite
<1>2. CASE limit_travel(p) = NaN
  BY <1>2 DEF pos2avr, Floats, NonFinite
<1>3. CASE limit_travel(p) \in Int
  <2>1. PICK q \in Int : q = limit_travel(p)
    BY <1>3
  <2>2. 2 * q * (PosMax - posMin) + Full \in Int /\ 2 * Full \in Nat \ {0}
    BY <2>1, ThrottleAssumption DEF ThrottleTypes
  <2>3. (2 * q * (PosMax - posMin) + Full) \div (2 * Full) \in Int
    BY <2>2
  <2>4. pos2avr(q) \in Int
    BY <2>3 DEF pos2avr, ThrottleTypes
  <2> QED
    BY <1>3, <2>1, <2>4 DEF Floats
<1> QED
  BY <1>1, <1>2, <1>3

\* The commands of configuration, calibration and status.
LEMMA CallKeeps ==
  ASSUME ThrottleInv, NEW com \in {"CONFIG", "GOTO", "STATUS", "SET_IDLE"}, NEW data \in Int,
         Send(com, data), posMin' = posMin, cal' = cal, last_req' \in Floats,
         cur_position' = cur_position, stat' = stat
  PROVE  ThrottleInv'
<1>1. /\ next_seq' \in 0..(SeqMod - 1) /\ op' \in Commands /\ done' = FALSE
      /\ toAvr' \in Seq(Commands) /\ fromAvr' \in Seq(Responses)
      /\ (InOrder /\ DoneIsLast /\ AnswersTrue /\ GoalHeld)'
  BY SendKeeps
<1>2. done' \in BOOLEAN
  BY <1>1, Zenon
<1>3. ThrottleTypes'
  BY <1>1, <1>2 DEF ThrottleInv, ThrottleTypes
<1> QED
  BY <1>1, <1>3 DEF ThrottleInv

\* throttle_absolute, whoever calls it.
LEMMA AbsoluteKeeps ==
  ASSUME ThrottleInv, NEW p \in Floats, throttle_absolute(p)
  PROVE  ThrottleInv'
<1>1. limit_travel(p) \in Floats /\ pos2avr(limit_travel(p)) \in Int
  BY PositionIsNumber DEF ThrottleInv
<1>2. /\ last_req' = limit_travel(p) /\ Send("GOTO", pos2avr(limit_travel(p)))
      /\ UNCHANGED <<posMin, cal, cur_position, stat>>
  BY DEF throttle_absolute
<1> QED
  BY <1>1, <1>2, CallKeeps

\* Steps that neither call nor touch the line.
LEMMA IdleKeeps ==
  ASSUME ThrottleInv, NoCall, Keep
  PROVE  ThrottleInv'
  BY DEF NoCall, Keep, lineVars, ThrottleInv, ThrottleTypes, InOrder, DoneIsLast,
         AnswersTrue, GoalHeld

\* The driver crashes, or a new process starts.
LEMMA CrashKeeps ==
  ASSUME ThrottleInv, Crash
  PROVE  ThrottleInv'
<1>1. /\ op' = NoOp /\ done' = FALSE /\ Keep
      /\ UNCHANGED <<next_seq, lineVars, target, goal>>
  BY DEF Crash
<1>2. op'.com # "GOTO" /\ op' \in Commands \cup {NoOp} /\ done' \in BOOLEAN
  BY <1>1, Zenon DEF NoOp
<1>3. ThrottleTypes'
  BY <1>1, <1>2 DEF ThrottleInv, ThrottleTypes, Keep, lineVars
<1> QED
  BY <1>1, <1>2, <1>3 DEF ThrottleInv, InOrder, DoneIsLast, AnswersTrue, GoalHeld, lineVars

\* When a process has ended no call is in progress.
EndedIsIdle == phase = "ended" => op = NoOp

\* A new process (Restart) numbers its commands from zero on an empty line, while the
\* servo keeps its target; the invariant holds of it too.
LEMMA RestartKeeps ==
  ASSUME ThrottleInv, EndedIsIdle, Restart
  PROVE  ThrottleInv'
<1>1. /\ op = NoOp /\ op' = NoOp /\ UNCHANGED <<done, target, goal>>
      /\ toAvr' = <<>> /\ fromAvr' = <<>>
  BY DEF Restart, EndedIsIdle
<1>2. ThrottleTypes'
  <2>1. cal' = [min |-> PosMax, prev |-> -(2 * Epsilon)]
    BY DEF Restart, Started
  <2>2. next_seq' \in 0..(SeqMod - 1) /\ posMin' \in 0..PosMax
        /\ PosMax \in 0..PosMax /\ -(2 * Epsilon) \in Int
        /\ last_req' \in Floats /\ cur_position' \in Floats
    BY ThrottleAssumption DEF Restart, Floats
  <2>3. toAvr' \in Seq(Commands) /\ fromAvr' \in Seq(Responses)
    BY <1>1
  <2>4. cal' \in [min : 0..PosMax, prev : Int]
    BY <2>1, <2>2
  <2>5. op' \in Commands \cup {NoOp} /\ stat' \in Status /\ done' \in BOOLEAN
    BY <1>1, Zenon DEF Restart, Status, ThrottleInv, ThrottleTypes
  <2> QED
    BY <2>2, <2>3, <2>4, <2>5 DEF ThrottleTypes
<1>3. op'.com # "GOTO" /\ ~done
  BY <1>1 DEF NoOp, ThrottleInv, DoneIsLast
<1> QED
  BY <1>1, <1>2, <1>3 DEF ThrottleInv, InOrder, DoneIsLast, AnswersTrue, GoalHeld

-----------------------------------------------------------------------------
\* A command is only begun in a phase that has one, so none is in an ended process.
LEMMA EndedNext == EndedIsIdle /\ [Next]_vars => EndedIsIdle'
<1> SUFFICES ASSUME EndedIsIdle, [Next]_vars PROVE EndedIsIdle'
  OBVIOUS
<1> USE DEF EndedIsIdle
<1>1. CASE configure_controller
  BY <1>1 DEF configure_controller, Unmoved, ConfigSteps, Send
<1>2. CASE calibrate_idle
  BY <1>2 DEF calibrate_idle, Unmoved
<1>3. CASE query_status
  BY <1>3 DEF query_status, Unmoved
<1>4. CASE GoIdle
  BY <1>4 DEF GoIdle
<1>5. ASSUME NEW m \in Requests, GetCmd(m) PROVE EndedIsIdle'
  BY <1>5 DEF GetCmd, Goto
<1>6. CASE SpinEmpty
  BY <1>6 DEF SpinEmpty, Goto
<1>7. CASE Shutdown
  BY <1>7 DEF Shutdown, Goto
<1>8. CASE Receive
  BY <1>8 DEF Receive, Returns
<1>9. CASE Retry
  BY <1>9 DEF Retry, Returns
<1>10. CASE AvrCommand
  BY <1>10 DEF AvrCommand, hostVars
<1>11. CASE LineFault
  BY <1>11 DEF LineFault, hostVars
<1>12. CASE Crash
  BY <1>12 DEF Crash
<1>13. CASE Restart
  BY <1>13 DEF Restart
<1>14. CASE UNCHANGED vars
  BY <1>14 DEF vars, hostVars
<1> QED
  BY <1>1, <1>2, <1>3, <1>4, <1>5, <1>6, <1>7, <1>8, <1>9, <1>10, <1>11, <1>12, <1>13, <1>14
     DEF Next, BadResponse, Timeout

\* Every step keeps the invariant.
LEMMA ThrottleNext == ThrottleInv /\ EndedIsIdle /\ [Next]_vars => ThrottleInv'
<1> SUFFICES ASSUME ThrottleInv, EndedIsIdle, [Next]_vars PROVE ThrottleInv'
  OBVIOUS
<1>0. last_req \in Floats /\ posMin \in Int /\ cur_position \in Floats
  BY ThrottleAssumption DEF ThrottleInv, ThrottleTypes
<1>1. CASE configure_controller
  <2>1. Send("CONFIG", 0) /\ UNCHANGED <<posMin, cal, last_req, cur_position, stat>>
    BY <1>1 DEF configure_controller, Unmoved
  <2> QED
    BY <1>0, <2>1, CallKeeps
<1>2. CASE calibrate_idle
  <2>1. /\ Send("GOTO", 0) \/ Send("STATUS", 0) \/ Send("SET_IDLE", posMin)
        /\ UNCHANGED <<posMin, cal, last_req, cur_position, stat>>
    BY <1>2 DEF calibrate_idle, Unmoved
  <2> QED
    BY <1>0, <2>1, CallKeeps
<1>3. CASE query_status
  <2>1. Send("STATUS", 0) /\ UNCHANGED <<posMin, cal, last_req, cur_position, stat>>
    BY <1>3 DEF query_status, Unmoved
  <2> QED
    BY <1>0, <2>1, CallKeeps
<1>4. CASE GoIdle
  BY <1>4, AbsoluteKeeps DEF GoIdle, Floats
<1>5. ASSUME NEW m \in Requests, GetCmd(m) PROVE ThrottleInv'
  <2>1. m.position \in Int
    <3>1. m.position \in Positions \cup {-p : p \in Positions}
      BY DEF Requests
    <3>2. \A p \in Positions : p \in Int /\ -p \in Int
      BY ThrottleAssumption
    <3> QED
      BY <3>1, <3>2
  <2>2. CASE training \/ m.request = "Other"
    BY <1>5, <2>2, IdleKeeps DEF GetCmd
  <2>3. CASE ~(training \/ m.request = "Other")
    <3>1. \/ throttle_absolute(m.position)
          \/ throttle_absolute(Moved(cur_position, m.position))
      BY <1>5, <2>3 DEF GetCmd
    <3>2. m.position \in Floats /\ Moved(cur_position, m.position) \in Floats
      BY <1>0, <2>1 DEF Moved, Floats
    <3> QED
      BY <3>1, <3>2, AbsoluteKeeps
  <2> QED
    BY <2>2, <2>3
<1>6. CASE SpinEmpty
  BY <1>6, IdleKeeps DEF SpinEmpty
<1>7. CASE Shutdown
  BY <1>7, IdleKeeps DEF Shutdown
<1>8. CASE Receive
  <2>1. Returns(TRUE, Head(fromAvr).stat)
    BY <1>8 DEF Receive
  <2> QED
    BY <1>8, <2>1, ReceiveTruth, ReturnKeeps
<1>9. CASE op # NoOp /\ Retry
  BY <1>9, RetryKeeps
<1>10. CASE AvrCommand
  BY <1>10, AvrKeeps
<1>11. CASE LineFault
  BY <1>11, FaultKeeps
<1>12. CASE Crash
  BY <1>12, CrashKeeps
<1>13. CASE Restart
  BY <1>13, RestartKeeps
<1>14. CASE UNCHANGED vars
  BY <1>14 DEF vars, hostVars, lineVars, ThrottleInv, ThrottleTypes, InOrder, DoneIsLast,
               AnswersTrue, GoalHeld
<1> QED
  BY <1>1, <1>2, <1>3, <1>4, <1>5, <1>6, <1>7, <1>8, <1>9, <1>10, <1>11, <1>12, <1>13, <1>14
     DEF Next, BadResponse, Timeout

-----------------------------------------------------------------------------
(* The results. *)

\* The invariant and EndedIsIdle hold together in every behaviour.
LEMMA ThrottleAlways == Spec => [](ThrottleInv /\ EndedIsIdle)
<1>1. Init => EndedIsIdle
  BY DEF Init, EndedIsIdle
<1> QED
  BY <1>1, ThrottleInit, ThrottleNext, EndedNext, PTL DEF Spec

\* When throttle_absolute has returned success the controller holds that position
\* until another one is asked for, whatever copies of commands and answers the
\* serial line still holds (servo_cmd, format_cmd).
THEOREM ThrottleHoldsTarget == Spec => []TargetHeld
<1>1. ThrottleInv => TargetHeld
  BY DEF ThrottleInv, GoalHeld, TargetHeld
<1> QED
  BY <1>1, ThrottleAlways, PTL

\* A step of the driver is a step of the caller's view or changes nothing there.
LEMMA CallStep ==
  ASSUME ThrottleInv, ThrottleInv', [Next]_vars
  PROVE  [Caller!Next]_(Caller!callVars)
<1> USE DEF Caller!Next, Caller!callVars
<1>0. NoOp \notin Commands
  BY NoOpIsNone
<1>1. ASSUME NEW com, NEW data, Send(com, data)
      PROVE  Caller!Start
  <2>1. op = NoOp /\ op'.com = com /\ done' = FALSE /\ rc' = rc
    BY <1>1 DEF Send, format_cmd
  <2>2. op' # NoOp
    <3>1. op'.seq = next_seq' /\ next_seq' \in 0..(SeqMod - 1)
      BY <1>1 DEF ThrottleInv, ThrottleTypes, Send, format_cmd
    <3>2. op'.seq # -1
      BY <3>1, ThrottleAssumption
    <3> QED
      BY <3>2 DEF NoOp
  <2> QED
    BY <2>1, <2>2 DEF Caller!Start, ThrottleInv, ThrottleTypes, Commands
<1>2. ASSUME NEW p, throttle_absolute(p) PROVE Caller!Start
  BY <1>1, <1>2 DEF throttle_absolute
<1>3. CASE configure_controller \/ calibrate_idle \/ query_status \/ GoIdle
  BY <1>1, <1>2, <1>3 DEF configure_controller, calibrate_idle, query_status, GoIdle
<1>4. ASSUME NEW m \in Requests, GetCmd(m) PROVE [Caller!Next]_(Caller!callVars)
  BY <1>2, <1>4 DEF GetCmd, NoCall
<1>5. CASE SpinEmpty \/ Shutdown
  BY <1>5 DEF SpinEmpty, Shutdown, NoCall
<1>6. CASE Receive
  <2>1. op # NoOp /\ done
    BY <1>6, ReceiveTruth
  <2>2. op' = NoOp /\ done' = FALSE /\ rc' = "ok"
    BY <1>6 DEF Receive, Returns
  <2> QED
    BY <2>1, <2>2 DEF Caller!Return
<1>7. CASE op # NoOp /\ Retry
  <2>1. CASE UNCHANGED <<op, done, rc>>
    BY <2>1
  <2>2. CASE Returns(FALSE, NoStatus)
    BY <1>7, <2>2 DEF Returns, Caller!Return
  <2> QED
    BY <1>7, <2>1, <2>2 DEF Retry
<1>8. CASE AvrCommand
  <2>1. UNCHANGED <<op, rc>>
    BY <1>8 DEF AvrCommand, hostVars
  <2>2. CASE done' = done
    BY <2>1, <2>2
  <2>3. CASE done' # done
    <3>1. done' = (done \/ Head(toAvr).seq = op.seq)
      BY <1>8, <2>3 DEF AvrCommand
    <3>2. done' = TRUE
      BY <2>3, <3>1 DEF ThrottleInv, ThrottleTypes
    <3>3. op # NoOp
      BY <2>1, <3>2 DEF ThrottleInv, DoneIsLast
    <3> QED
      BY <2>1, <3>2, <3>3 DEF Caller!Execute
  <2> QED
    BY <2>2, <2>3
<1>9. CASE LineFault
  BY <1>9 DEF LineFault, hostVars
<1>10. CASE Crash
  <2>1. CASE op = NoOp
    <3>1. op' = op /\ rc' = rc /\ done' = FALSE /\ done = FALSE
      BY <1>10, <2>1 DEF Crash, ThrottleInv, ThrottleTypes, DoneIsLast
    <3> QED
      BY <3>1
  <2>2. CASE op # NoOp
    BY <1>10, <2>2 DEF Crash, Caller!Return
  <2> QED
    BY <2>1, <2>2
<1>11. CASE Restart
  BY <1>11 DEF Restart
<1>12. CASE UNCHANGED vars
  BY <1>12 DEF vars, hostVars
<1> QED
  BY <1>3, <1>4, <1>5, <1>6, <1>7, <1>8, <1>9, <1>10, <1>11, <1>12
     DEF Next, BadResponse, Timeout

\* The driver on its unreliable line implements the call of ServoCall: it reports
\* success only for a command that the controller has carried out since the call
\* began (servo_cmd, validate_response).
THEOREM ThrottleImplementsCall == Spec => CallImplemented
<1>1. Init => Caller!Init
  BY DEF Init, Caller!Init
<1>2. ThrottleInv /\ ThrottleInv' /\ [Next]_vars => [Caller!Next]_(Caller!callVars)
  BY CallStep
<1> QED
  BY <1>1, <1>2, ThrottleAlways, PTL DEF Spec, CallImplemented, Caller!Spec

-----------------------------------------------------------------------------
(* The calibration of the idle position. *)

\* The phases before the first sample.
Uncalibrated == {"config1", "config2", "config3", "config4", "config5", "calibrate"}

\* What calibrate_idle knows between two samples: the minimum is a value that was
\* confirmed, and none below it was.
Sampling ==
    /\ seen.prev = cal.prev
    /\ seen.times \in [Readings -> 0..2]
    /\ cal.min = PosMax \/ (cal.min \in Readings /\ seen.times[cal.min] >= 1)
    /\ \A v \in Readings : v < cal.min => seen.times[v] = 0

CalibrationInv ==
    /\ phase \in Uncalibrated => seen = NothingSeen
    /\ phase = "sample" => Sampling
    /\ CalibrationConfirmed

\* A reading that is close to the one before it is counted, no other count changes.
LEMMA RecordCounts ==
  ASSUME Sampling, NEW pos \in Readings, Record(pos)
  PROVE  /\ seen'.prev = pos
         /\ seen'.times \in [Readings -> 0..2]
         /\ \A v \in Readings \ {pos} : seen'.times[v] = seen.times[v]
         /\ IF Close(pos, cal.prev) THEN /\ seen'.times[pos] >= 1
                                         /\ seen.times[pos] >= 1 => seen'.times[pos] >= 2
                                    ELSE seen'.times[pos] = seen.times[pos]
<1>1. seen.prev = cal.prev /\ seen.times \in [Readings -> 0..2] /\ seen.times[pos] \in 0..2
  BY DEF Sampling
<1>2. /\ seen'.prev = pos
      /\ seen'.times = IF Close(pos, cal.prev) /\ seen.times[pos] < 2
                       THEN [seen.times EXCEPT ![pos] = seen.times[pos] + 1] ELSE seen.times
  BY <1>1 DEF Record
<1>3. CASE Close(pos, cal.prev) /\ seen.times[pos] < 2
  <2>1. seen'.times = [seen.times EXCEPT ![pos] = seen.times[pos] + 1]
    BY <1>2, <1>3
  <2>2. seen.times[pos] + 1 \in 0..2
    BY <1>1, <1>3
  <2> QED
    BY <1>1, <1>2, <1>3, <2>1, <2>2
<1>4. CASE ~(Close(pos, cal.prev) /\ seen.times[pos] < 2)
  BY <1>1, <1>2, <1>4
<1> QED
  BY <1>3, <1>4

\* One turn of the loop of calibrate_idle.
LEMMA SampleKeeps ==
  ASSUME ThrottleTypes, Sampling, NEW pos \in Readings, CalibrationStep(pos), Record(pos)
  PROVE  CalibrationInv'
<1>1. /\ cal.min \in 0..PosMax /\ cal.prev \in Int /\ pos \in Nat
      /\ \A v \in Readings : v \in Nat
      /\ PosMax \in Nat /\ Epsilon \in Nat
  BY ThrottleAssumption DEF ThrottleTypes
<1>2. /\ seen'.prev = pos
      /\ seen'.times \in [Readings -> 0..2]
      /\ \A v \in Readings \ {pos} : seen'.times[v] = seen.times[v]
      /\ IF Close(pos, cal.prev) THEN /\ seen'.times[pos] >= 1
                                      /\ seen.times[pos] >= 1 => seen'.times[pos] >= 2
                                 ELSE seen'.times[pos] = seen.times[pos]
  BY RecordCounts
<1>3. phase' \in {"ended", "sample", "setidle"}
  BY DEF CalibrationStep, Goto
<1>4. CASE phase' = "ended"
  BY <1>4 DEF CalibrationInv, Uncalibrated, CalibrationConfirmed
<1>5. CASE phase' = "sample"
  <2>1. cal' = [min |-> IF Close(pos, cal.prev) /\ pos < cal.min THEN pos ELSE cal.min,
                prev |-> pos]
        /\ ~(Close(pos, cal.prev) /\ ~(pos < cal.min) /\ pos < cal.min + Epsilon)
    BY <1>5 DEF CalibrationStep, Goto
  <2>2. CASE Close(pos, cal.prev) /\ pos < cal.min
    <3>1. cal'.min = pos /\ cal'.prev = pos
      BY <2>1, <2>2
    <3>2. \A v \in Readings : v < pos => seen'.times[v] = 0
      BY <1>1, <1>2, <2>2 DEF Sampling
    <3>3. Sampling'
      BY <1>1, <1>2, <2>2, <3>1, <3>2 DEF Sampling
    <3> QED
      BY <1>5, <3>3 DEF CalibrationInv, Uncalibrated, CalibrationConfirmed
  <2>3. CASE ~(Close(pos, cal.prev) /\ pos < cal.min)
    <3>1. cal'.min = cal.min /\ cal'.prev = pos
      BY <2>1, <2>3
    <3>2. \A v \in Readings : v < cal.min => seen'.times[v] = 0
      BY <1>1, <1>2, <2>3 DEF Sampling
    <3>3. cal.min \in Readings => seen'.times[cal.min] >= seen.times[cal.min]
      BY <1>1, <1>2 DEF Sampling
    <3>4. cal.min = PosMax \/ (cal.min \in Readings /\ seen'.times[cal.min] >= 1)
      BY <1>2, <3>3 DEF Sampling
    <3>5. Sampling'
      BY <1>2, <3>1, <3>2, <3>4 DEF Sampling
    <3> QED
      BY <1>5, <3>5 DEF CalibrationInv, Uncalibrated, CalibrationConfirmed
  <2> QED
    BY <2>2, <2>3
<1>6. CASE phase' = "setidle"
  <2>1. /\ posMin' = cal.min /\ Close(pos, cal.prev) /\ ~(pos < cal.min)
        /\ pos < cal.min + Epsilon
    BY <1>6 DEF CalibrationStep, Goto
  <2>2. cal.min # PosMax => cal.min \in Readings /\ seen.times[cal.min] >= 1
    BY DEF Sampling
  <2>3. cal.min # PosMax => seen'.times[cal.min] >= 1
    BY <1>2, <2>1, <2>2
  <2>4. pos - cal.min \in 0..(Epsilon - 1)
    BY <1>1, <2>1
  <2>5. seen'.times[pos] >= IF pos = cal.min /\ cal.min # PosMax THEN 2 ELSE 1
    BY <1>2, <2>1, <2>2
  <2>6. \A v \in Readings : v < cal.min => seen'.times[v] = 0
    BY <1>1, <1>2, <2>1 DEF Sampling
  <2>7. CalibrationConfirmed'
    BY <2>1, <2>3, <2>4, <2>5, <2>6 DEF CalibrationConfirmed
  <2> QED
    BY <1>6, <2>7 DEF CalibrationInv, Uncalibrated
<1> QED
  BY <1>3, <1>4, <1>5, <1>6

\* The end of any call.
LEMMA ReturnCalibration ==
  ASSUME ThrottleTypes, CalibrationInv, NEW ok \in BOOLEAN, NEW r \in Status, Returns(ok, r)
  PROVE  CalibrationInv'
<1> USE DEF Goto
<1>0. ASSUME phase' \notin Uncalibrated \cup {"sample", "setidle"} PROVE CalibrationInv'
  BY <1>0 DEF CalibrationInv, CalibrationConfirmed
<1>1. CASE ConfigureReturns(ok)
  <2>1. phase \in Uncalibrated /\ phase' \in Uncalibrated \cup {"ended"} /\ seen' = seen
    BY <1>1 DEF ConfigureReturns, ConfigSteps, Uncalibrated, Keep
  <2> QED
    BY <2>1 DEF CalibrationInv, CalibrationConfirmed, Uncalibrated, NothingSeen
<1>2. CASE CalibrateReturns(ok)
  <2>1. CASE ok
    <3>1. /\ phase' = "sample" /\ seen' = NothingSeen
          /\ cal' = [min |-> PosMax, prev |-> -(2 * Epsilon)]
      BY <1>2, <2>1 DEF CalibrateReturns, CalibrationInv, Uncalibrated
    <3>2. Sampling'
      BY <3>1 DEF Sampling, NothingSeen
    <3> QED
      BY <3>1, <3>2 DEF CalibrationInv, CalibrationConfirmed, Uncalibrated
  <2>2. CASE ~ok
    BY <1>0, <1>2, <2>2 DEF CalibrateReturns, Uncalibrated
  <2> QED
    BY <2>1, <2>2
<1>3. CASE SampleReturns(ok, r)
  <2>1. CASE ok /\ r.pvld
    <3>1. r.pos \in Readings
      BY <2>1, ValidReading
    <3>2. Sampling /\ CalibrationStep(r.pos) /\ Record(r.pos)
      BY <1>3, <2>1 DEF SampleReturns, CalibrationInv
    <3> QED
      BY <3>1, <3>2, SampleKeeps
  <2>2. CASE ~(ok /\ r.pvld)
    BY <1>0, <1>3, <2>2 DEF SampleReturns, Uncalibrated
  <2> QED
    BY <2>1, <2>2
<1>4. CASE SetIdleReturns \/ IdleReturns(ok) \/ SetupReturns(ok) \/ PollReturns(ok, r)
  BY <1>0, <1>4 DEF SetIdleReturns, IdleReturns, SetupReturns, PollReturns, Uncalibrated
<1>5. CASE GetCmdReturns \/ ShutdownReturns \/ CloseReturns
  BY <1>0, <1>5 DEF GetCmdReturns, ShutdownReturns, CloseReturns, Uncalibrated
<1> QED
  BY <1>1, <1>2, <1>3, <1>4, <1>5 DEF Returns

\* Every step keeps the invariant.
LEMMA CalibrationNext ==
  ASSUME ThrottleInv, CalibrationInv, [Next]_vars
  PROVE  CalibrationInv'
<1>0. ASSUME phase' \notin Uncalibrated \cup {"sample", "setidle"} PROVE CalibrationInv'
  BY <1>0 DEF CalibrationInv, CalibrationConfirmed
<1>1. ASSUME UNCHANGED <<phase, cal, seen, posMin>> PROVE CalibrationInv'
  BY <1>1 DEF CalibrationInv, Sampling, NothingSeen, CalibrationConfirmed
<1>2. ThrottleTypes
  BY DEF ThrottleInv
<1>3. CASE configure_controller \/ calibrate_idle \/ query_status
  BY <1>1, <1>3 DEF configure_controller, calibrate_idle, query_status, Unmoved
<1>4. CASE GoIdle
  BY <1>1, <1>4 DEF GoIdle, throttle_absolute
<1>5. ASSUME NEW m \in Requests, GetCmd(m) PROVE CalibrationInv'
  BY <1>0, <1>5 DEF GetCmd, Goto, Uncalibrated
<1>6. CASE SpinEmpty \/ Shutdown
  BY <1>0, <1>6 DEF SpinEmpty, Shutdown, Goto, Uncalibrated
<1>7. CASE Receive
  <2>1. Returns(TRUE, Head(fromAvr).stat) /\ Head(fromAvr).stat \in Status
    BY <1>7, ReceiveTruth DEF Receive
  <2> QED
    BY <1>2, <2>1, ReturnCalibration
<1>8. CASE Retry
  <2>1. CASE attempts > 1
    BY <1>1, <1>8, <2>1 DEF Retry
  <2>2. CASE ~(attempts > 1)
    <3>1. Returns(FALSE, NoStatus) /\ NoStatus \in Status
      BY <1>8, <2>2 DEF Retry, Status
    <3> QED
      BY <1>2, <3>1, ReturnCalibration
  <2> QED
    BY <2>1, <2>2
<1>9. CASE AvrCommand \/ LineFault
  BY <1>1, <1>9 DEF AvrCommand, LineFault, hostVars
<1>10. CASE Crash
  BY <1>0, <1>10 DEF Crash, Goto, Uncalibrated
<1>11. CASE Restart
  <2>1. seen' = NothingSeen /\ phase' \in {"poll", "config1"}
    BY <1>11 DEF Restart, Started, ConfigSteps
  <2> QED
    BY <2>1 DEF CalibrationInv, CalibrationConfirmed, NothingSeen
<1>12. CASE UNCHANGED vars
  BY <1>1, <1>12 DEF vars, hostVars
<1> QED
  BY <1>3, <1>4, <1>5, <1>6, <1>7, <1>8, <1>9, <1>10, <1>11, <1>12
     DEF Next, BadResponse, Timeout

\* calibrate_idle takes as idle the lowest position that two successive readings
\* confirmed, and no value that was read only once, or else avr_pos_max, when a
\* reading next to it and none below it was confirmed: for every sensor, whatever
\* the line loses and whenever the driver is restarted.
THEOREM ThrottleCalibrates == Spec => []CalibrationConfirmed
<1>1. Init => CalibrationInv
  <2> SUFFICES ASSUME Init PROVE CalibrationInv
    OBVIOUS
  <2>1. seen = NothingSeen /\ phase \in {"poll", "config1"}
    BY DEF Init, Started, ConfigSteps
  <2> QED
    BY <2>1 DEF CalibrationInv, CalibrationConfirmed
<1>2. CalibrationInv => CalibrationConfirmed
  BY DEF CalibrationInv
<1> QED
  BY <1>1, <1>2, ThrottleAlways, CalibrationNext, PTL DEF Spec
=============================================================================
