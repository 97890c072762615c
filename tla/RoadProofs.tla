----------------------------- MODULE RoadProofs -----------------------------
(***************************************************************************)
(* Theorems about the road state machine of module Road, for every set of  *)
(* way-point kinds, every delay and every bound.                           *)
(***************************************************************************)
EXTENDS Road, TLAPS

USE KindsAssumption, WindowAssumption, DelayAssumption, ObjectsAssumption,
    FlagsAssumption

-----------------------------------------------------------------------------
(* The operators the actions are built from. *)

\* NavTimer::Check and Restart stay within the duration of the timer.
LEMMA TimerTypes ==
  ASSUME NEW d \in Nat \ {0}, NEW t \in Timers(d)
  PROVE  /\ Checked(t) \in Timers(d)
         /\ Start(t, d) \in Timers(d)
         /\ Restart(t, d) \in Timers(d)
         /\ Cancelled \in Timers(d)
  BY DEF Timers, Checked, Start, Restart, Cancelled

\* Road::set_waypt_event raises only events of way-points.
LEMMA WayptEvent ==
  ASSUME NEW i, NEW event
  PROVE  set_waypt_event(i, event) \in
           {event, "Perimeter", "StopLine", "Uturn", "ChangeLane", "Merge"}
  BY DEF set_waypt_event

\* The part of the type invariant that Advance can change.
OrderTypeOK ==
  /\ w0 \in Kinds \cup {"uturn"} /\ w1 \in Kinds
  /\ ahead \in 0 .. N_WAYPTS - 1 /\ nu \in -1 .. 1
  /\ saved \in -1 .. N_WAYPTS - 1
  /\ yielded \in BOOLEAN /\ crossed \in BOOLEAN

\* Course::begin_run_cycle drops way-points the order holds.
LEMMA AdvanceType ==
  ASSUME OrderTypeOK, NEW n \in 0 .. 2, n <= ahead, UNCHANGED nu,
         NEW sv \in -1 .. N_WAYPTS - 1, Advance(n, sv)
  PROVE  OrderTypeOK'
<1>1. CASE n = 0
  BY <1>1 DEF OrderTypeOK, Advance
<1>2. CASE n > 0
  <2>1. w0' \in Kinds
    <3>1. CASE n = 1
      BY <3>1 DEF OrderTypeOK, Advance
    <3>2. CASE n = 2
      BY <3>2 DEF Advance
    <3> QED
      BY <1>2, <3>1, <3>2
  <2>2. ahead - n \in 0 .. N_WAYPTS - 1
    BY DEF OrderTypeOK
  <2>3. /\ saved' = -1 /\ w1' \in Kinds /\ ahead' = ahead - n
        /\ yielded' = (w0' # "stop")
        /\ crossed' = (w0' \notin {"stop", "exit"})
    BY <1>2 DEF Advance
  <2>4. -1 \in -1 .. N_WAYPTS - 1
    OBVIOUS
  <2>5. nu' \in -1 .. 1
    BY DEF OrderTypeOK
  <2>6. yielded' \in BOOLEAN /\ crossed' \in BOOLEAN
    BY <2>3
  <2>7. ahead' \in 0 .. N_WAYPTS - 1 /\ saved' \in -1 .. N_WAYPTS - 1
    BY <2>2, <2>3, <2>4
  <2>8. w0' \in Kinds \cup {"uturn"} /\ w1' \in Kinds
    BY <2>1, <2>3
  <2> QED
    BY <2>5, <2>6, <2>7, <2>8 DEF OrderTypeOK
<1> QED
  BY <1>1, <1>2

\* FollowLane::control reaches at most the way-points of the order.
LEMMA ReachedType ==
  ASSUME OrderTypeOK, ahead > 0, NEW i, Possible(i)
  PROVE  Reached(i) \in 0 .. 2 /\ Reached(i) <= ahead
  BY DEF Reached, Possible, OrderTypeOK, StopReached

\* FollowLane::control drives forward or halts, and checks the way-point.
LEMMA FollowLaneControlType ==
  ASSUME OrderTypeOK, ahead > 0, NEW i, NEW sv \in -1 .. N_WAYPTS - 1,
         FollowLaneControl(i, sv)
  PROVE  /\ OrderTypeOK'
         /\ plan' \in {"none", "lane"}
         /\ pcmd' \in {"halt", "go"}
         /\ checked' = TRUE
<1>1. OrderTypeOK'
  BY ReachedType, AdvanceType DEF FollowLaneControl
<1> QED
  BY <1>1 DEF FollowLaneControl, FindTravelLane, FollowSpeed

-----------------------------------------------------------------------------
(* Type correctness, events and reverse: these three are inductive together. *)

RoadInv == TypeOK /\ ValidEvents /\ ReverseOnlyInUturn

\* The events that each state has an entry for in the table.
LEMMA TableEntries ==
  /\ \A e \in {"None", "WaitPass", "Pass", "FollowLane"} :
       <<"Evade", e>> \in ValidPairs
  /\ \A e \in {"None", "FollowLane", "Block", "Collision", "Uturn", "Merge",
               "ChangeLane", "WaitPass", "StopLine", "Perimeter"} :
       <<"Follow", e>> \in ValidPairs
  /\ \A e \in {"None", "FollowLane", "Merge", "Perimeter"} :
       <<"Init", e>> \in ValidPairs
  /\ \A e \in {"None", "Pass", "Block", "FollowLane"} :
       <<"Pass", e>> \in ValidPairs
  /\ \A e \in {"None", "FollowLane"} : <<"Uturn", e>> \in ValidPairs
  /\ \A e \in {"None", "Merge", "FollowLane"} :
       <<"WaitCross", e>> \in ValidPairs
  /\ \A e \in {"None", "ChangeLane", "FollowLane"} :
       <<"WaitLane", e>> \in ValidPairs
  /\ \A e \in {"None", "WaitPass", "Pass", "Block", "Collision", "FollowLane"} :
       <<"WaitPass", e>> \in ValidPairs
  /\ \A e \in {"None", "StopLine", "Merge"} : <<"WaitStop", e>> \in ValidPairs
  /\ \A e \in {"None", "Perimeter"} : <<"Zone", e>> \in ValidPairs
  BY DEF ValidPairs, ttable

\* The type invariant in three parts, by what the variables range over.
TypeInts ==
  /\ ahead \in 0 .. N_WAYPTS - 1 /\ nu \in -1 .. 1
  /\ saved \in -1 .. N_WAYPTS - 1
  /\ passing_timer \in Timers(PassingDelay)
  /\ stop_line_timer \in Timers(StopLineDelay)
  /\ precedence_timer \in Timers(PrecedenceDelay)
  /\ prev_nobjects \in -1 .. MaxObjects
  /\ waited \in 0 .. StopLineDelay
  /\ quiet \in 0 .. PrecedenceDelay
  /\ patience \in 0 .. PassingDelay

TypeNames ==
  /\ state \in States
  /\ pending \in Events
  /\ status \in {"running", "aborted", "crashed"}
  /\ pcmd \in {"halt", "go", "back"}
  /\ w0 \in Kinds \cup {"uturn"} /\ w1 \in Kinds
  /\ plan \in {"none", "lane", "passing"}
  /\ passed_lane \in {"none", "lane", "passing"}
  /\ uturn \in {"Wait", "Forward", "Backward"}
  /\ lane_direction \in {"Straight", "Side"}

TypeFlags ==
  /\ checked \in BOOLEAN
  /\ road_blocked \in BOOLEAN /\ replan_waypt \in BOOLEAN
  /\ in_passing_lane \in BOOLEAN
  /\ do_init \in BOOLEAN /\ reverse \in BOOLEAN
  /\ obs_clear \in BOOLEAN /\ yielded \in BOOLEAN /\ crossed \in BOOLEAN
  /\ moved \in BOOLEAN

\* The parts make up the type invariant.
LEMMA TypeParts ==
  /\ TypeOK <=> TypeInts /\ TypeNames /\ TypeFlags
  /\ TypeOK => OrderTypeOK
  /\ TypeOK' <=> TypeInts' /\ TypeNames' /\ TypeFlags'
  BY DEF TypeOK, TypeInts, TypeNames, TypeFlags, OrderTypeOK

\* The parts of WaitPass and WaitStop that count.
LEMMA WaitPassType ==
  ASSUME TypeInts, NEW t \in Timers(PassingDelay), InWaitPass(t)
  PROVE  TypeInts'
<1>1. Checked(t) \in Timers(PassingDelay)
  BY TimerTypes
<1>2. CapTo(patience + 1, PassingDelay) \in 0 .. PassingDelay
  <2>1. patience + 1 \in Nat
    BY DEF TypeInts
  <2> QED
    BY <2>1 DEF CapTo
<1>3. /\ passing_timer' = Checked(t)
      /\ patience' \in {patience, CapTo(patience + 1, PassingDelay)}
      /\ UNCHANGED <<ahead, nu, saved, stop_line_timer, precedence_timer,
                     prev_nobjects, waited, quiet>>
  BY DEF InWaitPass, order, stopping
<1> QED
  BY <1>1, <1>2, <1>3 DEF TypeInts

\* ActionInWaitStop keeps its timers within their delays.
LEMMA WaitStopType ==
  ASSUME NEW st \in Timers(StopLineDelay), NEW pt \in Timers(PrecedenceDelay),
         NEW prev \in -1 .. MaxObjects, NEW q \in 0 .. PrecedenceDelay,
         InWaitStop(st, pt, prev, q)
  PROVE  /\ stop_line_timer' \in Timers(StopLineDelay)
         /\ precedence_timer' \in Timers(PrecedenceDelay)
         /\ prev_nobjects' \in -1 .. MaxObjects
         /\ quiet' \in 0 .. PrecedenceDelay
<1>1. PICK clear \in BOOLEAN, applicable \in BOOLEAN, n \in 0 .. MaxObjects :
        WaitStop(st, pt, prev, q, clear, applicable, n)
  BY DEF InWaitStop
<1>2. CapTo(q + 1, PrecedenceDelay) \in 0 .. PrecedenceDelay
  BY DEF CapTo
<1>3. prev_nobjects' \in -1 .. MaxObjects /\ quiet' \in 0 .. PrecedenceDelay
  BY <1>1, <1>2 DEF WaitStop
<1>4. stop_line_timer' \in {Cancelled, Checked(st)}
  BY <1>1 DEF WaitStop
<1>5. precedence_timer' \in {Cancelled, Checked(Cancelled), Checked(pt),
                            Checked(PrecedenceDelay)}
  BY <1>1 DEF WaitStop, Start
<1>6. {Cancelled, PrecedenceDelay} \subseteq Timers(PrecedenceDelay)
  BY DEF Timers, Cancelled
<1> QED
  BY <1>3, <1>4, <1>5, <1>6, TimerTypes

\* The actions that only halt, or in Zone drive on, and choose the next event.
LEMMA RestKeepsInv ==
  ASSUME RoadInv,
         \/ ActionInEvade \/ ActionToEvade \/ ActionInInit \/ ActionToZone
         \/ ActionError \/ HaltedCycle
  PROVE  RoadInv'
<1>0. TypeInts /\ TypeNames /\ TypeFlags
  BY TypeParts DEF RoadInv
<1>1. /\ UNCHANGED <<w0, w1, ahead, nu, saved, road_blocked, replan_waypt, plan,
           in_passing_lane, passed_lane, uturn, do_init, reverse,
           lane_direction, passing_timer, stop_line_timer, precedence_timer,
           prev_nobjects, waited, quiet, obs_clear, yielded, crossed>>
      /\ checked' \in BOOLEAN /\ pcmd' \in {"halt", "go"}
      /\ status' \in {status, "aborted"}
      /\ patience' \in {patience, 0} /\ moved' \in {moved, TRUE, FALSE}
  BY DEF ActionInEvade, ActionToEvade, ActionInInit, ActionToZone, ActionInZone,
         ActionError, HaltedCycle, Halt, order, blockage, passing, uturning,
         timers, ghosts, waiting, Driven
<1>2. /\ \/ UNCHANGED <<state, pending>>
         \/ state = "Block" /\ UNCHANGED state /\ pending' = "None"
         \/ state' = "Evade" /\ pending' \in {"None", "Pass"}
         \/ state' = "Init" /\ pending' \in {"Perimeter", "FollowLane"}
         \/ state' = "Zone" /\ pending' = "Perimeter"
      /\ state' # state => state # "Uturn" /\ state' # "Uturn"
  <2>1. CASE ActionError
    BY <2>1 DEF ActionError, RoadInv, ValidEvents
  <2>2. CASE HaltedCycle
    BY <2>2 DEF HaltedCycle
  <2>3. CASE ActionInEvade \/ ActionToEvade
    BY <2>3 DEF ActionInEvade, ActionToEvade, Control, ttable
  <2>4. CASE ActionInInit \/ ActionToZone
    BY <2>4 DEF ActionInInit, ActionToZone, ActionInZone, Control, ttable
  <2> QED
    BY <2>1, <2>2, <2>3, <2>4
<1>3. TypeInts'
  BY <1>0, <1>1 DEF TypeInts
<1>4. TypeNames'
  BY <1>0, <1>1, <1>2 DEF TypeNames, States, Events
<1>5. TypeFlags'
  BY <1>0, <1>1 DEF TypeFlags
<1>6. ValidEvents'
  BY <1>2, TableEntries DEF RoadInv, ValidEvents
<1>7. ReverseOnlyInUturn'
  BY <1>1, <1>2 DEF RoadInv, ReverseOnlyInUturn
<1> QED
  BY <1>3, <1>4, <1>5, <1>6, <1>7, TypeParts DEF RoadInv

\* The waiting states: the car halts, and only timers and counts change.
LEMMA WaitsKeepInv ==
  ASSUME RoadInv,
         \/ ActionInWaitCross \/ ActionToWaitCross \/ ActionZoneToWaitCross
         \/ ActionInWaitLane \/ ActionToWaitLane
         \/ ActionInWaitPass \/ ActionToWaitPass
         \/ ActionInWaitStop \/ ActionToWaitStop
  PROVE  RoadInv'
<1> USE DEF order, blockage, passing, uturning, timers, stopping, ghosts, waiting
<1>0. TypeInts /\ TypeNames /\ TypeFlags
  BY TypeParts DEF RoadInv
<1>1. /\ UNCHANGED <<w0, w1, ahead, nu, saved, road_blocked, replan_waypt, plan,
           in_passing_lane, passed_lane, uturn, do_init, reverse, status>>
      /\ pcmd' = "halt" /\ checked' = TRUE
  BY DEF ActionInWaitCross, ActionToWaitCross, ActionZoneToWaitCross, WaitCross,
         ActionInWaitLane, ActionToWaitLane, WaitLane, ActionInWaitPass,
         ActionToWaitPass, InWaitPass, ActionInWaitStop, ActionToWaitStop,
         InWaitStop, WaitStop, Halt
<1>2. state # "Uturn"
  BY DEF ActionInWaitCross, ActionToWaitCross, ActionZoneToWaitCross,
         ActionInWaitLane, ActionToWaitLane, ActionInWaitPass, ActionToWaitPass,
         ActionInWaitStop, ActionToWaitStop, Control, ttable
<1>3. /\ TypeInts'
      /\ lane_direction' \in {"Straight", "Side"}
      /\ obs_clear' \in BOOLEAN /\ yielded' \in BOOLEAN /\ crossed' \in BOOLEAN
      /\ moved' \in BOOLEAN
      /\ \/ state' = "WaitCross" /\ pending' \in {"None", "FollowLane"}
         \/ state' = "WaitLane" /\ pending' \in {"None", "FollowLane"}
         \/ /\ state' = "WaitPass"
            /\ pending' \in {"None", "FollowLane", "Collision", "Pass", "Block"}
         \/ state' = "WaitStop" /\ pending' \in {"None", "Merge"}
  <2>1. CASE ActionInWaitCross \/ ActionToWaitCross \/ ActionZoneToWaitCross
    <3>1. TypeInts'
      BY <1>0, <1>1, <2>1 DEF ActionInWaitCross, ActionToWaitCross,
         ActionZoneToWaitCross, WaitCross, TypeInts
    <3> QED
      BY <1>0, <2>1, <3>1 DEF ActionInWaitCross, ActionToWaitCross,
         ActionZoneToWaitCross, WaitCross, Control, TypeNames, TypeFlags
  <2>2. CASE ActionInWaitLane \/ ActionToWaitLane
    <3>1. TypeInts'
      BY <1>0, <1>1, <2>2 DEF ActionInWaitLane, ActionToWaitLane, WaitLane,
         TypeInts
    <3> QED
      BY <1>0, <2>2, <3>1 DEF ActionInWaitLane, ActionToWaitLane, WaitLane,
         Control, TypeNames, TypeFlags
  <2>3. CASE ActionInWaitPass \/ ActionToWaitPass
    <3>1. TypeInts'
      <4>1. Restart(passing_timer, PassingDelay) \in Timers(PassingDelay)
        BY <1>0, TimerTypes DEF TypeInts
      <4>2. CASE \E t \in Timers(PassingDelay) : InWaitPass(t)
        BY <1>0, <4>2, WaitPassType
      <4>3. CASE ~\E t \in Timers(PassingDelay) : InWaitPass(t)
        BY <1>0, <2>3, <4>1, <4>3 DEF ActionInWaitPass, ActionToWaitPass,
           TypeInts
      <4> QED
        BY <4>2, <4>3
    <3> QED
      BY <1>0, <2>3, <3>1 DEF ActionInWaitPass, ActionToWaitPass, InWaitPass,
         Control, TypeNames, TypeFlags
  <2>4. CASE ActionInWaitStop \/ ActionToWaitStop
    <3>1. PICK st \in Timers(StopLineDelay), pt \in Timers(PrecedenceDelay),
               prev \in -1 .. MaxObjects, q \in 0 .. PrecedenceDelay :
            InWaitStop(st, pt, prev, q)
      <4>1. CASE ActionInWaitStop
        BY <1>0, <4>1 DEF ActionInWaitStop, TypeInts
      <4>2. CASE ActionToWaitStop
        <5>1. /\ StopLineDelay \in Timers(StopLineDelay)
              /\ PrecedenceDelay \in Timers(PrecedenceDelay)
              /\ -1 \in -1 .. MaxObjects /\ 0 \in 0 .. PrecedenceDelay
          BY DEF Timers
        <5> QED
          BY <4>2, <5>1 DEF ActionToWaitStop, Start
      <4> QED
        BY <2>4, <4>1, <4>2
    <3>2. waited' \in 0 .. StopLineDelay
      BY <1>0, <2>4 DEF ActionInWaitStop, ActionToWaitStop, CapTo, TypeInts
    <3>3. TypeInts'
      BY <1>0, <1>1, <2>4, <3>1, <3>2, WaitStopType
         DEF ActionInWaitStop, ActionToWaitStop, TypeInts
    <3>4. /\ pending' \in {"None", "Merge"}
          /\ obs_clear' \in BOOLEAN /\ yielded' \in BOOLEAN
      BY <1>0, <3>1 DEF InWaitStop, WaitStop, TypeFlags
    <3> QED
      BY <1>0, <2>4, <3>3, <3>4 DEF ActionInWaitStop, ActionToWaitStop, Control,
         TypeNames, TypeFlags
  <2> QED
    BY <2>1, <2>2, <2>3, <2>4
<1>4. TypeNames'
  BY <1>0, <1>1, <1>3 DEF TypeNames, States, Events
<1>5. TypeFlags'
  BY <1>0, <1>1, <1>3 DEF TypeFlags
<1>6. ValidEvents'
  BY <1>3, TableEntries DEF ValidEvents
<1>7. ReverseOnlyInUturn'
  BY <1>1, <1>2, <1>3 DEF RoadInv, ReverseOnlyInUturn
<1> QED
  BY <1>3, <1>4, <1>5, <1>6, <1>7, TypeParts DEF RoadInv

-----------------------------------------------------------------------------
(* The actions that drive. *)

\* ActionInFollow, when the car is not in reverse.
LEMMA InFollowKeepsInv ==
  ASSUME RoadInv, ahead > 0, state' = "Follow", NEW rev, rev = FALSE,
         InFollow(rev)
  PROVE  RoadInv'
<1>0. TypeInts /\ TypeNames /\ TypeFlags /\ OrderTypeOK
  BY TypeParts DEF RoadInv
<1>1. PICK i \in FollowInputs :
        /\ FollowLaneControl(i, saved)
        /\ passing_timer' = IF i.stopped THEN passing_timer ELSE Cancelled
        /\ patience' = IF i.stopped THEN patience ELSE 0
        /\ moved' = (moved /\ i.stopped)
        /\ pending' = IF FollowLane(i) = "Blocked" THEN "WaitPass"
                      ELSE IF FollowLane(i) = "Collision" THEN "Collision"
                      ELSE set_waypt_event(i, "None")
  BY DEF InFollow
<1>2. /\ OrderTypeOK'
      /\ plan' \in {"none", "lane"} /\ pcmd' \in {"halt", "go"}
      /\ checked' = TRUE
  BY <1>0, <1>1, FollowLaneControlType DEF TypeInts
<1>3. pending' \in {"WaitPass", "Collision", "None", "Perimeter", "StopLine",
                    "Uturn", "ChangeLane", "Merge"}
  BY <1>1, WayptEvent
<1>4. /\ passing_timer' \in Timers(PassingDelay)
      /\ patience' \in 0 .. PassingDelay
      /\ moved' \in BOOLEAN
  BY <1>0, <1>1 DEF TypeInts, Timers, Cancelled
<1>5. /\ reverse' = FALSE
      /\ UNCHANGED <<status, road_blocked, replan_waypt, in_passing_lane,
           passed_lane, uturn, do_init, lane_direction, stop_line_timer,
           precedence_timer, prev_nobjects, waited, quiet, obs_clear>>
  BY DEF InFollow, blockage, passing, stopping
<1>6. TypeInts'
  BY <1>0, <1>2, <1>4, <1>5 DEF TypeInts, OrderTypeOK
<1>7. TypeNames'
  BY <1>0, <1>2, <1>3, <1>5 DEF TypeNames, OrderTypeOK, States, Events
<1>8. TypeFlags'
  BY <1>0, <1>2, <1>4, <1>5 DEF TypeFlags, OrderTypeOK
<1>9. ValidEvents'
  BY <1>3, TableEntries DEF ValidEvents
<1>10. ReverseOnlyInUturn'
  BY <1>2, <1>5 DEF ReverseOnlyInUturn
<1> QED
  BY <1>6, <1>7, <1>8, <1>9, <1>10, TypeParts DEF RoadInv

\* The ways into Follow: each clears reverse, or comes from Follow.
LEMMA FollowKeepsInv ==
  ASSUME RoadInv,
         \/ ActionInFollow \/ ActionToFollow \/ ActionPassToFollow
         \/ ActionWaitPassToFollow
  PROVE  RoadInv'
<1>1. ahead > 0 /\ state' = "Follow"
  BY DEF ActionInFollow, ActionToFollow, ActionPassToFollow,
         ActionWaitPassToFollow, Control
<1>2. CASE ActionInFollow
  <2>1. reverse = FALSE
    BY <1>2 DEF RoadInv, TypeOK, ReverseOnlyInUturn, ActionInFollow, Control,
                ttable
  <2> QED
    BY <1>1, <1>2, <2>1, InFollowKeepsInv DEF ActionInFollow
<1>3. CASE InFollow(FALSE)
  BY <1>1, <1>3, InFollowKeepsInv
<1> QED
  BY <1>2, <1>3 DEF ActionToFollow, ActionPassToFollow, ActionWaitPassToFollow

\* In Block the pending event may be any event of a way-point.
LEMMA RetryType ==
  ASSUME OrderTypeOK, moved \in BOOLEAN, ahead > 0,
         NEW blocked \in BOOLEAN, NEW replan \in BOOLEAN,
         NEW sv \in -1 .. N_WAYPTS - 1, RetryInBlock(blocked, replan, sv)
  PROVE  /\ OrderTypeOK'
         /\ plan' \in {"none", "lane"} /\ pcmd' \in {"halt", "go"}
         /\ checked' = TRUE
         /\ pending' \in Events
         /\ road_blocked' \in BOOLEAN /\ replan_waypt' \in BOOLEAN
         /\ patience' \in {patience, 0} /\ moved' \in BOOLEAN
<1>1. PICK i \in FollowInputs :
        /\ FollowLaneControl(i, sv)
        /\ pending' = IF FollowLane(i) = "Collision" THEN "Collision"
                      ELSE IF FollowLane(i) = "Blocked" THEN "None"
                      ELSE set_waypt_event(i, "FollowLane")
        /\ road_blocked' = (FollowLane(i) \in {"Collision", "Blocked"} /\ blocked)
        /\ replan_waypt' = (FollowLane(i) \in {"Collision", "Blocked"} /\ replan)
        /\ IF i.stopped THEN UNCHANGED waiting ELSE Driven
  BY DEF RetryInBlock
<1>2. pending' \in Events
  BY <1>1, WayptEvent DEF Events
<1>3. road_blocked' \in BOOLEAN /\ replan_waypt' \in BOOLEAN
  BY <1>1
<1>4. patience' \in {patience, 0} /\ moved' \in BOOLEAN
  BY <1>1 DEF waiting, Driven
<1> QED
  BY <1>1, <1>2, <1>3, <1>4, FollowLaneControlType

\* ActionToBlock with any plan, also the empty one that makes it throw.
LEMMA ToBlockKeepsInv ==
  ASSUME RoadInv, ahead > 0, state # "Uturn", state' = "Block",
         NEW p \in {"none", "lane", "passing"}, ToBlock(p),
         UNCHANGED <<passing, lane_direction, timers, prev_nobjects, waited,
                     quiet, obs_clear>>
  PROVE  RoadInv'
<1> USE DEF passing, timers, order, uturning, waiting
<1>0. TypeInts /\ TypeNames /\ TypeFlags /\ OrderTypeOK /\ reverse = FALSE
  BY TypeParts DEF RoadInv, ReverseOnlyInUturn, TypeFlags
<1>1. ValidEvents'
  BY DEF ValidEvents
<1>2. CASE p = "none"
  <2>1. /\ status' = "crashed" /\ pending' = "None" /\ road_blocked' = TRUE
        /\ saved' = ahead /\ plan' = p
        /\ UNCHANGED <<pcmd, checked, w0, w1, ahead, nu, replan_waypt, uturn,
                       do_init, reverse, patience, moved, yielded, crossed>>
    BY <1>2 DEF ToBlock
  <2>2. TypeInts'
    BY <1>0, <2>1 DEF TypeInts
  <2>3. TypeNames'
    BY <1>0, <2>1 DEF TypeNames, States, Events
  <2>4. TypeFlags'
    BY <1>0, <2>1 DEF TypeFlags
  <2>5. ReverseOnlyInUturn'
    BY <1>0, <2>1 DEF RoadInv, ReverseOnlyInUturn
  <2> QED
    BY <1>1, <2>2, <2>3, <2>4, <2>5, TypeParts DEF RoadInv
<1>3. CASE p # "none"
  <2>1. /\ reverse' = FALSE
        /\ UNCHANGED <<status, uturn, do_init>>
    BY <1>3 DEF ToBlock
  <2>2. PICK found \in BOOLEAN : RetryInBlock(TRUE, found, ahead)
    BY <1>3 DEF ToBlock
  <2>3. ahead \in -1 .. N_WAYPTS - 1
    BY <1>0 DEF TypeInts
  <2>4. /\ OrderTypeOK'
        /\ plan' \in {"none", "lane"} /\ pcmd' \in {"halt", "go"}
        /\ checked' = TRUE
        /\ pending' \in Events
        /\ road_blocked' \in BOOLEAN /\ replan_waypt' \in BOOLEAN
        /\ patience' \in {patience, 0} /\ moved' \in BOOLEAN
    BY <1>0, <2>2, <2>3, RetryType DEF TypeFlags
  <2>5. TypeInts'
    BY <1>0, <2>4 DEF TypeInts, OrderTypeOK
  <2>6. TypeNames'
    BY <1>0, <2>1, <2>4 DEF TypeNames, States, OrderTypeOK
  <2>7. TypeFlags'
    BY <1>0, <2>1, <2>4 DEF TypeFlags, OrderTypeOK
  <2>8. ReverseOnlyInUturn'
    BY <2>1, <2>4 DEF ReverseOnlyInUturn
  <2> QED
    BY <1>1, <2>5, <2>6, <2>7, <2>8, TypeParts DEF RoadInv
<1> QED
  BY <1>2, <1>3

\* The actions of Block.
LEMMA BlockKeepsInv ==
  ASSUME RoadInv, ActionInBlock \/ ActionToBlock \/ ActionPassToBlock
  PROVE  RoadInv'
<1>0. TypeInts /\ TypeNames /\ TypeFlags /\ OrderTypeOK
  BY TypeParts DEF RoadInv
<1>1. /\ ahead > 0 /\ state' = "Block"
      /\ state \in {"Block", "Follow", "WaitPass", "Pass"}
  BY DEF ActionInBlock, ActionToBlock, ActionPassToBlock, Control, ttable
<1>2. ValidEvents'
  BY <1>1 DEF ValidEvents
<1>3. CASE ActionInBlock
  <2>1. UNCHANGED <<status, in_passing_lane, passed_lane, uturn, do_init,
          reverse, lane_direction, passing_timer, stop_line_timer,
          precedence_timer, prev_nobjects, waited, quiet, obs_clear>>
    BY <1>3 DEF ActionInBlock, passing, uturning, timers
  <2>2. /\ OrderTypeOK'
        /\ plan' \in {"none", "lane", "passing"} /\ pcmd' \in {"halt", "go"}
        /\ checked' = TRUE
        /\ pending' \in Events
        /\ road_blocked' \in BOOLEAN /\ replan_waypt' \in BOOLEAN
        /\ patience' \in {patience, 0} /\ moved' \in BOOLEAN
    <3>1. CASE NewOrderInBlock
      BY <1>0, <3>1 DEF NewOrderInBlock, Halt, order, OrderTypeOK, TypeNames,
                        TypeFlags, Events, waiting
    <3>2. CASE RetryInBlock(road_blocked, replan_waypt, saved)
      BY <1>0, <1>1, <3>2, RetryType DEF TypeInts, TypeFlags
    <3> QED
      BY <1>3, <3>1, <3>2 DEF ActionInBlock
  <2>3. TypeInts'
    BY <1>0, <2>1, <2>2 DEF TypeInts, OrderTypeOK
  <2>4. TypeNames'
    BY <1>0, <1>1, <2>1, <2>2 DEF TypeNames, States, OrderTypeOK
  <2>5. TypeFlags'
    BY <1>0, <2>1, <2>2 DEF TypeFlags, OrderTypeOK
  <2>6. ReverseOnlyInUturn'
    BY <1>1, <2>1, <2>2 DEF RoadInv, ReverseOnlyInUturn
  <2> QED
    BY <1>2, <2>3, <2>4, <2>5, <2>6, TypeParts DEF RoadInv
<1>4. CASE ActionToBlock
  BY <1>0, <1>1, <1>4, ToBlockKeepsInv DEF ActionToBlock, TypeNames
<1>5. CASE ActionPassToBlock
  BY <1>0, <1>1, <1>5, ToBlockKeepsInv DEF ActionPassToBlock, TypeNames
<1> QED
  BY <1>3, <1>4, <1>5

\* Passing::control reaches at most one way-point and drives forward.
LEMMA InPassType ==
  ASSUME OrderTypeOK, ahead > 0, UNCHANGED nu, NEW in \in BOOLEAN, InPass(in)
  PROVE  /\ OrderTypeOK'
         /\ in_passing_lane' \in BOOLEAN
         /\ pcmd' \in {"halt", "go"} /\ checked' = TRUE
         /\ pending' \in {"None", "FollowLane"}
<1>1. PICK arrived \in BOOLEAN, clear \in BOOLEAN, done \in BOOLEAN,
           past \in BOOLEAN :
        /\ in_passing_lane' = (in \/ arrived)
        /\ \/ Halt /\ pending' = "None" /\ Advance(0, saved)
           \/ /\ pcmd' = "go" /\ checked' = TRUE
              /\ pending' = IF done THEN "FollowLane" ELSE "None"
              /\ Advance(IF past THEN 1 ELSE 0, saved)
  BY DEF InPass
<1>2. saved \in -1 .. N_WAYPTS - 1 /\ ahead \in Nat
  BY DEF OrderTypeOK
<1>3. OrderTypeOK'
  <2>1. PICK n \in {0, 1} : Advance(n, saved)
    BY <1>1
  <2> QED
    BY <1>2, <2>1, AdvanceType
<1>4. in_passing_lane' \in BOOLEAN
  BY <1>1
<1> QED
  BY <1>1, <1>3, <1>4 DEF Halt

\* The actions of Pass.
LEMMA PassKeepsInv ==
  ASSUME RoadInv, ActionInPass \/ ActionToPass
  PROVE  RoadInv'
<1>0. TypeInts /\ TypeNames /\ TypeFlags /\ OrderTypeOK
  BY TypeParts DEF RoadInv
<1>1. /\ ahead > 0 /\ state' = "Pass"
      /\ state \in {"Pass", "Evade", "WaitPass"}
  BY DEF ActionInPass, ActionToPass, Control, ttable
<1>2. reverse = FALSE /\ pcmd # "back"
  BY <1>0, <1>1 DEF RoadInv, ReverseOnlyInUturn, TypeFlags
<1>3. CASE ActionInPass
  <2>1. UNCHANGED <<status, nu, road_blocked, replan_waypt, plan, passed_lane,
          uturn, do_init, reverse, lane_direction, passing_timer,
          stop_line_timer, precedence_timer, prev_nobjects, waited, quiet,
          obs_clear, patience, moved>>
    BY <1>3 DEF ActionInPass, blockage, uturning, timers, waiting
  <2>2. /\ OrderTypeOK'
        /\ in_passing_lane' \in BOOLEAN
        /\ pcmd' \in {"halt", "go"} /\ checked' = TRUE
        /\ pending' \in {"None", "FollowLane"}
    BY <1>0, <1>1, <1>3, <2>1, InPassType DEF ActionInPass, TypeFlags
  <2>3. TypeInts'
    BY <1>0, <2>1, <2>2 DEF TypeInts, OrderTypeOK
  <2>4. TypeNames'
    BY <1>0, <1>1, <2>1, <2>2 DEF TypeNames, States, Events, OrderTypeOK
  <2>5. TypeFlags'
    BY <1>0, <2>1, <2>2 DEF TypeFlags, OrderTypeOK
  <2>6. ValidEvents' /\ ReverseOnlyInUturn'
    BY <1>1, <1>2, <2>1, <2>2, TableEntries DEF ValidEvents, ReverseOnlyInUturn
  <2> QED
    BY <2>3, <2>4, <2>5, <2>6, TypeParts DEF RoadInv
<1>4. CASE ActionToPass
  <2>1. UNCHANGED <<status, road_blocked, replan_waypt, uturn, do_init,
          lane_direction, stop_line_timer, precedence_timer, prev_nobjects,
          waited, quiet, obs_clear>>
    BY <1>4 DEF ActionToPass, blockage, stopping
  <2>2. /\ OrderTypeOK'
        /\ in_passing_lane' \in BOOLEAN
        /\ pcmd' \in {"halt", "go"} /\ checked' = TRUE
        /\ pending' \in {"None", "FollowLane", "Block"}
        /\ passing_timer' \in {passing_timer, Cancelled}
        /\ patience' \in {patience, 0} /\ moved' \in BOOLEAN
        /\ reverse' = FALSE
        /\ plan' \in {plan, "none", "passing"} /\ passed_lane' \in {plan, passed_lane}
    <3>1. CASE InPass(FALSE) /\ UNCHANGED nu
      <4>1. /\ OrderTypeOK'
            /\ in_passing_lane' \in BOOLEAN
            /\ pcmd' \in {"halt", "go"} /\ checked' = TRUE
            /\ pending' \in {"None", "FollowLane"}
        BY <1>0, <1>1, <3>1, InPassType
      <4> QED
        BY <1>0, <1>2, <1>4, <4>1 DEF ActionToPass, waiting, TypeFlags
    <3>2. CASE /\ Halt
               /\ pending' = "Block"
               /\ UNCHANGED <<order, saved, in_passing_lane, reverse,
                              passing_timer, patience, moved, yielded, crossed>>
      BY <1>0, <1>2, <1>4, <3>2 DEF ActionToPass, Halt, order, OrderTypeOK,
                                    TypeFlags
    <3> QED
      BY <1>4, <3>1, <3>2 DEF ActionToPass, waiting
  <2>3. TypeInts'
    BY <1>0, <2>1, <2>2 DEF TypeInts, OrderTypeOK, Timers, Cancelled
  <2>4. TypeNames'
    BY <1>0, <1>1, <2>1, <2>2 DEF TypeNames, States, Events, OrderTypeOK
  <2>5. TypeFlags'
    BY <1>0, <2>1, <2>2 DEF TypeFlags, OrderTypeOK
  <2>6. ValidEvents' /\ ReverseOnlyInUturn'
    BY <1>1, <1>2, <2>1, <2>2, TableEntries DEF ValidEvents, ReverseOnlyInUturn
  <2> QED
    BY <2>3, <2>4, <2>5, <2>6, TypeParts DEF RoadInv
<1> QED
  BY <1>3, <1>4

\* Uturn changes only its own state, the pilot command and the event; backing
\* always has reverse set, and a U-turn is never left while backing.
LEMMA UturnKeepsInv ==
  ASSUME RoadInv, ActionInUturn \/ ActionToUturn
  PROVE  RoadInv'
<1>0. TypeInts /\ TypeNames /\ TypeFlags /\ OrderTypeOK
  BY TypeParts DEF RoadInv
<1>1. /\ state' = "Uturn" /\ checked' = TRUE
      /\ patience' = 0 /\ moved' \in BOOLEAN
      /\ UNCHANGED <<w0, w1, ahead, nu, saved, road_blocked, replan_waypt, plan,
           in_passing_lane, passed_lane, lane_direction, passing_timer,
           stop_line_timer, precedence_timer, prev_nobjects, waited, quiet,
           obs_clear, yielded, crossed>>
  BY DEF ActionInUturn, ActionToUturn, Control, order, blockage, passing,
         stopping, Driven
<1>2. /\ pending' \in {"None", "FollowLane"}
      /\ status' \in {status, "aborted"}
      /\ pcmd' \in {"halt", "go", "back"}
      /\ uturn' \in {"Wait", "Forward", "Backward"}
      /\ do_init' \in BOOLEAN /\ reverse' \in BOOLEAN
      /\ ReverseOnlyInUturn'
  <2>1. CASE ActionToUturn
    BY <1>0, <1>1, <2>1 DEF ActionToUturn, UturnInit, UturnWait,
                            ReverseOnlyInUturn
  <2>2. CASE ActionInUturn
    <3>0. state = "Uturn"
      BY <2>2 DEF ActionInUturn, Control, ttable
    <3>1. CASE UturnInit /\ UNCHANGED <<uturn, reverse>>
      BY <1>0, <1>1, <3>0, <3>1
         DEF UturnInit, RoadInv, ReverseOnlyInUturn, TypeNames, TypeFlags
    <3>2. CASE /\ uturn = "Wait" /\ UturnWait /\ UNCHANGED reverse
               /\ do_init' = FALSE /\ UNCHANGED status
      <4>1. reverse = FALSE
        BY <1>0, <3>2 DEF RoadInv, ReverseOnlyInUturn, TypeFlags
      <4> QED
        BY <1>1, <3>2, <4>1 DEF UturnWait, ReverseOnlyInUturn
    <3>3. CASE /\ uturn = "Forward" /\ UturnForward
               /\ do_init' = FALSE /\ UNCHANGED status
      <4>1. reverse = FALSE
        BY <1>0, <3>3 DEF RoadInv, ReverseOnlyInUturn, TypeFlags
      <4> QED
        BY <1>1, <3>3, <4>1 DEF UturnForward, ReverseOnlyInUturn
    <3>4. CASE /\ uturn = "Backward" /\ UturnBackward
               /\ do_init' = FALSE /\ UNCHANGED status
      <4>1. reverse = TRUE
        BY <1>0, <3>0, <3>4 DEF RoadInv, ReverseOnlyInUturn, TypeFlags
      <4> QED
        BY <1>1, <3>4, <4>1 DEF UturnBackward, ReverseOnlyInUturn
    <3> QED
      BY <2>2, <3>1, <3>2, <3>3, <3>4 DEF ActionInUturn
  <2> QED
    BY <2>1, <2>2
<1>3. TypeInts'
  BY <1>0, <1>1 DEF TypeInts
<1>4. TypeNames'
  BY <1>0, <1>1, <1>2 DEF TypeNames, States, Events
<1>5. TypeFlags'
  BY <1>0, <1>1, <1>2 DEF TypeFlags
<1>6. ValidEvents'
  BY <1>1, <1>2, TableEntries DEF ValidEvents
<1> QED
  BY <1>2, <1>3, <1>4, <1>5, <1>6, TypeParts DEF RoadInv

\* A new order changes the window on the route and nothing else.
LEMMA OrdersKeepInv ==
  ASSUME RoadInv, NavCmd
  PROVE  RoadInv'
<1>0. TypeInts /\ TypeNames /\ TypeFlags /\ OrderTypeOK
  BY TypeParts DEF RoadInv
<1>1. UNCHANGED <<state, pending, status, pcmd, checked, road_blocked,
        replan_waypt, plan, in_passing_lane, passed_lane, uturn, do_init,
        reverse, lane_direction, passing_timer, stop_line_timer,
        precedence_timer, prev_nobjects, waited, quiet, obs_clear, patience, moved>>
  BY DEF NavCmd, NavCmdContinue, NavCmdReplan, NavCmdStale, Arrives, blockage,
         passing, uturning, timers, waiting
<1>2. UNCHANGED <<yielded, crossed>>
  BY DEF NavCmd, NavCmdContinue, NavCmdReplan, NavCmdStale
<1>3. w0' \in Kinds \cup {"uturn"} /\ w1' \in Kinds
  BY <1>0 DEF NavCmd, NavCmdContinue, NavCmdReplan, NavCmdStale, TypeNames
<1>4. /\ ahead' \in 0 .. N_WAYPTS - 1 /\ nu' \in -1 .. 1
      /\ saved' \in -1 .. N_WAYPTS - 1
  <2>1. CASE NavCmdContinue(0)
    BY <1>0, <2>1 DEF NavCmdContinue, NextUturn, TypeInts
  <2>2. CASE NavCmdContinue(1)
    <3>1. nu' \in {-1, 0, 1}
      BY <2>2 DEF NavCmdContinue
    <3> QED
      BY <1>0, <2>2, <3>1 DEF NavCmdContinue, TypeInts
  <2>3. CASE NavCmdReplan
    BY <1>0, <2>3 DEF NavCmdReplan, NextUturn, TypeInts
  <2>4. CASE NavCmdStale
    BY <1>0, <2>4 DEF NavCmdStale, TypeInts
  <2> QED
    BY <2>1, <2>2, <2>3, <2>4 DEF NavCmd
<1>5. TypeInts'
  BY <1>0, <1>1, <1>4 DEF TypeInts
<1>6. TypeNames'
  BY <1>0, <1>1, <1>3 DEF TypeNames
<1>7. TypeFlags'
  BY <1>0, <1>1, <1>2 DEF TypeFlags
<1>8. ValidEvents' /\ ReverseOnlyInUturn'
  BY <1>1 DEF RoadInv, ValidEvents, ReverseOnlyInUturn
<1> QED
  BY <1>5, <1>6, <1>7, <1>8, TypeParts DEF RoadInv

\* Suspending and running again resets nothing of the road controller.
LEMMA ResumeKeepsInv ==
  ASSUME RoadInv, Resume
  PROVE  RoadInv'
<1> USE DEF Resume, Driven, blockage, passing, uturning, timers
<1>0. TypeInts /\ TypeNames /\ TypeFlags /\ OrderTypeOK
  BY TypeParts DEF RoadInv
<1>1. TypeInts'
  BY <1>0 DEF TypeInts, NextUturn
<1>2. TypeNames'
  BY <1>0 DEF TypeNames, Halt
<1>3. TypeFlags'
  BY <1>0 DEF TypeFlags, Halt
<1>4. ValidEvents' /\ ReverseOnlyInUturn'
  BY DEF RoadInv, ValidEvents, ReverseOnlyInUturn, Halt
<1> QED
  BY <1>1, <1>2, <1>3, <1>4, TypeParts DEF RoadInv

\* RoadInv is inductive.
LEMMA RoadInvInit == Init => RoadInv
<1> SUFFICES ASSUME Init PROVE RoadInv
  OBVIOUS
<1> USE DEF Init
<1>1. TypeInts
  BY DEF TypeInts, NextUturn, Timers, Cancelled
<1>2. TypeNames
  BY DEF TypeNames, States, Events
<1>3. TypeFlags
  BY DEF TypeFlags
<1>4. ValidEvents /\ ReverseOnlyInUturn
  BY TableEntries DEF ValidEvents, ReverseOnlyInUturn
<1> QED
  BY <1>1, <1>2, <1>3, <1>4, TypeParts DEF RoadInv

\* Every step of the road controller keeps the invariant: the lemmas above, one
\* per group of actions, put together.
LEMMA RoadInvNext == RoadInv /\ [Next]_vars => RoadInv'
<1> SUFFICES ASSUME RoadInv, [Next]_vars PROVE RoadInv'
  OBVIOUS
<1>1. CASE UNCHANGED vars
  BY <1>1 DEF vars, order, blockage, passing, uturning, timers, ghosts, waiting,
              RoadInv, TypeOK, ValidEvents, ReverseOnlyInUturn
<1>2. CASE RoadCycle
  BY <1>2, RestKeepsInv, WaitsKeepInv, FollowKeepsInv, BlockKeepsInv,
     PassKeepsInv, UturnKeepsInv DEF RoadCycle
<1>3. CASE HaltedCycle
  BY <1>3, RestKeepsInv
<1>4. CASE NavCmd
  BY <1>4, OrdersKeepInv
<1>5. CASE Resume
  BY <1>5, ResumeKeepsInv
<1> QED
  BY <1>1, <1>2, <1>3, <1>4, <1>5 DEF Next

\* Every variable of road.cc and of the controllers below it keeps its type; the
\* timers of ntimer.h stay within their durations and a cycle never drops more
\* way-points than the order holds.
THEOREM RoadTypeCorrect == Spec => []TypeOK
<1>1. RoadInv => TypeOK
  BY DEF RoadInv
<1> QED
  BY <1>1, RoadInvInit, RoadInvNext, PTL DEF Spec

\* Outside Block the pending event always has an entry in the table of road.cc,
\* so ActionError aborts a mission only from Block.
THEOREM RoadEventsValid == Spec => []ValidEvents
<1>1. RoadInv => ValidEvents
  BY DEF RoadInv
<1> QED
  BY <1>1, RoadInvInit, RoadInvNext, PTL DEF Spec

\* The flag navdata->reverse is set exactly while uturn.cc is backing up.
THEOREM RoadReverse == Spec => []ReverseOnlyInUturn
<1>1. RoadInv => ReverseOnlyInUturn
  BY DEF RoadInv
<1> QED
  BY <1>1, RoadInvInit, RoadInvNext, PTL DEF Spec

-----------------------------------------------------------------------------
(* Stop lines: StopThenGo, when way-points are not closer to each other than *)
(* the front overhang of the car.                                            *)

\* The car is at a stop line and has not been given its turn to cross.
AtStop == w0 = "stop" /\ ~(yielded /\ crossed)

\* Then it has halted, and the state machine is on its way through WaitStop and
\* WaitCross; or the mission was aborted, for Block cannot handle the event.
StopInv ==
  AtStop =>
    /\ pcmd = "halt"
    /\ \/ state \in {"Follow", "Block"} /\ pending = "StopLine"
       \/ state = "WaitStop" /\ (pending = "Merge" => yielded)
       \/ state = "WaitCross" /\ yielded /\ pending # "FollowLane"
       \/ state = "Block" /\ status = "aborted"

\* What the table can be asked for at a stop line.
LEMMA StopPairs ==
  ASSUME RoadInv, StopInv, AtStop, status = "running"
  PROVE  <<state, pending>> \in
           {<<"Follow", "StopLine">>, <<"Block", "StopLine">>,
            <<"WaitStop", "None">>, <<"WaitStop", "StopLine">>,
            <<"WaitStop", "Merge">>, <<"WaitCross", "None">>,
            <<"WaitCross", "Merge">>}
<1>1. \A e : /\ <<"WaitStop", e>> \in ValidPairs => e \in {"None", "StopLine", "Merge"}
             /\ <<"WaitCross", e>> \in ValidPairs
                  => e \in {"None", "Merge", "FollowLane"}
  BY DEF ValidPairs, ttable
<1> QED
  BY <1>1 DEF StopInv, RoadInv, ValidEvents

\* A cycle of FollowLane reaches a stop line only with the bumper at it, stopped.
LEMMA ReachStop ==
  ASSUME ~CloseWaypts, ~AtStop, NEW i, NEW sv, FollowLaneControl(i, sv), AtStop'
  PROVE  Reached(i) = 1 /\ w1 = "stop" /\ StopReached(i) /\ pcmd' = "halt"
<1>1. Possible(i) /\ Advance(Reached(i), sv) /\ pcmd' = FollowSpeed(i)
  BY DEF FollowLaneControl
<1>2. Reached(i) # 2
  BY <1>1 DEF Reached, Possible
<1>3. Reached(i) # 0
  BY <1>1 DEF Advance, AtStop
<1>4. Reached(i) = 1
  BY <1>2, <1>3 DEF Reached
<1>5. w1 = "stop"
  BY <1>1, <1>4 DEF Advance, AtStop
<1>6. ~i.past
  BY <1>1, <1>5 DEF Possible, LaneWaypt
<1>7. StopReached(i)
  BY <1>4, <1>6 DEF Reached
<1> QED
  BY <1>1, <1>4, <1>5, <1>7 DEF FollowSpeed, StopReached

\* A stop line reached in Follow becomes a StopLine event.
LEMMA FollowAtStop ==
  ASSUME RoadInv, StopInv, ~CloseWaypts,
         \/ ActionInFollow \/ ActionToFollow \/ ActionPassToFollow
         \/ ActionWaitPassToFollow,
         AtStop'
  PROVE  pcmd' = "halt" /\ state' = "Follow" /\ pending' = "StopLine"
<1>1. ~AtStop
  BY StopPairs DEF ActionInFollow, ActionToFollow, ActionPassToFollow,
     ActionWaitPassToFollow, Control, ttable
<1>2. state' = "Follow" /\ \E rev : InFollow(rev)
  BY DEF ActionInFollow, ActionToFollow, ActionPassToFollow,
         ActionWaitPassToFollow, Control
<1>3. PICK i \in FollowInputs :
        /\ FollowLaneControl(i, saved)
        /\ pending' = IF FollowLane(i) = "Blocked" THEN "WaitPass"
                      ELSE IF FollowLane(i) = "Collision" THEN "Collision"
                      ELSE set_waypt_event(i, "None")
  BY <1>2 DEF InFollow
<1> QED
  BY <1>1, <1>2, <1>3, ReachStop DEF FollowLane, set_waypt_event

\* So does one reached in Block.
LEMMA RetryAtStop ==
  ASSUME ~CloseWaypts, ~AtStop, NEW blocked, NEW replan, NEW sv,
         RetryInBlock(blocked, replan, sv), AtStop'
  PROVE  pcmd' = "halt" /\ pending' = "StopLine"
<1>1. PICK i \in FollowInputs :
        /\ FollowLaneControl(i, sv)
        /\ pending' = IF FollowLane(i) = "Collision" THEN "Collision"
                      ELSE IF FollowLane(i) = "Blocked" THEN "None"
                      ELSE set_waypt_event(i, "FollowLane")
  BY DEF RetryInBlock
<1> QED
  BY <1>1, ReachStop DEF FollowLane, set_waypt_event

\* The actions of Block at a stop line.
LEMMA BlockAtStop ==
  ASSUME RoadInv, StopInv, ~CloseWaypts,
         ActionInBlock \/ ActionToBlock \/ ActionPassToBlock, AtStop'
  PROVE  pcmd' = "halt" /\ state' = "Block" /\ pending' = "StopLine"
<1>1. ~AtStop
  BY StopPairs DEF ActionInBlock, ActionToBlock, ActionPassToBlock, Control,
     ttable
<1>2. state' = "Block"
  BY DEF ActionInBlock, ActionToBlock, ActionPassToBlock, Control
<1>3. \/ UNCHANGED <<w0, yielded, crossed>>
      \/ \E blocked, replan, sv : RetryInBlock(blocked, replan, sv)
  BY DEF ActionInBlock, ActionToBlock, ActionPassToBlock, ToBlock,
         NewOrderInBlock, order
<1>4. \E blocked, replan, sv : RetryInBlock(blocked, replan, sv)
  BY <1>1, <1>3 DEF AtStop
<1> QED
  BY <1>1, <1>2, <1>4, RetryAtStop

\* A stop line is never passed in the passing lane: it is not a LaneWaypt.
LEMMA PassAtStop ==
  ASSUME RoadInv, StopInv, ActionInPass \/ ActionToPass
  PROVE  ~AtStop'
<1>1. ~AtStop
  BY StopPairs DEF ActionInPass, ActionToPass, Control, ttable
<1>2. \/ UNCHANGED <<w0, yielded, crossed>>
      \/ \E in : InPass(in)
  BY DEF ActionInPass, ActionToPass, order
<1>3. CASE \E in : InPass(in)
  <2>1. \/ Advance(0, saved)
        \/ Advance(1, saved) /\ LaneWaypt
    BY <1>3 DEF InPass
  <2> QED
    BY <1>1, <2>1 DEF Advance, AtStop, LaneWaypt
<1> QED
  BY <1>1, <1>2, <1>3 DEF AtStop

\* The other actions that are not a wait at a stop line do not touch it.
LEMMA OthersAtStop ==
  ASSUME RoadInv, StopInv,
         \/ ActionInEvade \/ ActionToEvade \/ ActionInInit \/ ActionToZone
         \/ ActionInWaitLane \/ ActionToWaitLane
         \/ ActionInWaitPass \/ ActionToWaitPass
         \/ ActionInUturn \/ ActionToUturn \/ ActionZoneToWaitCross
  PROVE  ~AtStop'
<1>1. ~AtStop
  BY StopPairs DEF ActionInEvade, ActionToEvade, ActionInInit, ActionToZone,
     ActionInWaitLane, ActionToWaitLane, ActionInWaitPass, ActionToWaitPass,
     ActionInUturn, ActionToUturn, ActionZoneToWaitCross, Control, ttable
<1>2. CASE ActionZoneToWaitCross
  BY <1>1, <1>2 DEF ActionZoneToWaitCross, WaitCross, order, AtStop
<1>3. CASE ~ActionZoneToWaitCross
  <2>1. UNCHANGED <<w0, yielded, crossed>>
    BY <1>3 DEF ActionInEvade, ActionToEvade, ActionInInit, ActionToZone,
       ActionInZone, ActionInWaitLane, ActionToWaitLane, WaitLane,
       ActionInWaitPass, ActionToWaitPass, InWaitPass, ActionInUturn,
       ActionToUturn, order, ghosts
  <2> QED
    BY <1>1, <2>1 DEF AtStop
<1> QED
  BY <1>2, <1>3

\* WaitStop and WaitCross hand over to each other.
LEMMA WaitsAtStop ==
  ASSUME RoadInv, StopInv,
         \/ ActionInWaitStop \/ ActionToWaitStop
         \/ ActionInWaitCross \/ ActionToWaitCross
  PROVE  StopInv'
<1>1. CASE ActionInWaitStop \/ ActionToWaitStop
  <2>1. PICK st, pt, prev, q : InWaitStop(st, pt, prev, q)
    BY <1>1 DEF ActionInWaitStop, ActionToWaitStop
  <2>2. pcmd' = "halt" /\ (pending' = "Merge" => yielded')
    BY <2>1 DEF InWaitStop, WaitStop, Halt
  <2>3. state' = "WaitStop"
    BY <1>1 DEF ActionInWaitStop, ActionToWaitStop, Control
  <2> QED
    BY <2>2, <2>3 DEF StopInv
<1>2. CASE ActionInWaitCross \/ ActionToWaitCross
  <2>1. /\ pcmd' = "halt" /\ state' = "WaitCross"
        /\ UNCHANGED <<w0, yielded>>
        /\ pending' = "FollowLane" => crossed'
        /\ crossed => crossed'
    BY <1>2 DEF ActionInWaitCross, ActionToWaitCross, Control, WaitCross, Halt,
                order
  <2>2. AtStop => yielded
    <3>1. <<state, pending>> \in
            ttable.ActionInWaitCross \cup ttable.ActionToWaitCross
      BY <1>2 DEF ActionInWaitCross, ActionToWaitCross, Control
    <3> QED
      BY <3>1 DEF StopInv, ttable
  <2>3. AtStop' => AtStop
    BY <2>1 DEF AtStop
  <2> QED
    BY <2>1, <2>2, <2>3 DEF StopInv, AtStop
<1> QED
  BY <1>1, <1>2

\* StopInv is inductive relative to RoadInv.
LEMMA StopInvNext ==
  ASSUME ~CloseWaypts, RoadInv, StopInv, [Next]_vars
  PROVE  StopInv'
<1>1. CASE UNCHANGED vars
  BY <1>1 DEF vars, order, ghosts, StopInv, AtStop
<1>2. CASE RoadCycle
  <2>1. CASE ActionError
    <3>1. CASE AtStop
      <4>1. state = "Block"
        BY <2>1 DEF RoadInv, ValidEvents, ActionError
      <4> QED
        BY <2>1, <4>1 DEF ActionError, Halt, StopInv
    <3>2. CASE ~AtStop
      BY <2>1, <3>2 DEF ActionError, order, ghosts, StopInv, AtStop
    <3> QED
      BY <3>1, <3>2
  <2>2. CASE ~ActionError
    BY <1>2, <2>2, FollowAtStop, BlockAtStop, PassAtStop, OthersAtStop,
       WaitsAtStop DEF RoadCycle, StopInv
  <2> QED
    BY <2>1, <2>2
<1>3. CASE HaltedCycle
  BY <1>3 DEF HaltedCycle, Halt, order, ghosts, StopInv, AtStop
<1>4. CASE NavCmd
  <2>1. /\ w0' \in {w0, "uturn"}
        /\ UNCHANGED <<state, pending, status, pcmd, yielded, crossed>>
    BY <1>4 DEF NavCmd, NavCmdContinue, NavCmdReplan, NavCmdStale, Arrives
  <2> QED
    BY <2>1 DEF StopInv, AtStop
<1>5. CASE Resume
  BY <1>5 DEF Resume, StopInv, AtStop
<1> QED
  BY <1>1, <1>2, <1>3, <1>4, <1>5 DEF Next

\* With way-points further apart than the front overhang, the car drives on from
\* a stop line only after WaitStop gave it its turn and WaitCross saw the
\* intersection clear (ActionToWaitStop, ActionInWaitStop, ActionInWaitCross).
THEOREM RoadStopsAtLines ==
  ASSUME ~CloseWaypts
  PROVE  Spec => []StopThenGo
<1>1. Init => StopInv
  BY DEF Init, StopInv, AtStop
<1>2. StopInv => StopThenGo
  BY DEF StopInv, AtStop, StopThenGo
<1>3. RoadInv /\ StopInv /\ [Next]_vars => StopInv'
  BY StopInvNext
<1> QED
  BY <1>1, <1>2, <1>3, RoadInvInit, RoadInvNext, PTL DEF Spec

-----------------------------------------------------------------------------
(* Intersections: the patience of WaitStop. *)

\* While WaitStop has not decided, each timer and the cycles it has counted add
\* up to its delay.
PatienceInv ==
  /\ IntersectionPatience
  /\ state = "WaitStop" /\ pending # "Merge" =>
       /\ stop_line_timer >= 0
       /\ stop_line_timer + waited = StopLineDelay
       /\ precedence_timer > 0
       /\ precedence_timer + quiet = PrecedenceDelay

\* One cycle of WaitStop, whose counts so far add up; w is waited, q is quiet.
LEMMA WaitStopPatience ==
  ASSUME NEW st \in Timers(StopLineDelay), NEW pt \in Timers(PrecedenceDelay),
         NEW prev, NEW w \in 0 .. StopLineDelay, NEW q \in 0 .. PrecedenceDelay,
         st >= 0, st + w = StopLineDelay, pt > 0, pt + q = PrecedenceDelay,
         InWaitStop(st, pt, prev, q), waited' = CapTo(w + 1, StopLineDelay),
         state' = "WaitStop"
  PROVE  PatienceInv'
<1>1. PICK clear \in BOOLEAN, applicable \in BOOLEAN, n \in 0 .. MaxObjects :
        WaitStop(st, pt, prev, q, clear, applicable, n)
  BY DEF InWaitStop
<1> DEFINE ours == Expired(Checked(st)) /\ clear
           changed == applicable /\ n # prev
           rest == IF ours THEN Cancelled ELSE pt
           running == IF changed THEN PrecedenceDelay ELSE rest
           timeout == Expired(Checked(running))
<1>2. /\ pending' = IF ours \/ timeout THEN "Merge" ELSE "None"
      /\ stop_line_timer' = IF ours \/ timeout THEN Cancelled ELSE Checked(st)
      /\ precedence_timer' = IF timeout THEN Cancelled ELSE Checked(running)
      /\ obs_clear' = clear
      /\ quiet' = IF changed THEN 1 ELSE CapTo(q + 1, PrecedenceDelay)
  BY <1>1 DEF WaitStop, Start
<1>3. CASE ours
  <2>1. waited' >= StopLineDelay
    BY <1>3 DEF Expired, Checked, CapTo, Timers
  <2> QED
    BY <1>2, <1>3, <2>1 DEF PatienceInv, IntersectionPatience
<1>4. CASE ~ours /\ timeout
  <2>1. quiet' >= PrecedenceDelay
    <3>1. CASE changed
      BY <1>2, <1>4, <3>1 DEF Expired, Checked
    <3>2. CASE ~changed
      BY <1>2, <1>4, <3>2 DEF Expired, Checked, CapTo, Timers
    <3> QED
      BY <3>1, <3>2
  <2> QED
    BY <1>2, <1>4, <2>1 DEF PatienceInv, IntersectionPatience
<1>5. CASE ~ours /\ ~timeout
  <2>1. pending' = "None" /\ stop_line_timer' = Checked(st)
    BY <1>2, <1>5
  <2>2. precedence_timer' = Checked(running)
    BY <1>2, <1>5
  <2>3. stop_line_timer' >= 0 /\ stop_line_timer' + waited' = StopLineDelay
    BY <2>1 DEF Checked, CapTo, Timers
  <2>4. precedence_timer' > 0 /\ precedence_timer' + quiet' = PrecedenceDelay
    <3>1. CASE changed
      BY <1>2, <1>5, <2>2, <3>1 DEF Checked, Expired
    <3>2. CASE ~changed
      BY <1>2, <1>5, <2>2, <3>2 DEF Checked, CapTo, Timers, Expired
    <3> QED
      BY <3>1, <3>2
  <2> QED
    BY <2>1, <2>3, <2>4 DEF PatienceInv, IntersectionPatience
<1> QED
  BY <1>3, <1>4, <1>5

\* PatienceInv is inductive relative to RoadInv.
LEMMA PatienceInvNext ==
  ASSUME RoadInv, PatienceInv, [Next]_vars
  PROVE  PatienceInv'
<1>0. TypeInts
  BY TypeParts DEF RoadInv
<1>1. CASE ActionInWaitStop
  <2>1. /\ pending # "Merge" /\ state = "WaitStop" /\ state' = "WaitStop"
        /\ waited' = CapTo(waited + 1, StopLineDelay)
        /\ InWaitStop(stop_line_timer, precedence_timer, prev_nobjects, quiet)
    BY <1>1 DEF ActionInWaitStop, Control, ttable
  <2>2. /\ stop_line_timer >= 0
        /\ stop_line_timer + waited = StopLineDelay
        /\ precedence_timer > 0
        /\ precedence_timer + quiet = PrecedenceDelay
    BY <2>1 DEF PatienceInv
  <2> QED
    BY <1>0, <2>1, <2>2, WaitStopPatience DEF TypeInts
<1>2. CASE ActionToWaitStop
  <2>1. InWaitStop(StopLineDelay, PrecedenceDelay, -1, 0) /\ waited' = 1
        /\ state' = "WaitStop"
    BY <1>2 DEF ActionToWaitStop, Start, Control
  <2>2. /\ StopLineDelay \in Timers(StopLineDelay)
        /\ PrecedenceDelay \in Timers(PrecedenceDelay)
        /\ 0 \in 0 .. StopLineDelay /\ 0 \in 0 .. PrecedenceDelay
        /\ 1 = CapTo(0 + 1, StopLineDelay)
        /\ StopLineDelay >= 0 /\ StopLineDelay + 0 = StopLineDelay
        /\ PrecedenceDelay > 0 /\ PrecedenceDelay + 0 = PrecedenceDelay
    BY DEF Timers, CapTo
  <2> QED
    BY <2>1, <2>2, WaitStopPatience
<1>3. CASE /\ UNCHANGED <<state, pending, stop_line_timer, precedence_timer,
                          waited, quiet, obs_clear>>
  BY <1>3 DEF PatienceInv, IntersectionPatience
<1>4. CASE state' # "WaitStop"
  BY <1>4 DEF PatienceInv, IntersectionPatience
<1>5. RoadCycle => ActionInWaitStop \/ ActionToWaitStop \/ state' # "WaitStop"
  <2>1. ActionError => state # "WaitStop" /\ state' = state
    BY DEF ActionError, RoadInv, ValidEvents
  <2> QED
    BY <2>1 DEF RoadCycle, Control, ActionInBlock, ActionToBlock,
       ActionPassToBlock, ActionInEvade, ActionToEvade, ActionInFollow,
       ActionToFollow, ActionPassToFollow, ActionWaitPassToFollow,
       ActionInInit, ActionInPass, ActionToPass, ActionInUturn, ActionToUturn,
       ActionInWaitCross, ActionToWaitCross, ActionZoneToWaitCross,
       ActionInWaitLane, ActionToWaitLane, ActionInWaitPass, ActionToWaitPass,
       ActionToZone
<1>6. HaltedCycle \/ NavCmd \/ Resume \/ UNCHANGED vars =>
        UNCHANGED <<state, pending, stop_line_timer, precedence_timer, waited,
                    quiet, obs_clear>>
  BY DEF HaltedCycle, NavCmd, NavCmdContinue, NavCmdReplan, NavCmdStale,
         Arrives, Resume, vars, timers, ghosts
<1> QED
  BY <1>1, <1>2, <1>3, <1>4, <1>5, <1>6 DEF Next

\* WaitStop decides to cross only after the whole stop_line_delay with the
\* intersection clear, or after a whole precedence_delay in which the number of
\* cars with precedence did not change (ActionInWaitStop), however cycles, pauses
\* and new orders interleave.
THEOREM RoadPatience == Spec => []IntersectionPatience
<1>1. Init => PatienceInv
  BY DEF Init, PatienceInv, IntersectionPatience
<1>2. PatienceInv => IntersectionPatience
  BY DEF PatienceInv
<1>3. RoadInv /\ PatienceInv /\ [Next]_vars => PatienceInv'
  BY PatienceInvNext
<1> QED
  BY <1>1, <1>2, <1>3, RoadInvInit, RoadInvNext, PTL DEF Spec

\* WaitStop never misses its own time limit (the precedence_timer of
\* ActionInWaitStop): once the number of cars with precedence has not changed for
\* precedence_delay cycles the decision to cross is pending.
THEOREM RoadPrecedence == Spec => []PrecedenceTimeout
<1>1. Init => PatienceInv
  BY DEF Init, PatienceInv, IntersectionPatience
<1>2. RoadInv /\ PatienceInv => PrecedenceTimeout
  BY DEF RoadInv, TypeOK, PatienceInv, PrecedenceTimeout, Timers
<1>3. RoadInv /\ PatienceInv /\ [Next]_vars => PatienceInv'
  BY PatienceInvNext
<1> QED
  BY <1>1, <1>2, <1>3, RoadInvInit, RoadInvNext, PTL DEF Spec

-----------------------------------------------------------------------------
(* Passing: the patience of WaitPass.  A U-turn, a zone, the operator and a road *)
(* block that dissolves leave the passing timer as it is although the car drives. *)

\* While the passing timer runs, what is left of it and the cycles the car has
\* stood in WaitPass make up the whole delay, unless the car has moved; and the
\* timer that decided to pass is not cancelled before the car passes.
PassInv ==
  /\ PassPatience
  /\ passing_timer >= 0 /\ ~moved => passing_timer + patience >= PassingDelay
  /\ state = "WaitPass" /\ pending = "Pass" => passing_timer >= 0

\* One cycle of WaitPass with the timer at t.
LEMMA InWaitPassPatience ==
  ASSUME RoadInv, NEW t \in Timers(PassingDelay),
         moved' \/ (t >= 0 => t + patience >= PassingDelay), InWaitPass(t)
  PROVE  PassInv'
<1>1. patience \in 0 .. PassingDelay
  BY DEF RoadInv, TypeOK
<1>2. /\ passing_timer' = Checked(t)
      /\ ~moved' => patience' = CapTo(patience + 1, PassingDelay)
      /\ pending' = "Pass" => Expired(Checked(t))
  BY DEF InWaitPass
<1>3. moved' \/ (Checked(t) >= 0 => Checked(t) + patience' >= PassingDelay)
  BY <1>1, <1>2 DEF Checked, CapTo, Timers
<1>4. pending' = "Pass" => Checked(t) = 0
  BY <1>2 DEF Expired
<1>5. pending' = "Pass" => moved' \/ patience' >= PassingDelay
  BY <1>1, <1>2, <1>3, <1>4 DEF CapTo
<1> QED
  BY <1>2, <1>3, <1>4, <1>5 DEF PassInv, PassPatience

\* What any other cycle does to the timer: it and the count are left alone, it is
\* cancelled, or the car drives while it stays as it is.
LEMMA PassingTimerCycle ==
  ASSUME RoadInv, RoadCycle, ~ActionInWaitPass, ~ActionToWaitPass
  PROVE  /\ state' # "WaitPass"
         /\ \/ UNCHANGED <<passing_timer, patience, moved>>
            \/ passing_timer' = Cancelled
            \/ UNCHANGED passing_timer /\ Driven
<1> USE DEF waiting
<1>1. CASE ActionInBlock \/ ActionToBlock \/ ActionPassToBlock
  <2>1. ASSUME NEW b, NEW r, NEW sv, RetryInBlock(b, r, sv)
        PROVE  UNCHANGED <<patience, moved>> \/ Driven
    BY <2>1 DEF RetryInBlock
  <2>2. ASSUME NEW p, ToBlock(p) PROVE UNCHANGED <<patience, moved>> \/ Driven
    BY <2>1, <2>2 DEF ToBlock
  <2>3. ASSUME NewOrderInBlock PROVE UNCHANGED <<patience, moved>>
    BY <2>3 DEF NewOrderInBlock
  <2>4. state' = "Block" /\ UNCHANGED passing_timer
    BY <1>1 DEF ActionInBlock, ActionToBlock, ActionPassToBlock, Control, timers
  <2> QED
    BY <1>1, <2>1, <2>2, <2>3, <2>4
       DEF ActionInBlock, ActionToBlock, ActionPassToBlock
<1>2. CASE \/ ActionInFollow \/ ActionToFollow \/ ActionPassToFollow
           \/ ActionWaitPassToFollow
  <2>1. state' = "Follow" /\ \E rev : InFollow(rev)
    BY <1>2 DEF ActionInFollow, ActionToFollow, ActionPassToFollow,
       ActionWaitPassToFollow, Control
  <2>2. PICK i \in FollowInputs :
          /\ passing_timer' = IF i.stopped THEN passing_timer ELSE Cancelled
          /\ patience' = IF i.stopped THEN patience ELSE 0
          /\ moved' = (moved /\ i.stopped)
    BY <2>1 DEF InFollow
  <2>3. moved \in BOOLEAN
    BY DEF RoadInv, TypeOK
  <2> QED
    BY <2>1, <2>2, <2>3
<1>3. CASE ActionInPass \/ ActionToPass
  BY <1>3 DEF ActionInPass, ActionToPass, Control, timers
<1>4. CASE ActionInEvade \/ ActionToEvade \/ ActionInInit \/ ActionToZone
  BY <1>4 DEF ActionInEvade, ActionToEvade, ActionInInit, ActionToZone, ActionInZone,
     Control, timers, ghosts
<1>5. CASE \/ ActionInWaitCross \/ ActionToWaitCross \/ ActionZoneToWaitCross
           \/ ActionInWaitLane \/ ActionToWaitLane
  BY <1>5 DEF ActionInWaitCross, ActionToWaitCross, ActionZoneToWaitCross,
     ActionInWaitLane, ActionToWaitLane, WaitCross, WaitLane, Control, timers, ghosts
<1>6. CASE ActionInWaitStop \/ ActionToWaitStop
  BY <1>6 DEF ActionInWaitStop, ActionToWaitStop, Control
<1>7. CASE ActionError
  <2>1. state # "WaitPass"
    BY <1>7 DEF ActionError, RoadInv, ValidEvents
  <2> QED
    BY <1>7, <2>1 DEF ActionError, timers, ghosts
<1>8. CASE ActionInUturn \/ ActionToUturn
  BY <1>8 DEF ActionInUturn, ActionToUturn, Control
<1> QED
  BY <1>1, <1>2, <1>3, <1>4, <1>5, <1>6, <1>7, <1>8 DEF RoadCycle

\* Driving while the passing timer runs makes the car moved.
LEMMA DrivenMoves ==
  ASSUME passing_timer \in Timers(PassingDelay), UNCHANGED passing_timer, Driven
  PROVE  passing_timer' = passing_timer /\ (passing_timer' >= 0 => moved')
<1>1. passing_timer >= 0 => passing_timer # Cancelled
  BY DEF Timers, Cancelled
<1>2. moved' = (passing_timer # Cancelled)
  BY DEF Driven
<1> QED
  BY <1>1, <1>2

\* PassInv is inductive relative to RoadInv.
LEMMA PassInvNext ==
  ASSUME RoadInv, PassInv, [Next]_vars
  PROVE  PassInv'
<1>0. /\ passing_timer \in Timers(PassingDelay) /\ patience \in 0 .. PassingDelay
      /\ moved \in BOOLEAN
  BY DEF RoadInv, TypeOK
<1>1. CASE ActionInWaitPass
  BY <1>0, <1>1, InWaitPassPatience DEF ActionInWaitPass, PassInv
<1>2. CASE ActionToWaitPass
  <2>1. CASE /\ InWaitPass(Restart(passing_timer, PassingDelay))
             /\ moved' = (moved /\ passing_timer > 0)
    <3>1. Restart(passing_timer, PassingDelay) \in Timers(PassingDelay)
      BY <1>0, TimerTypes
    <3>2. moved' \/ Restart(passing_timer, PassingDelay) + patience >= PassingDelay
      BY <1>0, <2>1, <3>1 DEF Restart, PassInv, Timers
    <3> QED
      BY <2>1, <3>1, <3>2, InWaitPassPatience
  <2>2. CASE /\ pending' = "Block"
             /\ UNCHANGED <<passing_timer, patience, moved>>
    BY <2>2 DEF PassInv, PassPatience
  <2> QED
    BY <1>2, <2>1, <2>2 DEF ActionToWaitPass, timers, ghosts, waiting
<1>3. CASE RoadCycle /\ ~ActionInWaitPass /\ ~ActionToWaitPass
  <2>1. /\ state' # "WaitPass"
        /\ \/ UNCHANGED <<passing_timer, patience, moved>>
           \/ passing_timer' = Cancelled
           \/ UNCHANGED passing_timer /\ Driven
    BY <1>3, PassingTimerCycle
  <2>2. CASE UNCHANGED <<passing_timer, patience, moved>>
    BY <2>1, <2>2 DEF PassInv, PassPatience
  <2>3. CASE passing_timer' = Cancelled
    BY <2>1, <2>3 DEF PassInv, PassPatience, Cancelled
  <2>4. CASE UNCHANGED passing_timer /\ Driven
    BY <1>0, <2>1, <2>4, DrivenMoves DEF PassInv, PassPatience
  <2> QED
    BY <2>1, <2>2, <2>3, <2>4
<1>4. CASE HaltedCycle \/ NavCmd \/ UNCHANGED vars
  <2>1. UNCHANGED <<state, pending, passing_timer, patience, moved>>
    BY <1>4 DEF HaltedCycle, NavCmd, NavCmdContinue, NavCmdReplan, NavCmdStale,
       Arrives, vars, timers, ghosts, waiting
  <2> QED
    BY <2>1 DEF PassInv, PassPatience
<1>5. CASE Resume
  <2>1. UNCHANGED <<state, pending, passing_timer>> /\ Driven
    BY <1>5 DEF Resume, timers
  <2> QED
    BY <1>0, <2>1, DrivenMoves DEF PassInv, PassPatience
<1> QED
  BY <1>1, <1>2, <1>3, <1>4, <1>5 DEF Next

\* The decision to pass comes only after the car has stood for the whole
\* passing_delay since it last drove (ActionInWaitPass), however often it went back
\* and forth between WaitPass and Follow and whatever orders came in between; or
\* after it was driven, while the timer ran, by one of those that do not cancel it:
\* the operator during a suspension, the U-turn, the zone, a dissolved road block.
THEOREM RoadPassPatience == Spec => []PassPatience
<1>1. Init => PassInv
  BY DEF Init, PassInv, PassPatience, Cancelled
<1>2. PassInv => PassPatience
  BY DEF PassInv
<1>3. RoadInv /\ PassInv /\ [Next]_vars => PassInv'
  BY PassInvNext
<1> QED
  BY <1>1, <1>2, <1>3, RoadInvInit, RoadInvNext, PTL DEF Spec
=============================================================================
