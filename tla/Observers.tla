----------------------------- MODULE Observers -----------------------------
(***************************************************************************)
(* The lane observers (art_observers): four small programs that watch the  *)
(* lane ahead, the lane behind and the two lanes beside the vehicle, and   *)
(* tell the navigator how far the first obstacle is and whether the lane   *)
(* is clear.  They live in one node, LaneObservations, that receives the   *)
(* local road map of the map node (MapLanesDriver, mapl.cc), the odometry  *)
(* and the obstacle clouds, each when it comes.  The four share nothing    *)
(* but those inputs, so one of them, any one, is followed here.            *)
(*                                                                         *)
(* A polygon is known by its number, which is its place on the road.       *)
(* Every polygon of the road is one unit long.  Inf stands for the float   *)
(* infinity.  A velocity is known by its kind: "neg", "zero" or "pos" when *)
(* finite, "-inf", "inf" or "nan".  The time between two clouds varies, so *)
(* a mean of velocities of both signs may have any sign, and a closing     *)
(* obstacle may be nearer or farther than the ten seconds of `clear'.      *)
(***************************************************************************)
EXTENDS RoadGraph

CONSTANTS Road,         \* the map node's polygons, as MapRNDF numbers them
          Places,       \* where odometry may put the vehicle (scaled by 3)
          Range2,       \* the square of the map node's range (scaled by 3)
          Window,       \* number_of_observations_ of both filters
          MaxCloud      \* how many polygons a cloud may touch

VARIABLES kind,          \* which observer is followed
          local_map,     \* local_map_, the polygons within range, or NoMap
          pose,          \* pose_
          dists,         \* distance_filter_'s buffer
          speeds,        \* velocity_filter_'s buffer
          observation,   \* observation_
          crashed        \* the observers' node has died

vars == <<kind, local_map, pose, dists, speeds, observation, crashed>>

Kinds == {"Nearest_forward", "Nearest_backward", "Adjacent_left",
          "Adjacent_right"}
NoMap == <<"no map">>
Inf == 1000
Origin == [x |-> 0, y |-> 0]

ObserversInit ==
  /\ kind \in Kinds
  /\ local_map = NoMap
  /\ pose = Origin
  /\ dists = <<>> /\ speeds = <<>>
  /\ observation = [applicable |-> FALSE, clear |-> FALSE, distance |-> Inf,
                    velocity |-> "nan"]
  /\ crashed = FALSE

----------------------------------------------------------------------------
(* The map node: the polygons within range of the last odometry position.  *)

\* The polygon of that number.
Poly(n) == Road[n + 1]

getLanes(here) ==
  SelectSeq([i \in DOMAIN Road |-> i - 1],
            LAMBDA n : Dist2(Poly(n), here) <= Range2)

\* Spin, once odometry has been received; the observers take the message.
publishLocalMap(here) ==
  /\ local_map' = getLanes(here)
  /\ UNCHANGED <<kind, pose, dists, speeds, observation, crashed>>

processPose(here) ==
  /\ pose' = here
  /\ UNCHANGED <<kind, local_map, dists, speeds, observation, crashed>>

----------------------------------------------------------------------------
(* PolyOps and quad_ops: which polygons an observer looks at.              *)

\* The first of the nearest ones, by its place in the list; 0 when empty.
getClosestPoly(polys, here) ==
  IF polys = <<>> THEN 0
  ELSE CHOOSE i \in DOMAIN polys : \A j \in DOMAIN polys :
         \/ Dist2(Poly(polys[i]), here) < Dist2(Poly(polys[j]), here)
         \/ Dist2(Poly(polys[i]), here) = Dist2(Poly(polys[j]), here) /\ i <= j

compare_seg_lane(base, n) ==
  /\ SameLane(Poly(base).start, Poly(n).start)
  /\ SameLane(Poly(base).end, Poly(n).end)
  /\ ~Poly(n).trans

compare_forward_seg_lane(base, n) == n > base /\ compare_seg_lane(base, n)
compare_backward_seg_lane(base, n) == n < base /\ compare_seg_lane(base, n)

AddLanePolys(polys, seg, lane) ==
  SelectSeq(polys, LAMBDA n : /\ SameLane(Poly(n).start, <<seg, lane>>)
                              /\ SameLane(Poly(n).end, <<seg, lane>>))

\* Is polygon m to the left (+1) or to the right (-1) of polygon n, which heads
\* from its start to its end, or to the way-point after or before it?
SideOf(n, m) ==
  LET there == IF n + 1 < Len(Road) /\ compare_seg_lane(n, n + 1)
               THEN Cross(Poly(n), Poly(n + 1), Poly(m))
               ELSE - Cross(Poly(n), Poly(n - 1), Poly(m))
  IN IF there > 0 THEN 1 ELSE IF there < 0 THEN -1 ELSE 0

\* getLaneDir: the polygons of the lane on that side of the vehicle's; the
\* lane numbered one less is tried first.
getLaneDir(polys, direction, here) ==
  LET cur == polys[getClosestPoly(polys, here)]
      lane(n) == AddLanePolys(polys, Poly(cur).start[1], n)
      found(n) == /\ n > 0 /\ lane(n) # <<>>
                  /\ SideOf(cur, lane(n)[getClosestPoly(lane(n), Poly(cur))])
                       = direction
      m == Poly(cur).start[2]
  IN CASE found(m - 1) -> lane(m - 1)
       [] ~found(m - 1) /\ found(m + 1) -> lane(m + 1)
       [] OTHER -> <<>>

\* The middle of a polygon lies within the inner part of that polygon alone.
quickPointInPolyRatio(n, m) == n = m

getObstaclesInLane(obstacles, lane) ==
  SelectSeq(obstacles,
            LAMBDA n : \E m \in ToSet(lane) : quickPointInPolyRatio(n, m))

\* The lengths added up, polygon by polygon, until the target's.
Along(quads, target) ==
  LET hit == {i \in DOMAIN quads : quads[i] = target} IN
  IF hit = {} THEN Len(quads) ELSE CHOOSE i \in hit : \A j \in hit : i <= j

----------------------------------------------------------------------------
(* The observers' update: a distance along the road to the first obstacle  *)
(* in the list, Inf when there is none.                                    *)

\* filterLanes with either comparison.
Ahead(base, quads) == SelectSeq(quads, LAMBDA n : compare_forward_seg_lane(base, n))
Behind(base, quads) == SelectSeq(quads, LAMBDA n : compare_backward_seg_lane(base, n))

NearestForward(base, map, obstacles) ==
  LET obs == Ahead(base, obstacles) IN
  IF obs = <<>> THEN Inf ELSE Along(Ahead(base, map), obs[1])

\* Mutant of NearestBackward: the polygons are left in the order of the map.
BackwardUnreversed(base, map, obstacles) ==
  LET obs == Reverse(Behind(base, obstacles)) IN
  IF obs = <<>> THEN Inf ELSE Along(Behind(base, map), obs[1])

NearestBackward(base, map, obstacles) ==
  LET obs == Reverse(Behind(base, obstacles)) IN
  IF obs = <<>> THEN Inf ELSE Along(Reverse(Behind(base, map)), obs[1])

\* From the polygon nearest to the vehicle, that one counted, up the lane or
\* down it.
Adjacent(direction, here, map, obstacles) ==
  LET lane == getLaneDir(map, direction, here)
      obs == getObstaclesInLane(obstacles, lane)
      i == getClosestPoly(lane, here)
  IN CASE obs = <<>> -> Inf
       [] obs # <<>> /\ lane[i] < obs[1] ->
            Along(SubSeq(lane, i, Len(lane)), obs[1])
       [] OTHER -> Along(Reverse(SubSeq(lane, 1, i)), obs[1])

Distance(k, map, here, obstacles) ==
  LET base == map[getClosestPoly(map, here)] IN
  CASE k = "Nearest_forward"  -> NearestForward(base, map, obstacles)
    [] k = "Nearest_backward" -> NearestBackward(base, map, obstacles)
    [] k = "Adjacent_left"    -> Adjacent(1, here, map, obstacles)
    [] k = "Adjacent_right"   -> Adjacent(-1, here, map, obstacles)

----------------------------------------------------------------------------
(* The filters, over the last Window values, and what is reported.         *)

isFull(buffer) == Len(buffer) = Window

\* Mutant of Push: a full buffer takes no more.
PushUntilFull(buffer, v) ==
  IF isFull(buffer) THEN buffer ELSE Append(buffer, v)

Push(buffer, v) ==
  Append(IF isFull(buffer) THEN Tail(buffer) ELSE buffer, v)

\* The lower median of the values there are.
Median(buffer) ==
  LET k == (Len(buffer) - 1) \div 2
      below(d) == {i \in DOMAIN buffer : buffer[i] < d}
      upto(d) == {i \in DOMAIN buffer : buffer[i] <= d}
  IN CHOOSE d \in ToSet(buffer) :
       Cardinality(below(d)) <= k /\ Cardinality(upto(d)) > k

\* (filt_distance - prev_distance) / time_change, in float arithmetic.
Velocity(filt, prev) ==
  CASE filt = Inf /\ prev = Inf  -> "nan"
    [] filt = Inf /\ prev # Inf  -> "inf"
    [] filt # Inf /\ prev = Inf  -> "-inf"
    [] filt < prev /\ prev # Inf -> "neg"
    [] filt = prev /\ prev # Inf -> "zero"
    [] OTHER                     -> "pos"

\* The means the buffer's velocities may have.
Means(buffer) ==
  LET V == ToSet(buffer) IN
  CASE "nan" \in V \/ {"inf", "-inf"} \subseteq V -> {"nan"}
    [] "nan" \notin V /\ V \cap {"inf", "-inf"} \in {{"inf"}, {"-inf"}} ->
         V \cap {"inf", "-inf"}
    [] {"neg", "pos"} \subseteq V /\ V \subseteq {"neg", "zero", "pos"} ->
         {"neg", "zero", "pos"}
    [] OTHER -> IF V = {"zero"} THEN V ELSE V \ {"zero"}

\* velocity and clear, from the mean v: a negative velocity gives a time to
\* compare with ten seconds (a tiny one is reported as 0.1), none if infinite.
Verdicts(v) ==
  CASE v = "-inf" -> {<<v, FALSE>>}
    [] v = "neg"  -> {"neg", "pos"} \X BOOLEAN
    [] OTHER      -> {<<v, TRUE>>}

Report(distance, verdict, full) ==
  [applicable |-> full, clear |-> verdict[2], distance |-> distance,
   velocity |-> verdict[1]]

update(raw) ==
  /\ dists' = Push(dists, raw)
  /\ speeds' = Push(speeds, Velocity(Median(dists'), observation.distance))
  /\ \E v \in Means(speeds') : \E r \in Verdicts(v) :
       observation' = Report(Median(dists'), r, isFull(speeds'))

----------------------------------------------------------------------------
(* The obstacle clouds.  The polygons a cloud touches come in the order of *)
(* its points, which is any order; a cloud the transform failed on touches *)
(* whichever its untransformed points fall in.  obs_quads_ is emptied and  *)
(* refilled at every cloud, so it is a parameter here and no state.        *)

Clouds(map) ==
  {c \in UNION {[1..n -> ToSet(map)] : n \in 0..MaxCloud} : IsInjective(c)}

\* The distances an observer may measure, tabulated.
Maps == {getLanes(here) : here \in Places}
Measures ==
  [k \in Kinds, map \in Maps \ {<<>>}, here \in Places \cup {Origin} |->
     {Distance(k, map, here, c) : c \in Clouds(map)}]

\* An empty local map has no polygon under the vehicle: index -1 is read.
runObservers ==
  IF local_map = <<>>
  THEN crashed' = TRUE /\ UNCHANGED <<dists, speeds, observation>>
  ELSE /\ \E raw \in Measures[kind, local_map, pose] : update(raw)
       /\ UNCHANGED crashed

processObstacles ==
  /\ local_map # NoMap
  /\ runObservers
  /\ UNCHANGED <<kind, local_map, pose>>

ObserversNext ==
  /\ ~crashed
  /\ \/ processObstacles
     \/ \E here \in Places : publishLocalMap(here) \/ processPose(here)

ObserversSpec == ObserversInit /\ [][ObserversNext]_vars

\* The laser goes on scanning, so clouds go on coming.
ObserversFairSpec == ObserversSpec /\ WF_vars(~crashed /\ processObstacles)

----------------------------------------------------------------------------
(* Properties.                                                             *)

\* The polygons that hold an obstacle of the last cloud and concern the
\* observer, each with its distance by the road's numbering.
Gap(n, m) == IF n < m THEN m - n ELSE n - m

Reach(map, here, o) ==
  LET base == map[getClosestPoly(map, here)]
      far(n) == Dist2(Poly(n), here)
      lane == {n \in ToSet(map) : SameLane(Poly(n).start, Poly(o).start)}
      near == {n \in lane : \A m \in lane : far(n) <= far(m)}
  IN CASE kind = "Nearest_forward" ->
            IF o > base /\ o \in lane /\ base \in lane THEN {Gap(base, o)} ELSE {}
       [] kind = "Nearest_backward" ->
            IF o < base /\ o \in lane /\ base \in lane THEN {Gap(base, o)} ELSE {}
       [] OTHER ->
            IF SideOf(base, o) = (IF kind = "Adjacent_left" THEN 1 ELSE -1)
            THEN {Gap(n, o) + 1 : n \in near} ELSE {}

(* Whatever the order of a cloud's points and however old the map and the  *)
(* pose are, the distance an update measures is the distance along the     *)
(* road to a polygon that holds an obstacle of that cloud, in the lane the *)
(* observer watches; none is measured only when no obstacle is there       *)
(* (update of the four observers).  The map and the pose are the same      *)
(* before the first cloud as after it, so it is asked there.               *)
DistanceIsObstacle ==
  dists = <<>> /\ local_map \notin {NoMap, <<>>} =>
    \A c \in Clouds(local_map) :
      LET R == UNION {Reach(local_map, pose, o) : o \in ToSet(c)}
          d == Distance(kind, local_map, pose, c)
      IN IF d = Inf THEN R = {} ELSE d \in R

Finite == {"neg", "zero", "pos"}

(* The infinities and the NaN that the distance filter feeds the velocity  *)
(* filter leave it again: an obstacle seen in every cloud from some time   *)
(* on has a finite velocity from some time on, and a lane seen empty from  *)
(* some time on is reported clear (MedianFilter and MeanFilter hold the    *)
(* last values only; the mean of a buffer with a NaN is NaN).              *)
ObservationSettles ==
  [](~crashed) =>
    /\ <>[](dists # <<>> /\ Last(dists) # Inf) =>
         <>[](observation.velocity \in Finite)
    /\ <>[](dists # <<>> /\ Last(dists) = Inf) =>
         <>[](observation.clear /\ observation.applicable)

=============================================================================
