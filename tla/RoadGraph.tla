----------------------------- MODULE RoadGraph -----------------------------
(***************************************************************************)
(* What the road network becomes once its file is parsed: the way-point    *)
(* graph (RNDF::prep_graph and populate_graph, RNDF.cc), the lane-change   *)
(* edges the commander adds to it (Graph::find_implicit_edges, Graph.cc)   *)
(* and the numbered road polygons the map node builds from it (MapLanes).  *)
(*                                                                         *)
(* An element id is <<segment, lane, point>>; a zone's perimeter is lane 0 *)
(* of the zone.  Positions are integer coordinates, so a distance is       *)
(* compared by its square and a bearing by the sign of a cross product.    *)
(* Every operator here is a function of its arguments: the modules that    *)
(* extend this one keep the state.                                         *)
(***************************************************************************)
EXTENDS Integers, Sequences, FiniteSets, SequencesExt

\* Lane_marking
Solid == {"DOUBLE_YELLOW", "SOLID_YELLOW", "SOLID_WHITE"}
Markings == Solid \cup {"BROKEN_WHITE", "UNDEFINED"}

NoId == <<-1, -1, -1>>      \* ElementID(), no way-point

Succ(id) == <<id[1], id[2], id[3] + 1>>
SameLane(a, b) == a[1] = b[1] /\ a[2] = b[2]

\* The elements of s that are in P, in their order.
Those(s, P) ==
  LET kept[i \in 0..Len(s)] ==
        IF i = 0 THEN <<>>
        ELSE IF s[i] \in P THEN Append(kept[i - 1], s[i]) ELSE kept[i - 1]
  IN kept[Len(s)]

----------------------------------------------------------------------------
(* RNDF::prep_graph: the vertices, in the order that numbers them.         *)

\* Every lane of the file with its segment, in file order.
Lanes(segments) ==
  FlattenSeq([i \in DOMAIN segments |->
    [j \in DOMAIN segments[i].lanes |->
       [seg |-> segments[i].id, lane |-> segments[i].lanes[j]]]])

Spots(zones) ==
  FlattenSeq([i \in DOMAIN zones |->
    [j \in DOMAIN zones[i].spots |->
       [zone |-> zones[i].id, spot |-> zones[i].spots[j]]]])

Points(seg, lane, wps, k) ==
  [i \in DOMAIN wps |-> [id |-> <<seg, lane, wps[i][1]>>, x |-> wps[i][2],
                         y |-> wps[i][3], kind |-> k]]

Vertices(segments, zones) ==
  LET L == Lanes(segments)  S == Spots(zones) IN
  FlattenSeq([i \in DOMAIN L |->
                Points(L[i].seg, L[i].lane.id, L[i].lane.waypoints, "lane")])
  \o FlattenSeq([i \in DOMAIN S |->
                Points(S[i].zone, S[i].spot.id, S[i].spot.waypoints, "spot")])
  \o FlattenSeq([i \in DOMAIN zones |->
                Points(zones[i].id, 0, zones[i].perimeter.points, "perimeter")])

\* The exits of the lanes, each with its lane's markings, and of the zones.
LaneExits(segments) ==
  LET L == Lanes(segments) IN
  FlattenSeq([i \in DOMAIN L |-> [j \in DOMAIN L[i].lane.exits |->
    [from |-> L[i].lane.exits[j][1], to |-> L[i].lane.exits[j][2],
     left |-> L[i].lane.left, right |-> L[i].lane.right, is_exit |-> TRUE]]])

ZoneExits(zones) ==
  FlattenSeq([i \in DOMAIN zones |-> [j \in DOMAIN zones[i].perimeter.exits |->
    [from |-> zones[i].perimeter.exits[j][1],
     to |-> zones[i].perimeter.exits[j][2],
     left |-> "UNDEFINED", right |-> "UNDEFINED", is_exit |-> TRUE]]])

StopIds(segments) ==
  LET L == Lanes(segments) IN
  UNION {{<<L[i].seg, L[i].lane.id, s>> : s \in ToSet(L[i].lane.stops)}
           : i \in DOMAIN L}

\* Pairs <<way-point, checkpoint number>>; the spots' are set as they are
\* numbered, a lane's afterwards, and the last one named wins.
Checkpoints(segments, zones) ==
  LET L == Lanes(segments)  S == Spots(zones) IN
  [i \in DOMAIN S |-> <<(<<S[i].zone, S[i].spot.id, S[i].spot.checkpoint[1]>>),
                        S[i].spot.checkpoint[2]>>]
  \o FlattenSeq([i \in DOMAIN L |-> [j \in DOMAIN L[i].lane.checkpoints |->
       <<(<<L[i].seg, L[i].lane.id, L[i].lane.checkpoints[j][1]>>),
         L[i].lane.checkpoints[j][2]>>]])

\* Mutant of RefsKnown: the exits are not looked up.
StopsKnown(segments, zones) ==
  StopIds(segments) \subseteq {v.id : v \in ToSet(Vertices(segments, zones))}

\* An exit, a stop or a lane's checkpoint that names a way-point the file does
\* not define makes the file invalid.
RefsKnown(segments, zones) ==
  LET known == {v.id : v \in ToSet(Vertices(segments, zones))}
      L == Lanes(segments) IN
  /\ \A e \in ToSet(LaneExits(segments) \o ZoneExits(zones)) :
        {e.from, e.to} \subseteq known
  /\ StopIds(segments) \subseteq known
  /\ \A i \in DOMAIN L : \A c \in ToSet(L[i].lane.checkpoints) :
        <<L[i].seg, L[i].lane.id, c[1]>> \in known

\* id_map: one node per element id, the last of that id, with the index its
\* line of the file was given.
Nodes(segments, zones) ==
  LET V == Vertices(segments, zones)
      X == ToSet(LaneExits(segments) \o ZoneExits(zones))
      C == Checkpoints(segments, zones)
      last(id) == CHOOSE i \in DOMAIN V :
                     V[i].id = id /\ \A j \in DOMAIN V : V[j].id = id => j <= i
      cp(id) == LET I == {i \in DOMAIN C : C[i][1] = id} IN
                IF I = {} THEN 0
                ELSE C[CHOOSE i \in I : \A j \in I : j <= i][2]
  IN {[id |-> id, index |-> last(id) - 1, x |-> V[last(id)].x,
       y |-> V[last(id)].y, kind |-> V[last(id)].kind,
       is_stop |-> id \in StopIds(segments),
       is_exit |-> \E e \in X : e.from = id,
       is_entry |-> \E e \in X : e.to = id,
       checkpoint_id |-> cp(id)] : id \in {v.id : v \in ToSet(V)}}

----------------------------------------------------------------------------
(* RNDF::prep_graph: the edges.                                            *)

LaneEdges(segments) ==
  LET L == Lanes(segments) IN
  FlattenSeq([i \in DOMAIN L |->
    LET w == L[i].lane.waypoints
        at(k) == <<L[i].seg, L[i].lane.id, w[k][1]>> IN
    [k \in 1..(Len(w) - 1) |->
       [from |-> at(k), to |-> at(k + 1), left |-> L[i].lane.left,
        right |-> L[i].lane.right, is_exit |-> FALSE]]])

\* An exit to the next point of its own lane marks the first edge that joins
\* the two, any other is an edge of its own.
AddExits(edges, exits) ==
  LET own == {x \in ToSet(exits) : x.to = Succ(x.from)}
      Joins(i, x) == edges[i].from = x.from /\ edges[i].to = x.to
      marked(i) == \E x \in own : Joins(i, x) /\ \A j \in 1..(i - 1) : ~Joins(j, x)
  IN [i \in DOMAIN edges |-> [edges[i] EXCEPT !.is_exit = marked(i)]]
     \o Those(exits, ToSet(exits) \ own)

\* The edges inside the zones: from an entry of the perimeter to its other
\* exits, between the perimeter and the first point of every spot, between the
\* two points of a spot and between the first points of two spots.
ZoneEdges(nodes) ==
  {e \in {[from |-> a, to |-> b] : a \in nodes, b \in nodes} :
     LET a == e.from  b == e.to IN
     /\ a.id # b.id /\ a.id[1] = b.id[1]
     /\ \/ /\ a.kind = "perimeter" /\ b.kind = "perimeter"
           /\ a.is_entry /\ b.is_exit /\ a.id[3] # b.id[3]
        \/ a.is_entry /\ b.kind = "spot" /\ b.id[3] = 1
        \/ b.is_exit /\ a.kind = "spot" /\ a.id[3] = 1
        \/ /\ a.kind = "spot" /\ b.kind = "spot"
           /\ \/ a.id[2] = b.id[2] /\ {a.id[3], b.id[3]} = {1, 2}
              \/ a.id[2] # b.id[2] /\ a.id[3] = 1 /\ b.id[3] = 1}

prep_graph(segments, zones) ==
  LET nodes == Nodes(segments, zones) IN
  [nodes |-> nodes,
   edges |-> AddExits(LaneEdges(segments), LaneExits(segments))
             \o ZoneExits(zones),
   inner |-> {[from |-> e.from.id, to |-> e.to.id] : e \in ZoneEdges(nodes)}]

\* populate_graph: an array of id_map.size() nodes, each written at its index.
\* When an id was read twice, later indices lie past the end.  A slot never
\* written holds WayPointNode(), which has no id and no check-point.
populate_graph(g) ==
  [g EXCEPT !.nodes = {n \in g.nodes : n.index < Cardinality(g.nodes)}]

----------------------------------------------------------------------------
(* Graph::find_implicit_edges: where the vehicle may change lanes.         *)

Has(nodes, id) == \E n \in nodes : n.id = id
Get(nodes, id) == CHOOSE n \in nodes : n.id = id

\* find_mapxy asks get_node_by_index for the ends of every edge, and uses the
\* answer without asking whether it is null.
find_mapxy(g) ==
  \A e \in ToSet(g.edges) \cup g.inner : Has(g.nodes, e.from) /\ Has(g.nodes, e.to)

Dist2(a, b) == (a.x - b.x) * (a.x - b.x) + (a.y - b.y) * (a.y - b.y)
Dot(a, b, c, d) == (b.x - a.x) * (d.x - c.x) + (b.y - a.y) * (d.y - c.y)
Cross(a, b, c) == (b.x - a.x) * (c.y - a.y) - (b.y - a.y) * (c.x - a.x)

First(nodes) == {n \in nodes : \A m \in nodes : n.index <= m.index}

Prev(id) == <<id[1], id[2], id[3] - 1>>

\* lanes_in_same_direction: its verdict, and whether b is to the left of a.
\* The headings come from the next way-points, or else from those before.
Direction(nodes, a, b) ==
  LET next == Has(nodes, Succ(a.id)) /\ Has(nodes, Succ(b.id))
      back == Has(nodes, Prev(a.id)) /\ Has(nodes, Prev(b.id))
      a1 == IF next THEN Get(nodes, Succ(a.id)) ELSE Get(nodes, Prev(a.id))
      b1 == IF next THEN Get(nodes, Succ(b.id)) ELSE Get(nodes, Prev(b.id))
  IN IF ~next /\ ~back THEN [same |-> FALSE, left |-> FALSE]
     ELSE [same |-> Dot(a, a1, b, b1) > 0,
           left |-> IF next THEN Cross(a, a1, b) > 0 ELSE Cross(a, a1, b) < 0]

\* Mutant of passing_allowed: only the marking of the own lane is asked.
OwnMarking(g, a, b, left) ==
  \A e \in ToSet(g.edges) :
     e.from = a.id /\ e.to = Succ(a.id) =>
        (IF left THEN e.left ELSE e.right) \notin Solid

\* passing_allowed: neither lane has a solid line on the side of the other,
\* which is not asked at the end of a lane.
passing_allowed(g, a, b, left) ==
  Has(g.nodes, Succ(a.id)) =>
    \A e \in ToSet(g.edges) :
       /\ e.from = a.id /\ e.to = Succ(a.id) =>
             (IF left THEN e.left ELSE e.right) \notin Solid
       /\ e.from = b.id /\ e.to = Succ(b.id) =>
             (IF left THEN e.right ELSE e.left) \notin Solid

\* The nearest point of the lane to the left, the first of equals.
LeftPoint(nodes, a) ==
  LET C == {n \in nodes : n.id[1] = a.id[1] /\ n.id[2] = a.id[2] - 1} IN
  {n \in C : \A m \in C : \/ Dist2(a, n) < Dist2(a, m)
                          \/ Dist2(a, n) = Dist2(a, m) /\ n.index <= m.index}

\* The point of the lane to the right.  The code keeps, for a distance, the
\* outcome of comparing it (Graph.cc:611): the first point scores 1, the next
\* one that is at least that far scores 0 and stays.
RightPoint(nodes, a) ==
  LET C == {n \in nodes : n.id[1] = a.id[1] /\ n.id[2] = a.id[2] + 1}
      far == {n \in C \ First(C) : Dist2(a, n) >= 1}
  IN IF far = {} THEN First(C) ELSE First(far)

Changes(g, a, to) ==
  {[from |-> a.id, to |-> b.id] : b \in {n \in to :
     LET d == Direction(g.nodes, a, n) IN
     d.same /\ passing_allowed(g, a, n, d.left)}}

\* A point without a lane to its left, or next to a stop line there, is left
\* (continue) before its right side is looked at.
ImplicitFrom(g, a) ==
  LET l == LeftPoint(g.nodes, a) IN
  IF \/ a.is_stop \/ a.kind # "lane"
     \/ l = {} \/ \E n \in l : n.is_stop \/ n.kind # "lane"
  THEN {}
  ELSE Changes(g, a, l) \cup Changes(g, a, RightPoint(g.nodes, a))

find_implicit_edges(g) == UNION {ImplicitFrom(g, a) : a \in g.nodes}

----------------------------------------------------------------------------
(* MapLanes::MakePolygons: the road, paved.  A polygon joins two           *)
(* way-points or lies around one (way); its number is its place.  Two      *)
(* polygons, the fewest MakeLanePolygon's halving gives, fill an edge.     *)
(* Coordinates are scaled by 3 so that the fillers have one too.           *)

WayPoly(w) == [start |-> w.id, end |-> w.id, way |-> TRUE, trans |-> FALSE,
               is_stop |-> w.is_stop, x |-> 3 * w.x, y |-> 3 * w.y]

Filler(v, w, i, t) ==
  [start |-> v.id, end |-> w.id, way |-> FALSE, trans |-> t, is_stop |-> FALSE,
   x |-> (3 - i) * v.x + i * w.x, y |-> (3 - i) * v.y + i * w.y]

Fill(v, w, t) == <<Filler(v, w, 1, t), Filler(v, w, 2, t)>>

\* Mutant of MakeLanePolygon: the first way-point is paved every time.
PaveTwice(polys, v, w) ==
  Append(polys, WayPoly(v)) \o Fill(v, w, FALSE) \o <<WayPoly(w)>>

\* MakeLanePolygon: the way-point's own polygon only when the last polygon did
\* not end there.
MakeLanePolygon(polys, v, w) ==
  (IF polys = <<>> \/ Last(polys).end # v.id
   THEN Append(polys, WayPoly(v)) ELSE polys)
  \o Fill(v, w, FALSE) \o <<WayPoly(w)>>

MakeTransitionPolygon(polys, v, w) == polys \o Fill(v, w, TRUE)

\* The way-points collected of one lane, processed.
FlushLane(polys, lane) ==
  FoldLeft(LAMBDA p, i : MakeLanePolygon(p, lane[i], lane[i + 1]), polys,
           [i \in 1..(Len(lane) - 1) |-> i])

\* One edge of the graph: more of the current lane, the start of another, a
\* transition, or nothing (spots, zone to zone, lane to lane of a segment).
WalkEdge(nodes, s, e) ==
  LET v == Get(nodes, e.from)  w == Get(nodes, e.to)
      lane == /\ ~e.is_exit \/ e.to = Succ(e.from)
              /\ v.kind = "lane" /\ w.kind = "lane"
      trans == /\ v.kind # "spot" /\ w.kind # "spot"
               /\ ~(v.kind = "perimeter" /\ w.kind = "perimeter")
               /\ e.from[1] # e.to[1] \/ e.from[2] = e.to[2]
  IN CASE lane /\ s.prev = e.from ->
            [s EXCEPT !.lane = Append(s.lane, w), !.prev = e.to]
       [] lane /\ s.prev # e.from ->
            [polys |-> FlushLane(s.polys, s.lane), lane |-> <<v, w>>,
             prev |-> e.to]
       [] ~lane /\ trans ->
            [polys |-> MakeTransitionPolygon(FlushLane(s.polys, s.lane), v, w),
             lane |-> <<>>, prev |-> NoId]
       [] OTHER -> s

\* MapRNDF: every polygon with its number.
MapRNDF(g) ==
  LET s == FoldLeft(LAMBDA t, e : WalkEdge(g.nodes, t, e),
                    [polys |-> <<>>, lane |-> <<>>, prev |-> NoId], g.edges)
      p == FlushLane(s.polys, s.lane)
  IN [i \in DOMAIN p |-> [poly_id |-> i - 1] @@ p[i]]

=============================================================================
