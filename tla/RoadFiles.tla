----------------------------- MODULE RoadFiles -----------------------------
(***************************************************************************)
(* The files the vehicle starts from: the road network (RNDF) and the      *)
(* mission (MDF), read line by line by the parsers of RNDF.cc, and the     *)
(* mission file the commander keeps so that it can resume after a crash    *)
(* (Mission.cc).  A file may be damaged before it is read: cut short, a    *)
(* line lost, a line doubled.  The commander builds its graph and mission  *)
(* from them (CommanderNode::build_graph), the map node its road polygons  *)
(* (MapLanesDriver::buildRoadMap).                                         *)
(*                                                                         *)
(* A line is a record: its token t and its arguments a, the numbers        *)
(* sscanf finds.  Numbers are taken to be well formed; element ids may     *)
(* belong to the wrong segment or lane.                                    *)
(***************************************************************************)
EXTENDS RoadGraph, TLC

CONSTANTS
  Texts,       \* pairs [rndf, mdf] of undamaged files
  Garbage      \* what an uninitialized integer may hold

VARIABLES
  origin,      \* the undamaged pair (history)
  text,        \* the files on disk
  phase,       \* "rndf", "mdf", "build", "run", "saving", "down",
               \* "refused" or "crashed"
  line,        \* line_number of the file being parsed
  state, previous_state,
  temp,        \* temp_segment, temp_lane, temp_zone, temp_perimeter, temp_spot
  rndf, mdf,   \* what the parsers have built
  graph,       \* the commander's graph with its implicit edges
  polys,       \* the map node's polygons
  mission,     \* [ids, elems]: checkpoint_ids and checkpoint_elementid
  disk,        \* the lines of the mission file
  reached      \* checkpoints reached so far (history)

parseVars == <<line, state, previous_state, temp>>
runVars == <<mission, disk, reached>>
vars == <<origin, text, phase, parseVars, rndf, mdf, graph, polys, runVars>>

Line(t, a) == [t |-> t, a |-> a]

\* The numbers, or the marking, that the line of each token has.
WellFormed(l) ==
  LET Numbers(n) == l.a \in [1..n -> Int] IN
  /\ l.t \in {"segment", "zone", "num_segments", "num_zones", "num_lanes",
              "num_waypoints", "num_spots", "num_perimeterpoints",
              "num_checkpoints", "num_speed_limits", "id"} => Numbers(1)
  /\ l.t \in {"lane", "spot", "perimeter"} => Numbers(2)
  /\ l.t \in {"stop", "limit"} => Numbers(3)
  /\ l.t = "checkpoint" => Numbers(4)
  /\ l.t = "waypoint" => Numbers(5)
  /\ l.t = "exit" => Numbers(6)
  /\ l.t \in {"left_boundary", "right_boundary"} => l.a \in [1..1 -> Markings]

ASSUME FilesAssumption ==
  /\ Garbage \subseteq Int
  /\ \A o \in Texts : \A s \in {o.rndf, o.mdf} :
       s \in Seq(ToSet(s)) /\ \A l \in ToSet(s) : WellFormed(l)

\* The lines of token t.
LinesOf(s, t) == Those(s, {l \in ToSet(s) : l.t = t})

\* Every line of token count states how many lines of token t there are, and
\* there is such a line.
States(s, count, t) ==
  {l.a[1] : l \in {m \in ToSet(s) : m.t = count}} = {Len(LinesOf(s, t))}

\* No mission file of the repository has a comment over several lines.  One
\* that has an end_file (most have none) ends with it and states its lengths.
ASSUME MissionAssumption ==
  \A o \in Texts :
    /\ \A l \in ToSet(o.mdf) : l.t # "comment"
    /\ \A i \in DOMAIN o.mdf : o.mdf[i].t = "end_file" =>
         /\ i = Len(o.mdf)
         /\ States(o.mdf, "num_checkpoints", "id")
         /\ States(o.mdf, "num_speed_limits", "limit")

----------------------------------------------------------------------------
(* A damaged file: whole, cut after some line, a line lost, a line twice.  *)

Damaged(s) ==
  {s} \cup {SubSeq(s, 1, i) : i \in 0..(Len(s) - 1)}
      \cup {RemoveAt(s, i) : i \in 1..Len(s)}
      \cup {InsertAt(s, i, s[i]) : i \in 1..Len(s)}

----------------------------------------------------------------------------
(* What the parsers build.  clear() leaves the numbers at INT_MIN.         *)

INT_MIN == -1

NoLane == [id |-> INT_MIN, n |-> INT_MIN, left |-> "UNDEFINED",
           right |-> "UNDEFINED", waypoints |-> <<>>, checkpoints |-> <<>>,
           stops |-> <<>>, exits |-> <<>>]
NoSegment == [id |-> INT_MIN, n |-> INT_MIN, lanes |-> <<>>]
NoPerimeter == [id |-> INT_MIN, n |-> INT_MIN, points |-> <<>>, exits |-> <<>>]
NoSpot == [id |-> INT_MIN, waypoints |-> <<>>, checkpoint |-> <<-1, -1>>]
NoZone == [id |-> INT_MIN, n |-> INT_MIN, perimeter |-> NoPerimeter,
           spots |-> <<>>]
NoTemp == [segment |-> NoSegment, lane |-> NoLane, zone |-> NoZone,
           perimeter |-> NoPerimeter, spot |-> NoSpot]

NewRNDF == [segments |-> <<>>, zones |-> <<>>, number_of_segments |-> -1,
            number_of_zones |-> -1, is_valid |-> TRUE, ended |-> FALSE]

\* MDF::MDF leaves its counts uninitialized.
NewMDF(m, n) == [checkpoint_ids |-> <<>>, speed_limits |-> <<>>,
                 number_of_checkpoints |-> m, number_of_speedlimits |-> n,
                 is_valid |-> TRUE, ended |-> FALSE]

Bad == [bad |-> TRUE]         \* a line that is refused

----------------------------------------------------------------------------
(* Reading a line: the keywords that change the state wherever they        *)
(* stand, except inside a comment.                                         *)

Lines == text[phase]
Now == Lines[line + 1]
More == line < Len(Lines)

RndfKeyword ==
  [RNDF_name |-> "GENERAL", segment |-> "SEGMENTS", lane |-> "LANES",
   zone |-> "ZONES", perimeter |-> "PERIMETER", spot |-> "PARKING_SPOT",
   comment |-> "COMMENT", remark |-> "COMMENT"]

MdfKeyword ==
  [MDF_name |-> "MDF_GENERAL", checkpoints |-> "MDF_CHECKPOINTS",
   speed_limits |-> "MDF_SPEEDLIMITS", comment |-> "MDF_COMMENT",
   remark |-> "MDF_COMMENT"]

\* The token of a comment is "remark" when the line also ends it.
Keyword == IF phase = "rndf" THEN RndfKeyword ELSE MdfKeyword
InComment == state \in {"COMMENT", "MDF_COMMENT"}
Switches == ~InComment /\ Now.t \in DOMAIN Keyword
Here == IF Switches THEN Keyword[Now.t] ELSE state
Before == IF Switches THEN state ELSE previous_state

Read(s) == phase \in {"rndf", "mdf"} /\ More /\ Here = s

\* The line is accepted and the parser is in state s afterwards.
Accept(s) ==
  /\ line' = line + 1
  /\ state' = s
  /\ previous_state' = IF s = Here THEN Before ELSE Here
  /\ UNCHANGED <<origin, text, phase, graph, polys, runVars>>

\* A refused line ends the parse: is_valid is cleared and the constructor
\* returns, without building the graph.
Refuse ==
  /\ rndf' = IF phase = "rndf" THEN [rndf EXCEPT !.is_valid = FALSE] ELSE rndf
  /\ mdf' = IF phase = "mdf" THEN [mdf EXCEPT !.is_valid = FALSE] ELSE mdf
  /\ phase' = IF phase = "rndf" THEN "mdf" ELSE "build"
  /\ line' = 0 /\ state' = "UNKNOWN" /\ previous_state' = "UNKNOWN"
  /\ temp' = NoTemp
  /\ UNCHANGED <<origin, text, graph, polys, runVars>>

\* A comment runs to the line that holds its end.
ReadComment ==
  /\ \E c \in {"COMMENT", "MDF_COMMENT"} : Read(c)
  /\ LET over == Now.t \in {"remark", "comment_end"} IN
     /\ line' = line + 1
     /\ state' = IF over THEN Before ELSE Here
     /\ previous_state' = Before
  /\ UNCHANGED <<origin, text, phase, temp, rndf, mdf, graph, polys, runVars>>

\* A line before any keyword.
ReadUnknown == Read("UNKNOWN") /\ Refuse

\* Either the new value v is good and goes where Put says, or the line is
\* refused.
Take(v, Put(_)) == IF v = Bad THEN Refuse ELSE Put(v) /\ Accept(Here)

----------------------------------------------------------------------------
(* The road network, one operator per state of the parser.                 *)

rndf_isvalid ==
  /\ rndf.number_of_segments > 0 /\ rndf.number_of_zones >= 0
  /\ rndf.number_of_segments = Len(rndf.segments)
  /\ rndf.number_of_zones = Len(rndf.zones)

GeneralLine(r, l) ==
  CASE l.t \in {"RNDF_name", "format_version", "creation_date"} -> r
    [] l.t = "num_segments" /\ l.a[1] > 0 ->
         [r EXCEPT !.number_of_segments = l.a[1]]
    [] l.t = "num_zones" /\ l.a[1] >= 0 ->
         [r EXCEPT !.number_of_zones = l.a[1]]
    [] l.t = "end_file" /\ rndf_isvalid -> [r EXCEPT !.ended = TRUE]
    [] OTHER -> Bad

ReadGeneral ==
  /\ Read("GENERAL")
  /\ Take(GeneralLine(rndf, Now),
          LAMBDA v : rndf' = v /\ UNCHANGED <<temp, mdf>>)

SegmentLine(s, l) ==
  CASE l.t = "segment" /\ l.a[1] > 0 -> [s EXCEPT !.id = l.a[1]]
    [] l.t = "num_lanes" /\ l.a[1] > 0 -> [s EXCEPT !.n = l.a[1]]
    [] l.t = "segment_name" -> s
    [] OTHER -> Bad

segment_isvalid(s) == s.id > 0 /\ s.n > 0 /\ s.n = Len(s.lanes)

ReadSegment ==
  /\ Read("SEGMENTS") /\ Now.t # "end_segment"
  /\ Take(SegmentLine(temp.segment, Now),
          LAMBDA v : temp' = [temp EXCEPT !.segment = v]
                     /\ UNCHANGED <<rndf, mdf>>)

EndSegment ==
  /\ Read("SEGMENTS") /\ Now.t = "end_segment"
  /\ IF segment_isvalid(temp.segment)
     THEN /\ rndf' = [rndf EXCEPT !.segments = Append(@, temp.segment)]
          /\ temp' = [temp EXCEPT !.segment = NoSegment]
          /\ Accept("GENERAL") /\ UNCHANGED mdf
     ELSE Refuse

\* The elements of lanes, perimeters and spots.

unique_isvalid(id) == id[3] > 0 /\ id[2] >= 0 /\ id[1] > 0
waypoint_isvalid(l) == l.a[3] > 0
checkpoint_isvalid(l) == l.a[3] > 0 /\ l.a[4] > 0
exit_isvalid(l) ==
  unique_isvalid(SubSeq(l.a, 1, 3)) /\ unique_isvalid(SubSeq(l.a, 4, 6))

\* Stop::isvalid asks the same of a stop as of a way-point.
stop_isvalid(l) == l.a[3] > 0

limit_isvalid(l) == l.a[1] > 0 /\ l.a[2] >= 0 /\ l.a[3] >= 0

\* The format of sscanf names the segment x and the lane y being read, and an
\* element of another lane does not match.
Matches(x, y, l) == Len(l.a) > 2 /\ l.a[1] = x /\ l.a[2] = y

LaneLine(seg, w, l) ==
  LET mine == Matches(seg, w.id, l) IN
  CASE l.t = "lane" /\ l.a[1] = seg /\ l.a[2] > 0 -> [w EXCEPT !.id = l.a[2]]
    [] l.t = "num_waypoints" /\ l.a[1] > 0 -> [w EXCEPT !.n = l.a[1]]
    [] l.t = "lane_width" /\ l.a[1] > 0 -> w
    [] l.t = "left_boundary" -> [w EXCEPT !.left = l.a[1]]
    [] l.t = "right_boundary" -> [w EXCEPT !.right = l.a[1]]
    [] l.t = "checkpoint" /\ mine /\ checkpoint_isvalid(l) ->
         [w EXCEPT !.checkpoints = Append(@, <<l.a[3], l.a[4]>>)]
    [] l.t = "stop" /\ mine /\ stop_isvalid(l) -> [w EXCEPT !.stops = Append(@, l.a[3])]
    [] l.t = "exit" /\ mine /\ exit_isvalid(l) ->
         [w EXCEPT !.exits = Append(@, <<SubSeq(l.a, 1, 3), SubSeq(l.a, 4, 6)>>)]
    [] l.t = "waypoint" /\ mine /\ waypoint_isvalid(l) ->
         [w EXCEPT !.waypoints = Append(@, SubSeq(l.a, 3, 5))]
    [] OTHER -> Bad

\* Mutant of lane_isvalid: the way-points are not counted.
AnyCount(w) == w.id > 0 /\ w.n > 0

lane_isvalid(w) == w.id > 0 /\ w.n > 0 /\ w.n = Len(w.waypoints)

ReadLane ==
  /\ Read("LANES") /\ Now.t # "end_lane"
  /\ Take(LaneLine(temp.segment.id, temp.lane, Now),
          LAMBDA v : temp' = [temp EXCEPT !.lane = v] /\ UNCHANGED <<rndf, mdf>>)

EndLane ==
  /\ Read("LANES") /\ Now.t = "end_lane"
  /\ IF lane_isvalid(temp.lane)
     THEN /\ temp' = [temp EXCEPT !.segment.lanes = Append(@, temp.lane),
                                  !.lane = NoLane]
          /\ Accept("SEGMENTS") /\ UNCHANGED <<rndf, mdf>>
     ELSE Refuse

ZoneLine(z, l) ==
  CASE l.t = "zone" /\ l.a[1] > 0 -> [z EXCEPT !.id = l.a[1]]
    [] l.t = "num_spots" /\ l.a[1] >= 0 -> [z EXCEPT !.n = l.a[1]]
    [] l.t = "zone_name" -> z
    [] OTHER -> Bad

zone_isvalid(z) == z.id > 0 /\ z.n >= 0 /\ z.n = Len(z.spots)

ReadZone ==
  /\ Read("ZONES") /\ Now.t # "end_zone"
  /\ Take(ZoneLine(temp.zone, Now),
          LAMBDA v : temp' = [temp EXCEPT !.zone = v] /\ UNCHANGED <<rndf, mdf>>)

EndZone ==
  /\ Read("ZONES") /\ Now.t = "end_zone"
  /\ IF zone_isvalid(temp.zone)
     THEN /\ rndf' = [rndf EXCEPT !.zones = Append(@, temp.zone)]
          /\ temp' = [temp EXCEPT !.zone = NoZone]
          /\ Accept("GENERAL") /\ UNCHANGED mdf
     ELSE Refuse

PerimeterLine(zone, p, l) ==
  LET mine == Matches(zone, 0, l) IN
  CASE l.t = "perimeter" /\ l.a = <<zone, 0>> -> [p EXCEPT !.id = 0]
    [] l.t = "num_perimeterpoints" /\ l.a[1] > 0 -> [p EXCEPT !.n = l.a[1]]
    [] l.t = "exit" /\ mine /\ exit_isvalid(l) ->
         [p EXCEPT !.exits = Append(@, <<SubSeq(l.a, 1, 3), SubSeq(l.a, 4, 6)>>)]
    [] l.t = "waypoint" /\ mine /\ waypoint_isvalid(l) ->
         [p EXCEPT !.points = Append(@, SubSeq(l.a, 3, 5))]
    [] OTHER -> Bad

perimeter_isvalid(p) == p.id = 0 /\ p.n > 0 /\ p.n = Len(p.points)

ReadPerimeter ==
  /\ Read("PERIMETER") /\ Now.t # "end_perimeter"
  /\ Take(PerimeterLine(temp.zone.id, temp.perimeter, Now),
          LAMBDA v : temp' = [temp EXCEPT !.perimeter = v]
                     /\ UNCHANGED <<rndf, mdf>>)

EndPerimeter ==
  /\ Read("PERIMETER") /\ Now.t = "end_perimeter"
  /\ IF perimeter_isvalid(temp.perimeter)
     THEN /\ temp' = [temp EXCEPT !.zone.perimeter = temp.perimeter,
                                  !.perimeter = NoPerimeter]
          /\ Accept("ZONES") /\ UNCHANGED <<rndf, mdf>>
     ELSE Refuse

SpotLine(zone, s, l) ==
  LET mine == Matches(zone, s.id, l) IN
  CASE l.t = "spot" /\ l.a[1] = zone /\ l.a[2] > 0 -> [s EXCEPT !.id = l.a[2]]
    [] l.t = "spot_width" /\ l.a[1] > 0 -> s
    [] l.t = "checkpoint" /\ mine /\ checkpoint_isvalid(l) ->
         [s EXCEPT !.checkpoint = <<l.a[3], l.a[4]>>]
    [] l.t = "waypoint" /\ mine /\ waypoint_isvalid(l) ->
         [s EXCEPT !.waypoints = Append(@, SubSeq(l.a, 3, 5))]
    [] OTHER -> Bad

ReadSpot ==
  /\ Read("PARKING_SPOT") /\ Now.t # "end_spot"
  /\ Take(SpotLine(temp.zone.id, temp.spot, Now),
          LAMBDA v : temp' = [temp EXCEPT !.spot = v] /\ UNCHANGED <<rndf, mdf>>)

\* Spot::isvalid asks for a number, not for its way-points.
EndSpot ==
  /\ Read("PARKING_SPOT") /\ Now.t = "end_spot"
  /\ IF temp.spot.id > 0
     THEN /\ temp' = [temp EXCEPT !.zone.spots = Append(@, temp.spot),
                                  !.spot = NoSpot]
          /\ Accept("ZONES") /\ UNCHANGED <<rndf, mdf>>
     ELSE Refuse

\* The end of the file, wherever it comes: prep_graph tells whether what was
\* read is consistent.  Whether end_file was among it is not asked.
EndOfRNDF ==
  /\ phase = "rndf" /\ ~More
  /\ rndf' = [rndf EXCEPT !.is_valid = RefsKnown(rndf.segments, rndf.zones)]
  /\ phase' = "mdf"
  /\ line' = 0 /\ state' = "UNKNOWN" /\ previous_state' = "UNKNOWN"
  /\ temp' = NoTemp
  /\ UNCHANGED <<origin, text, mdf, graph, polys, runVars>>

----------------------------------------------------------------------------
(* The mission description.                                                *)

\* Mutant of mdf_isvalid: the check-points are not counted.
AnyCheckpoints ==
  /\ mdf.number_of_checkpoints > 0 /\ mdf.number_of_speedlimits > 0
  /\ mdf.number_of_speedlimits = Len(mdf.speed_limits)

mdf_isvalid ==
  /\ mdf.number_of_checkpoints > 0 /\ mdf.number_of_speedlimits > 0
  /\ mdf.number_of_checkpoints = Len(mdf.checkpoint_ids)
  /\ mdf.number_of_speedlimits = Len(mdf.speed_limits)

MdfGeneralLine(m, l) ==
  CASE l.t \in {"MDF_name", "RNDF", "format_version", "creation_date"} -> m
    [] l.t = "end_file" /\ mdf_isvalid -> [m EXCEPT !.ended = TRUE]
    [] OTHER -> Bad

ReadMdfGeneral ==
  /\ Read("MDF_GENERAL")
  /\ Take(MdfGeneralLine(mdf, Now),
          LAMBDA v : mdf' = v /\ UNCHANGED <<temp, rndf>>)

CheckpointsLine(m, l) ==
  CASE l.t = "checkpoints" -> m
    [] l.t = "num_checkpoints" /\ l.a[1] > 0 ->
         [m EXCEPT !.number_of_checkpoints = l.a[1]]
    [] l.t = "id" /\ l.a[1] > 0 ->
         [m EXCEPT !.checkpoint_ids = Append(@, l.a[1])]
    [] OTHER -> Bad

ReadCheckpoints ==
  /\ Read("MDF_CHECKPOINTS") /\ Now.t # "end_checkpoints"
  /\ Take(CheckpointsLine(mdf, Now),
          LAMBDA v : mdf' = v /\ UNCHANGED <<temp, rndf>>)

SpeedLimitsLine(m, l) ==
  CASE l.t = "speed_limits" -> m
    [] l.t = "num_speed_limits" /\ l.a[1] > 0 ->
         [m EXCEPT !.number_of_speedlimits = l.a[1]]
    [] l.t = "limit" /\ limit_isvalid(l) ->
         [m EXCEPT !.speed_limits = Append(@, l.a)]
    [] OTHER -> Bad

ReadSpeedLimits ==
  /\ Read("MDF_SPEEDLIMITS") /\ Now.t # "end_speed_limits"
  /\ Take(SpeedLimitsLine(mdf, Now),
          LAMBDA v : mdf' = v /\ UNCHANGED <<temp, rndf>>)

\* A count that does not match is only printed here.
EndMdfBlock ==
  /\ \/ Read("MDF_CHECKPOINTS") /\ Now.t = "end_checkpoints"
     \/ Read("MDF_SPEEDLIMITS") /\ Now.t = "end_speed_limits"
  /\ Accept("MDF_GENERAL")
  /\ UNCHANGED <<temp, rndf, mdf>>

EndOfMDF ==
  /\ phase = "mdf" /\ ~More
  /\ phase' = "build"
  /\ UNCHANGED <<origin, text, parseVars, rndf, mdf, graph, polys, runVars>>

----------------------------------------------------------------------------
(* From the files to the road and the mission.                             *)

NoGraph == [nodes |-> {}, edges |-> <<>>, inner |-> {}, implicit |-> {},
            speed |-> <<>>]
NoMission == [ids |-> <<>>, elems |-> <<>>]

\* Mission::Mission: an id that repeats the one before is dropped.
Mission(ids) ==
  LET new == {i \in DOMAIN ids : i > 1 => ids[i] # ids[i - 1]}
      kept == Those([i \in DOMAIN ids |-> i], new)
  IN [j \in DOMAIN kept |-> ids[kept[j]]]

\* Mission::populate_elementid: the way-point of each check-point, the first in
\* the graph that has its number; one that the road network does not have is
\* left out, and the lengths tell.
WaypointOf(nodes, c) ==
  LET N == {n \in nodes : n.checkpoint_id = c} IN
  (CHOOSE n \in N : \A m \in N : n.index <= m.index).id

Elements(nodes, ids) ==
  LET known == Those(ids, {n.checkpoint_id : n \in nodes})
  IN [j \in DOMAIN known |-> WaypointOf(nodes, known[j])]

DEFAULT_LANE_SPEED == 30        \* miles per hour, as the limits are

\* The limit that counts for segment s: the last one of the list.
LimitOf(limits, s) == limits[Max({i \in DOMAIN limits : limits[i][1] = s})]

\* Mutant of add_speed_limits: a limit of 0 is taken as it stands.
ZeroIsLimit(nodes, limits) ==
  [s \in {n.id[1] : n \in nodes} |->
     IF \A i \in DOMAIN limits : limits[i][1] # s
     THEN [min |-> 0, max |-> DEFAULT_LANE_SPEED]
     ELSE LET l == LimitOf(limits, s) IN [min |-> l[2], max |-> l[3]]]

\* MDF::add_speed_limits: the speeds of an edge depend on the segment it
\* leaves.  The last limit of a segment counts, a maximum of 0 is none, and a
\* maximum below the minimum is raised.  Lane changes lose their own speed.
add_speed_limits(nodes, limits) ==
  [s \in {n.id[1] : n \in nodes} |->
     IF \A i \in DOMAIN limits : limits[i][1] # s
     THEN [min |-> 0, max |-> DEFAULT_LANE_SPEED]
     ELSE LET l == LimitOf(limits, s)
              top == IF l[3] = 0 THEN DEFAULT_LANE_SPEED ELSE l[3]
          IN [min |-> l[2], max |-> Max({l[2], top})]]

\* The graph of the road network, in its array.
Populated == populate_graph(prep_graph(rndf.segments, rndf.zones))

BuiltGraph ==
  LET g == Populated IN
  [nodes |-> g.nodes, edges |-> g.edges, inner |-> g.inner,
   implicit |-> find_implicit_edges(g),
   speed |-> IF mdf.is_valid THEN add_speed_limits(g.nodes, mdf.speed_limits)
             ELSE <<>>]

Exits(p) ==
  /\ phase' = p
  /\ UNCHANGED <<origin, text, parseVars, rndf, mdf, runVars>>

\* A null node ends the process; a node written past the end of the array may.
Dies ==
  /\ ~find_mapxy(Populated)
     \/ Populated.nodes # Nodes(rndf.segments, rndf.zones)
  /\ Exits("crashed")
  /\ UNCHANGED <<graph, polys>>

\* CommanderNode::build_graph, without a stored mission.  The map node builds
\* its polygons from the same file in its own process
\* (MapLanesDriver::buildRoadMap), and is taken to end in the same cases.
build_graph ==
  /\ phase = "build" /\ graph = NoGraph
  /\ IF ~rndf.is_valid THEN Exits("refused") /\ UNCHANGED <<graph, polys>>
     ELSE \/ Dies
          \/ /\ find_mapxy(Populated)
             /\ graph' = BuiltGraph /\ polys' = MapRNDF(Populated)
             /\ LET ids == Mission(mdf.checkpoint_ids)
                    m == [ids |-> ids, elems |-> Elements(graph'.nodes, ids)]
                IN IF \/ ~mdf.is_valid \/ Len(m.elems) # Len(m.ids)
                      \/ m.ids = <<>>
                   THEN Exits("refused")
                   ELSE /\ phase' = "run" /\ mission' = m
                        /\ UNCHANGED <<origin, text, parseVars, rndf, mdf, disk,
                                       reached>>

----------------------------------------------------------------------------
(* Check-points are reached and the mission file is rewritten each time.   *)

\* Mission::save: every line of the file.
Saved(m) ==
  <<Line("MISSION-STATE", <<>>), Line("Number", <<Len(m.ids)>>)>>
  \o [i \in DOMAIN m.ids |-> Line("Id", <<m.ids[i]>>)]
  \o [i \in DOMAIN m.elems |-> Line("ElementID", m.elems[i])]

\* How many check-points come before the rest ids of the mission.
Passed(ids) == Len(Mission(mdf.checkpoint_ids)) - Len(ids)

\* Commander::next_checkpoint: Mission::nextPoint, then save.
next_checkpoint ==
  /\ phase = "run" /\ mission.ids # <<>>
  /\ mission' = [ids |-> Tail(mission.ids), elems |-> Tail(mission.elems)]
  /\ reached' = Max({reached, Passed(mission'.ids)})
  /\ phase' = "saving"
  /\ UNCHANGED <<origin, text, parseVars, rndf, mdf, graph, polys, disk>>

\* From fopen to fclose: the whole file is there.
save ==
  /\ phase = "saving"
  /\ disk' = Saved(mission)
  /\ phase' = "run"
  /\ UNCHANGED <<origin, text, parseVars, rndf, mdf, graph, polys, mission,
                 reached>>

\* A line cut by the crash: its token, its numbers, or nothing but its end.
Torn(l) ==
  {Line("cut", <<>>), Line(l.t, <<>>), l}
    \cup {Line(l.t, SubSeq(l.a, 1, i)) : i \in 0..Len(l.a)}
    \cup {[l EXCEPT !.a[Len(l.a)] = g] : g \in IF l.a = <<>> THEN {} ELSE Garbage}

\* The process or the computer dies: with the file as it was (fopen has not
\* emptied it yet), or half written.
Crash ==
  /\ \/ phase \in {"run", "saving"} /\ UNCHANGED disk
     \/ /\ phase = "saving"
        /\ LET s == Saved(mission) IN
           \/ \E i \in 0..Len(s) : disk' = SubSeq(s, 1, i)
           \/ \E i \in 1..Len(s) : \E l \in Torn(s[i]) :
                disk' = Append(SubSeq(s, 1, i - 1), l)
  /\ phase' = "down"
  /\ mission' = NoMission
  /\ UNCHANGED <<origin, text, parseVars, rndf, mdf, graph, polys, reached>>

\* parse_integer tests sscanf for 0, and it returns EOF when nothing is left:
\* the integer is then what the memory held.
Ints(l) == IF l.a = <<>> THEN Garbage ELSE {l.a[1]}

\* parse_elementid likewise: the numbers that are missing are -1.
ElementOf(l) == [i \in 1..3 |-> IF i <= Len(l.a) THEN l.a[i] ELSE -1]

\* What may be read from the lines of token t, as sequences.
Values(s, t) ==
  LET L == LinesOf(s, t) IN
  {f \in [DOMAIN L -> UNION ({Garbage} \cup {Ints(l) : l \in ToSet(L)})] :
     \A i \in DOMAIN L : f[i] \in Ints(L[i])}

\* Mutant of load: the check-points are not compared with the graph.
LoadUnchecked(s, nodes) ==
  LET E == LinesOf(s, "ElementID")
      elems == [i \in DOMAIN E |-> ElementOf(E[i])]
  IN {m \in {[ids |-> ids, elems |-> elems] : ids \in Values(s, "Id")} :
        /\ Len(s) >= 4
        /\ s[1].t = "MISSION-STATE" /\ s[2].t = "Number"
        /\ \A i \in 3..Len(s) : s[i].t \in {"Id", "ElementID"}
        /\ Len(m.ids) \in Ints(s[2]) /\ Len(m.elems) \in Ints(s[2])}

\* Mission::load: the missions that may come of the file, none if it is
\* refused.
load(s, nodes) ==
  LET E == LinesOf(s, "ElementID")
      elems == [i \in DOMAIN E |-> ElementOf(E[i])]
  IN {m \in {[ids |-> ids, elems |-> elems] : ids \in Values(s, "Id")} :
        /\ Len(s) >= 4
        /\ s[1].t = "MISSION-STATE" /\ s[2].t = "Number"
        /\ \A i \in 3..Len(s) : s[i].t \in {"Id", "ElementID"}
        /\ Len(m.ids) \in Ints(s[2]) /\ Len(m.elems) \in Ints(s[2])
        /\ \A j \in DOMAIN m.ids : \A n \in nodes :
             n.checkpoint_id = m.ids[j] => m.elems[j] = n.id}

\* The commander restarted with the stored mission.  The files it parses again
\* are the ones it started from.
Restart ==
  /\ phase = "down"
  /\ LET M == load(disk, graph.nodes) IN
     \/ \E m \in M : /\ phase' = (IF m.ids = <<>> THEN "refused" ELSE "run")
                     /\ mission' = m
     \/ M = {} /\ phase' = "refused" /\ UNCHANGED mission
  /\ UNCHANGED <<origin, text, parseVars, rndf, mdf, graph, polys, disk, reached>>

----------------------------------------------------------------------------
FilesInit ==
  /\ \E o \in Texts :
       /\ origin = o
       /\ \/ text \in {[rndf |-> d, mdf |-> o.mdf] : d \in Damaged(o.rndf)}
          \/ text \in {[rndf |-> o.rndf, mdf |-> d] : d \in Damaged(o.mdf)}
  /\ phase = "rndf" /\ line = 0
  /\ state = "UNKNOWN" /\ previous_state = "UNKNOWN" /\ temp = NoTemp
  /\ rndf = NewRNDF
  /\ mdf \in {NewMDF(m, n) : m \in Garbage, n \in Garbage}
  /\ graph = NoGraph /\ polys = <<>>
  /\ mission = NoMission /\ disk = <<>> /\ reached = 0

FilesNext ==
  \/ ReadComment \/ ReadUnknown \/ ReadGeneral \/ ReadSegment \/ EndSegment
  \/ ReadLane \/ EndLane \/ ReadZone \/ EndZone \/ ReadPerimeter
  \/ EndPerimeter \/ ReadSpot \/ EndSpot \/ EndOfRNDF
  \/ ReadMdfGeneral \/ ReadCheckpoints \/ ReadSpeedLimits \/ EndMdfBlock
  \/ EndOfMDF \/ build_graph \/ next_checkpoint \/ save \/ Crash \/ Restart

FilesSpec == FilesInit /\ [][FilesNext]_vars

----------------------------------------------------------------------------
(* Properties.                                                             *)

\* The element ids and places of the counted way-points of a parse.
Counted(segments, zones) ==
  {v \in ToSet(Vertices(segments, zones)) : v.kind # "spot"}

\* The parse of an undamaged road network, as the text says it.
Written(s) ==
  {[id |-> SubSeq(l.a, 1, 3), x |-> l.a[4], y |-> l.a[5]] :
     l \in {m \in ToSet(s) : m.t = "waypoint"}}

\* The counts of the road network do their work: a file that lost or doubled
\* a line and is accepted to its end_file still gives every lane and perimeter
\* way-point of the undamaged road network and nothing else.  (RNDF::RNDF, the
\* isvalid methods of RNDF.h.  Spots, exits, stops and check-points of the
\* network are not counted by the format.)
NetworkIntact ==
  phase # "rndf" /\ rndf.is_valid /\ rndf.ended =>
    {[id |-> v.id, x |-> v.x, y |-> v.y] : v \in
       Counted(rndf.segments, rndf.zones)} =
    {w \in Written(origin.rndf) :
       \A l \in ToSet(origin.rndf) :
          l.t = "spot" => SubSeq(w.id, 1, 2) # l.a}

\* The counts of the mission do theirs: a mission file that lost or doubled a
\* line and is accepted to its end_file still gives every check-point and every
\* speed limit of the undamaged mission, in their order, although the counts
\* hold what the memory held until their lines are read (MDF::MDF,
\* MDF::isvalid).
MissionIntact ==
  phase \notin {"rndf", "mdf"} /\ mdf.is_valid /\ mdf.ended =>
    LET I == LinesOf(origin.mdf, "id")
        L == LinesOf(origin.mdf, "limit")
    IN /\ mdf.checkpoint_ids = [i \in DOMAIN I |-> I[i].a[1]]
       /\ mdf.speed_limits = [i \in DOMAIN L |-> L[i].a]

\* A mission that starts from files read to their end_file drives every edge
\* at the speeds the undamaged mission states for the segment it leaves: its
\* limit, and the default where it states none or 0 (MDF::MDF,
\* MDF::add_speed_limits).
SpeedsAsStated ==
  phase = "run" /\ rndf.ended /\ mdf.ended =>
    \A e \in ToSet(graph.edges) \cup graph.inner \cup graph.implicit :
      LET v == graph.speed[e.from[1]]
          stated == {k.a : k \in {l \in ToSet(origin.mdf) :
                                    l.t = "limit" /\ l.a[1] = e.from[1]}}
      IN IF stated = {} THEN v = [min |-> 0, max |-> DEFAULT_LANE_SPEED]
         ELSE \E a \in stated :
                /\ v.min = a[2] /\ v.min <= v.max
                /\ IF a[3] = 0 THEN v.max >= DEFAULT_LANE_SPEED
                   ELSE a[3] >= a[2] => v.max = a[3]

\* However the road network was damaged, the commander finds the node of every
\* edge it follows without asking, and writes no node past the end of its array,
\* unless a way-point was read twice, as one of a spot may be, for the format
\* does not count them (RNDF::prep_graph, RNDF::populate_graph,
\* Graph::find_mapxy, Graph::find_implicit_edges).
EdgesAnchored ==
  /\ phase = "crashed" =>
       LET V == Vertices(rndf.segments, rndf.zones) IN
       \E i, j \in DOMAIN V : i # j /\ V[i].id = V[j].id
  /\ \A e \in ToSet(graph.edges) \cup graph.inner \cup graph.implicit :
       Has(graph.nodes, e.from) /\ Has(graph.nodes, e.to)

\* A lane change the commander may plan stays in its segment, leads to a lane
\* that runs the same way and crosses no solid line, except at the end of a lane,
\* where the markings are not asked.  The way of a lane is that of its piece
\* after the way-point or, where one of the two lanes ends, of the piece before
\* it (Graph::find_implicit_edges).
ChangesLegal ==
  \A e \in graph.implicit :
    LET N == graph.nodes
        on == Has(N, Succ(e.from)) /\ Has(N, Succ(e.to))
        tail(id) == Get(N, IF on THEN id ELSE Prev(id))
        head(id) == Get(N, IF on THEN Succ(id) ELSE id)
        left == Cross(tail(e.from), head(e.from), Get(N, e.to)) > 0
        mark(id, l) == {IF l THEN f.left ELSE f.right :
                          f \in {g \in ToSet(graph.edges) :
                                   g.from = id /\ g.to = Succ(id)}}
    IN /\ e.from[1] = e.to[1] /\ e.from[2] # e.to[2]
       /\ ~Get(N, e.from).is_stop
       /\ on \/ (Has(N, Prev(e.from)) /\ Has(N, Prev(e.to)))
       /\ Dot(tail(e.from), head(e.from), tail(e.to), head(e.to)) > 0
       /\ Has(N, Succ(e.from)) =>
            (mark(e.from, left) \cup mark(e.to, ~left)) \cap Solid = {}

\* The road polygons are numbered along the road: those of a lane follow one
\* another without a gap from its first way-point to its last, each way-point
\* has one polygon around it, and a transition is only found on an exit.  The
\* observers and PolyOps compare polygon numbers to tell ahead from behind
\* (MapLanes::MakePolygons, MakeLanePolygon).
PolysFollowRoad ==
  LET W(i) == polys[i].way IN
  /\ \A i, j \in DOMAIN polys :
       /\ W(i) /\ W(j) /\ polys[i].start = polys[j].start => i = j
       /\ /\ W(i) /\ W(j)
          /\ \E e \in ToSet(graph.edges) :
                e.from = polys[i].start /\ e.to = polys[j].start
                /\ ~e.is_exit
          => /\ i < j
             /\ \A k \in (i + 1)..(j - 1) :
                  /\ ~polys[k].trans
                  /\ polys[k].start = polys[i].start /\ polys[k].end = polys[j].end
  /\ polys # <<>> =>
       \A e \in ToSet(graph.edges) :
          (~e.is_exit \/ e.from[1] # e.to[1]) =>
             \E k \in DOMAIN polys : /\ polys[k].start = e.from
                                     /\ polys[k].end = e.to
                                     /\ polys[k].trans = e.is_exit

\* Whatever a crash leaves of the mission file, a commander that resumes from
\* it has the rest of its mission: no check-point that was not reached is left
\* out, at most the last one reached is visited again, and each goal is the
\* way-point of its check-point (Mission::save, load, next_checkpoint).
MissionRestored ==
  phase = "run" =>
    LET full == Mission(mdf.checkpoint_ids)
        k == Passed(mission.ids)
    IN /\ k \in {reached, reached - 1} /\ k >= 0
       /\ mission.ids = SubSeq(full, k + 1, Len(full))
       /\ mission.elems = Elements(graph.nodes, mission.ids)

=============================================================================
