---------------------------- MODULE MCRoadFiles ----------------------------
(***************************************************************************)
(* Small road networks and missions for RoadFiles: a segment of three      *)
(* lanes that run the same way, a segment of one lane that runs back, and  *)
(* in two of them a zone with a parking spot.  The last point of the        *)
(* perimeter, the last node of the graph, has an edge in one of the two.   *)
(***************************************************************************)
EXTENDS RoadFiles

L1(t) == Line(t, <<>>)
L2(t, n) == Line(t, <<n>>)

\* A lane of three points at height y, with its markings and other lines.
ThreePoints(lane, y, left, right, more) ==
  <<Line("lane", <<1, lane>>), L2("num_waypoints", 3),
    Line("left_boundary", <<left>>), Line("right_boundary", <<right>>)>>
  \o more
  \o [i \in 1..3 |-> Line("waypoint", <<1, lane, i, 2 * i, y>>)]
  \o <<L1("end_lane")>>

FirstSegment(mark) ==
  <<L2("segment", 1), L2("num_lanes", 3), L1("segment_name")>>
  \o ThreePoints(1, 2, "DOUBLE_YELLOW", "BROKEN_WHITE",
                 <<Line("checkpoint", <<1, 1, 2, 1>>), Line("stop", <<1, 1, 3>>),
                   Line("exit", <<1, 1, 3, 2, 1, 1>>)>>)
  \o ThreePoints(2, 1, "BROKEN_WHITE", mark,
                 <<Line("exit", <<1, 2, 1, 1, 2, 2>>)>>)
  \o ThreePoints(3, 0, "SOLID_YELLOW", "SOLID_WHITE",
                 <<Line("checkpoint", <<1, 3, 3, 2>>),
                   Line("exit", <<1, 3, 3, 1, 1, 1>>)>>)
  \o <<L1("end_segment")>>

SecondSegment(exits) ==
  <<L1("remark"), L2("segment", 2), L2("num_lanes", 1),
    Line("lane", <<2, 1>>), L2("num_waypoints", 2), L2("lane_width", 12)>>
  \o exits
  \o <<Line("waypoint", <<2, 1, 1, 6, 4>>), Line("waypoint", <<2, 1, 2, 2, 4>>),
       L1("end_lane"), L1("end_segment")>>

\* A zone with so many points in its perimeter.
TheZone(points) ==
  <<L2("zone", 3), L2("num_spots", 1), L1("zone_name"),
    Line("perimeter", <<3, 0>>), L2("num_perimeterpoints", points),
    Line("exit", <<3, 0, 2, 1, 1, 1>>)>>
  \o [i \in 1..points |-> Line("waypoint", <<3, 0, i, 0, 5 - i>>)]
  \o <<L1("end_perimeter"),
    Line("spot", <<3, 1>>), L2("spot_width", 9),
    Line("checkpoint", <<3, 1, 2, 3>>),
    Line("waypoint", <<3, 1, 1, 0, 6>>), Line("waypoint", <<3, 1, 2, 0, 7>>),
    L1("end_spot"), L1("end_zone")>>

\* A road network whose zone has so many perimeter points; without a zone for 0.
Network(points, mark) ==
  <<L1("RNDF_name"), L2("num_segments", 2),
    L2("num_zones", IF points = 0 THEN 0 ELSE 1),
    L1("format_version"), L1("comment"), L1("text"), L1("comment_end")>>
  \o FirstSegment(mark)
  \o SecondSegment(<<Line("exit", <<2, 1, 2, 1, 3, 1>>)>>
                   \o IF points = 0 THEN <<>>
                      ELSE <<Line("exit", <<2, 1, 2, 3, 0, 1>>)>>)
  \o (IF points = 0 THEN <<>> ELSE TheZone(points))
  \o <<L1("end_file")>>

MissionText(ids) ==
  <<L1("MDF_name"), L1("RNDF"), L1("format_version"), L1("remark"),
    L1("checkpoints"), L2("num_checkpoints", Len(ids))>>
  \o [i \in DOMAIN ids |-> L2("id", ids[i])]
  \o <<L1("end_checkpoints"), L1("speed_limits"), L2("num_speed_limits", 2),
       Line("limit", <<1, 0, 20>>), Line("limit", <<2, 5, 0>>),
       L1("end_speed_limits"), L1("end_file")>>

MCTexts ==
  {[rndf |-> Network(2, "SOLID_WHITE"), mdf |-> MissionText(<<1, 3, 2>>)],
   [rndf |-> Network(3, "SOLID_WHITE"), mdf |-> MissionText(<<1, 3>>)],
   [rndf |-> Network(0, "BROKEN_WHITE"), mdf |-> MissionText(<<2, 2, 1>>)]}

=============================================================================
