----------------------------- MODULE MCCommander -----------------------------
(***************************************************************************)
(* A road with two lanes a and b in opposite directions, loops at both     *)
(* ends and a side road that links them, through c and, the other way, d.       *)
(***************************************************************************)
EXTENDS Commander

MCNodes == {"a1", "a2", "a3", "a4", "b1", "b2", "b3", "b4", "c", "d"}

MCRndf ==
  << <<"a1", "a2">>, <<"a2", "a3">>, <<"a3", "a4">>,
     <<"b1", "b2">>, <<"b2", "b3">>, <<"b3", "b4">>,
     <<"a4", "b1">>, <<"b4", "a1">>,
     <<"b4", "c">>, <<"c", "a4">>, <<"a4", "d">>, <<"d", "b4">> >>

MCBehind ==
  [n \in MCNodes |->
     CASE n = "a2" -> "a1" [] n = "a3" -> "a2" [] n = "a4" -> "a3"
       [] n = "b2" -> "b1" [] n = "b3" -> "b2" [] n = "b4" -> "b3"
       [] OTHER -> NoWaypt]

MCOpposite ==
  [e \in MCNodes \X MCNodes |->
     CASE e = <<"a1", "a2">> -> "b4" [] e = <<"a2", "a3">> -> "b3"
       [] e = <<"a3", "a4">> -> "b2" [] e = <<"b1", "b2">> -> "a4"
       [] e = <<"b2", "b3">> -> "a3" [] e = <<"b3", "b4">> -> "a2"
       [] OTHER -> NoWaypt]

MCCheckpoints == <<"a4", "b4", "a2">>
MCThereAndBack == <<"b4", "a2">>

\* Two places to be trapped between; and two pieces of lane side by side, the
\* second of which is entered by the U-turn before the first.
MCObstructible == {<<"a2", "a3">>, <<"b3", "b4">>}
MCSideBySide == {<<"a2", "a3">>, <<"b2", "b3">>}

\* The network meets the conditions of the theorem about CheckpointsReached.
MCTurns == {<<"a1", "b3">>, <<"a1", "b4">>, <<"a2", "b3">>, <<"b2", "a2">>,
            <<"b2", "a3">>, <<"b3", "a2">>, <<"b3", "b3">>}
MCRoads == Range(MCRndf) \cup MCTurns

ASSUME MCNetwork == Drivable(MCRoads) /\ Spaced(MCRoads)
=============================================================================
