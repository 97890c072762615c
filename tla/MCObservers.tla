---------------------------- MODULE MCObservers ----------------------------
(* A street of two lanes that run side by side, the second one to the      *)
(* right of the first, each of two way-points and four polygons; the       *)
(* vehicle is in the first or the second lane, or off the road.            *)
EXTENDS Observers

Lane(n, y, dir) ==
  [id |-> n, left |-> "UNDEFINED", right |-> "UNDEFINED", exits |-> <<>>,
   stops |-> <<>>, checkpoints |-> <<>>,
   waypoints |-> IF dir = 1 THEN <<<<1, 1, y>>, <<2, 4, y>>>>
                 ELSE <<<<1, 4, y>>, <<2, 1, y>>>>]

MCSegments == <<[id |-> 1, lanes |-> <<Lane(1, 2, 1), Lane(2, 1, -1)>>]>>

\* The polygons of that street, written out.
MCRoad ==
  [i \in 1..8 |->
     LET lane == (i + 3) \div 4  k == (i - 1) % 4 IN
     [start |-> <<1, lane, IF k = 3 THEN 2 ELSE 1>>,
      end |-> <<1, lane, IF k = 0 THEN 1 ELSE 2>>,
      way |-> k \in {0, 3}, trans |-> FALSE, is_stop |-> FALSE,
      x |-> IF lane = 1 THEN 3 + 3 * k ELSE 12 - 3 * k, y |-> 9 - 3 * lane,
      poly_id |-> i - 1]]

\* They are the ones the map node builds from it.
ASSUME RoadIsBuilt == MCRoad = MapRNDF(prep_graph(MCSegments, <<>>))

MCPlaces == {[x |-> 6, y |-> 6], [x |-> 9, y |-> 3], [x |-> 60, y |-> 60]}

=============================================================================
