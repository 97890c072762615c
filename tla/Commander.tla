------------------------------ MODULE Commander ------------------------------
(***************************************************************************)
(* The commander (art_nav/src/commander) on a small road network: its      *)
(* route, the check-points it ticks off, the road blocks it plans around   *)
(* and its restart from the mission file.  The navigator is reduced to     *)
(* what the commander sees of it: the last way-point, the road block       *)
(* report and the window of way-points it drives along.                    *)
(*                                                                         *)
(* Which of several paths A* prefers is a matter of times along edges; the *)
(* properties only need that it finds a path if there is one and always    *)
(* the same one in the same graph, and the model takes one with the fewest *)
(* edges.  There are no zones in the network.                              *)
(***************************************************************************)
EXTENDS Integers, SequencesExt

CONSTANTS
  Nodes,           \* way-points of the RNDF
  NoWaypt,         \* ElementID()
  Rndf,            \* the edges of the RNDF, a sequence of <<from, to>>
  Behind,          \* the way-point before a way-point in its lane, or NoWaypt
  Opposite,        \* getReverseLane: the way-point that ends the opposite lane
                   \* beside an edge, or NoWaypt
  Start,           \* the way-point at which the run starts
  Checkpoints,     \* the mission
  N_WAYPTS,        \* size of the window in an order
  Obstructible,    \* edges on which an obstacle may appear
  MaxObstacles,    \* bound: obstacles that appear, one at a time
  MaxResumes,      \* bound: suspensions by the operator
  MaxRestarts,     \* bound: restarts of the commander
  OffRoute         \* the vehicle may be found off the commander's route

ASSUME CommanderAssumption ==
  /\ IsFiniteSet(Nodes) /\ NoWaypt \notin Nodes /\ Start \in Nodes
  /\ Rndf \in Seq(Nodes \X Nodes)
  /\ Behind \in [Nodes -> Nodes \cup {NoWaypt}]
  /\ Checkpoints \in Seq(Nodes) /\ Checkpoints # <<>>
  /\ N_WAYPTS \in Nat /\ N_WAYPTS > 2
  /\ Obstructible \subseteq Range(Rndf)
  /\ {MaxObstacles, MaxResumes, MaxRestarts} \subseteq Nat
  /\ OffRoute \in BOOLEAN

VARIABLES
  state,           \* CmdrFSM::state
  route,           \* Commander::route, a sequence of <<from, to>>
  mission,         \* the check-points that remain, as in the mission file
  current_way,     \* CmdrFSM::current_way
  old_replan,      \* CmdrFSM::old_replan
  replan_num,      \* Commander::replan_num
  edges,           \* Graph::edges, with those that blockages added
  blocks,          \* Blockages::blocks, the oldest first
  last,            \* navdata->last_waypt
  road_blocked,    \* navdata->road_blocked: the navigator is in Block
  replan_waypt,    \* navdata->replan_waypt
  saved,           \* the order saved by replan_roadblock
  held,            \* the order the navigator drives along
  cmd,             \* the order on its way in the queue of one
  noticed,         \* the commander has read the state since Block was left
  obstacle,        \* the obstructed edge, or <<>>
  arrivals, resumes, restarts,
  hits             \* history: check-points visited in their order

cmdrVars == <<state, route, mission, current_way, old_replan, replan_num, edges,
              blocks>>
blockVars == <<road_blocked, replan_waypt, saved>>
counters == <<arrivals, resumes, restarts>>
vars == <<cmdrVars, blockVars, last, held, cmd, noticed, obstacle, counters,
          hits>>

----------------------------------------------------------------------------
\* Orders.  Quit and Abort carry no way-points.

Go(r, n) ==
  [behavior |-> "Go", replan |-> n,
   waypt |-> [i \in 1..N_WAYPTS |-> IF i = 1 THEN r[1][1]
                                    ELSE r[Min({i - 1, Len(r)})][2]]]
NoWindow(b) == [behavior |-> b, replan |-> 0, waypt |-> <<>>]
NoOrder == NoWindow("None")

\* An empty route makes prepare_order abort.
prepare_order(r, n) == IF r = <<>> THEN NoWindow("Abort") ELSE Go(r, n)

\* begin_run_cycle drops the way-points before last_waypt; if it is not there
\* the whole window ends up as its last way-point, and Run::go halts.
Advanced(order, w) ==
  LET at == SelectInSeq(order.waypt, LAMBDA x : x = w)
      n == IF at = 0 THEN N_WAYPTS ELSE at
  IN [order EXCEPT !.waypt =
        [i \in 1..N_WAYPTS |-> order.waypt[Min({n + i - 1, N_WAYPTS})]]]

----------------------------------------------------------------------------
\* The graph and its blockages.

Edge(p, a) == [from |-> p[1], to |-> p[2], added |-> a, blocked |-> FALSE]
RndfGraph == [i \in DOMAIN Rndf |-> Edge(Rndf[i], FALSE)]
Joins(e, p) == <<e.from, e.to>> = p

\* Mutant of add_block: the edge the vehicle is on stays open.
BlockAhead(g, bs, w, e1) ==
  LET closed == IF Behind[w] = NoWaypt THEN {} ELSE {i \in DOMAIN g : g[i].to = w /\ ~Joins(g[i], e1)}
  IN [edges |-> [i \in DOMAIN g |-> [g[i] EXCEPT !.blocked = @ \/ i \in closed]]
                \o <<Edge(<<e1[1], w>>, TRUE)>>,
      blocks |-> Append(bs, [closed |-> {<<g[i].from, g[i].to>> : i \in closed},
                             turns |-> <<<<e1[1], w>>>>])]

\* Blockages::add_block(w) while the vehicle is on edge e1 of its route: closes
\* e1 and every edge into w, opens a U-turn from e1 to w and, if the other lane
\* goes on behind w, one from there back to the end of e1.
add_block(g, bs, w, e1) ==
  LET side == Behind[w]
      closed == IF side = NoWaypt THEN {}
                ELSE {i \in DOMAIN g : g[i].to = w \/ Joins(g[i], e1)}
      back == \E i \in closed : Joins(g[i], <<side, w>>)
      turns == <<<<e1[1], w>>>> \o IF back THEN <<<<side, e1[2]>>>> ELSE <<>>
  IN [edges |-> [i \in DOMAIN g |-> [g[i] EXCEPT !.blocked = @ \/ i \in closed]]
                \o [i \in DOMAIN turns |-> Edge(turns[i], TRUE)],
      blocks |-> Append(bs, [closed |-> {<<g[i].from, g[i].to>> : i \in closed},
                             turns |-> turns])]

\* Blockages::pop_block: the first edge that joins the same way-points is
\* opened, and the first that joins those of a U-turn is erased.
FirstJoining(g, p) == SelectInSeq(g, LAMBDA e : Joins(e, p))
Erase(g, p) == IF FirstJoining(g, p) = 0 THEN g ELSE RemoveAt(g, FirstJoining(g, p))

\* A blockage adds one U-turn or two.
EraseTurns(g, turns) ==
  LET one == Erase(g, turns[1])
  IN IF Len(turns) = 1 THEN one ELSE Erase(one, turns[2])

\* Mutant of pop_block: every edge is opened, whichever blockage closed it.
OpenAll(g, b) ==
  EraseTurns([i \in DOMAIN g |-> [g[i] EXCEPT !.blocked = FALSE]], b.turns)

pop_block(g, b) ==
  LET opened == {FirstJoining(g, p) : p \in b.closed}
      open == [i \in DOMAIN g |-> [g[i] EXCEPT !.blocked = @ /\ i \notin opened]]
  IN EraseTurns(open, b.turns)

\* Blockages::pop_oldest, k times: blocks holds the blockages oldest first.
pop_oldest(g, bs, k) ==
  LET popped[i \in 0..k] == IF i = 0 THEN g ELSE pop_block(popped[i - 1], bs[i])
  IN popped[k]

\* The paths from a way-point over open edges that visit no way-point twice, by
\* their length.
End(p, from) == IF p = <<>> THEN from ELSE Last(p)[2]
Passed(p, from) == {from} \cup {p[i][2] : i \in DOMAIN p}
Paths(open, from) ==
  LET paths[k \in 0..Cardinality(Nodes)] ==
        IF k = 0 THEN {<<>>}
        ELSE UNION {{Append(p, e) : e \in {x \in open :
                         x[1] = End(p, from) /\ x[2] \notin Passed(p, from)}}
                    : p \in paths[k - 1]}
  IN paths

\* GraphSearch::astar_search: such a path to the goal, or <<>>.
astar_search(g, from, goal) ==
  LET paths == Paths({<<e.from, e.to>> : e \in {x \in Range(g) : ~x.blocked}}, from)
      Arriving(k) == {p \in paths[k] : End(p, from) = goal}
      lengths == {k \in 0..Cardinality(Nodes) : Arriving(k) # {}}
  IN IF lengths = {} THEN <<>> ELSE CHOOSE p \in Arriving(Min(lengths)) : TRUE

----------------------------------------------------------------------------
\* Commander::replan_route.

Goal(m) == m[1]
Goal2(m) == m[Min({2, Len(m)})]

\* The route to the next check-point and on to the one after it, if any.
Plan(g, m, w) ==
  LET one == astar_search(g, w, Goal(m))
      two == astar_search(g, Goal(m), Goal2(m))
  IN IF one = <<>> \/ (two = <<>> /\ Goal2(m) # Goal(m)) THEN <<>>
     ELSE one \o two

\* Without a path the oldest blockages are removed one by one.  At the goal
\* (with no check-point left, at the last one) nothing is planned.
replan_route(g, bs, r, m, w) ==
  LET Graph(k) == pop_oldest(g, bs, k)
      enough == {k \in 0..Len(bs) : Plan(Graph(k), m, w) # <<>>}
      k == IF enough = {} THEN Len(bs) ELSE Min(enough)
  IN IF m = <<>> \/ w = Goal(m)
     THEN [ok |-> TRUE, edges |-> g, blocks |-> bs, route |-> r]
     ELSE [ok |-> enough # {}, edges |-> Graph(k),
           blocks |-> SubSeq(bs, k + 1, Len(bs)),
           route |-> IF enough = {} THEN r ELSE Plan(Graph(k), m, w)]

Replanned(p) ==
  /\ replan_num' = replan_num + 1
  /\ route' = p.route /\ edges' = p.edges /\ blocks' = p.blocks

\* next_checkpoint, n times: Mission::nextPoint, saved in the mission file.
Ticked(m, n) == SubSeq(m, n + 1, Len(m))

----------------------------------------------------------------------------
\* Commander cycles.  The navigator handles an order before the next is sent.

Ready(s) == state = s /\ last # NoWaypt /\ cmd = NoOrder

\* The first plan.  If there is none the route stays empty, and the order is the
\* Abort of ActionFail.
InitToRoad(m) ==
  LET p == replan_route(edges, blocks, route, m, last)
  IN Replanned(p) /\ cmd' = prepare_order(p.route, replan_num')

\* Mutant: the start is never taken for a check-point.
StartNotChecked ==
  /\ Ready("Init")
  /\ InitToRoad(mission)
  /\ current_way' = last
  /\ state' = "Road"
  /\ noticed' = TRUE
  /\ UNCHANGED <<mission, old_replan, last, blockVars, held, obstacle, counters,
                 hits>>

\* The first cycle: EnterLane, InitToRoad.  The start may be a check-point.
CmdrEnter ==
  /\ Ready("Init")
  /\ mission' = IF last = Goal(mission) THEN Ticked(mission, 1) ELSE mission
  /\ InitToRoad(mission')
  /\ current_way' = last
  /\ state' = "Road"
  /\ noticed' = TRUE
  /\ UNCHANGED <<old_replan, last, blockVars, held, obstacle, counters, hits>>

\* Mutant: the end of the edge the vehicle is on counts as passed.
PassedAhead ==
  LET first == Min({2, Len(route)})
      ahead == {i \in first..Len(route) : route[i][1] = last}
      at == IF ahead = {} THEN Len(route) ELSE Min(ahead)
  IN IF last = current_way
     THEN [route |-> route, way |-> current_way, passed |-> {}]
     ELSE [route |-> SubSeq(route, at, Len(route)),
           way |-> IF ahead = {} THEN route[at][2] ELSE last,
           passed |-> {route[i][1] : i \in first..at} \cup {route[at][2]}]

\* The loop of current_event: pop the route until it starts at last_waypt.  If
\* it never does, the vehicle is taken to be at its end.
Walked ==
  LET first == Min({2, Len(route)})
      ahead == {i \in first..Len(route) : route[i][1] = last}
      at == IF ahead = {} THEN Len(route) ELSE Min(ahead)
      end == IF ahead = {} THEN {route[at][2]} ELSE {}
  IN IF last = current_way
     THEN [route |-> route, way |-> current_way, passed |-> {}]
     ELSE [route |-> SubSeq(route, at, Len(route)),
           way |-> IF ahead = {} THEN route[at][2] ELSE last,
           passed |-> {route[i][1] : i \in first..at} \cup end]

NewGoal1 == Goal(mission) \in Walked.passed
NewGoal2 == NewGoal1 /\ Goal2(mission) \in Walked.passed
Remaining == Ticked(mission, IF NewGoal2 THEN 2 ELSE IF NewGoal1 THEN 1 ELSE 0)
Finished == NewGoal1 /\ Remaining = <<>>

\* What every cycle of the Road state does: walk the plan, tick off the goals.
CmdrCycle ==
  /\ Ready("Road")
  /\ route # <<>>
  /\ current_way' = Walked.way
  /\ mission' = Remaining
  /\ noticed' = TRUE
  /\ UNCHANGED <<last, blockVars, held, obstacle, counters, hits>>

\* ActionToDone: no more check-points.
CmdrDone ==
  /\ CmdrCycle
  /\ Finished
  /\ state' = "Done"
  /\ route' = Walked.route
  /\ cmd' = NoWindow("Quit")
  /\ UNCHANGED <<old_replan, replan_num, edges, blocks>>

\* Mutant: the new route is made before the blockage is entered.
PlanThenBlock ==
  /\ CmdrCycle
  /\ ~Finished
  /\ replan_waypt \notin {old_replan, NoWaypt}
  /\ old_replan' = replan_waypt
  /\ LET p == replan_route(edges, blocks, Walked.route, Remaining, last)
         b == add_block(p.edges, p.blocks, replan_waypt, Walked.route[1])
     IN /\ Replanned([p EXCEPT !.edges = b.edges, !.blocks = b.blocks])
        /\ cmd' = prepare_order(p.route, replan_num')
  /\ UNCHANGED state

\* BlockedInRoad: a road block that was not reported in the last cycle.
CmdrBlocked ==
  /\ CmdrCycle
  /\ ~Finished
  /\ replan_waypt \notin {old_replan, NoWaypt}
  /\ old_replan' = replan_waypt
  /\ LET b == add_block(edges, blocks, replan_waypt, Walked.route[1])
         p == replan_route(b.edges, b.blocks, Walked.route, Remaining, last)
     IN Replanned(p) /\ cmd' = prepare_order(p.route, replan_num')
  /\ UNCHANGED state

\* At a goal a new route is made, if no report came or went in this cycle;
\* without one ActionWait goes on along the old route.
CmdrGoal ==
  /\ CmdrCycle
  /\ ~Finished
  /\ replan_waypt = old_replan /\ NewGoal1
  /\ LET p == replan_route(edges, blocks, Walked.route, Remaining, last)
     IN Replanned(p) /\ cmd' = prepare_order(p.route, replan_num')
  /\ UNCHANGED <<state, old_replan>>

\* ActionInRoad: go on along the route.  The end of a report is noted.
CmdrContinue ==
  /\ CmdrCycle
  /\ ~Finished
  /\ IF replan_waypt = old_replan THEN ~NewGoal1 ELSE replan_waypt = NoWaypt
  /\ old_replan' = replan_waypt
  /\ route' = Walked.route
  /\ cmd' = prepare_order(Walked.route, replan_num)
  /\ UNCHANGED <<state, replan_num, edges, blocks>>

\* The commander is started again and loads the mission file: the route and
\* the blockages are gone.
CmdrRestart ==
  /\ restarts < MaxRestarts
  /\ state = "Road" /\ mission # <<>>
  /\ restarts' = restarts + 1
  /\ state' = "Init" /\ route' = <<>> /\ current_way' = NoWaypt
  /\ old_replan' = NoWaypt /\ replan_num' = 0
  /\ edges' = RndfGraph /\ blocks' = <<>>
  /\ UNCHANGED <<mission, blockVars, last, held, cmd, noticed, obstacle,
                 arrivals, resumes, hits>>

----------------------------------------------------------------------------
\* The navigator.

NotBlocked == road_blocked' = FALSE /\ replan_waypt' = NoWaypt /\ noticed' = FALSE

\* An order arrives.  In Block, one whose way-points or replan number differ
\* from those saved ends the road block (ActionInBlock, new_waypts).
NavOrder ==
  /\ cmd # NoOrder
  /\ held' = IF cmd.behavior = "Go" THEN Advanced(cmd, last) ELSE cmd
  /\ cmd' = NoOrder
  /\ IF road_blocked /\ cmd.behavior = "Go" /\ held' # saved
     THEN NotBlocked
     ELSE UNCHANGED <<road_blocked, replan_waypt, noticed>>
  /\ UNCHANGED <<cmdrVars, last, saved, obstacle, counters, hits>>

\* Run::go halts when the way-points of the order are used up.
Driving == held.behavior = "Go" /\ held.waypt[1] # held.waypt[2]

\* The piece of lane before the next way-point: after a U-turn it is the one of
\* the lane turned into.
PieceOf(e) == IF e \in Range(Rndf) THEN e ELSE <<Behind[e[2]], e[2]>>
Piece == PieceOf(<<last, held.waypt[2]>>)

Visited(w) ==
  IF hits < Len(Checkpoints) /\ Checkpoints[hits + 1] = w THEN hits + 1 ELSE hits

\* The next way-point is reached.  Unless OffRoute it is also the next one of the
\* order that is on its way: no way-point that a new plan leaves out is passed
\* meanwhile.
Drive ==
  /\ Driving /\ ~road_blocked
  /\ obstacle # Piece
  /\ \/ OffRoute \/ cmd = NoOrder
     \/ cmd.behavior = "Go" /\ held.waypt[2] = Advanced(cmd, last).waypt[2]
  /\ last' = held.waypt[2]
  /\ held' = Advanced(held, last')
  /\ hits' = Visited(last')
  /\ UNCHANGED <<cmdrVars, blockVars, cmd, noticed, obstacle, counters>>

\* ActionToBlock: the lane ahead is obstructed and there is no way to pass.
\* Three navigator cycles lie between leaving Block and entering it again (Follow,
\* WaitPass, Block), more than one cycle of the commander: it has noticed.
Report ==
  /\ Driving /\ ~road_blocked
  /\ obstacle = Piece
  /\ noticed
  /\ road_blocked' = TRUE
  /\ replan_waypt' = Opposite[Piece]
  /\ saved' = held
  /\ UNCHANGED <<cmdrVars, last, held, cmd, noticed, obstacle, counters, hits>>

\* ActionInBlock: no new order, and the lane is free again.
Unblock ==
  /\ Driving /\ road_blocked
  /\ obstacle # Piece
  /\ NotBlocked
  /\ UNCHANGED <<cmdrVars, last, saved, held, cmd, obstacle, counters, hits>>

\* Suspended by the operator and run again: the orders of the operator replace
\* what was held and queued, Initialize finds the last way-point anew.
Resume ==
  /\ resumes < MaxResumes
  /\ state # "Done"
  /\ resumes' = resumes + 1
  /\ last' \in IF OffRoute THEN Nodes ELSE {last}
  /\ hits' = Visited(last')
  /\ held' = NoOrder /\ cmd' = NoOrder
  /\ UNCHANGED <<cmdrVars, blockVars, noticed, obstacle, arrivals, restarts>>

\* Obstacles come and go.
ObstacleArrives ==
  /\ obstacle = <<>> /\ arrivals < MaxObstacles
  /\ obstacle' \in Obstructible
  /\ arrivals' = arrivals + 1
  /\ UNCHANGED <<cmdrVars, blockVars, last, held, cmd, noticed, resumes, restarts,
                 hits>>

ObstacleLeaves ==
  /\ obstacle # <<>>
  /\ obstacle' = <<>>
  /\ UNCHANGED <<cmdrVars, blockVars, last, held, cmd, noticed, counters, hits>>

----------------------------------------------------------------------------
Init ==
  /\ state = "Init" /\ route = <<>> /\ mission = Checkpoints
  /\ current_way = NoWaypt /\ old_replan = NoWaypt /\ replan_num = 0
  /\ edges = RndfGraph /\ blocks = <<>>
  /\ last = Start /\ road_blocked = FALSE /\ replan_waypt = NoWaypt
  /\ held = NoOrder /\ saved = NoOrder /\ cmd = NoOrder /\ noticed = TRUE
  /\ obstacle = <<>> /\ arrivals = 0 /\ resumes = 0 /\ restarts = 0
  /\ hits = IF Checkpoints[1] = Start THEN 1 ELSE 0

Next ==
  \/ CmdrEnter \/ CmdrDone \/ CmdrBlocked \/ CmdrGoal \/ CmdrContinue
  \/ CmdrRestart
  \/ NavOrder \/ Drive \/ Report \/ Unblock \/ Resume
  \/ ObstacleArrives \/ ObstacleLeaves

Spec == Init /\ [][Next]_vars

\* A cycle of the commander is due: CmdrEnter or one of the four others can be
\* taken.
CmdrDue == Ready("Init") \/ (Ready("Road") /\ route # <<>>)

\* The loops of both nodes go on, and a vehicle under a Go order with a free lane
\* gets to its next way-point.  Obstacles need not go away.  Each cycle of the
\* commander fills the queue, so that its weak fairness is the first conjunct.
Fairness ==
  /\ []<>~CmdrDue
  /\ WF_vars(NavOrder) /\ WF_vars(Drive) /\ WF_vars(Report) /\ WF_vars(Unblock)

FairSpec == Spec /\ Fairness

----------------------------------------------------------------------------
\* No check-point is ticked off before the vehicle has visited it, in the order
\* of the mission, however plans change (next_checkpoint is "called when the
\* current checkpoint has just been reached").
CheckpointsReached == Len(Checkpoints) - Len(mission) <= hits

\* The route is one the graph allows: its edges are connected, each is open
\* in the graph as the blockages leave it, and it leads to the next check-point
\* or the one after it (replan_route after add_block and pop_oldest).
RouteOpen ==
  route # <<>> /\ state = "Road" =>
    /\ \A i \in 1..Len(route) - 1 : route[i][2] = route[i + 1][1]
    /\ \A i \in DOMAIN route :
          \E j \in DOMAIN edges : Joins(edges[j], route[i]) /\ ~edges[j].blocked
    /\ Last(route)[2] \in {Goal(mission), Goal2(mission)}

\* What a blockage has closed stays closed until that blockage is removed: opening
\* the edges of another one (pop_block, by their ends) leaves it alone.
BlocksHeld ==
  \A k \in DOMAIN blocks : \A p \in blocks[k].closed :
    \E j \in DOMAIN edges : Joins(edges[j], p) /\ edges[j].blocked

\* The plan made for a road block ("Road blocked, making a new plan", FSM.cc)
\* does not start along the edge that was reported blocked, as long as that edge
\* is one of the road network.  (On a U-turn edge it does: see the README.)
PlanAvoidsBlock ==
  [][old_replan' \notin {old_replan, NoWaypt} =>
       Head(route') # Head(Walked.route)]_vars

\* Every check-point is ticked off in the end, although obstacles close the road,
\* reports are withdrawn, the commander is restarted from its mission file and
\* the operator suspends the run.
MissionCompletes == <>(mission = <<>>)

----------------------------------------------------------------------------
\* The networks for which CheckpointsReached is proved.

\* Roads holds every edge a route can have: those of the RNDF, and the U-turns
\* that add_block makes of an edge e of the route while the piece of lane of f is
\* reported.  The vehicle is where both begin, or at a check-point, where the
\* route ends with e.
Drivable(Roads) ==
  /\ Roads \subseteq Nodes \X Nodes
  /\ Range(Rndf) \subseteq Roads
  /\ \A e, f \in Roads :
       /\ e[1] = f[1] \/ (e[2] = f[1] /\ e[2] \in Range(Checkpoints))
       /\ PieceOf(f) \in Obstructible
       /\ Opposite[PieceOf(f)] # NoWaypt
       => LET w == Opposite[PieceOf(f)]
          IN /\ <<e[1], w>> \in Roads
             /\ <<Behind[w], w>> \in Roads => <<Behind[w], e[2]>> \in Roads

\* At most n edges lead from x to y.
Within(Roads, n, x, y) ==
  \E m \in 0..n : \E p \in [0..m -> Nodes] :
    /\ p[0] = x /\ p[m] = y
    /\ \A i \in 0..(m - 1) : <<p[i], p[i + 1]>> \in Roads

\* No check-point lies so close before its predecessor in the mission that one
\* window can show both, the later one first.
Spaced(Roads) ==
  \A i \in 1..(Len(Checkpoints) - 1) :
    ~Within(Roads, N_WAYPTS - 2, Checkpoints[i + 1], Checkpoints[i])
=============================================================================
