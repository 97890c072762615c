--------------------------- MODULE CommanderProofs ---------------------------
(***************************************************************************)
(* Proofs about the commander, for every road network, mission and size of *)
(* the window that meet the conditions at the end of Commander.            *)
(***************************************************************************)
EXTENDS Commander, FiniteSetTheorems, SequenceTheorems, WellFoundedInduction,
        TLAPS

----------------------------------------------------------------------------
(* The inductive invariant.                                                *)

\* The way-points of a route are numbered from 0.
Node(r, k) == IF k = 0 THEN r[1][1] ELSE r[k][2]

\* The window that starts at way-point k of the route, with the padding of an
\* order that started at way-point 0.
Cap(r, k) ==
  IF k <= Len(r) /\ k <= N_WAYPTS - 1 THEN k
  ELSE IF Len(r) <= N_WAYPTS - 1 THEN Len(r) ELSE N_WAYPTS - 1
Window(r, k) == [i \in 1..N_WAYPTS |-> Node(r, Cap(r, k + i - 1))]

\* The way-points the loop of current_event may find passed when the vehicle is
\* at way-point k: the first one only if the route has one edge.
Seen(r, k) ==
  {Node(r, i) : i \in (IF k = 0 \/ Len(r) = 1 THEN 0 ELSE 1)..k}

Ticks(m) == Len(Checkpoints) - Len(m)

\* The mission m is what is left of the check-points.
Rest(m) ==
  /\ m \in Seq(Nodes) /\ Len(m) <= Len(Checkpoints)
  /\ \A i \in 1..Len(m) : m[i] = Checkpoints[Ticks(m) + i]

\* If the next j check-points of m are all in S, they are among the h that the
\* vehicle has visited.
Counted(m, h, S) ==
  \A j \in 1..Len(m) : (\A i \in 1..j : m[i] \in S) => Ticks(m) + j <= h

MissionInv ==
  /\ Rest(mission) /\ hits \in Nat /\ Ticks(mission) <= hits
  /\ Counted(mission, hits, {last})
  /\ state = "Init" => mission # <<>> /\ route = <<>>

Chains(Roads) ==
  {w \in [1..N_WAYPTS -> Nodes] :
     \A i \in 1..(N_WAYPTS - 1) : w[i] = w[i + 1] \/ <<w[i], w[i + 1]>> \in Roads}
Orders(Roads) ==
  [behavior : {"Go"}, replan : Nat, waypt : Chains(Roads)]
    \cup {NoWindow(b) : b \in {"None", "Abort", "Quit"}}

OrdersInv(Roads) ==
  /\ last \in Nodes /\ replan_num \in Nat
  /\ cmd \in Orders(Roads) /\ held \in Orders(Roads)
  /\ Driving => held.waypt[1] = last

BlockInv(Roads) ==
  /\ obstacle \in Obstructible \cup {<<>>}
  /\ replan_waypt # NoWaypt =>
       /\ road_blocked
       /\ \E f \in Roads : /\ f[1] = last /\ PieceOf(f) \in Obstructible
                           /\ replan_waypt = Opposite[PieceOf(f)]

GraphEdges(Roads) ==
  {e \in [from : Nodes, to : Nodes, added : BOOLEAN, blocked : BOOLEAN] :
     <<e.from, e.to>> \in Roads}
Blockage == [closed : SUBSET (Nodes \X Nodes), turns : Seq(Nodes \X Nodes)]

GraphInv(Roads) == edges \in Seq(GraphEdges(Roads)) /\ blocks \in Seq(Blockage)

\* A path through Roads that ends at a check-point.
Leads(Roads, r) ==
  /\ r \in Seq(Roads)
  /\ \A i \in 1..(Len(r) - 1) : r[i][2] = r[i + 1][1]
  /\ r # <<>> => r[Len(r)][2] \in Range(Checkpoints)

RouteInv(Roads) ==
  /\ Leads(Roads, route)
  /\ Len(route) >= 2 => current_way = route[1][1]

\* The vehicle is at way-point k of the route.
At(k) ==
  /\ k <= N_WAYPTS - 1
  /\ Node(route, k) = last
  /\ Counted(mission, hits, Seen(route, k))
  /\ cmd = NoOrder /\ held.behavior = "Go" => held.waypt = Window(route, k)

ProgressInv ==
  state = "Road" /\ route # <<>> =>
    /\ mission # <<>>
    /\ cmd.behavior = "Go" => cmd.waypt = Window(route, 0)
    /\ \E k \in 0..Len(route) : At(k)

CommanderInv(Roads) ==
  /\ MissionInv /\ OrdersInv(Roads) /\ BlockInv(Roads) /\ GraphInv(Roads)
  /\ RouteInv(Roads) /\ ProgressInv

----------------------------------------------------------------------------
(* Part 1.  Induction and recursion on numbers, as sets and functions.     *)

\* A set of naturals that is not empty has a least element.
LEMMA LeastNatural ==
  ASSUME NEW T, T \subseteq Nat, T # {}
  PROVE  \E n \in T : \A m \in T : n <= m
<1> DEFINE R == {ss \in Nat \X Nat : ss[1] < ss[2]}
<1>1. IsWellFoundedOn(R, Nat)
  BY NatLessThanWellFounded, Zenon DEF OpToRel
<1>2. \A x, y \in Nat : y < x => <<y, x>> \in R
  OBVIOUS
<1> HIDE DEF R
<1>3. PICK x \in T : \A y \in T : ~ (<<y, x>> \in R)
  BY <1>1, WFMin, Zenon
<1>4. \A y \in T : ~(y < x)
  BY <1>2, <1>3
<1> QED
  BY <1>4

\* Induction from 0 to n.
LEMMA Induction ==
  ASSUME NEW n \in Nat, NEW G, 0 \in G,
         \A i \in 1..n : i - 1 \in G => i \in G
  PROVE  \A i \in 0..n : i \in G
<1> DEFINE T == (0..n) \ G
<1> SUFFICES ASSUME T # {} PROVE FALSE
  OBVIOUS
<1>1. PICK m \in T : \A k \in T : m <= k
  <2>1. T \subseteq Nat
    OBVIOUS
  <2> HIDE DEF T
  <2> QED BY <2>1, LeastNatural
<1>2. m \in 1..n /\ m - 1 \in 0..n
  OBVIOUS
<1>3. m - 1 \notin T
  BY <1>1, <1>2
<1> QED
  BY <1>2, <1>3

\* f starts at a and goes on by the steps of F.
Iterates(f, n, S, a, F) ==
  /\ f \in [0..n -> S]
  /\ f[0] = a /\ \A i \in 1..n : f[i] = F[i][f[i - 1]]

\* A function defined by recursion on 0..n exists.
LEMMA Recursion ==
  ASSUME NEW n \in Nat, NEW S, NEW a \in S, NEW F \in [1..n -> [S -> S]]
  PROVE  \E f : Iterates(f, n, S, a, F)
<1> DEFINE Upto(f, m) == f[0] = a /\ \A i \in 1..m : f[i] = F[i][f[i - 1]]
           G == {m \in 0..n : \E f \in [0..m -> S] : Upto(f, m)}
<1>1. 0 \in G
  <2> DEFINE f == [i \in 0..0 |-> a]
  <2>1. f \in [0..0 -> S] /\ Upto(f, 0)
    OBVIOUS
  <2> HIDE DEF f
  <2>2. \E h \in [0..0 -> S] : Upto(h, 0)
    BY <2>1
  <2> QED BY <2>2
<1>2. ASSUME NEW m \in 1..n, m - 1 \in G PROVE m \in G
  <2>1. PICK f \in [0..(m - 1) -> S] : Upto(f, m - 1)
    BY <1>2
  <2> DEFINE g == [i \in 0..m |-> IF i < m THEN f[i] ELSE F[m][f[m - 1]]]
  <2>2. f[m - 1] \in S /\ F[m] \in [S -> S]
    OBVIOUS
  <2>3. g \in [0..m -> S]
    BY <2>2
  <2>4. g[0] = a
    BY <2>1
  <2>5. ASSUME NEW i \in 1..m PROVE g[i] = F[i][g[i - 1]]
    <3>1. g[i - 1] = f[i - 1]
      OBVIOUS
    <3>2. CASE i = m
      BY <3>1, <3>2
    <3>3. CASE i < m
      <4>1. g[i] = f[i] /\ i \in 1..(m - 1)
        BY <3>3
      <4> HIDE DEF g
      <4> QED BY <2>1, <3>1, <4>1
    <3> QED BY <3>2, <3>3
  <2> HIDE DEF g
  <2>6. \E h \in [0..m -> S] : Upto(h, m)
    BY <2>3, <2>4, <2>5
  <2>7. m \in 0..n
    OBVIOUS
  <2> HIDE DEF Upto
  <2> QED
    BY <2>6, <2>7, Zenon
<1> HIDE DEF G
<1>3. \A i \in 1..n : i - 1 \in G => i \in G
  BY <1>2
<1>4. \A i \in 0..n : i \in G
  BY <1>1, <1>3, Induction, Zenon
<1>5. n \in G
  BY <1>4
<1> QED
  BY <1>5 DEF G, Iterates

\* The least element of a set of naturals.
LEMMA MinIs ==
  ASSUME NEW T, T \subseteq Nat, T # {}
  PROVE  Min(T) \in T /\ \A y \in T : Min(T) <= y
<1>1. \E n \in T : \A m \in T : n <= m
  BY LeastNatural
<1> QED
  BY <1>1 DEF Min

\* The shorter of two lengths, as Go and Walked take it.
LEMMA MinTwo ==
  ASSUME NEW a \in Nat, NEW b \in Nat
  PROVE  Min({a, b}) = IF a <= b THEN a ELSE b
<1>1. Min({a, b}) \in {a, b} /\ \A y \in {a, b} : Min({a, b}) <= y
  BY MinIs
<1> QED
  BY <1>1

----------------------------------------------------------------------------
(* Part 2.  Orders and their windows.                                      *)

\* A window shows the way-point the vehicle is at and two more.
LEMMA Window3 == N_WAYPTS \in Nat /\ N_WAYPTS > 2
  BY CommanderAssumption

\* o has its way-points from place a on, the last one repeated.
From(o, a) ==
  [i \in 1..N_WAYPTS |->
     o.waypt[IF a + i - 1 <= N_WAYPTS THEN a + i - 1 ELSE N_WAYPTS]]

\* Place a of the order is the first with w, or the last place of all.
Found(o, w, a) ==
  /\ Advanced(o, w) = [o EXCEPT !.waypt = From(o, a)]
  /\ (\E i \in 1..N_WAYPTS : o.waypt[i] = w) => o.waypt[a] = w
  /\ (\A i \in 1..N_WAYPTS : o.waypt[i] # w) => a = N_WAYPTS
  /\ \A i \in 1..(a - 1) : o.waypt[i] # w

\* What begin_run_cycle leaves of an order.
LEMMA AdvancedFrom ==
  ASSUME NEW o, o.waypt \in [1..N_WAYPTS -> Nodes], NEW w
  PROVE  \E a \in 1..N_WAYPTS : Found(o, w, a)
<1> DEFINE T == {i \in 1..N_WAYPTS : o.waypt[i] = w}
           at == SelectInSeq(o.waypt, LAMBDA x : x = w)
           a == IF at = 0 THEN N_WAYPTS ELSE at
<1>1. Len(o.waypt) = N_WAYPTS
  BY Window3
<1>2. at = IF T # {} THEN Min(T) ELSE 0
  BY <1>1 DEF SelectInSeq
<1>3. T # {} => at \in T /\ \A i \in T : at <= i
  <2>1. T \subseteq Nat
    OBVIOUS
  <2> HIDE DEF T
  <2> QED BY <1>2, <2>1, MinIs
<1> HIDE DEF at
<1>4. a \in 1..N_WAYPTS
  BY <1>2, <1>3, Window3
<1>5. Advanced(o, w) = [o EXCEPT !.waypt = From(o, a)]
  <2>1. Advanced(o, w) =
          [o EXCEPT !.waypt =
             [i \in 1..N_WAYPTS |-> o.waypt[Min({a + i - 1, N_WAYPTS})]]]
    BY DEF Advanced, at
  <2> HIDE DEF a
  <2>2. \A i \in 1..N_WAYPTS :
          Min({a + i - 1, N_WAYPTS})
            = IF a + i - 1 <= N_WAYPTS THEN a + i - 1 ELSE N_WAYPTS
    BY <1>4, Window3, MinTwo
  <2>3. [i \in 1..N_WAYPTS |-> o.waypt[Min({a + i - 1, N_WAYPTS})]] = From(o, a)
    BY <2>2 DEF From
  <2> QED BY <2>1, <2>3
<1>6. (\E i \in 1..N_WAYPTS : o.waypt[i] = w) => o.waypt[a] = w
  BY <1>3, Window3
<1>7. (\A i \in 1..N_WAYPTS : o.waypt[i] # w) => a = N_WAYPTS
  BY <1>2
<1>8. \A i \in 1..(a - 1) : o.waypt[i] # w
  BY <1>2, <1>3, Window3
<1> HIDE DEF a
<1> QED
  BY <1>4, <1>5, <1>6, <1>7, <1>8 DEF Found

\* The way-points of a route and its edges.
LEMMA RouteNodes ==
  ASSUME NEW Roads, Roads \subseteq Nodes \X Nodes,
         NEW r, Leads(Roads, r), r # <<>>
  PROVE  /\ Len(r) \in Nat /\ Len(r) >= 1
         /\ \A k \in 0..Len(r) : Node(r, k) \in Nodes
         /\ \A k \in 1..Len(r) : /\ r[k] \in Roads
                                 /\ r[k] = <<Node(r, k - 1), Node(r, k)>>
<1>1. r \in Seq(Roads) /\ Len(r) \in Nat /\ Len(r) >= 1
  BY DEF Leads
<1>2. \A k \in 1..Len(r) : r[k] \in Roads /\ r[k] = <<r[k][1], r[k][2]>>
                           /\ r[k][1] \in Nodes /\ r[k][2] \in Nodes
  <2>1. \A k \in 1..Len(r) : r[k] \in Roads
    BY <1>1
  <2> QED BY <2>1
<1>3. \A k \in 1..Len(r) : Node(r, k) = r[k][2]
  BY DEF Node
<1>4. \A k \in 1..Len(r) : Node(r, k - 1) = r[k][1]
  <2> SUFFICES ASSUME NEW k \in 1..Len(r) PROVE Node(r, k - 1) = r[k][1]
    OBVIOUS
  <2>1. CASE k = 1
    BY <2>1 DEF Node
  <2>2. CASE k # 1
    <3>1. k - 1 \in 1..(Len(r) - 1) /\ (k - 1) + 1 = k
      BY <1>1, <2>2
    <3>2. r[k - 1][2] = r[(k - 1) + 1][1]
      BY <3>1 DEF Leads
    <3> QED BY <3>1, <3>2 DEF Node
  <2> QED BY <2>1, <2>2
<1>5. Node(r, 0) = r[1][1]
  BY DEF Node
<1>6. ASSUME NEW k \in 0..Len(r) PROVE Node(r, k) \in Nodes
  <2>1. CASE k = 0
    BY <1>1, <1>2, <1>5, <2>1
  <2>2. CASE k # 0
    BY <1>1, <1>2, <1>3, <2>2
  <2> QED BY <2>1, <2>2
<1> QED
  BY <1>1, <1>2, <1>3, <1>4, <1>6

\* A window shows way-points of the route, each with its successor or repeated.
LEMMA WindowChain ==
  ASSUME NEW Roads, Roads \subseteq Nodes \X Nodes,
         NEW r, Leads(Roads, r), r # <<>>, NEW k \in Nat
  PROVE  Window(r, k) \in Chains(Roads)
<1>1. /\ Len(r) \in Nat /\ Len(r) >= 1
      /\ \A i \in 0..Len(r) : Node(r, i) \in Nodes
      /\ \A i \in 1..Len(r) : /\ r[i] \in Roads
                              /\ r[i] = <<Node(r, i - 1), Node(r, i)>>
  BY RouteNodes
<1>2. \A i \in Nat : Cap(r, i) \in 0..Len(r)
  BY <1>1, Window3 DEF Cap
<1>3. \A i \in Nat : Cap(r, i + 1) = Cap(r, i) \/ Cap(r, i + 1) = Cap(r, i) + 1
  BY <1>1, Window3 DEF Cap
<1>4. Window(r, k) \in [1..N_WAYPTS -> Nodes]
  <2>1. \A i \in 1..N_WAYPTS : k + i - 1 \in Nat
    BY Window3
  <2> QED BY <1>1, <1>2, <2>1 DEF Window
<1>5. ASSUME NEW i \in 1..(N_WAYPTS - 1)
      PROVE  \/ Window(r, k)[i] = Window(r, k)[i + 1]
             \/ <<Window(r, k)[i], Window(r, k)[i + 1]>> \in Roads
  <2> DEFINE m == k + i - 1
             c == Cap(r, m)
             d == Cap(r, m + 1)
  <2>1. /\ m \in Nat /\ k + (i + 1) - 1 = m + 1
        /\ i \in 1..N_WAYPTS /\ i + 1 \in 1..N_WAYPTS
    BY Window3
  <2>2. Window(r, k)[i] = Node(r, c) /\ Window(r, k)[i + 1] = Node(r, d)
    BY <2>1 DEF Window
  <2> HIDE DEF m
  <2>3. c \in 0..Len(r) /\ d \in 0..Len(r) /\ (d = c \/ d = c + 1)
    <3>1. m + 1 \in Nat
      BY <2>1
    <3> QED BY <1>2, <1>3, <2>1, <3>1
  <2> HIDE DEF c, d
  <2>4. CASE d = c
    BY <2>2, <2>4
  <2>5. CASE d = c + 1
    <3>1. d \in 1..Len(r) /\ d - 1 = c
      BY <1>1, <2>3, <2>5
    <3> QED BY <1>1, <2>2, <3>1
  <2> QED BY <2>3, <2>4, <2>5
<1> QED
  BY <1>4, <1>5 DEF Chains

\* prepare_order sends the window at the start of the route.
LEMMA GoWindow ==
  ASSUME NEW Roads, Roads \subseteq Nodes \X Nodes,
         NEW r, Leads(Roads, r), r # <<>>, NEW n \in Nat
  PROVE  /\ Go(r, n) \in Orders(Roads)
         /\ Go(r, n).behavior = "Go" /\ Go(r, n).waypt = Window(r, 0)
<1>1. Len(r) \in Nat /\ Len(r) >= 1
  BY RouteNodes
<1>2. ASSUME NEW i \in 1..N_WAYPTS
      PROVE  (IF i = 1 THEN r[1][1] ELSE r[Min({i - 1, Len(r)})][2])
               = Node(r, Cap(r, 0 + i - 1))
  <2>1. CASE i = 1
    BY <1>1, <2>1, Window3 DEF Node, Cap
  <2>2. CASE i # 1
    <3>1. Min({i - 1, Len(r)}) = IF i - 1 <= Len(r) THEN i - 1 ELSE Len(r)
      BY <1>1, Window3, MinTwo
    <3>2. Cap(r, 0 + i - 1) = IF i - 1 <= Len(r) THEN i - 1 ELSE Len(r)
      BY <1>1, Window3 DEF Cap
    <3> QED BY <1>1, <2>2, <3>1, <3>2, Window3 DEF Node
  <2> QED BY <2>1, <2>2
<1>3. Go(r, n).waypt = Window(r, 0)
  BY <1>2 DEF Go, Window
<1>4. Window(r, 0) \in Chains(Roads)
  BY WindowChain
<1>5. Go(r, n) = [behavior |-> "Go", replan |-> n, waypt |-> Window(r, 0)]
  BY <1>2 DEF Go, Window
<1> QED
  BY <1>3, <1>4, <1>5 DEF Orders

\* The way-points that Advanced leaves of a window are a window.
LEMMA WindowFrom ==
  ASSUME NEW r, Len(r) \in Nat, NEW k \in Nat, NEW o, o.waypt = Window(r, k),
         NEW a \in 1..N_WAYPTS, NEW m, m = k + a - 1
  PROVE  From(o, a) = Window(r, m)
<1>1. ASSUME NEW i \in 1..N_WAYPTS
      PROVE  o.waypt[IF a + i - 1 <= N_WAYPTS THEN a + i - 1 ELSE N_WAYPTS]
               = Node(r, Cap(r, m + i - 1))
  <2> DEFINE p == IF a + i - 1 <= N_WAYPTS THEN a + i - 1 ELSE N_WAYPTS
  <2>1. p \in 1..N_WAYPTS
    BY Window3
  <2>2. Cap(r, k + p - 1) = Cap(r, m + i - 1)
    BY Window3 DEF Cap
  <2> HIDE DEF p
  <2>3. o.waypt[p] = Node(r, Cap(r, k + p - 1))
    BY <2>1 DEF Window
  <2> QED BY <2>2, <2>3 DEF p
<1> QED
  BY <1>1 DEF From, Window

\* An order stays an order.  It is used up, or goes on from the way-point w.
LEMMA AdvancedOrder ==
  ASSUME NEW Roads, NEW o \in Orders(Roads), o.behavior = "Go", NEW w
  PROVE  /\ Advanced(o, w) \in Orders(Roads)
         /\ Advanced(o, w).behavior = "Go"
         /\ Advanced(o, w).waypt[1] # Advanced(o, w).waypt[2]
              => Advanced(o, w).waypt[1] = w
<1>1. o \in [behavior : {"Go"}, replan : Nat, waypt : Chains(Roads)]
  BY DEF Orders, NoWindow
<1>2. /\ o.waypt \in [1..N_WAYPTS -> Nodes]
      /\ \A i \in 1..(N_WAYPTS - 1) :
           \/ o.waypt[i] = o.waypt[i + 1]
           \/ <<o.waypt[i], o.waypt[i + 1]>> \in Roads
  BY <1>1 DEF Chains
<1>3. PICK a \in 1..N_WAYPTS : Found(o, w, a)
  BY <1>2, AdvancedFrom, Zenon
<1>4. From(o, a) \in [1..N_WAYPTS -> Nodes]
  BY <1>2, Window3 DEF From
<1>5. ASSUME NEW i \in 1..(N_WAYPTS - 1)
      PROVE  \/ From(o, a)[i] = From(o, a)[i + 1]
             \/ <<From(o, a)[i], From(o, a)[i + 1]>> \in Roads
  <2>1. i \in 1..N_WAYPTS /\ i + 1 \in 1..N_WAYPTS
    BY Window3
  <2>2. CASE a + i <= N_WAYPTS
    <3> DEFINE p == a + i - 1
    <3>1. p \in 1..(N_WAYPTS - 1) /\ p <= N_WAYPTS /\ a + (i + 1) - 1 = p + 1
          /\ p + 1 <= N_WAYPTS
      BY <2>2, Window3
    <3>2. From(o, a)[i] = o.waypt[p] /\ From(o, a)[i + 1] = o.waypt[p + 1]
      BY <2>1, <3>1 DEF From
    <3> HIDE DEF p
    <3> QED BY <1>2, <3>1, <3>2
  <2>3. CASE ~(a + i <= N_WAYPTS)
    <3>1. From(o, a)[i] = o.waypt[N_WAYPTS] /\ From(o, a)[i + 1] = o.waypt[N_WAYPTS]
      BY <2>1, <2>3, Window3 DEF From
    <3> QED BY <3>1
  <2> QED BY <2>2, <2>3
<1>6. From(o, a) \in Chains(Roads)
  BY <1>4, <1>5 DEF Chains
<1>7. Advanced(o, w) \in [behavior : {"Go"}, replan : Nat, waypt : Chains(Roads)]
      /\ Advanced(o, w).waypt = From(o, a)
  BY <1>1, <1>3, <1>6 DEF Found
<1>8. ASSUME From(o, a)[1] # From(o, a)[2] PROVE From(o, a)[1] = w
  <2>1. From(o, a)[1] = o.waypt[a]
    BY Window3 DEF From
  <2>2. a # N_WAYPTS
    BY <1>8, Window3 DEF From
  <2> QED BY <1>3, <2>1, <2>2 DEF Found
<1> QED
  BY <1>7, <1>8 DEF Orders

\* An order for the route, received at way-point k, goes on from there; if the
\* route comes to that way-point twice, from the first time.
LEMMA AdvancedOnRoute ==
  ASSUME NEW Roads, Roads \subseteq Nodes \X Nodes,
         NEW r, Leads(Roads, r), r # <<>>, NEW o \in Orders(Roads),
         o.behavior = "Go", o.waypt = Window(r, 0),
         NEW k \in 0..Len(r), k <= N_WAYPTS - 1
  PROVE  \E j \in 0..k : /\ Node(r, j) = Node(r, k)
                         /\ Advanced(o, Node(r, k)).waypt = Window(r, j)
<1> DEFINE w == Node(r, k)
<1>1. Len(r) \in Nat /\ Len(r) >= 1
  BY RouteNodes
<1>2. o.waypt \in [1..N_WAYPTS -> Nodes] /\ "waypt" \in DOMAIN o
  BY DEF Orders, NoWindow, Chains
<1>3. PICK a \in 1..N_WAYPTS : Found(o, w, a)
  BY <1>2, AdvancedFrom, Zenon
<1>4. k + 1 \in 1..N_WAYPTS /\ o.waypt[k + 1] = w
  BY <1>1, Window3 DEF Window, Cap
<1>5. a <= k + 1 /\ o.waypt[a] = w
  BY <1>3, <1>4 DEF Found
<1>6. a - 1 \in 0..k /\ Cap(r, 0 + a - 1) = a - 1
  BY <1>1, <1>5, Window3 DEF Cap
<1>7. o.waypt[a] = Node(r, a - 1)
  BY <1>6 DEF Window
<1>8. Advanced(o, w).waypt = From(o, a)
  BY <1>2, <1>3 DEF Found
<1>9. From(o, a) = Window(r, a - 1)
  <2>1. 0 \in Nat /\ a - 1 = 0 + a - 1
    BY Window3
  <2> QED BY <1>1, <2>1, WindowFrom
<1> QED
  BY <1>5, <1>6, <1>7, <1>8, <1>9

\* A vehicle that drives along the route gets to the next way-point of it.
LEMMA AdvancedByOne ==
  ASSUME NEW Roads, Roads \subseteq Nodes \X Nodes,
         NEW r, Leads(Roads, r), r # <<>>, NEW o \in Orders(Roads),
         o.behavior = "Go", NEW k \in 0..Len(r), o.waypt = Window(r, k),
         k <= N_WAYPTS - 1, o.waypt[1] # o.waypt[2]
  PROVE  /\ k + 1 <= Len(r) /\ k + 1 <= N_WAYPTS - 1
         /\ o.waypt[1] = Node(r, k) /\ o.waypt[2] = Node(r, k + 1)
         /\ Advanced(o, o.waypt[2]).waypt = Window(r, k + 1)
<1>1. Len(r) \in Nat /\ Len(r) >= 1
  BY RouteNodes
<1>2. o.waypt \in [1..N_WAYPTS -> Nodes] /\ "waypt" \in DOMAIN o
  BY DEF Orders, NoWindow, Chains
<1>3. /\ o.waypt[1] = Node(r, Cap(r, k)) /\ o.waypt[2] = Node(r, Cap(r, k + 1))
  BY Window3 DEF Window
<1>4. Cap(r, k) = k
  BY <1>1, Window3 DEF Cap
<1>5. k + 1 <= Len(r) /\ k + 1 <= N_WAYPTS - 1
  <2> SUFFICES ASSUME ~(k + 1 <= Len(r) /\ k + 1 <= N_WAYPTS - 1) PROVE FALSE
    OBVIOUS
  <2>1. Cap(r, k + 1) = k
    BY <1>1, Window3 DEF Cap
  <2> QED BY <1>3, <1>4, <2>1
<1>6. Cap(r, k + 1) = k + 1
  BY <1>5 DEF Cap
<1> DEFINE w == o.waypt[2]
<1>7. PICK a \in 1..N_WAYPTS : Found(o, w, a)
  BY <1>2, AdvancedFrom, Zenon
<1>8. a = 2
  <2>1. 2 \in 1..N_WAYPTS /\ o.waypt[a] = w
    BY <1>7, Window3 DEF Found
  <2>2. ~(a > 2)
    BY <1>7 DEF Found
  <2> QED BY <2>1, <2>2
<1>9. From(o, a) = Window(r, k + 1)
  <2>1. k \in Nat /\ k + 1 = k + a - 1
    BY <1>1, <1>8
  <2> QED BY <1>1, <2>1, WindowFrom
<1>10. Advanced(o, w).waypt = From(o, a)
  BY <1>2, <1>7 DEF Found
<1> QED
  BY <1>3, <1>4, <1>5, <1>6, <1>9, <1>10

----------------------------------------------------------------------------
(* Part 3.  Check-points that are visited and check-points ticked off.     *)

\* A mission has a check-point.
LEMMA MissionLength == Len(Checkpoints) \in Nat /\ Len(Checkpoints) >= 1
  BY CommanderAssumption

\* The history after the arrival at w.
Visit(h, w) == IF h < Len(Checkpoints) /\ Checkpoints[h + 1] = w THEN h + 1 ELSE h

\* No visit is forgotten.
LEMMA VisitGrows ==
  ASSUME NEW h \in Nat, NEW w
  PROVE  Visit(h, w) \in Nat /\ h <= Visit(h, w)
  BY DEF Visit

\* A check-point is not its own successor.
LEMMA Distinct ==
  ASSUME NEW Roads, Spaced(Roads)
  PROVE  \A i \in 1..(Len(Checkpoints) - 1) : Checkpoints[i + 1] # Checkpoints[i]
<1> SUFFICES ASSUME NEW i \in 1..(Len(Checkpoints) - 1),
                    Checkpoints[i + 1] = Checkpoints[i]
             PROVE  FALSE
  OBVIOUS
<1> DEFINE p == [j \in 0..0 |-> Checkpoints[i]]
<1>1. Checkpoints[i] \in Nodes
  BY CommanderAssumption, MissionLength
<1>2. p \in [0..0 -> Nodes] /\ p[0] = Checkpoints[i]
  BY <1>1
<1>3. 0 \in 0..(N_WAYPTS - 2) /\ 0..(0 - 1) = {}
  BY Window3
<1> HIDE DEF p
<1>4. Within(Roads, N_WAYPTS - 2, Checkpoints[i + 1], Checkpoints[i])
  <2>1. /\ p[0] = Checkpoints[i + 1] /\ p[0] = Checkpoints[i]
        /\ \A k \in 0..(0 - 1) : <<p[k], p[k + 1]>> \in Roads
    BY <1>2, <1>3
  <2>2. \E q \in [0..0 -> Nodes] :
          /\ q[0] = Checkpoints[i + 1] /\ q[0] = Checkpoints[i]
          /\ \A k \in 0..(0 - 1) : <<q[k], q[k + 1]>> \in Roads
    BY <1>2, <2>1
  <2> QED BY <1>3, <2>2 DEF Within
<1> QED
  BY <1>4 DEF Spaced

\* The vehicle comes to w, which lies before no later check-point in S.
LEMMA CountArrival ==
  ASSUME NEW m, Rest(m), NEW h \in Nat, Ticks(m) <= h,
         NEW S, Counted(m, h, S), NEW w, NEW S2, S2 \subseteq S \cup {w},
         \A i \in 1..(Len(Checkpoints) - 1) :
           /\ Checkpoints[i + 1] # Checkpoints[i]
           /\ ~(Checkpoints[i] = w /\ Checkpoints[i + 1] \in S)
  PROVE  Counted(m, Visit(h, w), S2)
<1> DEFINE t == Ticks(m)
<1>1. /\ Len(m) \in Nat /\ t \in Nat /\ t + Len(m) = Len(Checkpoints)
      /\ \A i \in 1..Len(m) : m[i] = Checkpoints[t + i]
  BY MissionLength DEF Rest, Ticks
<1> SUFFICES ASSUME NEW j \in 1..Len(m), \A i \in 1..j : m[i] \in S2
             PROVE  t + j <= Visit(h, w)
  BY DEF Counted
<1> HIDE DEF t
<1>2. Visit(h, w) \in Nat /\ h <= Visit(h, w)
  BY VisitGrows
<1>3. CASE \A i \in 1..j : m[i] \in S
  <2>1. t + j <= h
    BY <1>3 DEF Counted, t
  <2> QED BY <1>1, <1>2, <2>1
<1>4. CASE ~\A i \in 1..j : m[i] \in S
  <2>1. ASSUME NEW i \in 1..j, m[i] \notin S PROVE i = j /\ m[i] = w
    <3>1. m[i] = w
      BY <2>1
    <3>2. i # j => FALSE
      <4> HAVE i # j
      <4>1. /\ i + 1 \in 1..j /\ t + i \in 1..(Len(Checkpoints) - 1)
            /\ i + 1 \in 1..Len(m) /\ i \in 1..Len(m) /\ t + (i + 1) = (t + i) + 1
        BY <1>1
      <4>2. m[i + 1] \in S \cup {w}
        BY <4>1
      <4>3. m[i + 1] = Checkpoints[(t + i) + 1] /\ m[i] = Checkpoints[t + i]
        BY <1>1, <4>1
      <4> QED BY <3>1, <4>1, <4>2, <4>3
    <3> QED BY <3>1, <3>2
  <2>2. m[j] = w /\ \A i \in 1..(j - 1) : m[i] \in S
    <3>1. m[j] = w
      <4>1. PICK i \in 1..j : m[i] \notin S
        BY <1>4
      <4> QED BY <2>1, <4>1
    <3>2. ASSUME NEW i \in 1..(j - 1) PROVE m[i] \in S
      <4>1. i \in 1..j /\ i # j
        BY <1>1
      <4> QED BY <2>1, <4>1
    <3> QED BY <3>1, <3>2
  <2>3. t + j - 1 <= h
    <3>1. CASE j = 1
      BY <1>1, <3>1 DEF t
    <3>2. CASE j # 1
      <4>1. j - 1 \in 1..Len(m)
        BY <1>1, <3>2
      <4>2. t + (j - 1) <= h
        BY <2>2, <4>1 DEF Counted, t
      <4> QED BY <1>1, <4>2
    <3> QED BY <3>1, <3>2
  <2>4. CASE h = t + j - 1
    <3>1. h + 1 = t + j /\ h < Len(Checkpoints)
      BY <1>1, <2>4
    <3>2. Checkpoints[h + 1] = w
      BY <1>1, <2>2, <3>1
    <3> QED BY <3>1, <3>2 DEF Visit
  <2>5. CASE h # t + j - 1
    BY <1>1, <1>2, <2>3, <2>5
  <2> QED BY <2>4, <2>5
<1> QED
  BY <1>3, <1>4

\* What holds of the way-points seen holds of some of them.
LEMMA CountedLess ==
  ASSUME NEW m, NEW h, NEW S, Counted(m, h, S), NEW S2, S2 \subseteq S
  PROVE  Counted(m, h, S2)
  BY DEF Counted

\* Wherever the vehicle comes to, it is counted if it is the next check-point.
LEMMA CountAlone ==
  ASSUME NEW Roads, Spaced(Roads), NEW m, Rest(m), NEW h \in Nat, Ticks(m) <= h,
         NEW w
  PROVE  Counted(m, Visit(h, w), {w})
<1>1. Counted(m, h, {})
  <2>1. Len(m) \in Nat
    BY DEF Rest
  <2> QED BY <2>1 DEF Counted
<1>2. \A i \in 1..(Len(Checkpoints) - 1) :
        /\ Checkpoints[i + 1] # Checkpoints[i]
        /\ ~(Checkpoints[i] = w /\ Checkpoints[i + 1] \in {})
  BY Distinct
<1>3. {w} \subseteq {} \cup {w}
  OBVIOUS
<1> QED
  BY <1>1, <1>2, <1>3, CountArrival

\* next_checkpoint drops the check-points at the front.
LEMMA TickedIs ==
  ASSUME NEW m \in Seq(Nodes), NEW n \in 0..Len(m)
  PROVE  /\ Ticked(m, n) \in Seq(Nodes) /\ Len(Ticked(m, n)) = Len(m) - n
         /\ \A i \in 1..(Len(m) - n) : Ticked(m, n)[i] = m[n + i]
  BY DEF Ticked

\* Check-points in S are ticked off.
LEMMA CountTicked ==
  ASSUME NEW m, Rest(m), NEW h \in Nat, Ticks(m) <= h, NEW S, Counted(m, h, S),
         NEW n \in 0..Len(m), \A i \in 1..n : m[i] \in S, NEW S2, S2 \subseteq S
  PROVE  /\ Rest(Ticked(m, n)) /\ Ticks(Ticked(m, n)) <= h
         /\ Counted(Ticked(m, n), h, S2)
<1> DEFINE q == Ticked(m, n)
<1>1. /\ Len(m) \in Nat /\ m \in Seq(Nodes) /\ Len(m) <= Len(Checkpoints)
      /\ \A i \in 1..Len(m) : m[i] = Checkpoints[Len(Checkpoints) - Len(m) + i]
  BY DEF Rest, Ticks
<1>2. /\ q \in Seq(Nodes) /\ Len(q) = Len(m) - n
      /\ \A i \in 1..(Len(m) - n) : q[i] = m[n + i]
  BY <1>1, TickedIs
<1> HIDE DEF q
<1>3. Ticks(q) = Ticks(m) + n
  BY <1>1, <1>2, MissionLength DEF Ticks
<1>4. Rest(q)
  <2> SUFFICES ASSUME NEW i \in 1..Len(q)
               PROVE  q[i] = Checkpoints[Len(Checkpoints) - Len(q) + i]
    BY <1>1, <1>2, MissionLength DEF Rest, Ticks
  <2>1. n + i \in 1..Len(m)
        /\ Len(Checkpoints) - Len(m) + (n + i) = Len(Checkpoints) - Len(q) + i
    BY <1>1, <1>2, MissionLength
  <2>2. q[i] = m[n + i]
    BY <1>1, <1>2
  <2> QED BY <1>1, <2>1, <2>2
<1>5. Ticks(m) + n <= h
  <2>1. CASE n = 0
    BY <1>1, <2>1, MissionLength DEF Ticks
  <2>2. CASE n # 0
    <3>1. n \in 1..Len(m)
      BY <1>1, <2>2
    <3> QED BY <3>1 DEF Counted
  <2> QED BY <2>1, <2>2
<1>6. ASSUME NEW j \in 1..Len(q), \A i \in 1..j : q[i] \in S2
      PROVE  Ticks(q) + j <= h
  <2>1. n + j \in 1..Len(m)
    BY <1>1, <1>2
  <2>2. ASSUME NEW i \in 1..(n + j) PROVE m[i] \in S
    <3>1. CASE i <= n
      BY <3>1
    <3>2. CASE ~(i <= n)
      <4>1. i - n \in 1..j /\ i - n \in 1..(Len(m) - n) /\ n + (i - n) = i
        BY <1>1, <1>2, <3>2
      <4>2. q[i - n] = m[i]
        BY <1>2, <4>1
      <4> QED BY <1>6, <4>1, <4>2
    <3> QED BY <3>1, <3>2
  <2>3. Ticks(m) + (n + j) <= h
    BY <2>1, <2>2 DEF Counted
  <2> QED BY <1>1, <1>3, <2>3, MissionLength DEF Ticks
<1> QED
  BY <1>3, <1>4, <1>5, <1>6 DEF q, Counted

\* The way-point the vehicle is at has been seen; an earlier place of the
\* route at the same way-point has seen no more.
LEMMA SeenHere ==
  ASSUME NEW r, Len(r) \in Nat, NEW k \in 0..Len(r)
  PROVE  /\ Node(r, k) \in Seen(r, k)
         /\ Seen(r, 0) = {Node(r, 0)}
         /\ \A j \in 0..k : Node(r, j) = Node(r, k) => Seen(r, j) \subseteq Seen(r, k)
<1>1. Node(r, k) \in Seen(r, k)
  BY DEF Seen
<1>2. Seen(r, 0) = {Node(r, 0)}
  <2>1. 0..0 = {0}
    OBVIOUS
  <2> QED BY <2>1 DEF Seen
<1>3. ASSUME NEW j \in 0..k, Node(r, j) = Node(r, k)
      PROVE  Seen(r, j) \subseteq Seen(r, k)
  <2>1. CASE j = 0
    BY <1>1, <1>2, <1>3, <2>1
  <2>2. CASE j # 0
    BY <2>2 DEF Seen
  <2> QED BY <2>1, <2>2
<1> QED
  BY <1>1, <1>2, <1>3

\* What has been seen lies a few edges before the next way-point.
LEMMA SeenNear ==
  ASSUME NEW Roads, Roads \subseteq Nodes \X Nodes, NEW r, Leads(Roads, r), r # <<>>,
         NEW k \in 0..(Len(r) - 1), k + 1 <= N_WAYPTS - 1, NEW x \in Seen(r, k)
  PROVE  Within(Roads, N_WAYPTS - 2, x, Node(r, k + 1))
<1>1. /\ Len(r) \in Nat /\ Len(r) >= 1
      /\ \A i \in 0..Len(r) : Node(r, i) \in Nodes
      /\ \A i \in 1..Len(r) : /\ r[i] \in Roads
                              /\ r[i] = <<Node(r, i - 1), Node(r, i)>>
  BY RouteNodes
<1>2. PICK i \in (IF k = 0 \/ Len(r) = 1 THEN 0 ELSE 1)..k : x = Node(r, i)
  BY DEF Seen
<1> DEFINE m == k + 1 - i
           p == [j \in 0..m |-> Node(r, i + j)]
<1>3. i \in 0..k /\ m \in 1..(N_WAYPTS - 2) /\ i + m = k + 1 /\ k + 1 <= Len(r)
  BY <1>1, Window3
<1> HIDE DEF m
<1>4. p \in [0..m -> Nodes] /\ p[0] = Node(r, i) /\ p[m] = Node(r, k + 1)
  <2>1. \A j \in 0..m : i + j \in 0..Len(r)
    BY <1>1, <1>3
  <2>2. \A j \in 0..m : p[j] = Node(r, i + j) /\ Node(r, i + j) \in Nodes
    BY <1>1, <2>1
  <2>3. 0 \in 0..m /\ m \in 0..m /\ i + 0 = i
    BY <1>3
  <2> QED BY <1>3, <2>2, <2>3
<1>5. ASSUME NEW j \in 0..(m - 1) PROVE <<p[j], p[j + 1]>> \in Roads
  <2> DEFINE e == i + j + 1
  <2>1. e \in 1..Len(r) /\ e - 1 = i + j /\ i + (j + 1) = e
        /\ j \in 0..m /\ j + 1 \in 0..m
    BY <1>1, <1>3
  <2>2. p[j] = Node(r, e - 1) /\ p[j + 1] = Node(r, e)
    BY <2>1
  <2> HIDE DEF e, p
  <2> QED BY <1>1, <2>1, <2>2
<1> HIDE DEF p
<1>6. m \in 0..(N_WAYPTS - 2)
  BY <1>3, Window3
<1>7. \E q \in [0..m -> Nodes] :
        /\ q[0] = x /\ q[m] = Node(r, k + 1)
        /\ \A j \in 0..(m - 1) : <<q[j], q[j + 1]>> \in Roads
  BY <1>2, <1>4, <1>5
<1> QED
  BY <1>6, <1>7 DEF Within

\* The vehicle drives to the next way-point of its route.
LEMMA CountMove ==
  ASSUME NEW Roads, Roads \subseteq Nodes \X Nodes, Spaced(Roads),
         NEW r, Leads(Roads, r), r # <<>>,
         NEW k \in 0..(Len(r) - 1), k + 1 <= N_WAYPTS - 1,
         NEW m, Rest(m), NEW h \in Nat, Ticks(m) <= h, Counted(m, h, Seen(r, k))
  PROVE  Counted(m, Visit(h, Node(r, k + 1)), Seen(r, k + 1))
<1> DEFINE w == Node(r, k + 1)
<1>1. Len(r) \in Nat /\ Len(r) >= 1
  BY RouteNodes
<1>2. Seen(r, k + 1) \subseteq Seen(r, k) \cup {w}
  BY <1>1 DEF Seen
<1>3. \A x \in Seen(r, k) : Within(Roads, N_WAYPTS - 2, x, w)
  BY SeenNear
<1> HIDE DEF w
<1>4. \A i \in 1..(Len(Checkpoints) - 1) :
        /\ Checkpoints[i + 1] # Checkpoints[i]
        /\ ~(Checkpoints[i] = w /\ Checkpoints[i + 1] \in Seen(r, k))
  BY <1>3, Distinct DEF Spaced
<1> QED
  BY <1>2, <1>4, CountArrival DEF w

----------------------------------------------------------------------------
(* Part 4.  The graph stays within Roads, and so do the paths in it.       *)

\* Blockages::pop_block looks an edge up by its ends.
LEMMA FirstIn ==
  ASSUME NEW E, NEW g \in Seq(E), NEW p
  PROVE  FirstJoining(g, p) \in 0..Len(g)
<1> DEFINE T == {i \in 1..Len(g) : Joins(g[i], p)}
<1>1. FirstJoining(g, p) = IF T # {} THEN Min(T) ELSE 0
  BY DEF FirstJoining, SelectInSeq
<1>2. T # {} => Min(T) \in T
  <2>1. T \subseteq Nat
    OBVIOUS
  <2> HIDE DEF T
  <2> QED BY <2>1, MinIs
<1> QED
  BY <1>1, <1>2

\* Erasing a U-turn leaves edges of the graph.
LEMMA EraseIn ==
  ASSUME NEW E, NEW g \in Seq(E), NEW p
  PROVE  Erase(g, p) \in Seq(E)
<1> DEFINE f == FirstJoining(g, p)
<1>1. f \in 0..Len(g)
  BY FirstIn
<1>2. Erase(g, p) = IF f = 0 THEN g ELSE RemoveAt(g, f)
  BY DEF Erase
<1> HIDE DEF f
<1>3. f # 0 => RemoveAt(g, f) \in Seq(E)
  BY <1>1 DEF RemoveAt
<1> QED
  BY <1>2, <1>3

\* Removing a blockage leaves edges of the graph.
LEMMA PopBlockIn ==
  ASSUME NEW Roads, NEW g \in Seq(GraphEdges(Roads)), NEW b
  PROVE  pop_block(g, b) \in Seq(GraphEdges(Roads))
<1> DEFINE E == GraphEdges(Roads)
           opened == {FirstJoining(g, p) : p \in b.closed}
           open == [i \in DOMAIN g |-> [g[i] EXCEPT !.blocked = @ /\ i \notin opened]]
<1>1. pop_block(g, b) = EraseTurns(open, b.turns)
  BY DEF pop_block
<1>2. open \in Seq(E)
  <2>1. ASSUME NEW i \in 1..Len(g), NEW c \in BOOLEAN
        PROVE  [g[i] EXCEPT !.blocked = c] \in E
    <3>1. g[i] \in E
      OBVIOUS
    <3> QED BY <3>1 DEF GraphEdges
  <2>2. ASSUME NEW i \in 1..Len(g) PROVE (g[i].blocked /\ i \notin opened) \in BOOLEAN
    OBVIOUS
  <2>3. \A i \in 1..Len(g) : [g[i] EXCEPT !.blocked = @ /\ i \notin opened] \in E
    <3> HIDE DEF E, opened
    <3> QED BY <2>1, <2>2
  <2>4. DOMAIN g = 1..Len(g) /\ Len(g) \in Nat
    OBVIOUS
  <2> HIDE DEF E, opened
  <2> QED BY <2>3, <2>4
<1> HIDE DEF open, E
<1>3. \A s \in Seq(E) : \A p : Erase(s, p) \in Seq(E)
  BY EraseIn
<1> QED
  BY <1>1, <1>2, <1>3 DEF EraseTurns, E

\* Blockages::pop_oldest, any number of times.
LEMMA PopOldestIn ==
  ASSUME NEW Roads, NEW g \in Seq(GraphEdges(Roads)), NEW bs, NEW n \in Nat
  PROVE  pop_oldest(g, bs, n) \in Seq(GraphEdges(Roads))
<1> DEFINE S == Seq(GraphEdges(Roads))
           Step(u, i) == pop_block(u, bs[i])
           Body(f) == [i \in 0..n |-> IF i = 0 THEN g ELSE Step(f[i - 1], i)]
           F == [i \in 1..n |-> [u \in S |-> Step(u, i)]]
           h == CHOOSE f : f = Body(f)
<1>1. pop_oldest(g, bs, n) = h[n]
  BY DEF pop_oldest
<1>2. g \in S /\ \A u \in S, i \in 1..n : Step(u, i) \in S
  BY PopBlockIn
<1> HIDE DEF S, Step
<1>3. PICK f : Iterates(f, n, S, g, F)
  <2>1. F \in [1..n -> [S -> S]]
    BY <1>2
  <2> HIDE DEF F
  <2> QED BY <1>2, <2>1, Recursion
<1>4. f = Body(f)
  <2>1. \A i \in 1..n, u \in S : F[i][u] = Step(u, i)
    OBVIOUS
  <2> HIDE DEF F
  <2>2. f \in [0..n -> S] /\ f[0] = g
    BY <1>3 DEF Iterates
  <2>3. \A i \in 1..n : f[i] = F[i][f[i - 1]]
    BY <1>3 DEF Iterates
  <2>4. \A i \in 1..n : f[i - 1] \in S
    BY <1>2, <2>2
  <2>5. \A i \in 1..n : f[i] = Step(f[i - 1], i)
    BY <2>1, <2>3, <2>4
  <2>6. \A i \in 0..n : i = 0 \/ i \in 1..n
    OBVIOUS
  <2>7. \A i \in 0..n : f[i] = IF i = 0 THEN g ELSE Step(f[i - 1], i)
    BY <2>2, <2>5, <2>6
  <2> QED BY <2>2, <2>7
<1>5. h = Body(h)
  <2> HIDE DEF Body
  <2> QED BY <1>4
<1> HIDE DEF h
<1>6. h[0] = g /\ \A i \in 1..n : h[i] = Step(h[i - 1], i)
  <2>1. \A q : Body(q)[0] = g /\ \A i \in 1..n : Body(q)[i] = Step(q[i - 1], i)
    OBVIOUS
  <2> HIDE DEF Body
  <2> QED BY <1>5, <2>1
<1> DEFINE G == {i \in 0..n : h[i] \in S}
<1>7. 0 \in G /\ \A i \in 1..n : i - 1 \in G => i \in G
  BY <1>2, <1>6
<1> HIDE DEF G
<1>8. \A i \in 0..n : i \in G
  BY <1>7, Induction, Zenon
<1>9. h[n] \in S
  BY <1>8 DEF G
<1> QED
  BY <1>1, <1>9 DEF S

\* The paths from a way-point: connected, and the first edge starts there.
Ways(Roads, from) ==
  {p \in Seq(Roads) : /\ \A i \in 1..(Len(p) - 1) : p[i][2] = p[i + 1][1]
                      /\ p # <<>> => p[1][1] = from}

\* A path goes on along an edge that starts at its end.
LEMMA PathLonger ==
  ASSUME NEW Roads, NEW from, NEW p \in Ways(Roads, from), NEW e \in Roads,
         e[1] = End(p, from)
  PROVE  Append(p, e) \in Ways(Roads, from)
<1> DEFINE q == Append(p, e)
<1>1. /\ p \in Seq(Roads) /\ Len(p) \in Nat
      /\ \A i \in 1..(Len(p) - 1) : p[i][2] = p[i + 1][1]
      /\ p # <<>> => p[1][1] = from
  BY DEF Ways
<1>2. /\ q \in Seq(Roads) /\ Len(q) = Len(p) + 1 /\ q # <<>>
      /\ \A i \in 1..Len(p) : q[i] = p[i]
      /\ q[Len(p) + 1] = e
  BY <1>1, AppendProperties
<1> HIDE DEF q
<1>3. ASSUME NEW i \in 1..(Len(q) - 1) PROVE q[i][2] = q[i + 1][1]
  <2>1. CASE i = Len(p)
    <3>1. p # <<>> /\ q[i] = p[Len(p)] /\ q[i + 1] = e
      BY <1>1, <1>2, <2>1
    <3> QED BY <3>1 DEF End, Last
  <2>2. CASE i # Len(p)
    <3>1. i \in 1..(Len(p) - 1) /\ i \in 1..Len(p) /\ i + 1 \in 1..Len(p)
      BY <1>1, <1>2, <2>2
    <3> QED BY <1>1, <1>2, <3>1
  <2> QED BY <2>1, <2>2
<1>4. q[1][1] = from
  <2>1. CASE p = <<>>
    <3>1. Len(p) + 1 = 1
      BY <2>1
    <3> QED BY <1>2, <2>1, <3>1 DEF End
  <2>2. CASE p # <<>>
    <3>1. 1 \in 1..Len(p)
      BY <1>1, <2>2
    <3> QED BY <1>1, <1>2, <2>2, <3>1
  <2> QED BY <2>1, <2>2
<1> QED
  BY <1>2, <1>3, <1>4 DEF q, Ways

\* Every path of the search is connected and keeps to Roads.
LEMMA PathsAreWays ==
  ASSUME NEW Roads, NEW open, open \subseteq Roads, NEW from
  PROVE  \A k \in 0..Cardinality(Nodes) : Paths(open, from)[k] \subseteq Ways(Roads, from)
<1> DEFINE n == Cardinality(Nodes)
           S == SUBSET Ways(Roads, from)
           none == {<<>>}
           Step(u) == UNION {{Append(p, e) : e \in {x \in open :
                         x[1] = End(p, from) /\ x[2] \notin Passed(p, from)}}
                    : p \in u}
           Body(f) == [i \in 0..n |-> IF i = 0 THEN none ELSE Step(f[i - 1])]
           F == [i \in 1..n |-> [u \in S |-> Step(u)]]
           h == CHOOSE f : f = Body(f)
<1>1. Paths(open, from) = h
  BY DEF Paths
<1>2. n \in Nat /\ none \in S /\ \A u \in S : Step(u) \in S
  <2>1. n \in Nat
    BY CommanderAssumption, FS_CardinalityType
  <2>2. none \in S
    BY DEF Ways
  <2>3. ASSUME NEW u \in S, NEW q \in Step(u) PROVE q \in Ways(Roads, from)
    <3>1. PICK p \in u, e \in open : q = Append(p, e) /\ e[1] = End(p, from)
      BY <2>3
    <3> QED BY <3>1, PathLonger
  <2> QED BY <2>1, <2>2, <2>3
<1> HIDE DEF n, S, none, Step
<1>3. PICK f : Iterates(f, n, S, none, F)
  <2>1. F \in [1..n -> [S -> S]]
    BY <1>2
  <2> HIDE DEF F
  <2> QED BY <1>2, <2>1, Recursion
<1>4. f = Body(f)
  <2>1. \A i \in 1..n, u \in S : F[i][u] = Step(u)
    OBVIOUS
  <2> HIDE DEF F
  <2>2. f \in [0..n -> S] /\ f[0] = none
    BY <1>3 DEF Iterates
  <2>3. \A i \in 1..n : f[i] = F[i][f[i - 1]]
    BY <1>3 DEF Iterates
  <2>4. \A i \in 1..n : f[i - 1] \in S
    BY <1>2, <2>2
  <2>5. \A i \in 1..n : f[i] = Step(f[i - 1])
    BY <2>1, <2>3, <2>4
  <2>6. \A i \in 0..n : i = 0 \/ i \in 1..n
    BY <1>2
  <2>7. \A i \in 0..n : f[i] = IF i = 0 THEN none ELSE Step(f[i - 1])
    BY <2>2, <2>5, <2>6
  <2> QED BY <2>2, <2>7
<1>5. h = Body(h)
  <2> HIDE DEF Body
  <2> QED BY <1>4
<1> HIDE DEF h
<1>6. h[0] = none /\ \A i \in 1..n : h[i] = Step(h[i - 1])
  <2>1. \A q : Body(q)[0] = none /\ \A i \in 1..n : Body(q)[i] = Step(q[i - 1])
    BY <1>2
  <2> HIDE DEF Body
  <2> QED BY <1>5, <2>1
<1> DEFINE G == {i \in 0..n : h[i] \in S}
<1>7. 0 \in G /\ \A i \in 1..n : i - 1 \in G => i \in G
  BY <1>2, <1>6
<1> HIDE DEF G
<1>8. \A i \in 0..n : i \in G
  BY <1>2, <1>7, Induction, Zenon
<1>9. \A i \in 0..n : h[i] \in S
  BY <1>8 DEF G
<1> QED
  BY <1>1, <1>9 DEF S, n

\* What the search returns is a path to the goal within Roads.
LEMMA SearchPath ==
  ASSUME NEW Roads, NEW g \in Seq(GraphEdges(Roads)), NEW from, NEW goal
  PROVE  LET p == astar_search(g, from, goal)
         IN p \in Ways(Roads, from) /\ (p # <<>> => p[Len(p)][2] = goal)
<1> DEFINE open == {<<e.from, e.to>> : e \in {x \in Range(g) : ~x.blocked}}
           paths == Paths(open, from)
           Arriving(k) == {p \in paths[k] : End(p, from) = goal}
           n == Cardinality(Nodes)
           lengths == {k \in 0..n : Arriving(k) # {}}
           res == astar_search(g, from, goal)
<1>1. open \subseteq Roads
  <2>1. \A e \in Range(g) : e \in GraphEdges(Roads)
    BY DEF Range
  <2> QED BY <2>1 DEF GraphEdges
<1>2. \A k \in 0..n : paths[k] \subseteq Ways(Roads, from)
  <2> HIDE DEF open
  <2> QED BY <1>1, PathsAreWays
<1>3. res = IF lengths = {} THEN <<>> ELSE CHOOSE p \in Arriving(Min(lengths)) : TRUE
  BY DEF astar_search
<1>4. n \in Nat
  BY CommanderAssumption, FS_CardinalityType
<1> HIDE DEF open, paths, n, res
<1>5. CASE lengths = {}
  <2>1. res = <<>>
    BY <1>3, <1>5
  <2>2. <<>> \in Ways(Roads, from)
    BY DEF Ways
  <2> QED BY <2>1, <2>2 DEF res
<1>6. CASE lengths # {}
  <2>1. lengths \subseteq Nat
    BY <1>4
  <2>2. Min(lengths) \in lengths
    <3> HIDE DEF lengths
    <3> QED BY <1>6, <2>1, MinIs
  <2>3. Arriving(Min(lengths)) # {} /\ Min(lengths) \in 0..n
    BY <2>2
  <2> DEFINE A == Arriving(Min(lengths))
  <2>4. \A p \in A : p \in Ways(Roads, from) /\ End(p, from) = goal
    BY <1>2, <2>3
  <2>5. res \in A
    <3>1. A # {} /\ res = CHOOSE p \in A : TRUE
      BY <1>3, <1>6, <2>3
    <3> HIDE DEF A
    <3> QED BY <3>1
  <2> HIDE DEF A
  <2>6. res \in Ways(Roads, from) /\ End(res, from) = goal
    BY <2>4, <2>5
  <2> QED BY <2>6 DEF res, End, Last
<1> QED
  BY <1>5, <1>6

----------------------------------------------------------------------------
(* Part 5.  Routes: planned by replan_route, walked by current_event.      *)

\* The two goals of a plan are check-points.
LEMMA GoalsAre ==
  ASSUME NEW m, Rest(m), m # <<>>
  PROVE  /\ Goal(m) \in Range(Checkpoints) /\ Goal2(m) \in Range(Checkpoints)
         /\ Len(m) \in Nat /\ Len(m) >= 1
         /\ Goal2(m) = IF Len(m) = 1 THEN m[1] ELSE m[2]
<1>1. Len(m) \in Nat /\ Len(m) >= 1 /\ Len(m) <= Len(Checkpoints)
  BY DEF Rest
<1>2. Goal2(m) = IF Len(m) = 1 THEN m[1] ELSE m[2]
  <2>1. Min({2, Len(m)}) = IF 2 <= Len(m) THEN 2 ELSE Len(m)
    BY <1>1, MinTwo
  <2> QED BY <1>1, <2>1 DEF Goal2
<1>3. ASSUME NEW i \in 1..Len(m) PROVE m[i] \in Range(Checkpoints)
  <2>1. m[i] = Checkpoints[Ticks(m) + i] /\ Ticks(m) + i \in 1..Len(Checkpoints)
    BY <1>1, MissionLength DEF Rest, Ticks
  <2>2. DOMAIN Checkpoints = 1..Len(Checkpoints)
    BY CommanderAssumption
  <2> QED BY <2>1, <2>2 DEF Range
<1>4. 1 \in 1..Len(m) /\ (Len(m) # 1 => 2 \in 1..Len(m))
  <2> DEFINE n == Len(m)
  <2>1. n \in Nat /\ n >= 1
    BY <1>1
  <2> HIDE DEF n
  <2>2. 1 \in 1..n /\ (n # 1 => 2 \in 1..n)
    BY <2>1
  <2> QED BY <2>2 DEF n
<1> QED
  BY <1>1, <1>2, <1>3, <1>4 DEF Goal

\* A plan leads from w over the next check-point to the one after it.
LEMMA PlanLeads ==
  ASSUME NEW Roads, NEW g \in Seq(GraphEdges(Roads)), NEW m, Rest(m), m # <<>>,
         NEW w
  PROVE  /\ Leads(Roads, Plan(g, m, w))
         /\ Plan(g, m, w) # <<>> => Plan(g, m, w)[1][1] = w
<1> DEFINE one == astar_search(g, w, Goal(m))
           two == astar_search(g, Goal(m), Goal2(m))
<1>1. one \in Ways(Roads, w) /\ (one # <<>> => one[Len(one)][2] = Goal(m))
  BY SearchPath
<1>2. two \in Ways(Roads, Goal(m)) /\ (two # <<>> => two[Len(two)][2] = Goal2(m))
  BY SearchPath
<1>3. Plan(g, m, w) = <<>> \/ (one # <<>> /\ Plan(g, m, w) = one \o two)
  BY DEF Plan
<1>4. Goal(m) \in Range(Checkpoints) /\ Goal2(m) \in Range(Checkpoints)
  BY GoalsAre
<1> HIDE DEF one, two
<1>5. CASE Plan(g, m, w) = <<>>
  BY <1>5 DEF Leads
<1>6. CASE one # <<>> /\ Plan(g, m, w) = one \o two
  <2> DEFINE q == one \o two
  <2>1. /\ one \in Seq(Roads) /\ two \in Seq(Roads)
        /\ Len(one) \in Nat /\ Len(two) \in Nat /\ Len(one) >= 1
        /\ \A i \in 1..(Len(one) - 1) : one[i][2] = one[i + 1][1]
        /\ \A i \in 1..(Len(two) - 1) : two[i][2] = two[i + 1][1]
        /\ one[1][1] = w /\ (two # <<>> => two[1][1] = Goal(m))
    BY <1>1, <1>2, <1>6 DEF Ways
  <2>2. /\ q \in Seq(Roads) /\ Len(q) = Len(one) + Len(two)
        /\ \A i \in 1..Len(one) : q[i] = one[i]
        /\ \A i \in 1..Len(two) : q[Len(one) + i] = two[i]
    BY <2>1
  <2> HIDE DEF q
  <2>3. ASSUME NEW i \in 1..(Len(q) - 1) PROVE q[i][2] = q[i + 1][1]
    <3>1. CASE i < Len(one)
      <4>1. i \in 1..(Len(one) - 1) /\ i \in 1..Len(one) /\ i + 1 \in 1..Len(one)
        BY <2>1, <3>1
      <4> QED BY <2>1, <2>2, <4>1
    <3>2. CASE i = Len(one)
      <4>1. two # <<>> /\ 1 \in 1..Len(two) /\ i \in 1..Len(one)
        BY <2>1, <2>2, <3>2
      <4>2. q[i + 1] = two[1] /\ q[i] = one[Len(one)]
        BY <2>2, <3>2, <4>1
      <4> QED BY <1>1, <1>6, <2>1, <4>1, <4>2
    <3>3. CASE i > Len(one)
      <4> DEFINE j == i - Len(one)
      <4>1. /\ j \in 1..(Len(two) - 1) /\ j \in 1..Len(two) /\ j + 1 \in 1..Len(two)
            /\ i = Len(one) + j /\ i + 1 = Len(one) + (j + 1)
        BY <2>1, <2>2, <3>3
      <4> HIDE DEF j
      <4>2. q[i] = two[j] /\ q[i + 1] = two[j + 1]
        BY <2>2, <4>1
      <4> QED BY <2>1, <4>1, <4>2
    <3> QED BY <2>1, <3>1, <3>2, <3>3
  <2>4. q # <<>> /\ q[1][1] = w
    <3>1. 1 \in 1..Len(one) /\ Len(q) # 0
      BY <2>1, <2>2
    <3> QED BY <2>1, <2>2, <3>1
  <2>5. q[Len(q)][2] \in Range(Checkpoints)
    <3>1. CASE two = <<>>
      <4>1. Len(q) = Len(one) /\ Len(one) \in 1..Len(one)
        BY <2>1, <2>2, <3>1
      <4> QED BY <1>1, <1>4, <1>6, <2>2, <4>1
    <3>2. CASE two # <<>>
      <4>1. Len(two) \in 1..Len(two)
        BY <2>1, <3>2
      <4> QED BY <1>2, <1>4, <2>2, <3>2, <4>1
    <3> QED BY <3>1, <3>2
  <2> QED BY <1>6, <2>2, <2>3, <2>4, <2>5 DEF q, Leads
<1> QED
  BY <1>3, <1>5, <1>6

\* Commander::replan_route keeps the route or makes one that starts at w.
LEMMA ReplanLeads ==
  ASSUME NEW Roads, NEW g \in Seq(GraphEdges(Roads)), NEW bs \in Seq(Blockage),
         NEW m, Rest(m), NEW w, NEW r
  PROVE  LET p == replan_route(g, bs, r, m, w)
         IN /\ p.edges \in Seq(GraphEdges(Roads)) /\ p.blocks \in Seq(Blockage)
            /\ \/ p.route = r
               \/ /\ Leads(Roads, p.route) /\ p.route # <<>> /\ p.route[1][1] = w
                  /\ m # <<>>
<1> DEFINE Graph(i) == pop_oldest(g, bs, i)
           enough == {i \in 0..Len(bs) : Plan(Graph(i), m, w) # <<>>}
           k == IF enough = {} THEN Len(bs) ELSE Min(enough)
           p == replan_route(g, bs, r, m, w)
<1>1. p = IF m = <<>> \/ w = Goal(m)
          THEN [ok |-> TRUE, edges |-> g, blocks |-> bs, route |-> r]
          ELSE [ok |-> enough # {}, edges |-> Graph(k),
                blocks |-> SubSeq(bs, k + 1, Len(bs)),
                route |-> IF enough = {} THEN r ELSE Plan(Graph(k), m, w)]
  BY DEF replan_route
<1>2. CASE m = <<>> \/ w = Goal(m)
  <2>1. p = [ok |-> TRUE, edges |-> g, blocks |-> bs, route |-> r]
    BY <1>1, <1>2
  <2> HIDE DEF p
  <2>2. p.edges = g /\ p.blocks = bs /\ p.route = r
    BY <2>1
  <2> QED BY <2>2 DEF p
<1>3. CASE ~(m = <<>> \/ w = Goal(m))
  <2>0. p = [ok |-> enough # {}, edges |-> Graph(k),
             blocks |-> SubSeq(bs, k + 1, Len(bs)),
             route |-> IF enough = {} THEN r ELSE Plan(Graph(k), m, w)]
    BY <1>1, <1>3
  <2>1. enough # {} => Min(enough) \in enough
    <3>1. enough \subseteq Nat
      OBVIOUS
    <3> HIDE DEF enough
    <3> QED BY <3>1, MinIs
  <2>2. k \in 0..Len(bs) /\ (enough # {} => Plan(Graph(k), m, w) # <<>>)
    BY <2>1
  <2> HIDE DEF p, k, enough
  <2>3. Graph(k) \in Seq(GraphEdges(Roads))
    BY <2>2, PopOldestIn
  <2>4. SubSeq(bs, k + 1, Len(bs)) \in Seq(Blockage)
    BY <2>2
  <2> HIDE DEF Graph
  <2>5. /\ p.edges = Graph(k) /\ p.blocks = SubSeq(bs, k + 1, Len(bs))
        /\ p.route = IF enough = {} THEN r ELSE Plan(Graph(k), m, w)
    BY <2>0
  <2>6. enough # {} => /\ Leads(Roads, Plan(Graph(k), m, w))
                       /\ Plan(Graph(k), m, w)[1][1] = w
    BY <1>3, <2>2, <2>3, PlanLeads
  <2> QED BY <1>3, <2>2, <2>3, <2>4, <2>5, <2>6 DEF p
<1> QED
  BY <1>2, <1>3

\* A function on 1..n is a sequence.
LEMMA FunctionSeq ==
  ASSUME NEW X, NEW n \in Nat, NEW f \in [1..n -> X]
  PROVE  f \in Seq(X) /\ Len(f) = n
  BY SeqDef, LenProperties

\* An edge of Roads, with the flag of an added one or not, is one of the graph.
LEMMA EdgeIn ==
  ASSUME NEW Roads, Roads \subseteq Nodes \X Nodes, NEW p \in Roads,
         NEW c \in BOOLEAN
  PROVE  Edge(p, c) \in GraphEdges(Roads)
<1>1. PICK x \in Nodes, y \in Nodes : p = <<x, y>>
  OBVIOUS
<1> DEFINE e == [from |-> x, to |-> y, added |-> c, blocked |-> FALSE]
<1>2. Edge(p, c) = e
  BY <1>1 DEF Edge
<1>3. /\ e \in [from : Nodes, to : Nodes, added : BOOLEAN, blocked : BOOLEAN]
      /\ e.from = x /\ e.to = y
  OBVIOUS
<1> HIDE DEF e
<1> QED
  BY <1>1, <1>2, <1>3 DEF GraphEdges

\* Blockages::add_block adds only U-turns that Roads has.
LEMMA AddBlockIn ==
  ASSUME NEW Roads, Roads \subseteq Nodes \X Nodes,
         NEW g \in Seq(GraphEdges(Roads)), NEW bs \in Seq(Blockage),
         NEW w, NEW e1 \in Roads, <<e1[1], w>> \in Roads,
         <<Behind[w], w>> \in Roads => <<Behind[w], e1[2]>> \in Roads
  PROVE  LET b == add_block(g, bs, w, e1)
         IN b.edges \in Seq(GraphEdges(Roads)) /\ b.blocks \in Seq(Blockage)
<1> DEFINE E == GraphEdges(Roads)
           side == Behind[w]
           closed == IF side = NoWaypt THEN {}
                     ELSE {i \in DOMAIN g : g[i].to = w \/ Joins(g[i], e1)}
           back == \E i \in closed : Joins(g[i], <<side, w>>)
           turns == <<<<e1[1], w>>>> \o IF back THEN <<<<side, e1[2]>>>> ELSE <<>>
           shut == [i \in DOMAIN g |-> [g[i] EXCEPT !.blocked = @ \/ i \in closed]]
           new == [i \in DOMAIN turns |-> Edge(turns[i], TRUE)]
           b == add_block(g, bs, w, e1)
<1>1. b = [edges |-> shut \o new,
           blocks |-> Append(bs, [closed |-> {<<g[i].from, g[i].to>> : i \in closed},
                                  turns |-> turns])]
  BY DEF add_block
<1>2. closed \subseteq 1..Len(g)
  OBVIOUS
<1>3. \A i \in 1..Len(g) : g[i] \in E
  OBVIOUS
<1>4. back => <<side, w>> \in Roads
  <2> HAVE back
  <2>1. PICK i \in closed : Joins(g[i], <<side, w>>)
    OBVIOUS
  <2> HIDE DEF closed
  <2>2. g[i] \in E
    BY <1>2, <1>3
  <2> QED BY <2>1, <2>2 DEF GraphEdges, Joins
<1>5. turns \in Seq(Roads)
  <2> HIDE DEF back
  <2> QED BY <1>4
<1>6. shut \in Seq(E)
  <2>1. ASSUME NEW i \in 1..Len(g), NEW c \in BOOLEAN
        PROVE  [g[i] EXCEPT !.blocked = c] \in E
    <3>1. g[i] \in E
      BY <1>3
    <3> QED BY <3>1 DEF GraphEdges
  <2> HIDE DEF closed, E
  <2>2. ASSUME NEW i \in 1..Len(g) PROVE (g[i].blocked \/ i \in closed) \in BOOLEAN
    OBVIOUS
  <2>3. \A i \in 1..Len(g) : [g[i] EXCEPT !.blocked = @ \/ i \in closed] \in E
    BY <2>1, <2>2
  <2>4. DOMAIN g = 1..Len(g) /\ Len(g) \in Nat
    OBVIOUS
  <2> QED BY <2>3, <2>4
<1>7. new \in Seq(E)
  <2>1. \A p \in Roads : Edge(p, TRUE) \in E
    BY EdgeIn
  <2> HIDE DEF turns, E
  <2>2. DOMAIN turns = 1..Len(turns) /\ Len(turns) \in Nat
        /\ \A i \in 1..Len(turns) : turns[i] \in Roads
    BY <1>5
  <2>3. new \in [1..Len(turns) -> E]
    BY <2>1, <2>2
  <2> HIDE DEF new
  <2> QED BY <2>2, <2>3, FunctionSeq
<1>8. {<<g[i].from, g[i].to>> : i \in closed} \in SUBSET (Nodes \X Nodes)
  <2> HIDE DEF closed
  <2>1. ASSUME NEW i \in closed PROVE <<g[i].from, g[i].to>> \in Nodes \X Nodes
    <3>1. g[i] \in E
      BY <1>2, <1>3
    <3> QED BY <3>1 DEF GraphEdges
  <2> QED BY <2>1
<1>9. turns \in Seq(Nodes \X Nodes)
  <2> HIDE DEF turns
  <2> QED BY <1>5
<1> HIDE DEF b, shut, new, closed, turns, E
<1>10. shut \o new \in Seq(E)
  BY <1>6, <1>7
<1>11. [closed |-> {<<g[i].from, g[i].to>> : i \in closed}, turns |-> turns] \in Blockage
  BY <1>8, <1>9 DEF Blockage
<1>12. b.edges = shut \o new
       /\ b.blocks = Append(bs, [closed |-> {<<g[i].from, g[i].to>> : i \in closed},
                                 turns |-> turns])
  BY <1>1
<1> QED
  BY <1>10, <1>11, <1>12 DEF b, E

\* What is left of a route when its first edges are popped.
LEMMA TailLeads ==
  ASSUME NEW Roads, NEW r, Leads(Roads, r), r # <<>>, NEW a \in 1..Len(r)
  PROVE  LET q == SubSeq(r, a, Len(r))
         IN /\ Leads(Roads, q) /\ q # <<>> /\ Len(q) = Len(r) - a + 1
            /\ \A i \in 1..Len(q) : q[i] = r[a + i - 1]
<1> DEFINE q == SubSeq(r, a, Len(r))
<1>1. /\ r \in Seq(Roads) /\ Len(r) \in Nat
      /\ \A i \in 1..(Len(r) - 1) : r[i][2] = r[i + 1][1]
      /\ r[Len(r)][2] \in Range(Checkpoints)
  BY DEF Leads
<1>2. /\ q \in Seq(Roads) /\ Len(q) = Len(r) - a + 1
      /\ \A i \in 1..(Len(r) - a + 1) : q[i] = r[a + i - 1]
  BY <1>1
<1> HIDE DEF q
<1>3. ASSUME NEW i \in 1..(Len(q) - 1) PROVE q[i][2] = q[i + 1][1]
  <2> DEFINE j == a + i - 1
  <2>1. /\ j \in 1..(Len(r) - 1) /\ a + (i + 1) - 1 = j + 1
        /\ i \in 1..(Len(r) - a + 1) /\ i + 1 \in 1..(Len(r) - a + 1)
    BY <1>1, <1>2
  <2>2. q[i] = r[j] /\ q[i + 1] = r[j + 1]
    BY <1>2, <2>1
  <2> HIDE DEF j
  <2> QED BY <1>1, <2>1, <2>2
<1>4. q # <<>> /\ q[Len(q)] = r[Len(r)]
  <2> DEFINE j == Len(q)
  <2>1. j \in 1..(Len(r) - a + 1) /\ a + j - 1 = Len(r) /\ j # 0
    BY <1>1, <1>2
  <2>2. q # <<>>
    BY <2>1
  <2> HIDE DEF j
  <2>3. q[j] = r[Len(r)]
    BY <1>2, <2>1
  <2> QED BY <2>2, <2>3 DEF j
<1> QED
  BY <1>1, <1>2, <1>3, <1>4 DEF q, Leads

\* After the walk the route starts where the vehicle is, or the vehicle is at its
\* end and the last edge is left.
WalkedTo(Roads, S) ==
  /\ Leads(Roads, Walked.route) /\ Walked.route # <<>>
  /\ Walked.way = last
  /\ Len(Walked.route) >= 2 => Walked.route[1][1] = last
  /\ Walked.passed \subseteq S
  /\ \E j \in 0..Len(Walked.route) :
       j <= N_WAYPTS - 1 /\ Node(Walked.route, j) = last /\ Seen(Walked.route, j) \subseteq S
  /\ Walked.route[1] \in Roads
  /\ \/ Walked.route[1][1] = last
     \/ Walked.route[1][2] = last /\ last \in Range(Checkpoints)

\* The loop of current_event finds the vehicle, and has passed only what it saw.
LEMMA WalkedIs ==
  ASSUME NEW Roads, Roads \subseteq Nodes \X Nodes, RouteInv(Roads), route # <<>>,
         NEW k \in 0..Len(route), k <= N_WAYPTS - 1, Node(route, k) = last
  PROVE  WalkedTo(Roads, Seen(route, k))
<1> DEFINE n == Len(route)
           first == Min({2, n})
           ahead == {i \in first..n : route[i][1] = last}
           at == IF ahead = {} THEN n ELSE Min(ahead)
           end == IF ahead = {} THEN {route[at][2]} ELSE {}
           tail == SubSeq(route, at, n)
           way == IF ahead = {} THEN route[at][2] ELSE last
           passed == {route[i][1] : i \in first..at} \cup end
<1>0. /\ Leads(Roads, route) /\ (n >= 2 => current_way = route[1][1])
  BY DEF RouteInv
<1>1. /\ n \in Nat /\ n >= 1
      /\ \A i \in 1..n : /\ route[i] \in Roads
                         /\ route[i] = <<Node(route, i - 1), Node(route, i)>>
  BY <1>0, RouteNodes
<1>2. Walked = IF last = current_way
               THEN [route |-> route, way |-> current_way, passed |-> {}]
               ELSE [route |-> tail, way |-> way, passed |-> passed]
  BY DEF Walked
<1>3. route[n][2] \in Range(Checkpoints)
  BY <1>0 DEF Leads
<1>4. \A i \in 1..n : route[i][1] = Node(route, i - 1) /\ route[i][2] = Node(route, i)
  BY <1>1
<1>5. CASE last = current_way
  <2>1. Walked.route = route /\ Walked.way = last /\ Walked.passed = {}
    BY <1>2, <1>5
  <2>2. \/ route[1][1] = last
        \/ route[1][2] = last /\ last \in Range(Checkpoints)
    <3>1. CASE n >= 2
      BY <1>0, <1>5, <3>1
    <3>2. CASE n = 1
      <4>1. k = 0 \/ k = 1
        BY <3>2
      <4>2. CASE k = 0
        BY <4>2 DEF Node
      <4>3. CASE k = 1
        <5>1. route[1][2] = last
          BY <4>3 DEF Node
        <5>2. route[n][2] = route[1][2]
          BY <3>2
        <5> QED BY <1>3, <5>1, <5>2
      <4> QED BY <4>1, <4>2, <4>3
    <3>3. n >= 2 \/ n = 1
      <4> HIDE DEF n
      <4> QED BY <1>1
    <3> QED BY <3>1, <3>2, <3>3
  <2>3. 1 \in 1..n
    BY <1>1
  <2> QED BY <1>0, <1>1, <1>5, <2>1, <2>2, <2>3 DEF WalkedTo
<1>6. CASE last # current_way
  <2>1. Walked.route = tail /\ Walked.way = way /\ Walked.passed = passed
    <3> HIDE DEF tail, way, passed
    <3> QED BY <1>2, <1>6
  <2>2. first = (IF n = 1 THEN 1 ELSE 2) /\ first \in 1..n
    <3> HIDE DEF n
    <3>1. first = IF 2 <= n THEN 2 ELSE n
      BY <1>1, MinTwo
    <3> QED BY <1>1, <3>1
  <2> HIDE DEF first, n
  <2>3. ahead # {} => /\ Min(ahead) \in ahead
                      /\ \A i \in ahead : Min(ahead) <= i
    <3>1. ahead \subseteq Nat
      BY <1>1, <2>2
    <3> HIDE DEF ahead
    <3> QED BY <3>1, MinIs
  <2>4. at \in first..n /\ at \in 1..n
    BY <1>1, <2>2, <2>3
  <2>5. k \in 0..n
    BY DEF n
  \* Way-point k, if it is not the last, is found.
  <2>6. k < n /\ k + 1 >= first => k + 1 \in ahead
    <3> HAVE k < n /\ k + 1 >= first
    <3>1. k + 1 \in first..n /\ k + 1 \in 1..n /\ (k + 1) - 1 = k
      BY <1>1, <2>2, <2>5
    <3>2. route[k + 1][1] = Node(route, (k + 1) - 1)
      BY <1>4, <3>1
    <3> QED BY <3>1, <3>2
  <2>7. k = 0 => n = 1
    <3> SUFFICES ASSUME k = 0, n # 1 PROVE FALSE
      OBVIOUS
    <3>1. n >= 2 /\ 1 \in 1..n
      BY <1>1
    <3>2. route[1][1] = last
      BY <3>1 DEF Node
    <3> QED BY <1>0, <1>6, <3>1, <3>2
  <2>8. at <= k + 1 /\ (ahead = {} => k = n)
    <3>1. CASE k < n
      <4>1. k + 1 >= first
        BY <2>2, <2>5, <2>7
      <4>2. k + 1 \in ahead
        BY <2>6, <3>1, <4>1
      <4> QED BY <2>3, <4>2
    <3>2. CASE k = n
      BY <1>1, <2>4, <3>2
    <3> QED BY <1>1, <2>5, <3>1, <3>2
  <2>9. /\ Leads(Roads, tail) /\ tail # <<>> /\ Len(tail) = n - at + 1
        /\ \A i \in 1..Len(tail) : tail[i] = route[at + i - 1]
    <3> HIDE DEF at
    <3> QED BY <1>0, <2>4, TailLeads DEF n
  <2>10. Len(tail) \in Nat /\ Len(tail) >= 1 /\ tail[1] = route[at]
    <3> HIDE DEF at, tail
    <3>1. Len(tail) \in Nat /\ Len(tail) >= 1 /\ at + 1 - 1 = at
      BY <1>1, <2>4, <2>9
    <3> QED BY <2>9, <3>1
  \* What the walk passes has been seen.
  <2>11. \A i \in first..at : i - 1 \in 0..k /\ (n # 1 => i - 1 >= 1) => route[i][1] \in Seen(route, k)
    <3> SUFFICES ASSUME NEW i \in first..at, i - 1 \in 0..k, n # 1 => i - 1 >= 1
                 PROVE  route[i][1] \in Seen(route, k)
      OBVIOUS
    <3>1. i \in 1..n
      BY <1>1, <2>2, <2>4
    <3>2. route[i][1] = Node(route, i - 1)
      BY <1>4, <3>1
    <3> QED BY <3>2 DEF Seen, n
  <2>12. \A i \in first..at : route[i][1] \in Seen(route, k)
    <3>1. \A i \in first..at : i - 1 \in 0..k /\ (n # 1 => i - 1 >= 1)
      <4> HIDE DEF at
      <4> QED BY <1>1, <2>2, <2>4, <2>5, <2>8
    <3> HIDE DEF at
    <3> QED BY <2>11, <3>1
  <2>13. last \in Seen(route, k)
    BY <1>1, SeenHere DEF n
  <2>14. ahead = {} => route[at][2] = last
    BY <1>1, <1>4, <2>8
  <2>15. passed \subseteq Seen(route, k)
    <3> HIDE DEF at
    <3> QED BY <2>12, <2>13, <2>14
  <2>16. way = last
    BY <2>14
  <2>17. CASE ahead # {}
    <3>1. route[at][1] = last
      BY <2>3, <2>17
    <3> HIDE DEF at, tail, way, passed
    <3>2. Node(tail, 0) = last /\ Seen(tail, 0) = {last}
      <4>1. Node(tail, 0) = last
        BY <2>10, <3>1 DEF Node
      <4> QED BY <2>10, <4>1, SeenHere
    <3>3. /\ 0 \in 0..Len(tail) /\ 0 <= N_WAYPTS - 1 /\ Node(tail, 0) = last
          /\ Seen(tail, 0) \subseteq Seen(route, k)
      BY <2>10, <2>13, <3>2, Window3
    <3>4. tail[1] \in Roads
      BY <1>1, <2>4, <2>10
    <3> QED BY <2>1, <2>9, <2>10, <2>15, <2>16, <3>1, <3>3, <3>4 DEF WalkedTo
  <2>18. CASE ahead = {}
    <3>1. at = n /\ route[n][2] = last /\ k = n
      BY <2>8, <2>14, <2>18
    <3>2. last \in Range(Checkpoints)
      BY <1>3, <3>1 DEF n
    <3> HIDE DEF at, tail, way, passed
    <3>3. Len(tail) = 1 /\ tail[1] = route[n]
      BY <1>1, <2>9, <2>10, <3>1
    <3>4. /\ 1 \in 0..Len(tail) /\ 1 <= N_WAYPTS - 1 /\ Node(tail, 1) = last
      BY <3>1, <3>3, Window3 DEF Node
    <3>5. Seen(tail, 1) \subseteq Seen(route, k)
      <4>1. Node(tail, 0) = route[n][1] /\ Node(tail, 1) = last
        BY <3>3, <3>4 DEF Node
      <4>2. Seen(tail, 1) \subseteq {route[n][1], last}
        BY <3>3, <4>1 DEF Seen
      <4>3. n \in first..at
        BY <1>1, <2>2, <3>1
      <4>4. route[n][1] \in Seen(route, k)
        BY <2>12, <4>3
      <4> QED BY <2>13, <4>2, <4>4
    <3>6. tail[1] \in Roads /\ tail[1][2] = last
      BY <1>1, <3>1, <3>3
    <3>7. \E j \in 0..Len(tail) :
            /\ j <= N_WAYPTS - 1 /\ Node(tail, j) = last
            /\ Seen(tail, j) \subseteq Seen(route, k)
      BY <3>4, <3>5
    <3>8. ~(Len(tail) >= 2)
      BY <3>3
    <3> QED BY <2>1, <2>9, <2>15, <2>16, <3>2, <3>6, <3>7, <3>8 DEF WalkedTo
  <2> QED BY <2>17, <2>18
<1> QED
  BY <1>5, <1>6

\* Only check-points that the walk has passed are ticked off.
LEMMA RemainingIs ==
  ASSUME Rest(mission), mission # <<>>
  PROVE  /\ \E n \in 0..Len(mission) : /\ Remaining = Ticked(mission, n)
                                       /\ \A i \in 1..n : mission[i] \in Walked.passed
         /\ ~Finished => Remaining # <<>>
<1> DEFINE m == mission
           P == Walked.passed
<1>1. /\ Len(m) \in Nat /\ Len(m) >= 1 /\ m \in Seq(Nodes)
      /\ Goal2(m) = IF Len(m) = 1 THEN m[1] ELSE m[2]
  BY GoalsAre DEF Rest
<1>2. NewGoal1 <=> m[1] \in P
  BY DEF NewGoal1, Goal
<1>3. NewGoal2 <=> m[1] \in P /\ Goal2(m) \in P
  BY <1>2 DEF NewGoal2
<1>4. Remaining = Ticked(m, IF NewGoal2 THEN 2 ELSE IF NewGoal1 THEN 1 ELSE 0)
  BY DEF Remaining
<1> HIDE DEF P
<1>5. CASE ~NewGoal1
  <2>1. Remaining = Ticked(m, 0) /\ 0 \in 0..Len(m) /\ 1..0 = {}
    BY <1>1, <1>2, <1>3, <1>4, <1>5
  <2>2. Len(Ticked(m, 0)) # 0
    <3>1. Len(Ticked(m, 0)) = Len(m) - 0
      BY <1>1, <2>1, TickedIs
    <3> QED BY <1>1, <3>1
  <2>3. Remaining # <<>>
    BY <2>1, <2>2
  <2> QED BY <2>1, <2>3
<1>6. CASE NewGoal1
  <2>0. ~Finished => Remaining # <<>>
    BY <1>6 DEF Finished
  <2>1. CASE ~NewGoal2
    <3>1. Remaining = Ticked(m, 1) /\ 1 \in 0..Len(m) /\ 1..1 = {1}
      BY <1>1, <1>4, <1>6, <2>1
    <3> QED BY <1>2, <1>6, <2>0, <3>1 DEF P
  <2>2. CASE NewGoal2 /\ Len(m) = 1
    <3>1. Ticked(m, 2) = <<>> /\ Ticked(m, 1) = <<>>
      BY <1>1, <2>2 DEF Ticked
    <3>2. Remaining = Ticked(m, 1) /\ 1 \in 0..Len(m) /\ 1..1 = {1}
      BY <1>4, <2>2, <3>1
    <3> QED BY <1>2, <1>6, <2>0, <3>2 DEF P
  <2>3. CASE NewGoal2 /\ Len(m) # 1
    <3>1. Remaining = Ticked(m, 2) /\ 2 \in 0..Len(m) /\ 1..2 = {1, 2}
      <4> DEFINE n == Len(m)
      <4>1. n \in Nat /\ n >= 1 /\ n # 1
        BY <1>1, <2>3
      <4> HIDE DEF n
      <4>2. 2 \in 0..n
        BY <4>1
      <4> QED BY <1>4, <2>3, <4>2 DEF n
    <3>2. m[1] \in P /\ m[2] \in P
      BY <1>1, <1>3, <2>3
    <3> QED BY <2>0, <3>1, <3>2 DEF P
  <2> QED BY <2>1, <2>2, <2>3
<1> QED
  BY <1>5, <1>6

\* After the walk the mission is the rest of the check-points again, and counted.
LEMMA CycleMission ==
  ASSUME NEW Roads, Rest(mission), mission # <<>>, hits \in Nat,
         Ticks(mission) <= hits, NEW S, Counted(mission, hits, S),
         WalkedTo(Roads, S), NEW S2, S2 \subseteq S
  PROVE  /\ Rest(Remaining) /\ Ticks(Remaining) <= hits
         /\ Counted(Remaining, hits, S2)
<1>1. PICK n \in 0..Len(mission) :
        Remaining = Ticked(mission, n) /\ \A i \in 1..n : mission[i] \in Walked.passed
  BY RemainingIs
<1>2. \A i \in 1..n : mission[i] \in S
  BY <1>1 DEF WalkedTo
<1> QED
  BY <1>1, <1>2, CountTicked

\* A vehicle at the start of a route, with an order for it on its way.
LEMMA ProgressFromStart ==
  ASSUME NEW Roads, Roads \subseteq Nodes \X Nodes, NEW r, Leads(Roads, r), r # <<>>,
         NEW w, r[1][1] = w
  PROVE  /\ 0 \in 0..Len(r) /\ 0 <= N_WAYPTS - 1
         /\ Node(r, 0) = w /\ Seen(r, 0) = {w}
<1>1. Len(r) \in Nat /\ Len(r) >= 1
  BY RouteNodes
<1>2. Node(r, 0) = w
  BY DEF Node
<1> QED
  BY <1>1, <1>2, SeenHere, Window3

----------------------------------------------------------------------------
(* Part 6.  Every step keeps the invariant.                                *)

\* A cycle of the commander in the Road state, whatever route it goes on with.
LEMMA CycleStep ==
  ASSUME NEW Roads, Drivable(Roads), Spaced(Roads), CommanderInv(Roads),
         CmdrCycle, ~Finished, state' = state, replan_num' \in Nat,
         GraphInv(Roads)', cmd' = prepare_order(route', replan_num'),
         \/ route' = Walked.route
         \/ Leads(Roads, route') /\ route' # <<>> /\ route'[1][1] = last
  PROVE  CommanderInv(Roads)'
<1>1. /\ Roads \subseteq Nodes \X Nodes
      /\ MissionInv /\ OrdersInv(Roads) /\ BlockInv(Roads) /\ RouteInv(Roads)
      /\ ProgressInv
  BY DEF Drivable, CommanderInv
<1>2. /\ state = "Road" /\ route # <<>> /\ current_way' = Walked.way
      /\ mission' = Remaining /\ last' = last /\ held' = held /\ hits' = hits
      /\ obstacle' = obstacle /\ road_blocked' = road_blocked
      /\ replan_waypt' = replan_waypt
  BY DEF CmdrCycle, Ready, blockVars
<1>3. /\ Rest(mission) /\ hits \in Nat /\ Ticks(mission) <= hits /\ mission # <<>>
  BY <1>1, <1>2 DEF MissionInv, ProgressInv
<1>4. PICK k \in 0..Len(route) :
        /\ k <= N_WAYPTS - 1 /\ Node(route, k) = last
        /\ Counted(mission, hits, Seen(route, k))
  BY <1>1, <1>2 DEF ProgressInv, At
<1> DEFINE S == Seen(route, k)
<1>5. WalkedTo(Roads, S)
  BY <1>1, <1>2, <1>4, WalkedIs
<1>6. last \in S
  <2>1. Len(route) \in Nat
    BY <1>1, <1>2, RouteNodes DEF RouteInv
  <2> QED BY <1>4, <2>1, SeenHere
<1> HIDE DEF S
<1>7. /\ Rest(Remaining) /\ Ticks(Remaining) <= hits /\ Remaining # <<>>
      /\ \A S2 : S2 \subseteq S => Counted(Remaining, hits, S2)
  BY <1>3, <1>4, <1>5, CycleMission, RemainingIs DEF S
<1>8. /\ Leads(Roads, route') /\ route' # <<>>
      /\ Len(route') >= 2 => route'[1][1] = last
      /\ \E j \in 0..Len(route') : /\ j <= N_WAYPTS - 1 /\ Node(route', j) = last
                                   /\ Seen(route', j) \subseteq S
  <2>1. CASE route' = Walked.route
    BY <1>5, <2>1 DEF WalkedTo
  <2>2. CASE Leads(Roads, route') /\ route' # <<>> /\ route'[1][1] = last
    <3>1. /\ 0 \in 0..Len(route') /\ 0 <= N_WAYPTS - 1
          /\ Node(route', 0) = last /\ Seen(route', 0) = {last}
      BY <1>1, <2>2, ProgressFromStart
    <3> QED BY <1>6, <2>2, <3>1
  <2> QED BY <2>1, <2>2
<1>9. /\ cmd' \in Orders(Roads) /\ cmd'.behavior = "Go"
      /\ cmd'.waypt = Window(route', 0) /\ cmd' # NoOrder
  <2>1. cmd' = Go(route', replan_num')
    BY <1>8 DEF prepare_order
  <2>2. /\ Go(route', replan_num') \in Orders(Roads)
        /\ Go(route', replan_num').behavior = "Go"
        /\ Go(route', replan_num').waypt = Window(route', 0)
    BY <1>1, <1>8, GoWindow
  <2> QED BY <2>1, <2>2 DEF NoOrder, NoWindow
<1>10. MissionInv'
  <2>1. Counted(Remaining, hits, {last})
    BY <1>6, <1>7
  <2> QED BY <1>2, <1>3, <1>7, <2>1 DEF MissionInv
<1>11. OrdersInv(Roads)'
  BY <1>1, <1>2, <1>9 DEF OrdersInv, Driving
<1>12. BlockInv(Roads)'
  BY <1>1, <1>2 DEF BlockInv
<1>13. RouteInv(Roads)'
  BY <1>2, <1>5, <1>8 DEF RouteInv, WalkedTo
<1>14. ProgressInv'
  <2>1. PICK j \in 0..Len(route') : /\ j <= N_WAYPTS - 1 /\ Node(route', j) = last
                                    /\ Seen(route', j) \subseteq S
    BY <1>8
  <2>2. Counted(Remaining, hits, Seen(route', j))
    BY <1>7, <2>1
  <2>3. At(j)'
    BY <1>2, <1>9, <2>1, <2>2 DEF At
  <2> QED BY <1>2, <1>7, <1>9, <2>1, <2>3 DEF ProgressInv
<1> QED
  BY <1>10, <1>11, <1>12, <1>13, <1>14 DEF CommanderInv

\* Every cycle in the Road state ticks off only what has been visited.
LEMMA CycleWalk ==
  ASSUME NEW Roads, Drivable(Roads), CommanderInv(Roads), state = "Road", route # <<>>
  PROVE  /\ Rest(Remaining) /\ Ticks(Remaining) <= hits
         /\ Counted(Remaining, hits, {last})
         /\ \E S : WalkedTo(Roads, S)
<1>1. /\ Roads \subseteq Nodes \X Nodes
      /\ MissionInv /\ RouteInv(Roads) /\ ProgressInv
  BY DEF Drivable, CommanderInv
<1>2. /\ Rest(mission) /\ hits \in Nat /\ Ticks(mission) <= hits /\ mission # <<>>
  BY <1>1 DEF MissionInv, ProgressInv
<1>3. PICK k \in 0..Len(route) :
        /\ k <= N_WAYPTS - 1 /\ Node(route, k) = last
        /\ Counted(mission, hits, Seen(route, k))
  BY <1>1 DEF ProgressInv, At
<1>4. WalkedTo(Roads, Seen(route, k))
  BY <1>1, <1>3, WalkedIs
<1>5. {last} \subseteq Seen(route, k)
  <2>1. Len(route) \in Nat
    BY <1>1, RouteNodes DEF RouteInv
  <2> QED BY <1>3, <2>1, SeenHere
<1> QED
  BY <1>2, <1>3, <1>4, <1>5, CycleMission

\* ActionInRoad goes on along the route.
LEMMA ContinueStep ==
  ASSUME NEW Roads, Drivable(Roads), Spaced(Roads), CommanderInv(Roads), CmdrContinue
  PROVE  CommanderInv(Roads)'
<1>1. /\ CmdrCycle /\ ~Finished /\ route' = Walked.route
      /\ cmd' = prepare_order(Walked.route, replan_num)
      /\ state' = state /\ replan_num' = replan_num /\ edges' = edges /\ blocks' = blocks
  BY DEF CmdrContinue
<1>2. GraphInv(Roads)' /\ replan_num' \in Nat
  BY <1>1 DEF CommanderInv, GraphInv, OrdersInv
<1> QED
  BY <1>1, <1>2, CycleStep

\* At a goal: a new route from here, or the old one.
LEMMA GoalStep ==
  ASSUME NEW Roads, Drivable(Roads), Spaced(Roads), CommanderInv(Roads), CmdrGoal
  PROVE  CommanderInv(Roads)'
<1> DEFINE p == replan_route(edges, blocks, Walked.route, Remaining, last)
<1>1. /\ CmdrCycle /\ ~Finished /\ Replanned(p)
      /\ cmd' = prepare_order(p.route, replan_num') /\ state' = state
  BY DEF CmdrGoal
<1>2. state = "Road" /\ route # <<>>
  BY <1>1 DEF CmdrCycle, Ready
<1>3. Rest(Remaining)
  BY <1>2, CycleWalk
<1>4. edges \in Seq(GraphEdges(Roads)) /\ blocks \in Seq(Blockage) /\ replan_num \in Nat
  BY DEF CommanderInv, GraphInv, OrdersInv
<1>5. /\ p.edges \in Seq(GraphEdges(Roads)) /\ p.blocks \in Seq(Blockage)
      /\ \/ p.route = Walked.route
         \/ Leads(Roads, p.route) /\ p.route # <<>> /\ p.route[1][1] = last
  BY <1>3, <1>4, ReplanLeads
<1> HIDE DEF p
<1>6. /\ replan_num' = replan_num + 1 /\ route' = p.route
      /\ edges' = p.edges /\ blocks' = p.blocks
  BY <1>1 DEF Replanned
<1>7. GraphInv(Roads)' /\ replan_num' \in Nat
  BY <1>4, <1>5, <1>6 DEF GraphInv
<1> QED
  BY <1>1, <1>5, <1>6, <1>7, CycleStep

\* A road block: U-turns join the graph, and a new route or the old one.
LEMMA BlockedStep ==
  ASSUME NEW Roads, Drivable(Roads), Spaced(Roads), CommanderInv(Roads), CmdrBlocked
  PROVE  CommanderInv(Roads)'
<1> DEFINE e1 == Walked.route[1]
           w == replan_waypt
           b == add_block(edges, blocks, w, e1)
           p == replan_route(b.edges, b.blocks, Walked.route, Remaining, last)
<1>1. /\ CmdrCycle /\ ~Finished /\ w # NoWaypt /\ Replanned(p)
      /\ cmd' = prepare_order(p.route, replan_num') /\ state' = state
  BY DEF CmdrBlocked
<1>2. state = "Road" /\ route # <<>>
  BY <1>1 DEF CmdrCycle, Ready
<1>3. Rest(Remaining) /\ \E S : WalkedTo(Roads, S)
  BY <1>2, CycleWalk
<1>4. edges \in Seq(GraphEdges(Roads)) /\ blocks \in Seq(Blockage) /\ replan_num \in Nat
  BY DEF CommanderInv, GraphInv, OrdersInv
<1>5. /\ e1 \in Roads
      /\ e1[1] = last \/ (e1[2] = last /\ last \in Range(Checkpoints))
  BY <1>3 DEF WalkedTo
<1>6. PICK f \in Roads : /\ f[1] = last /\ PieceOf(f) \in Obstructible
                         /\ w = Opposite[PieceOf(f)]
  BY <1>1 DEF CommanderInv, BlockInv
<1> HIDE DEF e1
<1>7. /\ Roads \subseteq Nodes \X Nodes /\ <<e1[1], w>> \in Roads
      /\ <<Behind[w], w>> \in Roads => <<Behind[w], e1[2]>> \in Roads
  BY <1>1, <1>5, <1>6 DEF Drivable
<1> HIDE DEF w
<1>8. b.edges \in Seq(GraphEdges(Roads)) /\ b.blocks \in Seq(Blockage)
  BY <1>4, <1>5, <1>7, AddBlockIn
<1> HIDE DEF b
<1>9. /\ p.edges \in Seq(GraphEdges(Roads)) /\ p.blocks \in Seq(Blockage)
      /\ \/ p.route = Walked.route
         \/ Leads(Roads, p.route) /\ p.route # <<>> /\ p.route[1][1] = last
  BY <1>3, <1>8, ReplanLeads
<1> HIDE DEF p
<1>10. /\ replan_num' = replan_num + 1 /\ route' = p.route
       /\ edges' = p.edges /\ blocks' = p.blocks
  BY <1>1 DEF Replanned
<1>11. GraphInv(Roads)' /\ replan_num' \in Nat
  BY <1>4, <1>9, <1>10 DEF GraphInv
<1> QED
  BY <1>1, <1>9, <1>10, <1>11, CycleStep

\* The last check-point: the run is over.
LEMMA DoneStep ==
  ASSUME NEW Roads, Drivable(Roads), Spaced(Roads), CommanderInv(Roads), CmdrDone
  PROVE  CommanderInv(Roads)'
<1>1. /\ state = "Road" /\ route # <<>> /\ current_way' = Walked.way
      /\ mission' = Remaining /\ last' = last /\ held' = held /\ hits' = hits
      /\ obstacle' = obstacle /\ road_blocked' = road_blocked
      /\ replan_waypt' = replan_waypt
      /\ state' = "Done" /\ route' = Walked.route /\ cmd' = NoWindow("Quit")
      /\ replan_num' = replan_num /\ edges' = edges /\ blocks' = blocks
  BY DEF CmdrDone, CmdrCycle, Ready, blockVars
<1>2. /\ MissionInv /\ OrdersInv(Roads) /\ BlockInv(Roads) /\ GraphInv(Roads)
  BY DEF CommanderInv
<1>3. /\ Rest(Remaining) /\ Ticks(Remaining) <= hits
      /\ Counted(Remaining, hits, {last}) /\ \E S : WalkedTo(Roads, S)
  BY <1>1, CycleWalk
<1>4. MissionInv'
  BY <1>1, <1>2, <1>3 DEF MissionInv
<1>5. OrdersInv(Roads)'
  BY <1>1, <1>2 DEF OrdersInv, Orders, Driving
<1>6. BlockInv(Roads)' /\ GraphInv(Roads)'
  BY <1>1, <1>2 DEF BlockInv, GraphInv
<1>7. RouteInv(Roads)'
  BY <1>1, <1>3 DEF RouteInv, WalkedTo
<1>8. ProgressInv'
  BY <1>1 DEF ProgressInv
<1> QED
  BY <1>4, <1>5, <1>6, <1>7, <1>8 DEF CommanderInv

\* The first plan: a start at a check-point is ticked off.
LEMMA EnterStep ==
  ASSUME NEW Roads, Drivable(Roads), Spaced(Roads), CommanderInv(Roads), CmdrEnter
  PROVE  CommanderInv(Roads)'
<1> DEFINE p == replan_route(edges, blocks, route, mission', last)
<1>1. /\ state = "Init" /\ cmd = NoOrder
      /\ mission' = (IF last = Goal(mission) THEN Ticked(mission, 1) ELSE mission)
      /\ Replanned(p) /\ cmd' = prepare_order(p.route, replan_num')
      /\ current_way' = last /\ state' = "Road" /\ last' = last /\ held' = held
      /\ obstacle' = obstacle /\ hits' = hits /\ road_blocked' = road_blocked
      /\ replan_waypt' = replan_waypt
  BY DEF CmdrEnter, Ready, InitToRoad, blockVars
<1>2. /\ MissionInv /\ OrdersInv(Roads) /\ BlockInv(Roads)
      /\ edges \in Seq(GraphEdges(Roads)) /\ blocks \in Seq(Blockage)
      /\ Roads \subseteq Nodes \X Nodes
  BY DEF CommanderInv, Drivable, GraphInv
<1>3. /\ Rest(mission) /\ hits \in Nat /\ Ticks(mission) <= hits
      /\ Counted(mission, hits, {last}) /\ mission # <<>> /\ route = <<>>
  BY <1>1, <1>2 DEF MissionInv
<1>4. /\ Rest(mission') /\ Ticks(mission') <= hits
      /\ Counted(mission', hits, {last})
  <2>1. CASE last = Goal(mission)
    <3>1. 1 \in 0..Len(mission) /\ 1..1 = {1} /\ mission[1] \in {last}
      BY <1>3, <2>1, GoalsAre DEF Goal
    <3>2. \A i \in 1..1 : mission[i] \in {last}
      BY <3>1
    <3>3. mission' = Ticked(mission, 1)
      BY <1>1, <2>1
    <3> QED BY <1>3, <3>1, <3>2, <3>3, CountTicked
  <2>2. CASE last # Goal(mission)
    BY <1>1, <1>3, <2>2
  <2> QED BY <2>1, <2>2
<1>5. /\ p.edges \in Seq(GraphEdges(Roads)) /\ p.blocks \in Seq(Blockage)
      /\ \/ p.route = <<>>
         \/ /\ Leads(Roads, p.route) /\ p.route # <<>> /\ p.route[1][1] = last
            /\ mission' # <<>>
  BY <1>2, <1>3, <1>4, ReplanLeads
<1> HIDE DEF p
<1>6. /\ replan_num' = replan_num + 1 /\ route' = p.route
      /\ edges' = p.edges /\ blocks' = p.blocks
  BY <1>1 DEF Replanned
<1>7. MissionInv'
  BY <1>1, <1>3, <1>4 DEF MissionInv
<1>8. replan_num' \in Nat /\ GraphInv(Roads)'
  BY <1>2, <1>5, <1>6 DEF OrdersInv, GraphInv
<1>9. BlockInv(Roads)'
  BY <1>1, <1>2 DEF BlockInv
<1>10. CASE p.route = <<>>
  <2>1. cmd' = NoWindow("Abort")
    BY <1>1, <1>10 DEF prepare_order
  <2>2. OrdersInv(Roads)'
    BY <1>1, <1>2, <1>8, <2>1 DEF OrdersInv, Orders, Driving
  <2>3. RouteInv(Roads)' /\ ProgressInv'
    BY <1>6, <1>10 DEF RouteInv, Leads, ProgressInv
  <2> QED BY <1>7, <1>8, <1>9, <2>2, <2>3 DEF CommanderInv
<1>11. CASE p.route # <<>>
  <2>1. /\ Leads(Roads, route') /\ route' # <<>> /\ route'[1][1] = last
        /\ mission' # <<>> /\ cmd' = Go(route', replan_num')
    BY <1>1, <1>5, <1>6, <1>11 DEF prepare_order
  <2>2. /\ cmd' \in Orders(Roads) /\ cmd'.behavior = "Go"
        /\ cmd'.waypt = Window(route', 0) /\ cmd' # NoOrder
    <3> DEFINE r == route'
               n == replan_num'
    <3>1. Leads(Roads, r) /\ r # <<>> /\ n \in Nat /\ cmd' = Go(r, n)
      BY <1>8, <2>1
    <3> HIDE DEF r, n
    <3>2. /\ Go(r, n) \in Orders(Roads)
          /\ Go(r, n).behavior = "Go" /\ Go(r, n).waypt = Window(r, 0)
      BY <1>2, <3>1, GoWindow
    <3>3. Go(r, n) # NoOrder
      BY <3>2 DEF NoOrder, NoWindow
    <3> QED BY <3>1, <3>2, <3>3 DEF r
  <2>3. OrdersInv(Roads)'
    BY <1>1, <1>2, <1>8, <2>2 DEF OrdersInv, Driving
  <2>4. RouteInv(Roads)'
    BY <1>1, <2>1 DEF RouteInv
  <2>5. ProgressInv'
    <3>1. /\ 0 \in 0..Len(route') /\ 0 <= N_WAYPTS - 1
          /\ Node(route', 0) = last /\ Seen(route', 0) = {last}
      BY <1>2, <2>1, ProgressFromStart
    <3>2. At(0)'
      BY <1>1, <1>4, <2>2, <3>1 DEF At
    <3> QED BY <2>1, <2>2, <3>1, <3>2 DEF ProgressInv
  <2> QED BY <1>7, <1>8, <1>9, <2>3, <2>4, <2>5 DEF CommanderInv
<1> QED
  BY <1>10, <1>11

\* The graph of the RNDF, before any road block.
LEMMA RndfGraphIn ==
  ASSUME NEW Roads, Drivable(Roads)
  PROVE  RndfGraph \in Seq(GraphEdges(Roads))
<1>1. /\ Roads \subseteq Nodes \X Nodes /\ Range(Rndf) \subseteq Roads
      /\ Rndf \in Seq(Nodes \X Nodes)
  BY CommanderAssumption DEF Drivable
<1>2. Len(Rndf) \in Nat /\ DOMAIN Rndf = 1..Len(Rndf)
  BY <1>1
<1>3. ASSUME NEW i \in 1..Len(Rndf) PROVE Edge(Rndf[i], FALSE) \in GraphEdges(Roads)
  <2>1. Rndf[i] \in Roads
    BY <1>1, <1>2 DEF Range
  <2> QED BY <1>1, <2>1, EdgeIn
<1>4. RndfGraph \in [1..Len(Rndf) -> GraphEdges(Roads)]
  BY <1>2, <1>3 DEF RndfGraph
<1> QED
  BY <1>2, <1>4, FunctionSeq

\* The commander is started again: the mission file has what is left.
LEMMA RestartStep ==
  ASSUME NEW Roads, Drivable(Roads), Spaced(Roads), CommanderInv(Roads), CmdrRestart
  PROVE  CommanderInv(Roads)'
<1>1. /\ mission # <<>> /\ state' = "Init" /\ route' = <<>> /\ replan_num' = 0
      /\ edges' = RndfGraph /\ blocks' = <<>> /\ mission' = mission /\ last' = last
      /\ held' = held /\ cmd' = cmd /\ hits' = hits /\ obstacle' = obstacle
      /\ road_blocked' = road_blocked /\ replan_waypt' = replan_waypt
  BY DEF CmdrRestart, blockVars
<1>2. MissionInv /\ OrdersInv(Roads) /\ BlockInv(Roads)
  BY DEF CommanderInv
<1>3. MissionInv'
  BY <1>1, <1>2 DEF MissionInv
<1>4. OrdersInv(Roads)'
  BY <1>1, <1>2 DEF OrdersInv, Driving
<1>5. BlockInv(Roads)'
  BY <1>1, <1>2 DEF BlockInv
<1>6. GraphInv(Roads)'
  BY <1>1, RndfGraphIn DEF GraphInv
<1>7. RouteInv(Roads)' /\ ProgressInv'
  BY <1>1 DEF RouteInv, Leads, ProgressInv
<1> QED
  BY <1>3, <1>4, <1>5, <1>6, <1>7 DEF CommanderInv

\* Steps in which only obstacles and road block reports come and go.
LEMMA QuietStep ==
  ASSUME NEW Roads, CommanderInv(Roads),
         UNCHANGED <<cmdrVars, last, held, cmd, hits>>, BlockInv(Roads)'
  PROVE  CommanderInv(Roads)'
<1>1. /\ state' = state /\ route' = route /\ mission' = mission
      /\ current_way' = current_way /\ replan_num' = replan_num
      /\ edges' = edges /\ blocks' = blocks /\ last' = last /\ held' = held
      /\ cmd' = cmd /\ hits' = hits
  BY DEF cmdrVars
<1>2. MissionInv'
  BY <1>1 DEF CommanderInv, MissionInv
<1>3. OrdersInv(Roads)'
  BY <1>1 DEF CommanderInv, OrdersInv, Driving
<1>4. GraphInv(Roads)' /\ RouteInv(Roads)'
  BY <1>1 DEF CommanderInv, GraphInv, RouteInv
<1>5. ProgressInv'
  BY <1>1 DEF CommanderInv, ProgressInv, At
<1> QED
  BY <1>2, <1>3, <1>4, <1>5 DEF CommanderInv

\* The edge a driving vehicle is on.
LEMMA DrivingOnRoad ==
  ASSUME NEW Roads, OrdersInv(Roads), Driving
  PROVE  /\ held.waypt[1] = last /\ held.waypt[2] \in Nodes
         /\ held.waypt[2] # last /\ <<last, held.waypt[2]>> \in Roads
<1>1. /\ held \in Orders(Roads) /\ held.behavior = "Go"
      /\ held.waypt[1] = last /\ held.waypt[1] # held.waypt[2]
  BY DEF OrdersInv, Driving
<1>2. held.waypt \in Chains(Roads)
  BY <1>1 DEF Orders, NoWindow
<1>3. 1 \in 1..(N_WAYPTS - 1) /\ 2 \in 1..N_WAYPTS /\ 1 + 1 = 2
  BY Window3
<1>4. held.waypt[2] \in Nodes
  BY <1>2, <1>3 DEF Chains
<1>5. held.waypt[1] = held.waypt[1 + 1] \/ <<held.waypt[1], held.waypt[1 + 1]>> \in Roads
  BY <1>2, <1>3 DEF Chains
<1> QED
  BY <1>1, <1>3, <1>4, <1>5

\* The report names the lane beside the edge the vehicle is on.
LEMMA ReportStep ==
  ASSUME NEW Roads, Drivable(Roads), Spaced(Roads), CommanderInv(Roads), Report
  PROVE  CommanderInv(Roads)'
<1> DEFINE f == <<last, held.waypt[2]>>
<1>1. /\ Driving /\ obstacle = PieceOf(f) /\ road_blocked' = TRUE
      /\ replan_waypt' = Opposite[PieceOf(f)] /\ last' = last /\ obstacle' = obstacle
      /\ UNCHANGED <<cmdrVars, last, held, cmd, hits>>
  BY DEF Report, Piece
<1>2. f \in Roads /\ f[1] = last
  BY <1>1, DrivingOnRoad DEF CommanderInv
<1>3. PieceOf(f) # <<>>
  BY DEF PieceOf
<1>4. obstacle \in Obstructible \cup {<<>>}
  BY DEF CommanderInv, BlockInv
<1> HIDE DEF f
<1>5. PieceOf(f) \in Obstructible
  BY <1>1, <1>3, <1>4
<1>6. BlockInv(Roads)'
  BY <1>1, <1>2, <1>4, <1>5 DEF BlockInv
<1> QED
  BY <1>1, <1>6, QuietStep

\* The road block ends, obstacles come and go, or nothing happens.
LEMMA QuietSteps ==
  ASSUME NEW Roads, CommanderInv(Roads),
         Unblock \/ ObstacleArrives \/ ObstacleLeaves \/ UNCHANGED vars
  PROVE  CommanderInv(Roads)'
<1>1. UNCHANGED <<cmdrVars, last, held, cmd, hits>>
  BY DEF Unblock, ObstacleArrives, ObstacleLeaves, vars
<1>2. last' = last
  BY <1>1
<1>3. BlockInv(Roads)
  BY DEF CommanderInv
<1>4. CASE Unblock
  <2>1. replan_waypt' = NoWaypt /\ obstacle' = obstacle
    BY <1>4 DEF Unblock, NotBlocked
  <2>2. BlockInv(Roads)'
    BY <1>3, <2>1 DEF BlockInv
  <2> QED BY <1>1, <2>2, QuietStep
<1>5. CASE ~Unblock
  <2>1. /\ obstacle' \in Obstructible \cup {<<>>}
        /\ road_blocked' = road_blocked /\ replan_waypt' = replan_waypt
    BY <1>3, <1>5 DEF ObstacleArrives, ObstacleLeaves, vars, blockVars, BlockInv
  <2>2. BlockInv(Roads)'
    BY <1>2, <1>3, <2>1 DEF BlockInv
  <2> QED BY <1>1, <2>2, QuietStep
<1> QED
  BY <1>4, <1>5

\* What is not an order to go has no way-points to follow.
LEMMA NoOrderIs ==
  ASSUME NEW Roads
  PROVE  NoOrder \in Orders(Roads) /\ NoOrder.behavior # "Go"
  BY DEF NoOrder, NoWindow, Orders

\* The navigator receives an order.
LEMMA OrderStep ==
  ASSUME NEW Roads, Drivable(Roads), Spaced(Roads), CommanderInv(Roads), NavOrder
  PROVE  CommanderInv(Roads)'
<1>1. /\ held' = (IF cmd.behavior = "Go" THEN Advanced(cmd, last) ELSE cmd)
      /\ cmd' = NoOrder /\ state' = state /\ route' = route /\ mission' = mission
      /\ current_way' = current_way /\ replan_num' = replan_num
      /\ edges' = edges /\ blocks' = blocks /\ last' = last /\ hits' = hits
      /\ obstacle' = obstacle
      /\ \/ replan_waypt' = NoWaypt
         \/ road_blocked' = road_blocked /\ replan_waypt' = replan_waypt
  BY DEF NavOrder, cmdrVars, NotBlocked
<1>2. /\ MissionInv /\ OrdersInv(Roads) /\ BlockInv(Roads) /\ GraphInv(Roads)
      /\ RouteInv(Roads) /\ ProgressInv /\ Roads \subseteq Nodes \X Nodes
  BY DEF CommanderInv, Drivable
<1>3. MissionInv'
  BY <1>1, <1>2 DEF MissionInv
<1>4. BlockInv(Roads)'
  BY <1>1, <1>2 DEF BlockInv
<1>5. GraphInv(Roads)' /\ RouteInv(Roads)'
  BY <1>1, <1>2 DEF GraphInv, RouteInv
<1>6. cmd \in Orders(Roads) /\ last \in Nodes /\ replan_num \in Nat
  BY <1>2 DEF OrdersInv
<1>7. OrdersInv(Roads)'
  <2>1. held' \in Orders(Roads) /\ (Driving' => held'.waypt[1] = last)
    <3>1. CASE cmd.behavior = "Go"
      BY <1>1, <1>6, <3>1, AdvancedOrder DEF Driving
    <3>2. CASE cmd.behavior # "Go"
      BY <1>1, <1>6, <3>2 DEF Driving
    <3> QED BY <3>1, <3>2
  <2> QED BY <1>1, <1>6, <2>1, NoOrderIs DEF OrdersInv
<1>8. ASSUME state = "Road", route # <<>>
      PROVE  mission # <<>> /\ \E j \in 0..Len(route) : At(j)'
  <2>1. /\ mission # <<>> /\ Leads(Roads, route)
        /\ cmd.behavior = "Go" => cmd.waypt = Window(route, 0)
    BY <1>2, <1>8 DEF ProgressInv, RouteInv
  <2>2. PICK k \in 0..Len(route) : At(k)
    BY <1>2, <1>8 DEF ProgressInv
  <2>3. /\ k <= N_WAYPTS - 1 /\ Node(route, k) = last
        /\ Counted(mission, hits, Seen(route, k)) /\ Len(route) \in Nat
    BY <1>2, <1>8, <2>1, <2>2, RouteNodes DEF At
  <2>4. CASE cmd.behavior = "Go"
    <3>1. PICK j \in 0..k : /\ Node(route, j) = Node(route, k)
                            /\ Advanced(cmd, Node(route, k)).waypt = Window(route, j)
      BY <1>2, <1>6, <1>8, <2>1, <2>3, <2>4, AdvancedOnRoute
    <3>2. Counted(mission, hits, Seen(route, j))
      BY <2>3, <3>1, SeenHere, CountedLess
    <3>3. At(j)'
      BY <1>1, <2>3, <2>4, <3>1, <3>2, Window3 DEF At
    <3>4. j \in 0..Len(route)
      BY <2>3
    <3> QED BY <2>1, <3>3, <3>4
  <2>5. CASE cmd.behavior # "Go"
    <3>1. At(k)'
      BY <1>1, <2>3, <2>5 DEF At
    <3> QED BY <2>1, <3>1
  <2> QED BY <2>4, <2>5
<1>9. ProgressInv'
  BY <1>1, <1>8, NoOrderIs DEF ProgressInv
<1> QED
  BY <1>3, <1>4, <1>5, <1>7, <1>9 DEF CommanderInv

\* More visits count no less.
LEMMA CountedMore ==
  ASSUME NEW m, Rest(m), NEW h \in Nat, NEW g \in Nat, h <= g, Ticks(m) <= h,
         NEW S, Counted(m, h, S)
  PROVE  Counted(m, g, S) /\ Ticks(m) <= g
<1>1. Len(m) \in Nat /\ Ticks(m) \in Int
  BY MissionLength DEF Rest, Ticks
<1> QED
  BY <1>1 DEF Counted

\* The vehicle arrives at a way-point, or is found where it was.
LEMMA MissionVisit ==
  ASSUME NEW Roads, Spaced(Roads), MissionInv, state' = state, route' = route,
         mission' = mission, hits' = Visited(last')
  PROVE  MissionInv' /\ hits' = Visit(hits, last') /\ hits' \in Nat /\ hits <= hits'
<1> DEFINE w == last'
<1>1. /\ Rest(mission) /\ hits \in Nat /\ Ticks(mission) <= hits
      /\ state = "Init" => mission # <<>> /\ route = <<>>
  BY DEF MissionInv
<1>2. hits' = Visit(hits, w)
  BY DEF Visited, Visit
<1> HIDE DEF w
<1>3. Visit(hits, w) \in Nat /\ hits <= Visit(hits, w)
  BY <1>1, VisitGrows
<1>4. Counted(mission, Visit(hits, w), {w})
  BY <1>1, CountAlone
<1>5. Len(mission) \in Nat /\ Ticks(mission) \in Int
  BY <1>1, MissionLength DEF Rest, Ticks
<1>6. Ticks(mission) <= Visit(hits, w)
  BY <1>1, <1>3, <1>5
<1>7. MissionInv'
  BY <1>1, <1>2, <1>3, <1>4, <1>6 DEF MissionInv, w
<1> QED
  BY <1>2, <1>3, <1>7 DEF w

\* The operator suspends the run: the orders are gone, the route is not.
LEMMA ResumeStep ==
  ASSUME NEW Roads, Drivable(Roads), Spaced(Roads), ~OffRoute, CommanderInv(Roads),
         Resume
  PROVE  CommanderInv(Roads)'
<1>1. /\ last' = last /\ hits' = Visited(last') /\ held' = NoOrder /\ cmd' = NoOrder
      /\ state' = state /\ route' = route /\ mission' = mission
      /\ current_way' = current_way /\ replan_num' = replan_num
      /\ edges' = edges /\ blocks' = blocks /\ obstacle' = obstacle
      /\ road_blocked' = road_blocked /\ replan_waypt' = replan_waypt
  BY DEF Resume, cmdrVars, blockVars
<1>2. /\ MissionInv /\ OrdersInv(Roads) /\ BlockInv(Roads) /\ GraphInv(Roads)
      /\ RouteInv(Roads) /\ ProgressInv
  BY DEF CommanderInv
<1>3. MissionInv' /\ hits' \in Nat /\ hits <= hits'
  BY <1>1, <1>2, MissionVisit
<1>4. OrdersInv(Roads)'
  BY <1>1, <1>2, NoOrderIs DEF OrdersInv, Driving
<1>5. BlockInv(Roads)'
  BY <1>1, <1>2 DEF BlockInv
<1>6. GraphInv(Roads)' /\ RouteInv(Roads)'
  BY <1>1, <1>2 DEF GraphInv, RouteInv
<1>7. ASSUME state = "Road", route # <<>>
      PROVE  mission # <<>> /\ \E j \in 0..Len(route) : At(j)'
  <2>1. mission # <<>>
    BY <1>2, <1>7 DEF ProgressInv
  <2>2. PICK k \in 0..Len(route) : At(k)
    BY <1>2, <1>7 DEF ProgressInv
  <2>3. /\ k <= N_WAYPTS - 1 /\ Node(route, k) = last
        /\ Counted(mission, hits, Seen(route, k))
    BY <2>2 DEF At
  <2>4. Rest(mission) /\ hits \in Nat /\ Ticks(mission) <= hits
    BY <1>2 DEF MissionInv
  <2>5. Counted(mission, hits', Seen(route, k))
    BY <1>3, <2>3, <2>4, CountedMore
  <2>6. At(k)'
    BY <1>1, <2>3, <2>5, NoOrderIs DEF At
  <2> QED BY <2>1, <2>6
<1>8. ProgressInv'
  BY <1>1, <1>7, NoOrderIs DEF ProgressInv
<1> QED
  BY <1>3, <1>4, <1>5, <1>6, <1>8 DEF CommanderInv

\* The vehicle comes to the next way-point of its route, and of the order that is
\* on its way to it.
LEMMA DriveOnRoute ==
  ASSUME NEW Roads, Drivable(Roads), Spaced(Roads), ~OffRoute, CommanderInv(Roads),
         Drive, state = "Road", route # <<>>
  PROVE  \E j \in 0..Len(route) : At(j)'
<1>1. /\ Driving /\ last' = held.waypt[2] /\ held' = Advanced(held, held.waypt[2])
      /\ hits' = Visited(last') /\ cmd' = cmd /\ route' = route
      /\ mission' = mission /\ state' = state
      /\ \/ cmd = NoOrder
         \/ cmd.behavior = "Go" /\ held.waypt[2] = Advanced(cmd, last).waypt[2]
  BY DEF Drive, cmdrVars
<1>2. /\ MissionInv /\ OrdersInv(Roads) /\ RouteInv(Roads) /\ ProgressInv
      /\ Roads \subseteq Nodes \X Nodes
  BY DEF CommanderInv, Drivable
<1>3. /\ Leads(Roads, route) /\ cmd \in Orders(Roads) /\ held \in Orders(Roads)
      /\ held.behavior = "Go" /\ held.waypt[1] # held.waypt[2]
      /\ cmd.behavior = "Go" => cmd.waypt = Window(route, 0)
  BY <1>1, <1>2 DEF RouteInv, OrdersInv, Driving, ProgressInv
<1>4. PICK k \in 0..Len(route) : At(k)
  BY <1>2 DEF ProgressInv
<1>5. /\ k <= N_WAYPTS - 1 /\ Node(route, k) = last
      /\ Counted(mission, hits, Seen(route, k)) /\ Len(route) \in Nat
      /\ cmd = NoOrder => held.waypt = Window(route, k)
  BY <1>2, <1>3, <1>4, RouteNodes DEF At
<1>6. Rest(mission) /\ hits \in Nat /\ Ticks(mission) <= hits
  BY <1>2 DEF MissionInv
<1>7. hits' = Visit(hits, held.waypt[2])
  BY <1>1, <1>2, MissionVisit
<1>8. ASSUME NEW j \in Nat, j + 1 <= Len(route), j + 1 <= N_WAYPTS - 1,
             held.waypt[2] = Node(route, j + 1),
             Counted(mission, hits, Seen(route, j)),
             cmd = NoOrder => Advanced(held, held.waypt[2]).waypt = Window(route, j + 1)
      PROVE  \E i \in 0..Len(route) : At(i)'
  <2>1. j \in 0..(Len(route) - 1) /\ j + 1 \in 0..Len(route)
    BY <1>5, <1>8
  <2>2. Counted(mission, Visit(hits, Node(route, j + 1)), Seen(route, j + 1))
    BY <1>2, <1>3, <1>6, <1>8, <2>1, CountMove
  <2>3. At(j + 1)'
    BY <1>1, <1>7, <1>8, <2>2 DEF At
  <2> QED BY <2>1, <2>3
<1>9. CASE cmd = NoOrder
  <2>1. /\ k + 1 <= Len(route) /\ k + 1 <= N_WAYPTS - 1
        /\ held.waypt[2] = Node(route, k + 1)
        /\ Advanced(held, held.waypt[2]).waypt = Window(route, k + 1)
    BY <1>2, <1>3, <1>5, <1>9, AdvancedByOne
  <2> QED BY <1>5, <1>8, <2>1
<1>10. CASE cmd # NoOrder
  <2>1. /\ cmd.behavior = "Go" /\ held.waypt[2] = Advanced(cmd, last).waypt[2]
        /\ cmd.waypt = Window(route, 0)
    BY <1>1, <1>3, <1>10
  <2>2. PICK j \in 0..k : /\ Node(route, j) = Node(route, k)
                          /\ Advanced(cmd, Node(route, k)).waypt = Window(route, j)
    BY <1>2, <1>3, <1>5, <2>1, AdvancedOnRoute
  <2>3. held.waypt[2] = Window(route, j)[2] /\ Node(route, j) = last
    BY <1>5, <2>1, <2>2
  <2>4. held.waypt[2] = Node(route, Cap(route, j + 1))
    <3>1. 2 \in 1..N_WAYPTS /\ j + 2 - 1 = j + 1
      BY Window3
    <3>2. Window(route, j)[2] = Node(route, Cap(route, j + 2 - 1))
      BY <3>1 DEF Window
    <3> QED BY <2>3, <3>1, <3>2
  <2>5. j + 1 <= Len(route) /\ j + 1 <= N_WAYPTS - 1
    <3>1. Cap(route, j + 1) # j
      BY <1>1, <1>2, <2>3, <2>4, DrivingOnRoad
    <3>2. j <= Len(route) /\ j <= N_WAYPTS - 1 /\ j \in Nat
      BY <1>5, <2>2, Window3
    <3> QED BY <1>5, <3>1, <3>2, Window3 DEF Cap
  <2>6. Cap(route, j + 1) = j + 1
    BY <2>5 DEF Cap
  <2>7. Counted(mission, hits, Seen(route, j))
    BY <1>5, <2>2, SeenHere, CountedLess
  <2> QED BY <1>8, <1>10, <2>4, <2>5, <2>6, <2>7
<1> QED
  BY <1>9, <1>10

\* The next way-point is reached.
LEMMA DriveStep ==
  ASSUME NEW Roads, Drivable(Roads), Spaced(Roads), ~OffRoute, CommanderInv(Roads),
         Drive
  PROVE  CommanderInv(Roads)'
<1>1. /\ Driving /\ ~road_blocked /\ last' = held.waypt[2]
      /\ held' = Advanced(held, held.waypt[2])
      /\ hits' = Visited(last') /\ cmd' = cmd /\ state' = state /\ route' = route
      /\ mission' = mission /\ current_way' = current_way
      /\ replan_num' = replan_num /\ edges' = edges /\ blocks' = blocks
      /\ obstacle' = obstacle /\ replan_waypt' = replan_waypt
  BY DEF Drive, cmdrVars, blockVars
<1>2. /\ MissionInv /\ OrdersInv(Roads) /\ BlockInv(Roads) /\ GraphInv(Roads)
      /\ RouteInv(Roads) /\ ProgressInv
  BY DEF CommanderInv
<1>3. MissionInv'
  BY <1>1, <1>2, MissionVisit
<1>4. OrdersInv(Roads)'
  <2>1. held.waypt[2] \in Nodes /\ held \in Orders(Roads) /\ held.behavior = "Go"
    BY <1>1, <1>2, DrivingOnRoad DEF OrdersInv, Driving
  <2>2. /\ held' \in Orders(Roads)
        /\ held'.waypt[1] # held'.waypt[2] => held'.waypt[1] = last'
    BY <1>1, <2>1, AdvancedOrder
  <2> QED BY <1>1, <1>2, <2>1, <2>2 DEF OrdersInv, Driving
<1>5. BlockInv(Roads)'
  BY <1>1, <1>2 DEF BlockInv
<1>6. GraphInv(Roads)' /\ RouteInv(Roads)'
  BY <1>1, <1>2 DEF GraphInv, RouteInv
<1>7. ProgressInv'
  BY <1>1, <1>2, DriveOnRoute DEF ProgressInv
<1> QED
  BY <1>3, <1>4, <1>5, <1>6, <1>7 DEF CommanderInv

\* The run starts before the first plan.
LEMMA InitInv ==
  ASSUME NEW Roads, Drivable(Roads), Spaced(Roads), Init
  PROVE  CommanderInv(Roads)
<1>1. /\ state = "Init" /\ route = <<>> /\ mission = Checkpoints /\ replan_num = 0
      /\ edges = RndfGraph /\ blocks = <<>> /\ last = Start
      /\ replan_waypt = NoWaypt /\ held = NoOrder /\ cmd = NoOrder
      /\ obstacle = <<>> /\ hits = (IF Checkpoints[1] = Start THEN 1 ELSE 0)
  BY DEF Init
<1>2. /\ Checkpoints \in Seq(Nodes) /\ Checkpoints # <<>> /\ Start \in Nodes
  BY CommanderAssumption
<1>3. Rest(mission) /\ Ticks(mission) = 0
  BY <1>1, <1>2, MissionLength DEF Rest, Ticks
<1>4. hits = Visit(0, last)
  BY <1>1, MissionLength DEF Visit
<1>5. Counted(mission, Visit(0, last), {last})
  BY <1>3, CountAlone
<1>6. MissionInv
  BY <1>1, <1>2, <1>3, <1>4, <1>5 DEF MissionInv
<1>7. OrdersInv(Roads)
  BY <1>1, <1>2, NoOrderIs DEF OrdersInv, Driving
<1>8. BlockInv(Roads) /\ GraphInv(Roads)
  BY <1>1, RndfGraphIn DEF BlockInv, GraphInv
<1>9. RouteInv(Roads) /\ ProgressInv
  BY <1>1 DEF RouteInv, Leads, ProgressInv
<1> QED
  BY <1>6, <1>7, <1>8, <1>9 DEF CommanderInv

\* The invariant is inductive.
LEMMA NextInv ==
  ASSUME NEW Roads, Drivable(Roads), Spaced(Roads), ~OffRoute, CommanderInv(Roads),
         [Next]_vars
  PROVE  CommanderInv(Roads)'
<1>1. CASE CmdrEnter
  BY <1>1, EnterStep
<1>2. CASE CmdrDone
  BY <1>2, DoneStep
<1>3. CASE CmdrBlocked
  BY <1>3, BlockedStep
<1>4. CASE CmdrGoal
  BY <1>4, GoalStep
<1>5. CASE CmdrContinue
  BY <1>5, ContinueStep
<1>6. CASE CmdrRestart
  BY <1>6, RestartStep
<1>7. CASE NavOrder
  BY <1>7, OrderStep
<1>8. CASE Drive
  BY <1>8, DriveStep
<1>9. CASE Report
  BY <1>9, ReportStep
<1>10. CASE Resume
  BY <1>10, ResumeStep
<1>11. CASE Unblock \/ ObstacleArrives \/ ObstacleLeaves \/ UNCHANGED vars
  BY <1>11, QuietSteps
<1> QED
  BY <1>1, <1>2, <1>3, <1>4, <1>5, <1>6, <1>7, <1>8, <1>9, <1>10, <1>11 DEF Next

----------------------------------------------------------------------------
(* The result.                                                             *)

\* On every road network whose routes keep to Roads and in which no window shows a
\* check-point before its predecessor, next_checkpoint ticks off only what the
\* vehicle has visited, in the order of the mission, however long it drives, plans
\* again, is blocked, suspended or restarted, as long as it is found on its route.
THEOREM CommanderCheckpoints ==
  ASSUME NEW CONSTANT Roads, Drivable(Roads), Spaced(Roads), ~OffRoute
  PROVE  Spec => []CheckpointsReached
<1>1. Init => CommanderInv(Roads)
  BY InitInv
<1>2. CommanderInv(Roads) /\ [Next]_vars => CommanderInv(Roads)'
  BY NextInv
<1>3. CommanderInv(Roads) => CheckpointsReached
  BY DEF CommanderInv, MissionInv, Ticks, CheckpointsReached
<1> QED
  BY <1>1, <1>2, <1>3, PTL DEF Spec

\* There too, the route is connected and ends at a check-point, the vehicle is on
\* it, and the order on its way or being driven is a window of it (prepare_order
\* and begin_run_cycle agree on where the vehicle is).
THEOREM CommanderOnRoute ==
  ASSUME NEW CONSTANT Roads, Drivable(Roads), Spaced(Roads), ~OffRoute
  PROVE  Spec => [](RouteInv(Roads) /\ ProgressInv)
<1>1. Init => CommanderInv(Roads)
  BY InitInv
<1>2. CommanderInv(Roads) /\ [Next]_vars => CommanderInv(Roads)'
  BY NextInv
<1>3. CommanderInv(Roads) => RouteInv(Roads) /\ ProgressInv
  BY DEF CommanderInv
<1> QED
  BY <1>1, <1>2, <1>3, PTL DEF Spec
=============================================================================
