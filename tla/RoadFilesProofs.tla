--------------------------- MODULE RoadFilesProofs ---------------------------
(***************************************************************************)
(* Proofs about the road and mission files, for every pair of well-formed  *)
(* texts and every damage the model gives them.                            *)
(***************************************************************************)
EXTENDS RoadFiles, FiniteSetTheorems, SequenceTheorems, WellFoundedInduction,
        TLAPS

----------------------------------------------------------------------------
(* Part 1.  Induction and recursion along a sequence.  Induction is used   *)
(* in the form of a set of good numbers, recursion in that of a function.  *)

\* A set of naturals that is not empty has a least element.
LEMMA LeastNatural ==
  ASSUME NEW T, T \subseteq Nat, T # {}
  PROVE  \E n \in T : \A m \in T : n <= m
<1> DEFINE R == {ss \in Nat \X Nat : ss[1] < ss[2]}
<1>1. IsWellFoundedOn(R, Nat)
  BY NatLessThanWellFounded, Zenon DEF OpToRel
<1>2. \A x, y \in Nat : y < x => <<y, x>> \in R
  OBVIOUS
<1> HIDE DEF R
<1>3. PICK x \in T : \A y \in T : ~ (<<y, x>> \in R)
  BY <1>1, WFMin, Zenon
<1>4. \A y \in T : ~(y < x)
  BY <1>2, <1>3
<1> QED
  BY <1>4

\* Induction from 0 to n.
LEMMA Induction ==
  ASSUME NEW n \in Nat, NEW G, 0 \in G,
         \A i \in 1..n : i - 1 \in G => i \in G
  PROVE  \A i \in 0..n : i \in G
<1> DEFINE T == (0..n) \ G
<1> SUFFICES ASSUME T # {} PROVE FALSE
  OBVIOUS
<1>1. PICK m \in T : \A k \in T : m <= k
  <2>1. T \subseteq Nat
    OBVIOUS
  <2> HIDE DEF T
  <2> QED BY <2>1, LeastNatural
<1>2. m \in 1..n /\ m - 1 \in 0..n
  OBVIOUS
<1>3. m - 1 \notin T
  BY <1>1, <1>2
<1> QED
  BY <1>2, <1>3

\* f starts at a and goes on by the steps of F.
Iterates(f, n, S, a, F) ==
  /\ f \in [0..n -> S]
  /\ f[0] = a /\ \A i \in 1..n : f[i] = F[i][f[i - 1]]

\* A function defined by recursion on 0..n exists.
LEMMA Recursion ==
  ASSUME NEW n \in Nat, NEW S, NEW a \in S, NEW F \in [1..n -> [S -> S]]
  PROVE  \E f : Iterates(f, n, S, a, F)
<1> DEFINE Upto(f, m) == f[0] = a /\ \A i \in 1..m : f[i] = F[i][f[i - 1]]
           G == {m \in 0..n : \E f \in [0..m -> S] : Upto(f, m)}
<1>1. 0 \in G
  <2> DEFINE f == [i \in 0..0 |-> a]
  <2>1. f \in [0..0 -> S] /\ Upto(f, 0)
    OBVIOUS
  <2> HIDE DEF f
  <2>2. \E h \in [0..0 -> S] : Upto(h, 0)
    BY <2>1
  <2> QED BY <2>2
<1>2. ASSUME NEW m \in 1..n, m - 1 \in G PROVE m \in G
  <2>1. PICK f \in [0..(m - 1) -> S] : Upto(f, m - 1)
    BY <1>2
  <2> DEFINE g == [i \in 0..m |-> IF i < m THEN f[i] ELSE F[m][f[m - 1]]]
  <2>2. f[m - 1] \in S /\ F[m] \in [S -> S]
    OBVIOUS
  <2>3. g \in [0..m -> S]
    BY <2>2
  <2>4. g[0] = a
    BY <2>1
  <2>5. ASSUME NEW i \in 1..m PROVE g[i] = F[i][g[i - 1]]
    <3>1. g[i - 1] = f[i - 1]
      OBVIOUS
    <3>2. CASE i = m
      BY <3>1, <3>2
    <3>3. CASE i < m
      <4>1. g[i] = f[i] /\ i \in 1..(m - 1)
        BY <3>3
      <4> HIDE DEF g
      <4> QED BY <2>1, <3>1, <4>1
    <3> QED BY <3>2, <3>3
  <2> HIDE DEF g
  <2>6. \E h \in [0..m -> S] : Upto(h, m)
    BY <2>3, <2>4, <2>5
  <2>7. m \in 0..n
    OBVIOUS
  <2> HIDE DEF Upto
  <2> QED
    BY <2>6, <2>7, Zenon
<1> HIDE DEF G
<1>3. \A i \in 1..n : i - 1 \in G => i \in G
  BY <1>2
<1>4. \A i \in 0..n : i \in G
  BY <1>1, <1>3, Induction, Zenon
<1>5. n \in G
  BY <1>4
<1> QED
  BY <1>5 DEF G, Iterates

----------------------------------------------------------------------------
(* Part 2.  What the helpers on sequences return.                          *)

\* f[i] is what is kept of the first i elements of s.
Keeps(f, X, s, P) ==
  /\ f \in [0..Len(s) -> Seq(X)]
  /\ f[0] = <<>>
  /\ \A i \in 1..Len(s) :
       f[i] = IF s[i] \in P THEN Append(f[i - 1], s[i]) ELSE f[i - 1]
  /\ Those(s, P) = f[Len(s)]

\* Those is built up along the sequence.
LEMMA ThoseSteps ==
  ASSUME NEW X, NEW s \in Seq(X), NEW P
  PROVE  \E f : Keeps(f, X, s, P)
<1> DEFINE n == Len(s)
           none == <<>>
           Step(u, i) == IF s[i] \in P THEN Append(u, s[i]) ELSE u
           Body(f) == [i \in 0..n |-> IF i = 0 THEN none ELSE Step(f[i - 1], i)]
           F == [i \in 1..n |-> [u \in Seq(X) |-> Step(u, i)]]
           h == CHOOSE g : g = Body(g)
<1>1. Those(s, P) = h[n]
  BY DEF Those
<1>2. n \in Nat /\ none \in Seq(X) /\ \A u \in Seq(X), i \in 1..n : Step(u, i) \in Seq(X)
  OBVIOUS
<1>3. \A u, i : Step(u, i) = IF s[i] \in P THEN Append(u, s[i]) ELSE u
  OBVIOUS
<1> HIDE DEF n, none, Step
<1>4. PICK f : Iterates(f, n, Seq(X), none, F)
  <2>1. F \in [1..n -> [Seq(X) -> Seq(X)]]
    BY <1>2
  <2> HIDE DEF F
  <2> QED BY <1>2, <2>1, Recursion
<1>5. f = Body(f)
  <2>1. \A i \in 1..n, u \in Seq(X) : F[i][u] = Step(u, i)
    OBVIOUS
  <2> HIDE DEF F
  <2>2. f \in [0..n -> Seq(X)] /\ f[0] = none
    BY <1>4 DEF Iterates
  <2>3. \A i \in 1..n : f[i] = F[i][f[i - 1]]
    BY <1>4 DEF Iterates
  <2>4. \A i \in 1..n : f[i - 1] \in Seq(X)
    BY <1>2, <2>2
  <2>5. \A i \in 1..n : f[i] = Step(f[i - 1], i)
    BY <2>1, <2>3, <2>4
  <2>6. \A i \in 0..n : i = 0 \/ i \in 1..n
    BY <1>2
  <2>7. \A i \in 0..n : f[i] = IF i = 0 THEN none ELSE Step(f[i - 1], i)
    BY <2>2, <2>5, <2>6
  <2> QED BY <2>2, <2>7
<1>6. h = Body(h)
  <2> HIDE DEF Body
  <2> QED BY <1>5
<1> HIDE DEF h
<1>7. h[0] = none /\ \A i \in 1..n : h[i] = Step(h[i - 1], i)
  <2>1. \A g : Body(g)[0] = none /\ \A i \in 1..n : Body(g)[i] = Step(g[i - 1], i)
    BY <1>2
  <2> HIDE DEF Body
  <2> QED BY <1>6, <2>1
<1>8. h \in [0..n -> Seq(X)]
  <2> DEFINE G == {i \in 0..n : h[i] \in Seq(X)}
  <2>1. 0 \in G
    BY <1>2, <1>7
  <2>2. \A i \in 1..n : i - 1 \in G => i \in G
    BY <1>2, <1>7
  <2> HIDE DEF G
  <2>3. \A i \in 0..n : i \in G
    BY <1>2, <2>1, <2>2, Induction, Zenon
  <2>4. \A i \in 0..n : h[i] \in Seq(X)
    BY <2>3 DEF G
  <2> QED BY <1>6, <2>4
<1> QED
  BY <1>1, <1>3, <1>7, <1>8 DEF n, none, Keeps

\* Those keeps elements of s that are in P and no others, and loses none only
\* if all are in P.
LEMMA ThoseKeeps ==
  ASSUME NEW X, NEW s \in Seq(X), NEW P
  PROVE  /\ Those(s, P) \in Seq(X)
         /\ ToSet(Those(s, P)) \subseteq ToSet(s) \cap P
         /\ Len(Those(s, P)) = Len(s) => \A j \in 1..Len(s) : s[j] \in P
<1> DEFINE n == Len(s)
<1>0. PICK f : Keeps(f, X, s, P)
  BY ThoseSteps
<1>1. /\ f \in [0..n -> Seq(X)]
      /\ f[0] = <<>>
      /\ \A i \in 1..n :
           f[i] = IF s[i] \in P THEN Append(f[i - 1], s[i]) ELSE f[i - 1]
      /\ Those(s, P) = f[n]
  BY <1>0 DEF Keeps
<1> DEFINE Good(i) ==
             /\ \A j \in 1..Len(f[i]) : f[i][j] \in ToSet(s) \cap P
             /\ Len(f[i]) <= i
             /\ Len(f[i]) = i => \A j \in 1..i : s[j] \in P
           G == {i \in 0..n : Good(i)}
<1>2. n \in Nat /\ \A i \in 1..n : s[i] \in X /\ s[i] \in ToSet(s)
  BY DEF ToSet
<1> HIDE DEF n
<1>3. 0 \in G
  <2>1. Len(f[0]) = 0
    BY <1>1
  <2>2. Good(0)
    BY <2>1
  <2> QED BY <1>2, <2>2
<1>4. ASSUME NEW i \in 1..n, i - 1 \in G PROVE i \in G
  <2>0. i - 1 \in 0..n /\ i \in 0..n /\ Good(i - 1) /\ f[i - 1] \in Seq(X)
    BY <1>1, <1>2, <1>4
  <2>1. CASE s[i] \in P
    <3>1. f[i] = Append(f[i - 1], s[i])
      BY <1>1, <2>1
    <3>2. Good(i)
      BY <1>2, <2>0, <2>1, <3>1
    <3> QED BY <2>0, <3>2
  <2>2. CASE s[i] \notin P
    <3>1. f[i] = f[i - 1]
      BY <1>1, <2>2
    <3>2. Good(i)
      BY <1>2, <2>0, <2>2, <3>1
    <3> QED BY <2>0, <3>2
  <2> QED BY <2>1, <2>2
<1> HIDE DEF G
<1>5. \A i \in 1..n : i - 1 \in G => i \in G
  BY <1>4
<1>6. \A i \in 0..n : i \in G
  BY <1>2, <1>3, <1>5, Induction, Zenon
<1>7. Good(n) /\ f[n] \in Seq(X)
  <2>1. n \in 0..n /\ n \in G
    BY <1>2, <1>6
  <2>2. Good(n)
    BY <2>1 DEF G
  <2>3. f[n] \in Seq(X)
    BY <1>1, <2>1
  <2> QED BY <2>2, <2>3
<1> QED
  BY <1>1, <1>7 DEF n, ToSet

\* The elements of s in P are those after place a, up to place b.
Together(s, P, a, b) ==
  /\ a <= b /\ b <= Len(s)
  /\ \A j \in 1..Len(s) : s[j] \in P <=> (a < j /\ j <= b)

\* When the elements in P stand together, Those is that piece of s.
LEMMA ThosePiece ==
  ASSUME NEW X, NEW s \in Seq(X), NEW P, NEW a \in Nat, NEW b \in Nat,
         Together(s, P, a, b)
  PROVE  /\ Those(s, P) \in Seq(X)
         /\ Len(Those(s, P)) = b - a
         /\ \A j \in 1..(b - a) : Those(s, P)[j] = s[a + j]
<1> DEFINE n == Len(s)
<1>0. PICK f : Keeps(f, X, s, P)
  BY ThoseSteps
<1>1. /\ f \in [0..n -> Seq(X)]
      /\ f[0] = <<>>
      /\ \A i \in 1..n :
           f[i] = IF s[i] \in P THEN Append(f[i - 1], s[i]) ELSE f[i - 1]
      /\ Those(s, P) = f[n]
  BY <1>0 DEF Keeps
<1> DEFINE got(i) == IF i <= a THEN 0 ELSE IF i <= b THEN i - a ELSE b - a
           Good(i) == /\ Len(f[i]) = got(i)
                      /\ \A j \in 1..got(i) : f[i][j] = s[a + j]
           G == {i \in 0..n : Good(i)}
<1>2. n \in Nat /\ a <= b /\ b <= n /\ \A i \in 1..n : s[i] \in X
  BY DEF Together
<1>22. \A j \in 1..n : s[j] \in P <=> (a < j /\ j <= b)
  BY DEF Together
<1> HIDE DEF n
<1>3. 0 \in G
  BY <1>1, <1>2
<1>4. ASSUME NEW i \in 1..n, i - 1 \in G PROVE i \in G
  <2>0. i - 1 \in 0..n /\ i \in 0..n /\ Good(i - 1) /\ f[i - 1] \in Seq(X)
    BY <1>1, <1>2, <1>4
  <2>1. CASE s[i] \in P
    <3>1. f[i] = Append(f[i - 1], s[i]) /\ a < i /\ i <= b
      BY <1>1, <1>22, <2>1
    <3>2. got(i - 1) = i - 1 - a /\ got(i) = i - a
      BY <3>1
    <3>3. Len(f[i - 1]) = i - 1 - a
      BY <2>0, <3>2
    <3>4. Len(f[i]) = i - a /\ f[i][i - a] = s[i]
      BY <1>2, <2>0, <3>1, <3>3
    <3>5. \A j \in 1..(i - 1 - a) : f[i][j] = f[i - 1][j]
      BY <1>2, <2>0, <3>1, <3>3
    <3>6. \A j \in 1..(i - 1 - a) : f[i - 1][j] = s[a + j]
      BY <2>0, <3>2
    <3>7. ASSUME NEW j \in 1..(i - a) PROVE f[i][j] = s[a + j]
      <4>1. CASE j = i - a
        BY <3>4, <4>1
      <4>2. CASE j # i - a
        BY <3>5, <3>6, <4>2
      <4> QED BY <4>1, <4>2
    <3>8. Good(i)
      BY <3>2, <3>4, <3>7
    <3> QED BY <2>0, <3>8
  <2>2. CASE s[i] \notin P
    <3>1. f[i] = f[i - 1] /\ ~(a < i /\ i <= b)
      BY <1>1, <1>22, <2>2
    <3>2. Good(i)
      BY <1>2, <2>0, <2>2, <3>1
    <3> QED BY <2>0, <3>2
  <2> QED BY <2>1, <2>2
<1> HIDE DEF G
<1>5. \A i \in 1..n : i - 1 \in G => i \in G
  BY <1>4
<1>6. \A i \in 0..n : i \in G
  BY <1>2, <1>3, <1>5, Induction, Zenon
<1>7. Good(n) /\ f[n] \in Seq(X)
  <2>1. n \in 0..n /\ n \in G
    BY <1>2, <1>6
  <2>2. Good(n)
    BY <2>1 DEF G
  <2>3. f[n] \in Seq(X)
    BY <1>1, <2>1
  <2> QED BY <2>2, <2>3
<1> QED
  BY <1>1, <1>2, <1>7 DEF n

\* Those takes all of s when all of it is in P.
LEMMA ThoseAll ==
  ASSUME NEW X, NEW s \in Seq(X), NEW P, \A j \in 1..Len(s) : s[j] \in P
  PROVE  Those(s, P) = s
<1>1. PICK a \in Nat : a = 0
  OBVIOUS
<1>2. PICK b \in Nat : b = Len(s)
  OBVIOUS
<1>3. Together(s, P, a, b)
  BY <1>1, <1>2 DEF Together
<1> DEFINE t == Those(s, P)
<1>4. t \in Seq(X) /\ Len(t) = b - a /\ \A j \in 1..(b - a) : t[j] = s[a + j]
  BY <1>3, ThosePiece
<1> HIDE DEF t
<1>5. Len(t) = Len(s) /\ \A j \in 1..Len(t) : t[j] = s[j]
  BY <1>1, <1>2, <1>4
<1>6. t = s
  BY <1>4, <1>5, SeqEqual
<1> QED
  BY <1>6 DEF t

\* f[i] is the first i sequences of ss joined.
Joined(f, X, ss) ==
  /\ f \in [1..Len(ss) -> Seq(X)]
  /\ f[1] = ss[1]
  /\ \A i \in 2..Len(ss) : f[i] = f[i - 1] \o ss[i]
  /\ FlattenSeq(ss) = f[Len(ss)]

\* FlattenSeq is built up along the sequence.
LEMMA FlattenSteps ==
  ASSUME NEW X, NEW ss \in Seq(Seq(X)), Len(ss) # 0
  PROVE  \E f : Joined(f, X, ss)
<1> DEFINE n == Len(ss)
           none == <<>>
           Step(u, i) == u \o ss[i]
           Body(f) == [i \in 1..n |-> IF i = 1 THEN ss[i] ELSE Step(f[i - 1], i)]
           F == [i \in 1..n |-> [u \in Seq(X) |-> IF i = 1 THEN ss[i] ELSE Step(u, i)]]
           h == CHOOSE g : g = Body(g)
<1>1. FlattenSeq(ss) = h[n]
  BY DEF FlattenSeq
<1>2. /\ n \in Nat /\ n > 0 /\ none \in Seq(X)
      /\ \A u \in Seq(X), i \in 1..n : Step(u, i) \in Seq(X)
      /\ \A i \in 1..n : ss[i] \in Seq(X)
  OBVIOUS
<1>3. \A u, i : Step(u, i) = u \o ss[i]
  OBVIOUS
<1> HIDE DEF n, none, Step
<1>4. PICK f : Iterates(f, n, Seq(X), none, F)
  <2>1. F \in [1..n -> [Seq(X) -> Seq(X)]]
    BY <1>2
  <2> HIDE DEF F
  <2> QED BY <1>2, <2>1, Recursion
<1> DEFINE k == [i \in 1..n |-> f[i]]
<1>5. k = Body(k)
  <2>1. \A i \in 1..n, u \in Seq(X) : F[i][u] = IF i = 1 THEN ss[i] ELSE Step(u, i)
    OBVIOUS
  <2> HIDE DEF F
  <2>2. f \in [0..n -> Seq(X)] /\ \A i \in 1..n : f[i] = F[i][f[i - 1]]
    BY <1>4 DEF Iterates
  <2>3. \A i \in 1..n : f[i - 1] \in Seq(X)
    BY <1>2, <2>2
  <2>4. \A i \in 1..n : f[i] = IF i = 1 THEN ss[i] ELSE Step(f[i - 1], i)
    BY <2>1, <2>2, <2>3
  <2>5. \A i \in 1..n : i = 1 \/ i - 1 \in 1..n
    BY <1>2
  <2>6. \A i \in 1..n : k[i] = IF i = 1 THEN ss[i] ELSE Step(k[i - 1], i)
    BY <2>4, <2>5
  <2>7. k = [i \in 1..n |-> k[i]]
    OBVIOUS
  <2> HIDE DEF k
  <2> QED BY <2>6, <2>7
<1>6. h = Body(h)
  <2> HIDE DEF Body, k
  <2> QED BY <1>5
<1> HIDE DEF h
<1>7. h[1] = ss[1] /\ \A i \in 2..n : h[i] = Step(h[i - 1], i)
  <2>0. 1 \in 1..n /\ \A i \in 2..n : i \in 1..n /\ i # 1
    BY <1>2
  <2>1. \A g : Body(g)[1] = ss[1] /\ \A i \in 2..n : Body(g)[i] = Step(g[i - 1], i)
    BY <2>0
  <2> HIDE DEF Body
  <2> QED BY <1>6, <2>1
<1>8. h \in [1..n -> Seq(X)]
  <2> DEFINE G == {0} \cup {i \in 1..n : h[i] \in Seq(X)}
  <2>1. 0 \in G
    OBVIOUS
  <2>2. ASSUME NEW i \in 1..n, i - 1 \in G PROVE i \in G
    <3>1. CASE i = 1
      BY <1>2, <1>7, <3>1
    <3>2. CASE i # 1
      <4>1. i - 1 \in 1..n /\ i \in 2..n /\ i - 1 # 0
        BY <1>2, <3>2
      <4>2. h[i - 1] \in Seq(X) /\ h[i] = Step(h[i - 1], i)
        BY <1>7, <2>2, <4>1
      <4>3. h[i] \in Seq(X)
        BY <1>2, <4>2
      <4> QED BY <4>3
    <3> QED BY <3>1, <3>2
  <2>3. \A i \in 1..n : i - 1 \in G => i \in G
    BY <2>2
  <2> HIDE DEF G
  <2>4. \A i \in 0..n : i \in G
    BY <1>2, <2>1, <2>3, Induction, Zenon
  <2>5. \A i \in 1..n : h[i] \in Seq(X)
    BY <1>2, <2>4 DEF G
  <2> QED BY <1>6, <2>5
<1> QED
  BY <1>1, <1>3, <1>7, <1>8 DEF n, Joined

\* FlattenSeq has the elements of its sequences.
LEMMA FlattenHas ==
  ASSUME NEW X, NEW ss \in Seq(Seq(X))
  PROVE  /\ FlattenSeq(ss) \in Seq(X)
         /\ \A x : x \in ToSet(FlattenSeq(ss)) <=>
                   \E i \in 1..Len(ss) : \E j \in 1..Len(ss[i]) : x = ss[i][j]
<1> DEFINE n == Len(ss)
           In(x, u) == \E j \in 1..Len(u) : x = u[j]
<1>1. CASE n = 0
  BY <1>1 DEF FlattenSeq, ToSet
<1>2. CASE n # 0
  <2>0. PICK f : Joined(f, X, ss)
    BY <1>2, FlattenSteps
  <2>1. /\ f \in [1..n -> Seq(X)]
        /\ f[1] = ss[1]
        /\ \A i \in 2..n : f[i] = f[i - 1] \o ss[i]
        /\ FlattenSeq(ss) = f[n]
    BY <2>0 DEF Joined
  <2>2. n \in Nat /\ n > 0 /\ \A i \in 1..n : ss[i] \in Seq(X)
    BY <1>2
  <2>3. \A u, v \in Seq(X) : \A x : In(x, u \o v) <=> In(x, u) \/ In(x, v)
    <3> SUFFICES ASSUME NEW u \in Seq(X), NEW v \in Seq(X), NEW x
                 PROVE  In(x, u \o v) <=> In(x, u) \/ In(x, v)
      OBVIOUS
    <3>1. ASSUME In(x, u \o v) PROVE In(x, u) \/ In(x, v)
      BY <3>1
    <3>2. ASSUME In(x, u) PROVE In(x, u \o v)
      BY <3>2
    <3>3. ASSUME In(x, v) PROVE In(x, u \o v)
      <4>1. PICK j \in 1..Len(v) : x = v[j]
        BY <3>3
      <4>2. Len(u) + j \in 1..Len(u \o v) /\ (u \o v)[Len(u) + j] = v[j]
        OBVIOUS
      <4> QED BY <4>1, <4>2
    <3> QED BY <3>1, <3>2, <3>3
  <2> HIDE DEF n, In
  <2> DEFINE Good(i) == \A x : In(x, f[i]) <=> \E k \in 1..i : In(x, ss[k])
             G == {0} \cup {i \in 1..n : Good(i)}
  <2>4. ASSUME NEW i \in 1..n, i - 1 \in G PROVE i \in G
    <3>1. CASE i = 1
      <4>1. Good(1)
        BY <2>1
      <4> QED BY <3>1, <4>1
    <3>2. CASE i # 1
      <4>0. i - 1 \in 1..n /\ i \in 2..n /\ i - 1 # 0
        BY <2>2, <3>2
      <4>1. i - 1 \in 1..n /\ Good(i - 1) /\ f[i] = f[i - 1] \o ss[i]
        BY <2>1, <2>4, <4>0
      <4>2. f[i - 1] \in Seq(X) /\ ss[i] \in Seq(X)
        BY <2>1, <2>2, <4>1
      <4>3. \A x : In(x, f[i]) <=> In(x, f[i - 1]) \/ In(x, ss[i])
        BY <2>3, <4>1, <4>2
      <4>4. \A k : k \in 1..i <=> k \in 1..(i - 1) \/ k = i
        BY <4>1
      <4>5. Good(i)
        BY <4>1, <4>3, <4>4
      <4> QED BY <4>5
    <3> QED BY <3>1, <3>2
  <2>5. 0 \in G /\ \A i \in 1..n : i - 1 \in G => i \in G
    BY <2>4
  <2> HIDE DEF G
  <2>6. \A i \in 0..n : i \in G
    BY <2>2, <2>5, Induction, Zenon
  <2>7. n \in 1..n /\ n \in G
    BY <2>2, <2>6
  <2>8. Good(n) /\ f[n] \in Seq(X)
    BY <2>1, <2>2, <2>7 DEF G
  <2>9. \A x : x \in ToSet(f[n]) <=> In(x, f[n])
    BY <2>8 DEF ToSet, In
  <2> QED
    <3>1. \A x : x \in ToSet(FlattenSeq(ss)) <=> \E k \in 1..n : In(x, ss[k])
      BY <2>1, <2>8, <2>9
    <3> QED BY <2>1, <2>8, <3>1 DEF n, In
<1> QED
  BY <1>1, <1>2

----------------------------------------------------------------------------
(* Part 3.  What the parsers build has its type, and is consistent when it *)
(* is called valid.                                                        *)

Id == [1..3 -> Int]
Exit == Id \X Id
LaneType ==
  [id : Int, n : Int, left : Markings, right : Markings, waypoints : Seq(Id),
   checkpoints : Seq(Int \X Int), stops : Seq(Int), exits : Seq(Exit)]
SegmentType == [id : Int, n : Int, lanes : Seq(LaneType)]
PerimeterType == [id : Int, n : Int, points : Seq(Id), exits : Seq(Exit)]
SpotType == [id : Int, waypoints : Seq(Id), checkpoint : Int \X Int]
ZoneType == [id : Int, n : Int, perimeter : PerimeterType, spots : Seq(SpotType)]
TempType == [segment : SegmentType, lane : LaneType, zone : ZoneType,
             perimeter : PerimeterType, spot : SpotType]
RndfType == [segments : Seq(SegmentType), zones : Seq(ZoneType),
             number_of_segments : Int, number_of_zones : Int,
             is_valid : BOOLEAN, ended : BOOLEAN]
MdfType == [checkpoint_ids : Seq(Int), speed_limits : Seq(Id),
            number_of_checkpoints : Int, number_of_speedlimits : Int,
            is_valid : BOOLEAN, ended : BOOLEAN]

RndfStates == {"UNKNOWN", "GENERAL", "SEGMENTS", "LANES", "ZONES", "PERIMETER",
               "PARKING_SPOT", "COMMENT"}
MdfStates == {"UNKNOWN", "MDF_GENERAL", "MDF_CHECKPOINTS", "MDF_SPEEDLIMITS",
              "MDF_COMMENT"}

TextOK ==
  \A f \in {"rndf", "mdf"} :
    text[f] \in Seq(ToSet(text[f])) /\ \A l \in ToSet(text[f]) : WellFormed(l)

BuiltTypes == temp \in TempType /\ rndf \in RndfType /\ mdf \in MdfType

\* Each parser keeps to its own states.
StatesOK ==
  /\ phase = "rndf" => {state, previous_state} \subseteq RndfStates
  /\ phase = "mdf" => {state, previous_state} \subseteq MdfStates

\* A road network that has been read and is valid refers to nothing unknown.
RefsOK ==
  phase # "rndf" /\ rndf.is_valid => RefsKnown(rndf.segments, rndf.zones)

ParseInv == line \in Nat /\ TextOK /\ BuiltTypes /\ StatesOK /\ RefsOK

\* What clear() and the constructors leave has its type.
LEMMA EmptyTypes ==
  /\ NoLane \in LaneType /\ NoSegment \in SegmentType
  /\ NoPerimeter \in PerimeterType /\ NoSpot \in SpotType /\ NoZone \in ZoneType
  /\ NoTemp \in TempType /\ NewRNDF \in RndfType
  /\ \A m, n \in Int : NewMDF(m, n) \in MdfType
<1>1. /\ NoLane \in LaneType /\ NoSegment \in SegmentType
      /\ NoPerimeter \in PerimeterType /\ NoSpot \in SpotType
  BY DEF NoLane, NoSegment, NoPerimeter, NoSpot, LaneType, SegmentType,
         PerimeterType, SpotType, INT_MIN, Markings, Solid
<1>2. NoZone \in ZoneType
  BY <1>1 DEF NoZone, ZoneType, INT_MIN
<1>3. NoTemp \in TempType
  BY <1>1, <1>2 DEF NoTemp, TempType
<1>4. NewRNDF \in RndfType /\ \A m, n \in Int : NewMDF(m, n) \in MdfType
  BY DEF NewRNDF, NewMDF, RndfType, MdfType
<1> QED
  BY <1>1, <1>2, <1>3, <1>4

\* The damages leave lines as they are.
LEMMA DamagedLines ==
  ASSUME NEW s, s \in Seq(ToSet(s)), NEW d \in Damaged(s)
  PROVE  d \in Seq(ToSet(s))
<1> DEFINE X == ToSet(s)
<1>1. s \in Seq(X) /\ \A i \in 1..Len(s) : s[i] \in X
  BY DEF ToSet
<1> HIDE DEF X
<1>2. ASSUME NEW i \in 0..(Len(s) - 1) PROVE SubSeq(s, 1, i) \in Seq(X)
  BY <1>1
<1>3. ASSUME NEW i \in 1..Len(s) PROVE RemoveAt(s, i) \in Seq(X)
  <2>1. SubSeq(s, 1, i - 1) \in Seq(X) /\ SubSeq(s, i + 1, Len(s)) \in Seq(X)
    BY <1>1
  <2> QED BY <2>1 DEF RemoveAt
<1>4. ASSUME NEW i \in 1..Len(s) PROVE InsertAt(s, i, s[i]) \in Seq(X)
  <2>1. /\ SubSeq(s, 1, i - 1) \in Seq(X) /\ SubSeq(s, i, Len(s)) \in Seq(X)
        /\ <<s[i]>> \in Seq(X)
    BY <1>1
  <2> QED BY <2>1 DEF InsertAt
<1> QED
  BY <1>1, <1>2, <1>3, <1>4 DEF Damaged, X

\* The parsers start with empty files and well-formed texts.
LEMMA ParseInit ==
  FilesInit => ParseInv
<1> SUFFICES ASSUME FilesInit PROVE ParseInv
  OBVIOUS
<1>1. TextOK
  <2>1. PICK o \in Texts :
          \/ text \in {[rndf |-> d, mdf |-> o.mdf] : d \in Damaged(o.rndf)}
          \/ text \in {[rndf |-> o.rndf, mdf |-> d] : d \in Damaged(o.mdf)}
    BY DEF FilesInit
  <2> DEFINE OK(s) == s \in Seq(ToSet(s)) /\ \A l \in ToSet(s) : WellFormed(l)
  <2>2. OK(o.rndf) /\ OK(o.mdf)
    BY FilesAssumption
  <2>3. ASSUME NEW s, OK(s), NEW d \in Damaged(s) PROVE OK(d)
    <3>1. d \in Seq(ToSet(s))
      BY <2>3, DamagedLines
    <3>2. \A l \in ToSet(d) : l \in ToSet(s)
      <4> DEFINE X == ToSet(s)
      <4>1. d \in Seq(X)
        BY <3>1
      <4> HIDE DEF X
      <4>2. \A l \in ToSet(d) : l \in X
        BY <4>1 DEF ToSet
      <4> QED BY <4>2 DEF X
    <3>3. d \in Seq(ToSet(d))
      <4> DEFINE X == ToSet(s)
      <4>1. d \in Seq(X)
        BY <3>1
      <4> HIDE DEF X
      <4> QED BY <4>1 DEF ToSet
    <3> QED BY <2>3, <3>2, <3>3
  <2> HIDE DEF OK
  <2>4. OK(text.rndf) /\ OK(text.mdf)
    <3>1. CASE text \in {[rndf |-> d, mdf |-> o.mdf] : d \in Damaged(o.rndf)}
      BY <2>2, <2>3, <3>1
    <3>2. CASE text \in {[rndf |-> o.rndf, mdf |-> d] : d \in Damaged(o.mdf)}
      BY <2>2, <2>3, <3>2
    <3> QED BY <2>1, <3>1, <3>2
  <2> QED
    BY <2>4 DEF OK, TextOK
<1>2. BuiltTypes
  BY EmptyTypes, FilesAssumption DEF FilesInit, BuiltTypes
<1> QED
  BY <1>1, <1>2 DEF FilesInit, ParseInv, StatesOK, RefsOK, RndfStates

\* A line that is read is well formed.
LEMMA NowWellFormed ==
  ASSUME ParseInv, phase \in {"rndf", "mdf"}, More
  PROVE  WellFormed(Now)
<1> DEFINE s == text[phase]
           X == ToSet(s)
<1>1. s \in Seq(X) /\ (\A l \in X : WellFormed(l)) /\ line \in Nat /\ line < Len(s)
  BY DEF ParseInv, TextOK, More, Lines
<1> HIDE DEF X, s
<1>2. s[line + 1] \in X
  BY <1>1
<1> QED
  BY <1>1, <1>2 DEF Now, Lines, s

\* The states the parsers may be in.
LEMMA HereStates ==
  ASSUME ParseInv
  PROVE  /\ phase = "rndf" => Here \in RndfStates /\ Before \in RndfStates
         /\ phase = "mdf" => Here \in MdfStates /\ Before \in MdfStates
<1>1. CASE phase = "rndf"
  BY <1>1 DEF ParseInv, StatesOK, Here, Before, Switches, Keyword, RndfKeyword,
              RndfStates
<1>2. CASE phase = "mdf"
  BY <1>2 DEF ParseInv, StatesOK, Here, Before, Switches, Keyword, MdfKeyword,
              MdfStates
<1> QED
  BY <1>1, <1>2

\* The values that lines give, or refusal.
LEMMA Pieces ==
  /\ \A a \in [1..5 -> Int] : SubSeq(a, 3, 5) \in Id
  /\ \A a \in [1..6 -> Int] : SubSeq(a, 1, 3) \in Id /\ SubSeq(a, 4, 6) \in Id
<1>1. ASSUME NEW n \in Nat, NEW a \in [1..n -> Int], NEW m \in 1..n,
             NEW k \in 1..n, k = m + 2
      PROVE  SubSeq(a, m, k) \in Id
  <2>1. \A i \in m..k : a[i] \in Int
    BY <1>1
  <2>2. SubSeq(a, m, k) \in Seq(Int) /\ Len(SubSeq(a, m, k)) = 3
    BY <1>1, <2>1, SubSeqProperties
  <2> QED BY <2>2, LenProperties DEF Id
<1>2. ASSUME NEW a \in [1..5 -> Int] PROVE SubSeq(a, 3, 5) \in Id
  <2>1. 5 \in Nat /\ 3 \in 1..5 /\ 5 \in 1..5 /\ 5 = 3 + 2
    OBVIOUS
  <2> QED BY <1>1, <2>1
<1>3. ASSUME NEW a \in [1..6 -> Int]
      PROVE  SubSeq(a, 1, 3) \in Id /\ SubSeq(a, 4, 6) \in Id
  <2>1. /\ 6 \in Nat /\ 1 \in 1..6 /\ 3 \in 1..6 /\ 4 \in 1..6 /\ 6 \in 1..6
        /\ 3 = 1 + 2 /\ 6 = 4 + 2
    OBVIOUS
  <2> QED BY <1>1, <2>1
<1> QED
  BY <1>2, <1>3

\* A line of a lane (Lane, RNDF.cc).
LEMMA LaneLineType ==
  ASSUME NEW seg, NEW w \in LaneType, NEW l, WellFormed(l)
  PROVE  LaneLine(seg, w, l) \in LaneType \cup {Bad}
<1> DEFINE v == LaneLine(seg, w, l)
<1>1. CASE l.t = "lane"
  <2>1. v \in {[w EXCEPT !.id = l.a[2]], Bad}
    BY <1>1 DEF LaneLine
  <2>2. l.a[2] \in Int
    BY <1>1 DEF WellFormed
  <2>3. [w EXCEPT !.id = l.a[2]] \in LaneType
    BY <2>2 DEF LaneType
  <2> QED BY <2>1, <2>3
<1>2. CASE l.t = "num_waypoints"
  <2>1. v \in {[w EXCEPT !.n = l.a[1]], Bad}
    BY <1>2 DEF LaneLine
  <2>2. l.a[1] \in Int
    BY <1>2 DEF WellFormed
  <2>3. [w EXCEPT !.n = l.a[1]] \in LaneType
    BY <2>2 DEF LaneType
  <2> QED BY <2>1, <2>3
<1>3. CASE l.t = "lane_width"
  <2>1. v \in {w, Bad}
    BY <1>3 DEF LaneLine
  <2> QED BY <2>1
<1>4. CASE l.t = "left_boundary"
  <2>1. v \in {[w EXCEPT !.left = l.a[1]], Bad}
    BY <1>4 DEF LaneLine
  <2>2. l.a[1] \in Markings
    BY <1>4 DEF WellFormed
  <2>3. [w EXCEPT !.left = l.a[1]] \in LaneType
    BY <2>2 DEF LaneType
  <2> QED BY <2>1, <2>3
<1>5. CASE l.t = "right_boundary"
  <2>1. v \in {[w EXCEPT !.right = l.a[1]], Bad}
    BY <1>5 DEF LaneLine
  <2>2. l.a[1] \in Markings
    BY <1>5 DEF WellFormed
  <2>3. [w EXCEPT !.right = l.a[1]] \in LaneType
    BY <2>2 DEF LaneType
  <2> QED BY <2>1, <2>3
<1>6. CASE l.t = "checkpoint"
  <2>1. v \in {[w EXCEPT !.checkpoints = Append(@, <<l.a[3], l.a[4]>>)], Bad}
    BY <1>6 DEF LaneLine
  <2>2. <<l.a[3], l.a[4]>> \in Int \X Int
    BY <1>6 DEF WellFormed
  <2> DEFINE u == Append(w.checkpoints, <<l.a[3], l.a[4]>>)
  <2>3. u \in Seq(Int \X Int)
    BY <2>2 DEF LaneType
  <2> HIDE DEF u
  <2>4. [w EXCEPT !.checkpoints = u] \in LaneType
    BY <2>3 DEF LaneType
  <2> QED BY <2>1, <2>4 DEF u
<1>7. CASE l.t = "stop"
  <2>1. v \in {[w EXCEPT !.stops = Append(@, l.a[3])], Bad}
    BY <1>7 DEF LaneLine
  <2>2. l.a[3] \in Int
    BY <1>7 DEF WellFormed
  <2> DEFINE u == Append(w.stops, l.a[3])
  <2>3. u \in Seq(Int)
    BY <2>2 DEF LaneType
  <2> HIDE DEF u
  <2>4. [w EXCEPT !.stops = u] \in LaneType
    BY <2>3 DEF LaneType
  <2> QED BY <2>1, <2>4 DEF u
<1>8. CASE l.t = "exit"
  <2>1. v \in {[w EXCEPT !.exits = Append(@, <<SubSeq(l.a, 1, 3), SubSeq(l.a, 4,
          6)>>)], Bad}
    BY <1>8 DEF LaneLine
  <2>2. <<SubSeq(l.a, 1, 3), SubSeq(l.a, 4, 6)>> \in Exit
    BY <1>8, Pieces DEF WellFormed, Exit
  <2> DEFINE u == Append(w.exits, <<SubSeq(l.a, 1, 3), SubSeq(l.a, 4, 6)>>)
  <2>3. u \in Seq(Exit)
    BY <2>2 DEF LaneType
  <2> HIDE DEF u
  <2>4. [w EXCEPT !.exits = u] \in LaneType
    BY <2>3 DEF LaneType
  <2> QED BY <2>1, <2>4 DEF u
<1>9. CASE l.t = "waypoint"
  <2>1. v \in {[w EXCEPT !.waypoints = Append(@, SubSeq(l.a, 3, 5))], Bad}
    BY <1>9 DEF LaneLine
  <2>2. SubSeq(l.a, 3, 5) \in Id
    BY <1>9, Pieces DEF WellFormed
  <2> DEFINE u == Append(w.waypoints, SubSeq(l.a, 3, 5))
  <2>3. u \in Seq(Id)
    BY <2>2 DEF LaneType
  <2> HIDE DEF u
  <2>4. [w EXCEPT !.waypoints = u] \in LaneType
    BY <2>3 DEF LaneType
  <2> QED BY <2>1, <2>4 DEF u
<1>10. CASE l.t \notin {"lane", "num_waypoints", "lane_width", "left_boundary",
         "right_boundary", "checkpoint", "stop", "exit", "waypoint"}
  BY <1>10 DEF LaneLine
<1> QED
  BY <1>1, <1>2, <1>3, <1>4, <1>5, <1>6, <1>7, <1>8, <1>9, <1>10

\* A line of a segment, of a zone.
LEMMA SegmentLineType ==
  ASSUME NEW g \in SegmentType, NEW l, WellFormed(l)
  PROVE  SegmentLine(g, l) \in SegmentType \cup {Bad}
BY DEF WellFormed, SegmentLine, SegmentType

\* A line of a zone.
LEMMA ZoneLineType ==
  ASSUME NEW z \in ZoneType, NEW l, WellFormed(l)
  PROVE  ZoneLine(z, l) \in ZoneType \cup {Bad}
BY DEF WellFormed, ZoneLine, ZoneType

\* A line of a perimeter.
LEMMA PerimeterLineType ==
  ASSUME NEW zone, NEW p \in PerimeterType, NEW l, WellFormed(l)
  PROVE  PerimeterLine(zone, p, l) \in PerimeterType \cup {Bad}
<1> DEFINE v == PerimeterLine(zone, p, l)
<1>1. CASE l.t = "perimeter"
  <2>1. v \in {[p EXCEPT !.id = 0], Bad}
    BY <1>1 DEF PerimeterLine
  <2>3. [p EXCEPT !.id = 0] \in PerimeterType
    BY DEF PerimeterType
  <2> QED BY <2>1, <2>3
<1>2. CASE l.t = "num_perimeterpoints"
  <2>1. v \in {[p EXCEPT !.n = l.a[1]], Bad}
    BY <1>2 DEF PerimeterLine
  <2>2. l.a[1] \in Int
    BY <1>2 DEF WellFormed
  <2>3. [p EXCEPT !.n = l.a[1]] \in PerimeterType
    BY <2>2 DEF PerimeterType
  <2> QED BY <2>1, <2>3
<1>3. CASE l.t = "exit"
  <2>1. v \in {[p EXCEPT !.exits = Append(@, <<SubSeq(l.a, 1, 3), SubSeq(l.a, 4,
          6)>>)], Bad}
    BY <1>3 DEF PerimeterLine
  <2>2. <<SubSeq(l.a, 1, 3), SubSeq(l.a, 4, 6)>> \in Exit
    BY <1>3, Pieces DEF WellFormed, Exit
  <2> DEFINE u == Append(p.exits, <<SubSeq(l.a, 1, 3), SubSeq(l.a, 4, 6)>>)
  <2>3. u \in Seq(Exit)
    BY <2>2 DEF PerimeterType
  <2> HIDE DEF u
  <2>4. [p EXCEPT !.exits = u] \in PerimeterType
    BY <2>3 DEF PerimeterType
  <2> QED BY <2>1, <2>4 DEF u
<1>4. CASE l.t = "waypoint"
  <2>1. v \in {[p EXCEPT !.points = Append(@, SubSeq(l.a, 3, 5))], Bad}
    BY <1>4 DEF PerimeterLine
  <2>2. SubSeq(l.a, 3, 5) \in Id
    BY <1>4, Pieces DEF WellFormed
  <2> DEFINE u == Append(p.points, SubSeq(l.a, 3, 5))
  <2>3. u \in Seq(Id)
    BY <2>2 DEF PerimeterType
  <2> HIDE DEF u
  <2>4. [p EXCEPT !.points = u] \in PerimeterType
    BY <2>3 DEF PerimeterType
  <2> QED BY <2>1, <2>4 DEF u
<1>5. CASE l.t \notin {"perimeter", "num_perimeterpoints", "exit", "waypoint"}
  BY <1>5 DEF PerimeterLine
<1> QED
  BY <1>1, <1>2, <1>3, <1>4, <1>5

\* A line of a parking spot.
LEMMA SpotLineType ==
  ASSUME NEW zone, NEW p \in SpotType, NEW l, WellFormed(l)
  PROVE  SpotLine(zone, p, l) \in SpotType \cup {Bad}
<1> DEFINE v == SpotLine(zone, p, l)
<1>1. CASE l.t = "spot"
  <2>1. v \in {[p EXCEPT !.id = l.a[2]], Bad}
    BY <1>1 DEF SpotLine
  <2>2. l.a[2] \in Int
    BY <1>1 DEF WellFormed
  <2>3. [p EXCEPT !.id = l.a[2]] \in SpotType
    BY <2>2 DEF SpotType
  <2> QED BY <2>1, <2>3
<1>2. CASE l.t = "spot_width"
  <2>1. v \in {p, Bad}
    BY <1>2 DEF SpotLine
  <2> QED BY <2>1
<1>3. CASE l.t = "checkpoint"
  <2>1. v \in {[p EXCEPT !.checkpoint = <<l.a[3], l.a[4]>>], Bad}
    BY <1>3 DEF SpotLine
  <2>2. <<l.a[3], l.a[4]>> \in Int \X Int
    BY <1>3 DEF WellFormed
  <2>3. [p EXCEPT !.checkpoint = <<l.a[3], l.a[4]>>] \in SpotType
    BY <2>2 DEF SpotType
  <2> QED BY <2>1, <2>3
<1>4. CASE l.t = "waypoint"
  <2>1. v \in {[p EXCEPT !.waypoints = Append(@, SubSeq(l.a, 3, 5))], Bad}
    BY <1>4 DEF SpotLine
  <2>2. SubSeq(l.a, 3, 5) \in Id
    BY <1>4, Pieces DEF WellFormed
  <2> DEFINE u == Append(p.waypoints, SubSeq(l.a, 3, 5))
  <2>3. u \in Seq(Id)
    BY <2>2 DEF SpotType
  <2> HIDE DEF u
  <2>4. [p EXCEPT !.waypoints = u] \in SpotType
    BY <2>3 DEF SpotType
  <2> QED BY <2>1, <2>4 DEF u
<1>5. CASE l.t \notin {"spot", "spot_width", "checkpoint", "waypoint"}
  BY <1>5 DEF SpotLine
<1> QED
  BY <1>1, <1>2, <1>3, <1>4, <1>5

\* A line outside the blocks.
LEMMA GeneralLineType ==
  ASSUME NEW r \in RndfType, NEW l, WellFormed(l)
  PROVE  GeneralLine(r, l) \in RndfType \cup {Bad}
<1> DEFINE v == GeneralLine(r, l)
<1>1. CASE l.t = "RNDF_name"
  <2>1. v \in {r, Bad}
    BY <1>1 DEF GeneralLine
  <2> QED BY <2>1
<1>2. CASE l.t = "format_version"
  <2>1. v \in {r, Bad}
    BY <1>2 DEF GeneralLine
  <2> QED BY <2>1
<1>3. CASE l.t = "creation_date"
  <2>1. v \in {r, Bad}
    BY <1>3 DEF GeneralLine
  <2> QED BY <2>1
<1>4. CASE l.t = "num_segments"
  <2>1. v \in {[r EXCEPT !.number_of_segments = l.a[1]], Bad}
    BY <1>4 DEF GeneralLine
  <2>2. l.a[1] \in Int
    BY <1>4 DEF WellFormed
  <2>3. [r EXCEPT !.number_of_segments = l.a[1]] \in RndfType
    BY <2>2 DEF RndfType
  <2> QED BY <2>1, <2>3
<1>5. CASE l.t = "num_zones"
  <2>1. v \in {[r EXCEPT !.number_of_zones = l.a[1]], Bad}
    BY <1>5 DEF GeneralLine
  <2>2. l.a[1] \in Int
    BY <1>5 DEF WellFormed
  <2>3. [r EXCEPT !.number_of_zones = l.a[1]] \in RndfType
    BY <2>2 DEF RndfType
  <2> QED BY <2>1, <2>3
<1>6. CASE l.t = "end_file"
  <2>1. v \in {[r EXCEPT !.ended = TRUE], Bad}
    BY <1>6 DEF GeneralLine
  <2>3. [r EXCEPT !.ended = TRUE] \in RndfType
    BY DEF RndfType
  <2> QED BY <2>1, <2>3
<1>7. CASE l.t \notin {"RNDF_name", "format_version", "creation_date",
        "num_segments", "num_zones", "end_file"}
  BY <1>7 DEF GeneralLine
<1> QED
  BY <1>1, <1>2, <1>3, <1>4, <1>5, <1>6, <1>7

\* A line of the check-points.
LEMMA CheckpointsLineType ==
  ASSUME NEW m \in MdfType, NEW l, WellFormed(l)
  PROVE  CheckpointsLine(m, l) \in MdfType \cup {Bad}
<1> DEFINE v == CheckpointsLine(m, l)
<1>1. CASE l.t = "checkpoints"
  <2>1. v \in {m, Bad}
    BY <1>1 DEF CheckpointsLine
  <2> QED BY <2>1
<1>2. CASE l.t = "num_checkpoints"
  <2>1. v \in {[m EXCEPT !.number_of_checkpoints = l.a[1]], Bad}
    BY <1>2 DEF CheckpointsLine
  <2>2. l.a[1] \in Int
    BY <1>2 DEF WellFormed
  <2>3. [m EXCEPT !.number_of_checkpoints = l.a[1]] \in MdfType
    BY <2>2 DEF MdfType
  <2> QED BY <2>1, <2>3
<1>3. CASE l.t = "id"
  <2>1. v \in {[m EXCEPT !.checkpoint_ids = Append(@, l.a[1])], Bad}
    BY <1>3 DEF CheckpointsLine
  <2>2. l.a[1] \in Int
    BY <1>3 DEF WellFormed
  <2> DEFINE u == Append(m.checkpoint_ids, l.a[1])
  <2>3. u \in Seq(Int)
    BY <2>2 DEF MdfType
  <2> HIDE DEF u
  <2>4. [m EXCEPT !.checkpoint_ids = u] \in MdfType
    BY <2>3 DEF MdfType
  <2> QED BY <2>1, <2>4 DEF u
<1>4. CASE l.t \notin {"checkpoints", "num_checkpoints", "id"}
  BY <1>4 DEF CheckpointsLine
<1> QED
  BY <1>1, <1>2, <1>3, <1>4

\* A line of the speed limits.
LEMMA SpeedLimitsLineType ==
  ASSUME NEW m \in MdfType, NEW l, WellFormed(l)
  PROVE  SpeedLimitsLine(m, l) \in MdfType \cup {Bad}
<1> DEFINE v == SpeedLimitsLine(m, l)
<1>1. CASE l.t = "speed_limits"
  <2>1. v \in {m, Bad}
    BY <1>1 DEF SpeedLimitsLine
  <2> QED BY <2>1
<1>2. CASE l.t = "num_speed_limits"
  <2>1. v \in {[m EXCEPT !.number_of_speedlimits = l.a[1]], Bad}
    BY <1>2 DEF SpeedLimitsLine
  <2>2. l.a[1] \in Int
    BY <1>2 DEF WellFormed
  <2>3. [m EXCEPT !.number_of_speedlimits = l.a[1]] \in MdfType
    BY <2>2 DEF MdfType
  <2> QED BY <2>1, <2>3
<1>3. CASE l.t = "limit"
  <2>1. v \in {[m EXCEPT !.speed_limits = Append(@, l.a)], Bad}
    BY <1>3 DEF SpeedLimitsLine
  <2>2. l.a \in Id
    BY <1>3 DEF WellFormed, Id
  <2> DEFINE u == Append(m.speed_limits, l.a)
  <2>3. u \in Seq(Id)
    BY <2>2 DEF MdfType
  <2> HIDE DEF u
  <2>4. [m EXCEPT !.speed_limits = u] \in MdfType
    BY <2>3 DEF MdfType
  <2> QED BY <2>1, <2>4 DEF u
<1>4. CASE l.t \notin {"speed_limits", "num_speed_limits", "limit"}
  BY <1>4 DEF SpeedLimitsLine
<1> QED
  BY <1>1, <1>2, <1>3, <1>4

\* A line of the mission outside its blocks.
LEMMA MdfGeneralLineType ==
  ASSUME NEW m \in MdfType, NEW l
  PROVE  MdfGeneralLine(m, l) \in MdfType \cup {Bad}
BY DEF MdfGeneralLine, MdfType

\* The end of a parse by a line that is refused.
LEMMA RefuseKeeps ==
  ASSUME ParseInv, phase \in {"rndf", "mdf"}, Refuse
  PROVE  ParseInv'
<1> USE DEF ParseInv, Refuse
<1>1. TextOK'
  BY DEF TextOK
<1>2. temp' \in TempType
  BY EmptyTypes
<1>3. rndf' \in RndfType /\ mdf' \in MdfType
  BY DEF BuiltTypes, RndfType, MdfType
<1>4. StatesOK'
  BY DEF StatesOK, MdfStates
<1>5. RefsOK'
  <2>1. CASE phase = "rndf"
    BY <2>1 DEF BuiltTypes, RefsOK, RndfType
  <2>2. CASE phase = "mdf"
    BY <2>2 DEF RefsOK
  <2> QED BY <2>1, <2>2
<1> QED
  BY <1>1, <1>2, <1>3, <1>4, <1>5 DEF BuiltTypes

\* A line that is accepted, and what it may change.
LEMMA AcceptKeeps ==
  ASSUME ParseInv, NEW s, Accept(s),
         \/ phase = "rndf" /\ s \in RndfStates
         \/ phase = "mdf" /\ s \in MdfStates /\ rndf' = rndf,
         BuiltTypes'
  PROVE  ParseInv'
<1> USE DEF ParseInv, Accept
<1>1. TextOK'
  BY DEF TextOK
<1>2. StatesOK'
  BY HereStates DEF StatesOK
<1>3. RefsOK'
  BY DEF RefsOK
<1> QED
  BY <1>1, <1>2, <1>3

\* Which file is read follows from the state of the parser.
LEMMA ReadIn ==
  ASSUME ParseInv, NEW s, Read(s)
  PROVE  /\ WellFormed(Now) /\ Here = s /\ phase \in {"rndf", "mdf"}
         /\ s \in RndfStates \ {"UNKNOWN"} => phase = "rndf"
         /\ s \in MdfStates \ {"UNKNOWN"} => phase = "mdf"
<1>1. phase \in {"rndf", "mdf"} /\ More /\ Here = s
  BY DEF Read
<1>2. WellFormed(Now)
  BY <1>1, NowWellFormed
<1> QED
  BY <1>1, <1>2, HereStates DEF RndfStates, MdfStates

\* Every step of the program keeps the invariant of the parsers.
LEMMA ParseStep ==
  ParseInv /\ [FilesNext]_vars => ParseInv'
<1> SUFFICES ASSUME ParseInv, [FilesNext]_vars PROVE ParseInv'
  OBVIOUS
<1>1. CASE ReadComment
  <2>1. Here \in {"COMMENT", "MDF_COMMENT"} /\ phase \in {"rndf", "mdf"}
    BY <1>1, ReadIn DEF ReadComment
  <2>2. /\ line' = line + 1 /\ state' \in {Before, Here} /\ previous_state' = Before
        /\ UNCHANGED <<text, phase, temp, rndf, mdf>>
    BY <1>1 DEF ReadComment
  <2>3. StatesOK'
    BY <2>1, <2>2, HereStates DEF ParseInv, StatesOK
  <2> QED BY <2>2, <2>3 DEF ParseInv, TextOK, BuiltTypes, RefsOK
<1>2. CASE ReadUnknown
  <2>1. phase \in {"rndf", "mdf"} /\ Refuse
    BY <1>2, ReadIn DEF ReadUnknown
  <2> QED BY <2>1, RefuseKeeps
<1>3. CASE ReadGeneral
  <2> DEFINE v == GeneralLine(rndf, Now)
  <2>1. WellFormed(Now) /\ Here = "GENERAL" /\ phase = "rndf"
    BY <1>3, ReadIn DEF ReadGeneral, RndfStates
  <2>2. v \in RndfType \cup {Bad}
    BY <2>1, GeneralLineType DEF ParseInv, BuiltTypes
  <2>3. CASE v = Bad
    <3>1. Refuse
      BY <1>3, <2>3 DEF ReadGeneral, Take
    <3> QED BY <2>1, <3>1, RefuseKeeps
  <2>4. CASE v # Bad
    <3>1. rndf' = v /\ UNCHANGED <<temp, mdf>> /\ Accept(Here)
      BY <1>3, <2>4 DEF ReadGeneral, Take
    <3>2. v \in RndfType
      BY <2>2, <2>4
    <3> HIDE DEF v
    <3>3. BuiltTypes'
      BY <3>1, <3>2 DEF ParseInv, BuiltTypes
    <3> QED BY <2>1, <3>1, <3>3, AcceptKeeps DEF RndfStates
  <2> QED BY <2>3, <2>4
<1>4. CASE ReadSegment
  <2> DEFINE v == SegmentLine(temp.segment, Now)
  <2>1. WellFormed(Now) /\ Here = "SEGMENTS" /\ phase = "rndf"
    BY <1>4, ReadIn DEF ReadSegment, RndfStates
  <2>2. v \in SegmentType \cup {Bad}
    BY <2>1, SegmentLineType DEF ParseInv, BuiltTypes, TempType
  <2>3. CASE v = Bad
    <3>1. Refuse
      BY <1>4, <2>3 DEF ReadSegment, Take
    <3> QED BY <2>1, <3>1, RefuseKeeps
  <2>4. CASE v # Bad
    <3>1. temp' = [temp EXCEPT !.segment = v] /\ UNCHANGED <<rndf, mdf>> /\ Accept(Here)
      BY <1>4, <2>4 DEF ReadSegment, Take
    <3>2. v \in SegmentType
      BY <2>2, <2>4
    <3> HIDE DEF v
    <3>3. BuiltTypes'
      BY <3>1, <3>2 DEF ParseInv, BuiltTypes, TempType
    <3> QED BY <2>1, <3>1, <3>3, AcceptKeeps DEF RndfStates
  <2> QED BY <2>3, <2>4
<1>5. CASE EndSegment
  <2>1. Here = "SEGMENTS" /\ phase = "rndf"
    BY <1>5, ReadIn DEF EndSegment, RndfStates
  <2>2. CASE ~segment_isvalid(temp.segment)
    <3>1. Refuse
      BY <1>5, <2>2 DEF EndSegment
    <3> QED BY <2>1, <3>1, RefuseKeeps
  <2>3. CASE segment_isvalid(temp.segment)
    <3> DEFINE u == Append(rndf.segments, temp.segment)
    <3>1. /\ rndf' = [rndf EXCEPT !.segments = u]
          /\ temp' = [temp EXCEPT !.segment = NoSegment] /\ mdf' = mdf
          /\ Accept("GENERAL")
      BY <1>5, <2>3 DEF EndSegment
    <3>2. u \in Seq(SegmentType)
      BY DEF ParseInv, BuiltTypes, TempType, RndfType
    <3> HIDE DEF u
    <3>3. BuiltTypes'
      BY <3>1, <3>2, EmptyTypes DEF ParseInv, BuiltTypes, TempType, RndfType
    <3> QED BY <2>1, <3>1, <3>3, AcceptKeeps DEF RndfStates
  <2> QED BY <2>2, <2>3
<1>6. CASE ReadLane
  <2> DEFINE v == LaneLine(temp.segment.id, temp.lane, Now)
  <2>1. WellFormed(Now) /\ Here = "LANES" /\ phase = "rndf"
    BY <1>6, ReadIn DEF ReadLane, RndfStates
  <2>2. v \in LaneType \cup {Bad}
    BY <2>1, LaneLineType DEF ParseInv, BuiltTypes, TempType
  <2>3. CASE v = Bad
    <3>1. Refuse
      BY <1>6, <2>3 DEF ReadLane, Take
    <3> QED BY <2>1, <3>1, RefuseKeeps
  <2>4. CASE v # Bad
    <3>1. temp' = [temp EXCEPT !.lane = v] /\ UNCHANGED <<rndf, mdf>> /\ Accept(Here)
      BY <1>6, <2>4 DEF ReadLane, Take
    <3>2. v \in LaneType
      BY <2>2, <2>4
    <3> HIDE DEF v
    <3>3. BuiltTypes'
      BY <3>1, <3>2 DEF ParseInv, BuiltTypes, TempType
    <3> QED BY <2>1, <3>1, <3>3, AcceptKeeps DEF RndfStates
  <2> QED BY <2>3, <2>4
<1>7. CASE EndLane
  <2>1. Here = "LANES" /\ phase = "rndf"
    BY <1>7, ReadIn DEF EndLane, RndfStates
  <2>2. CASE ~lane_isvalid(temp.lane)
    <3>1. Refuse
      BY <1>7, <2>2 DEF EndLane
    <3> QED BY <2>1, <3>1, RefuseKeeps
  <2>3. CASE lane_isvalid(temp.lane)
    <3> DEFINE u == Append(temp.segment.lanes, temp.lane)
    <3>1. /\ temp' = [temp EXCEPT !.segment.lanes = u, !.lane = NoLane]
          /\ rndf' = rndf /\ mdf' = mdf
          /\ Accept("SEGMENTS")
      BY <1>7, <2>3 DEF EndLane
    <3>2. u \in Seq(LaneType)
      BY DEF ParseInv, BuiltTypes, TempType, SegmentType
    <3> HIDE DEF u
    <3>3. BuiltTypes'
      BY <3>1, <3>2, EmptyTypes DEF ParseInv, BuiltTypes, TempType, SegmentType
    <3> QED BY <2>1, <3>1, <3>3, AcceptKeeps DEF RndfStates
  <2> QED BY <2>2, <2>3
<1>8. CASE ReadZone
  <2> DEFINE v == ZoneLine(temp.zone, Now)
  <2>1. WellFormed(Now) /\ Here = "ZONES" /\ phase = "rndf"
    BY <1>8, ReadIn DEF ReadZone, RndfStates
  <2>2. v \in ZoneType \cup {Bad}
    BY <2>1, ZoneLineType DEF ParseInv, BuiltTypes, TempType
  <2>3. CASE v = Bad
    <3>1. Refuse
      BY <1>8, <2>3 DEF ReadZone, Take
    <3> QED BY <2>1, <3>1, RefuseKeeps
  <2>4. CASE v # Bad
    <3>1. temp' = [temp EXCEPT !.zone = v] /\ UNCHANGED <<rndf, mdf>> /\ Accept(Here)
      BY <1>8, <2>4 DEF ReadZone, Take
    <3>2. v \in ZoneType
      BY <2>2, <2>4
    <3> HIDE DEF v
    <3>3. BuiltTypes'
      BY <3>1, <3>2 DEF ParseInv, BuiltTypes, TempType
    <3> QED BY <2>1, <3>1, <3>3, AcceptKeeps DEF RndfStates
  <2> QED BY <2>3, <2>4
<1>9. CASE EndZone
  <2>1. Here = "ZONES" /\ phase = "rndf"
    BY <1>9, ReadIn DEF EndZone, RndfStates
  <2>2. CASE ~zone_isvalid(temp.zone)
    <3>1. Refuse
      BY <1>9, <2>2 DEF EndZone
    <3> QED BY <2>1, <3>1, RefuseKeeps
  <2>3. CASE zone_isvalid(temp.zone)
    <3> DEFINE u == Append(rndf.zones, temp.zone)
    <3>1. /\ rndf' = [rndf EXCEPT !.zones = u]
          /\ temp' = [temp EXCEPT !.zone = NoZone] /\ mdf' = mdf
          /\ Accept("GENERAL")
      BY <1>9, <2>3 DEF EndZone
    <3>2. u \in Seq(ZoneType)
      BY DEF ParseInv, BuiltTypes, TempType, RndfType
    <3> HIDE DEF u
    <3>3. BuiltTypes'
      BY <3>1, <3>2, EmptyTypes DEF ParseInv, BuiltTypes, TempType, RndfType
    <3> QED BY <2>1, <3>1, <3>3, AcceptKeeps DEF RndfStates
  <2> QED BY <2>2, <2>3
<1>10. CASE ReadPerimeter
  <2> DEFINE v == PerimeterLine(temp.zone.id, temp.perimeter, Now)
  <2>1. WellFormed(Now) /\ Here = "PERIMETER" /\ phase = "rndf"
    BY <1>10, ReadIn DEF ReadPerimeter, RndfStates
  <2>2. v \in PerimeterType \cup {Bad}
    BY <2>1, PerimeterLineType DEF ParseInv, BuiltTypes, TempType
  <2>3. CASE v = Bad
    <3>1. Refuse
      BY <1>10, <2>3 DEF ReadPerimeter, Take
    <3> QED BY <2>1, <3>1, RefuseKeeps
  <2>4. CASE v # Bad
    <3>1. temp' = [temp EXCEPT !.perimeter = v] /\ UNCHANGED <<rndf, mdf>> /\ Accept(Here)
      BY <1>10, <2>4 DEF ReadPerimeter, Take
    <3>2. v \in PerimeterType
      BY <2>2, <2>4
    <3> HIDE DEF v
    <3>3. BuiltTypes'
      BY <3>1, <3>2 DEF ParseInv, BuiltTypes, TempType
    <3> QED BY <2>1, <3>1, <3>3, AcceptKeeps DEF RndfStates
  <2> QED BY <2>3, <2>4
<1>11. CASE EndPerimeter
  <2>1. Here = "PERIMETER" /\ phase = "rndf"
    BY <1>11, ReadIn DEF EndPerimeter, RndfStates
  <2>2. CASE ~perimeter_isvalid(temp.perimeter)
    <3>1. Refuse
      BY <1>11, <2>2 DEF EndPerimeter
    <3> QED BY <2>1, <3>1, RefuseKeeps
  <2>3. CASE perimeter_isvalid(temp.perimeter)
    <3>1. /\ temp' = [temp EXCEPT !.zone.perimeter = temp.perimeter,
                                  !.perimeter = NoPerimeter]
          /\ rndf' = rndf /\ mdf' = mdf
          /\ Accept("ZONES")
      BY <1>11, <2>3 DEF EndPerimeter
    <3>2. BuiltTypes'
      BY <3>1, EmptyTypes DEF ParseInv, BuiltTypes, TempType, ZoneType
    <3> QED BY <2>1, <3>1, <3>2, AcceptKeeps DEF RndfStates
  <2> QED BY <2>2, <2>3
<1>12. CASE ReadSpot
  <2> DEFINE v == SpotLine(temp.zone.id, temp.spot, Now)
  <2>1. WellFormed(Now) /\ Here = "PARKING_SPOT" /\ phase = "rndf"
    BY <1>12, ReadIn DEF ReadSpot, RndfStates
  <2>2. v \in SpotType \cup {Bad}
    BY <2>1, SpotLineType DEF ParseInv, BuiltTypes, TempType
  <2>3. CASE v = Bad
    <3>1. Refuse
      BY <1>12, <2>3 DEF ReadSpot, Take
    <3> QED BY <2>1, <3>1, RefuseKeeps
  <2>4. CASE v # Bad
    <3>1. temp' = [temp EXCEPT !.spot = v] /\ UNCHANGED <<rndf, mdf>> /\ Accept(Here)
      BY <1>12, <2>4 DEF ReadSpot, Take
    <3>2. v \in SpotType
      BY <2>2, <2>4
    <3> HIDE DEF v
    <3>3. BuiltTypes'
      BY <3>1, <3>2 DEF ParseInv, BuiltTypes, TempType
    <3> QED BY <2>1, <3>1, <3>3, AcceptKeeps DEF RndfStates
  <2> QED BY <2>3, <2>4
<1>13. CASE EndSpot
  <2>1. Here = "PARKING_SPOT" /\ phase = "rndf"
    BY <1>13, ReadIn DEF EndSpot, RndfStates
  <2>2. CASE ~(temp.spot.id > 0)
    <3>1. Refuse
      BY <1>13, <2>2 DEF EndSpot
    <3> QED BY <2>1, <3>1, RefuseKeeps
  <2>3. CASE (temp.spot.id > 0)
    <3> DEFINE u == Append(temp.zone.spots, temp.spot)
    <3>1. /\ temp' = [temp EXCEPT !.zone.spots = u, !.spot = NoSpot]
          /\ rndf' = rndf /\ mdf' = mdf
          /\ Accept("ZONES")
      BY <1>13, <2>3 DEF EndSpot
    <3>2. u \in Seq(SpotType)
      BY DEF ParseInv, BuiltTypes, TempType, ZoneType
    <3> HIDE DEF u
    <3>3. BuiltTypes'
      BY <3>1, <3>2, EmptyTypes DEF ParseInv, BuiltTypes, TempType, ZoneType
    <3> QED BY <2>1, <3>1, <3>3, AcceptKeeps DEF RndfStates
  <2> QED BY <2>2, <2>3
<1>14. CASE EndOfRNDF
  <2>0. RefsKnown(rndf.segments, rndf.zones) \in BOOLEAN
    BY DEF RefsKnown
  <2> DEFINE b == RefsKnown(rndf.segments, rndf.zones)
  <2>1. /\ rndf' = [rndf EXCEPT !.is_valid = b]
        /\ phase' = "mdf" /\ line' = 0 /\ state' = "UNKNOWN"
        /\ previous_state' = "UNKNOWN" /\ temp' = NoTemp
        /\ UNCHANGED <<text, mdf>>
    BY <1>14 DEF EndOfRNDF
  <2>2. b \in BOOLEAN
    BY <2>0
  <2>3. b <=> RefsKnown(rndf.segments, rndf.zones)
    OBVIOUS
  <2> HIDE DEF b
  <2>4. /\ rndf' \in RndfType /\ rndf'.is_valid = b
        /\ rndf'.segments = rndf.segments /\ rndf'.zones = rndf.zones
    BY <2>1, <2>2 DEF ParseInv, BuiltTypes, RndfType
  <2>5. RefsOK'
    BY <2>3, <2>4 DEF RefsOK
  <2> QED
    BY <2>1, <2>4, <2>5, EmptyTypes
    DEF ParseInv, TextOK, BuiltTypes, StatesOK, MdfStates
<1>15. CASE ReadMdfGeneral
  <2> DEFINE v == MdfGeneralLine(mdf, Now)
  <2>1. WellFormed(Now) /\ Here = "MDF_GENERAL" /\ phase = "mdf"
    BY <1>15, ReadIn DEF ReadMdfGeneral, MdfStates
  <2>2. v \in MdfType \cup {Bad}
    BY <2>1, MdfGeneralLineType DEF ParseInv, BuiltTypes
  <2>3. CASE v = Bad
    <3>1. Refuse
      BY <1>15, <2>3 DEF ReadMdfGeneral, Take
    <3> QED BY <2>1, <3>1, RefuseKeeps
  <2>4. CASE v # Bad
    <3>1. mdf' = v /\ UNCHANGED <<temp, rndf>> /\ Accept(Here)
      BY <1>15, <2>4 DEF ReadMdfGeneral, Take
    <3>2. v \in MdfType
      BY <2>2, <2>4
    <3> HIDE DEF v
    <3>3. BuiltTypes'
      BY <3>1, <3>2 DEF ParseInv, BuiltTypes
    <3> QED BY <2>1, <3>1, <3>3, AcceptKeeps DEF MdfStates
  <2> QED BY <2>3, <2>4
<1>16. CASE ReadCheckpoints
  <2> DEFINE v == CheckpointsLine(mdf, Now)
  <2>1. WellFormed(Now) /\ Here = "MDF_CHECKPOINTS" /\ phase = "mdf"
    BY <1>16, ReadIn DEF ReadCheckpoints, MdfStates
  <2>2. v \in MdfType \cup {Bad}
    BY <2>1, CheckpointsLineType DEF ParseInv, BuiltTypes
  <2>3. CASE v = Bad
    <3>1. Refuse
      BY <1>16, <2>3 DEF ReadCheckpoints, Take
    <3> QED BY <2>1, <3>1, RefuseKeeps
  <2>4. CASE v # Bad
    <3>1. mdf' = v /\ UNCHANGED <<temp, rndf>> /\ Accept(Here)
      BY <1>16, <2>4 DEF ReadCheckpoints, Take
    <3>2. v \in MdfType
      BY <2>2, <2>4
    <3> HIDE DEF v
    <3>3. BuiltTypes'
      BY <3>1, <3>2 DEF ParseInv, BuiltTypes
    <3> QED BY <2>1, <3>1, <3>3, AcceptKeeps DEF MdfStates
  <2> QED BY <2>3, <2>4
<1>17. CASE ReadSpeedLimits
  <2> DEFINE v == SpeedLimitsLine(mdf, Now)
  <2>1. WellFormed(Now) /\ Here = "MDF_SPEEDLIMITS" /\ phase = "mdf"
    BY <1>17, ReadIn DEF ReadSpeedLimits, MdfStates
  <2>2. v \in MdfType \cup {Bad}
    BY <2>1, SpeedLimitsLineType DEF ParseInv, BuiltTypes
  <2>3. CASE v = Bad
    <3>1. Refuse
      BY <1>17, <2>3 DEF ReadSpeedLimits, Take
    <3> QED BY <2>1, <3>1, RefuseKeeps
  <2>4. CASE v # Bad
    <3>1. mdf' = v /\ UNCHANGED <<temp, rndf>> /\ Accept(Here)
      BY <1>17, <2>4 DEF ReadSpeedLimits, Take
    <3>2. v \in MdfType
      BY <2>2, <2>4
    <3> HIDE DEF v
    <3>3. BuiltTypes'
      BY <3>1, <3>2 DEF ParseInv, BuiltTypes
    <3> QED BY <2>1, <3>1, <3>3, AcceptKeeps DEF MdfStates
  <2> QED BY <2>3, <2>4
<1>18. CASE EndMdfBlock
  <2>1. phase = "mdf" /\ Accept("MDF_GENERAL") /\ UNCHANGED <<temp, rndf, mdf>>
    BY <1>18, ReadIn DEF EndMdfBlock, MdfStates
  <2>2. BuiltTypes'
    BY <2>1 DEF ParseInv, BuiltTypes
  <2> QED BY <2>1, <2>2, AcceptKeeps DEF MdfStates
<1>19. CASE \/ EndOfMDF \/ build_graph \/ next_checkpoint \/ save \/ Crash
            \/ Restart \/ UNCHANGED vars
  <2>1. UNCHANGED <<text, parseVars, rndf, mdf>>
    BY <1>19 DEF EndOfMDF, build_graph, Dies, Exits, next_checkpoint, save, Crash,
                 Restart, vars
  <2>2. phase' = phase \/ (phase # "rndf" /\ phase' \notin {"rndf", "mdf"})
    BY <1>19 DEF EndOfMDF, build_graph, Dies, Exits, next_checkpoint, save, Crash,
                 Restart, vars
  <2> QED
    BY <2>1, <2>2 DEF ParseInv, TextOK, BuiltTypes, StatesOK, RefsOK, parseVars
<1> QED
  BY <1>1, <1>2, <1>3, <1>4, <1>5, <1>6, <1>7, <1>8, <1>9, <1>10, <1>11, <1>12,
     <1>13, <1>14, <1>15, <1>16, <1>17, <1>18, <1>19 DEF FilesNext

----------------------------------------------------------------------------
(* Part 4.  The graph that a parsed road network gives.                    *)

LaneOfSegment == [seg : Int, lane : LaneType]
VertexType == [id : Id, x : Int, y : Int, kind : {"lane", "spot", "perimeter"}]

\* The element ids that the road network defines.
Known(segments, zones) == {v.id : v \in ToSet(Vertices(segments, zones))}

\* The edges between them.
EdgeType(known) == [from : known, to : known, left : Markings, right : Markings,
                    is_exit : BOOLEAN]

\* A function on 1..n is a sequence of length n.
LEMMA FunctionSeq ==
  ASSUME NEW X, NEW n \in Nat, NEW f \in [1..n -> X]
  PROVE  f \in Seq(X) /\ Len(f) = n
BY LenProperties, SeqDef

\* The elements of a sequence over X are in X.
LEMMA ToSetIn ==
  ASSUME NEW X, NEW s \in Seq(X)
  PROVE  ToSet(s) \subseteq X /\ DOMAIN s = 1..Len(s)
BY DEF ToSet

\* A sequence of sequences, from its elements.
LEMMA SeqOfSeqs ==
  ASSUME NEW X, NEW n \in Nat, NEW ss, ss = [i \in 1..n |-> ss[i]],
         \A i \in 1..n : ss[i] \in Seq(X)
  PROVE  ss \in Seq(Seq(X)) /\ Len(ss) = n
<1>1. ss \in [1..n -> Seq(X)]
  OBVIOUS
<1> QED
  BY <1>1, FunctionSeq

\* The lanes of all segments, each with its segment.
LEMMA LanesType ==
  ASSUME NEW segments \in Seq(SegmentType)
  PROVE  Lanes(segments) \in Seq(LaneOfSegment)
<1> DEFINE n == Len(segments)
           Of(i) == [j \in DOMAIN segments[i].lanes |->
                       [seg |-> segments[i].id, lane |-> segments[i].lanes[j]]]
           ss == [i \in DOMAIN segments |-> Of(i)]
<1>1. Lanes(segments) = FlattenSeq(ss)
  BY DEF Lanes
<1>2. ASSUME NEW g \in SegmentType
      PROVE  [j \in DOMAIN g.lanes |-> [seg |-> g.id, lane |-> g.lanes[j]]]
               \in Seq(LaneOfSegment)
  <2> DEFINE f == [j \in DOMAIN g.lanes |-> [seg |-> g.id, lane |-> g.lanes[j]]]
  <2>1. g.id \in Int /\ g.lanes \in Seq(LaneType)
    BY DEF SegmentType
  <2>2. f \in [1..Len(g.lanes) -> LaneOfSegment] /\ Len(g.lanes) \in Nat
    BY <2>1 DEF LaneOfSegment
  <2> HIDE DEF f
  <2>3. f \in Seq(LaneOfSegment)
    BY <2>2, FunctionSeq
  <2> QED BY <2>3 DEF f
<1>3. \A i \in 1..n : Of(i) \in Seq(LaneOfSegment)
  BY <1>2
<1> HIDE DEF Of
<1>4. /\ n \in Nat /\ ss = [i \in 1..n |-> ss[i]]
      /\ \A i \in 1..n : ss[i] \in Seq(LaneOfSegment)
  BY <1>3
<1> HIDE DEF ss, n
<1>5. ss \in Seq(Seq(LaneOfSegment))
  BY <1>4, SeqOfSeqs
<1> QED
  BY <1>1, <1>5, FlattenHas

SpotOfZone == [zone : Int, spot : SpotType]

\* The spots of all zones, each with its zone.
LEMMA SpotsType ==
  ASSUME NEW zones \in Seq(ZoneType)
  PROVE  Spots(zones) \in Seq(SpotOfZone)
<1> DEFINE n == Len(zones)
           Of(i) == [j \in DOMAIN zones[i].spots |->
                       [zone |-> zones[i].id, spot |-> zones[i].spots[j]]]
           ss == [i \in DOMAIN zones |-> Of(i)]
<1>1. Spots(zones) = FlattenSeq(ss)
  BY DEF Spots
<1>2. ASSUME NEW z \in ZoneType
      PROVE  [j \in DOMAIN z.spots |-> [zone |-> z.id, spot |-> z.spots[j]]]
               \in Seq(SpotOfZone)
  <2> DEFINE f == [j \in DOMAIN z.spots |-> [zone |-> z.id, spot |-> z.spots[j]]]
  <2>1. z.id \in Int /\ z.spots \in Seq(SpotType)
    BY DEF ZoneType
  <2>2. f \in [1..Len(z.spots) -> SpotOfZone] /\ Len(z.spots) \in Nat
    BY <2>1 DEF SpotOfZone
  <2> HIDE DEF f
  <2>3. f \in Seq(SpotOfZone)
    BY <2>2, FunctionSeq
  <2> QED BY <2>3 DEF f
<1>3. \A i \in 1..n : Of(i) \in Seq(SpotOfZone)
  BY <1>2
<1> HIDE DEF Of
<1>4. /\ n \in Nat /\ ss = [i \in 1..n |-> ss[i]]
      /\ \A i \in 1..n : ss[i] \in Seq(SpotOfZone)
  BY <1>3
<1> HIDE DEF ss, n
<1>5. ss \in Seq(Seq(SpotOfZone))
  BY <1>4, SeqOfSeqs
<1> QED
  BY <1>1, <1>5, FlattenHas

\* The vertices of one lane, spot or perimeter, one for each way-point.
LEMMA PointsType ==
  ASSUME NEW seg \in Int, NEW lane \in Int, NEW wps \in Seq(Id),
         NEW k \in {"lane", "spot", "perimeter"}
  PROVE  /\ Points(seg, lane, wps, k) \in Seq(VertexType)
         /\ Len(Points(seg, lane, wps, k)) = Len(wps)
<1>1. ASSUME NEW i \in 1..Len(wps)
      PROVE  [id |-> <<seg, lane, wps[i][1]>>, x |-> wps[i][2], y |-> wps[i][3],
              kind |-> k] \in VertexType
  <2>1. wps[i][1] \in Int /\ wps[i][2] \in Int /\ wps[i][3] \in Int
    BY DEF Id
  <2>2. <<seg, lane, wps[i][1]>> \in Id
    BY <2>1 DEF Id
  <2> QED BY <2>1, <2>2 DEF VertexType
<1>2. Points(seg, lane, wps, k) \in [1..Len(wps) -> VertexType]
  BY <1>1 DEF Points
<1> QED
  BY <1>2, FunctionSeq

\* The vertices, among them every way-point of a lane.
LEMMA VerticesType ==
  ASSUME NEW segments \in Seq(SegmentType), NEW zones \in Seq(ZoneType)
  PROVE  /\ Vertices(segments, zones) \in Seq(VertexType)
         /\ \A i \in 1..Len(Lanes(segments)) :
              LET p == Lanes(segments)[i] IN
              \A k \in 1..Len(p.lane.waypoints) :
                <<p.seg, p.lane.id, p.lane.waypoints[k][1]>>
                  \in Known(segments, zones)
<1> DEFINE L == Lanes(segments)
           S == Spots(zones)
           sl == [i \in DOMAIN L |->
                    Points(L[i].seg, L[i].lane.id, L[i].lane.waypoints, "lane")]
           sp == [i \in DOMAIN S |->
                    Points(S[i].zone, S[i].spot.id, S[i].spot.waypoints, "spot")]
           sz == [i \in DOMAIN zones |->
                    Points(zones[i].id, 0, zones[i].perimeter.points, "perimeter")]
<1>1. Vertices(segments, zones) = FlattenSeq(sl) \o FlattenSeq(sp) \o FlattenSeq(sz)
  BY DEF Vertices
<1>2. L \in Seq(LaneOfSegment)
  BY LanesType
<1>3. S \in Seq(SpotOfZone)
  BY SpotsType
<1> HIDE DEF L, S
<1>4. /\ sl \in Seq(Seq(VertexType)) /\ Len(sl) = Len(L)
      /\ \A i \in 1..Len(L) :
           sl[i] = Points(L[i].seg, L[i].lane.id, L[i].lane.waypoints, "lane")
  <2>1. ASSUME NEW p \in LaneOfSegment
        PROVE  Points(p.seg, p.lane.id, p.lane.waypoints, "lane") \in Seq(VertexType)
    <3>1. p.seg \in Int /\ p.lane.id \in Int /\ p.lane.waypoints \in Seq(Id)
      BY DEF LaneOfSegment, LaneType
    <3> QED BY <3>1, PointsType
  <2>2. /\ Len(L) \in Nat /\ sl = [i \in 1..Len(L) |-> sl[i]]
        /\ \A i \in 1..Len(L) : L[i] \in LaneOfSegment /\
             sl[i] = Points(L[i].seg, L[i].lane.id, L[i].lane.waypoints, "lane")
    BY <1>2
  <2> HIDE DEF sl
  <2>3. \A i \in 1..Len(L) : sl[i] \in Seq(VertexType)
    BY <2>1, <2>2
  <2> QED BY <2>2, <2>3, SeqOfSeqs
<1>5. sp \in Seq(Seq(VertexType))
  <2>1. ASSUME NEW p \in SpotOfZone
        PROVE  Points(p.zone, p.spot.id, p.spot.waypoints, "spot") \in Seq(VertexType)
    <3>1. p.zone \in Int /\ p.spot.id \in Int /\ p.spot.waypoints \in Seq(Id)
      BY DEF SpotOfZone, SpotType
    <3> QED BY <3>1, PointsType
  <2>2. /\ Len(S) \in Nat /\ sp = [i \in 1..Len(S) |-> sp[i]]
        /\ \A i \in 1..Len(S) : S[i] \in SpotOfZone /\
             sp[i] = Points(S[i].zone, S[i].spot.id, S[i].spot.waypoints, "spot")
    BY <1>3
  <2> HIDE DEF sp
  <2>3. \A i \in 1..Len(S) : sp[i] \in Seq(VertexType)
    BY <2>1, <2>2
  <2> QED BY <2>2, <2>3, SeqOfSeqs
<1>6. sz \in Seq(Seq(VertexType))
  <2>1. ASSUME NEW z \in ZoneType
        PROVE  Points(z.id, 0, z.perimeter.points, "perimeter") \in Seq(VertexType)
    <3>1. z.id \in Int /\ 0 \in Int /\ z.perimeter.points \in Seq(Id)
      BY DEF ZoneType, PerimeterType
    <3> QED BY <3>1, PointsType
  <2>2. /\ Len(zones) \in Nat /\ sz = [i \in 1..Len(zones) |-> sz[i]]
        /\ \A i \in 1..Len(zones) : zones[i] \in ZoneType /\
             sz[i] = Points(zones[i].id, 0, zones[i].perimeter.points, "perimeter")
    OBVIOUS
  <2> HIDE DEF sz
  <2>3. \A i \in 1..Len(zones) : sz[i] \in Seq(VertexType)
    BY <2>1, <2>2
  <2> QED BY <2>2, <2>3, SeqOfSeqs
<1>7. ASSUME NEW i \in 1..Len(L), NEW k \in 1..Len(L[i].lane.waypoints)
      PROVE  \E j \in 1..Len(sl[i]) :
               sl[i][j].id = <<L[i].seg, L[i].lane.id, L[i].lane.waypoints[k][1]>>
  <2> DEFINE w == L[i].lane.waypoints
  <2>0. L[i] \in LaneOfSegment
    BY <1>2
  <2>1. L[i].seg \in Int /\ L[i].lane.id \in Int /\ w \in Seq(Id)
    BY <2>0 DEF LaneOfSegment, LaneType
  <2>2. sl[i] = Points(L[i].seg, L[i].lane.id, w, "lane")
    BY <1>4
  <2> HIDE DEF sl
  <2>3. Len(sl[i]) = Len(w)
    BY <2>1, <2>2, PointsType
  <2>4. sl[i][k].id = <<L[i].seg, L[i].lane.id, w[k][1]>>
    <3> HIDE DEF w
    <3>1. k \in DOMAIN w
      BY <2>1 DEF w
    <3> QED BY <2>2, <3>1 DEF Points
  <2> QED BY <2>3, <2>4
<1> HIDE DEF sl, sp, sz
<1>8. /\ FlattenSeq(sl) \in Seq(VertexType) /\ FlattenSeq(sp) \in Seq(VertexType)
      /\ FlattenSeq(sz) \in Seq(VertexType)
  BY <1>4, <1>5, <1>6, FlattenHas
<1>9. ToSet(FlattenSeq(sl)) \subseteq ToSet(Vertices(segments, zones))
  <2> DEFINE u == FlattenSeq(sl)
             v == FlattenSeq(sp) \o FlattenSeq(sz)
  <2>1. u \in Seq(VertexType) /\ v \in Seq(VertexType)
    BY <1>8
  <2>2. Vertices(segments, zones) = u \o v
    BY <1>1, <1>8
  <2> HIDE DEF u, v
  <2>3. ToSet(u) \subseteq ToSet(u \o v)
    BY <2>1 DEF ToSet
  <2> QED BY <2>2, <2>3 DEF u
<1>10. ASSUME NEW i \in 1..Len(L), NEW k \in 1..Len(L[i].lane.waypoints)
       PROVE  <<L[i].seg, L[i].lane.id, L[i].lane.waypoints[k][1]>>
                \in Known(segments, zones)
  <2>1. PICK j \in 1..Len(sl[i]) :
          sl[i][j].id = <<L[i].seg, L[i].lane.id, L[i].lane.waypoints[k][1]>>
    BY <1>7
  <2>2. sl[i][j] \in ToSet(FlattenSeq(sl))
    BY <1>4, FlattenHas
  <2> QED BY <1>9, <2>1, <2>2 DEF Known
<1> QED
  BY <1>1, <1>8, <1>10 DEF L

\* The edges along the lanes join way-points of the network.
LEMMA LaneEdgesType ==
  ASSUME NEW segments \in Seq(SegmentType), NEW zones \in Seq(ZoneType)
  PROVE  LaneEdges(segments) \in Seq(EdgeType(Known(segments, zones)))
<1> DEFINE L == Lanes(segments)
           K == Known(segments, zones)
           At(i, k) == <<L[i].seg, L[i].lane.id, L[i].lane.waypoints[k][1]>>
           Of(i) == [k \in 1..(Len(L[i].lane.waypoints) - 1) |->
                       [from |-> At(i, k), to |-> At(i, k + 1),
                        left |-> L[i].lane.left, right |-> L[i].lane.right,
                        is_exit |-> FALSE]]
           ss == [i \in DOMAIN L |-> Of(i)]
<1>1. LaneEdges(segments) = FlattenSeq(ss)
  BY DEF LaneEdges
<1>2. L \in Seq(LaneOfSegment)
  BY LanesType
<1>3. \A i \in 1..Len(L) : \A k \in 1..Len(L[i].lane.waypoints) : At(i, k) \in K
  BY VerticesType
<1> HIDE DEF L, K, At
<1>4. ASSUME NEW i \in 1..Len(L) PROVE Of(i) \in Seq(EdgeType(K))
  <2> DEFINE m == Len(L[i].lane.waypoints) - 1
  <2>1. L[i] \in LaneOfSegment
    BY <1>2
  <2>2. /\ Len(L[i].lane.waypoints) \in Nat
        /\ L[i].lane.left \in Markings /\ L[i].lane.right \in Markings
    BY <2>1 DEF LaneOfSegment, LaneType
  <2>3. \A k \in 1..m : At(i, k) \in K /\ At(i, k + 1) \in K
    BY <1>3, <2>2
  <2>4. Of(i) \in [1..m -> EdgeType(K)]
    BY <2>2, <2>3 DEF EdgeType
  <2>5. CASE m \in Nat
    <3> HIDE DEF Of, m
    <3> QED BY <2>4, <2>5, FunctionSeq
  <2>6. CASE m \notin Nat
    <3>1. 1..m = 1..0
      BY <2>2, <2>6
    <3>2. Of(i) \in [1..0 -> EdgeType(K)]
      BY <2>4, <3>1
    <3> HIDE DEF Of, m
    <3> QED BY <3>2, FunctionSeq
  <2> QED BY <2>5, <2>6
<1> HIDE DEF Of
<1>5. /\ Len(L) \in Nat /\ ss = [i \in 1..Len(L) |-> ss[i]]
      /\ \A i \in 1..Len(L) : ss[i] \in Seq(EdgeType(K))
  BY <1>2, <1>4
<1> HIDE DEF ss
<1>6. ss \in Seq(Seq(EdgeType(K)))
  BY <1>5, SeqOfSeqs
<1> QED
  BY <1>1, <1>6, FlattenHas DEF K

\* The exits of the lanes and of the zones, of whatever they name.
LEMMA ExitsType ==
  ASSUME NEW segments \in Seq(SegmentType), NEW zones \in Seq(ZoneType)
  PROVE  /\ LaneExits(segments) \in Seq(EdgeType(Id))
         /\ ZoneExits(zones) \in Seq(EdgeType(Id))
<1>1. LaneExits(segments) \in Seq(EdgeType(Id))
  <2> DEFINE L == Lanes(segments)
             Of(i) == [j \in DOMAIN L[i].lane.exits |->
                         [from |-> L[i].lane.exits[j][1],
                          to |-> L[i].lane.exits[j][2], left |-> L[i].lane.left,
                          right |-> L[i].lane.right, is_exit |-> TRUE]]
             ss == [i \in DOMAIN L |-> Of(i)]
  <2>1. LaneExits(segments) = FlattenSeq(ss)
    BY DEF LaneExits
  <2>2. L \in Seq(LaneOfSegment)
    BY LanesType
  <2> HIDE DEF L
  <2>3. ASSUME NEW i \in 1..Len(L) PROVE Of(i) \in Seq(EdgeType(Id))
    <3> DEFINE x == L[i].lane.exits
    <3>1. L[i] \in LaneOfSegment
      BY <2>2
    <3>2. /\ x \in Seq(Exit)
          /\ L[i].lane.left \in Markings /\ L[i].lane.right \in Markings
      BY <3>1 DEF LaneOfSegment, LaneType
    <3>3. \A j \in 1..Len(x) : x[j][1] \in Id /\ x[j][2] \in Id
      <4> HIDE DEF x
      <4>1. \A j \in 1..Len(x) : x[j] \in Exit
        BY <3>2
      <4> QED BY <4>1 DEF Exit
    <3>4. Of(i) \in [1..Len(x) -> EdgeType(Id)] /\ Len(x) \in Nat
      BY <3>2, <3>3 DEF EdgeType
    <3> HIDE DEF Of, x
    <3> QED BY <3>4, FunctionSeq
  <2> HIDE DEF Of
  <2>4. /\ Len(L) \in Nat /\ ss = [i \in 1..Len(L) |-> ss[i]]
        /\ \A i \in 1..Len(L) : ss[i] \in Seq(EdgeType(Id))
    BY <2>2, <2>3
  <2> HIDE DEF ss
  <2>5. ss \in Seq(Seq(EdgeType(Id)))
    BY <2>4, SeqOfSeqs
  <2> QED BY <2>1, <2>5, FlattenHas
<1>2. ZoneExits(zones) \in Seq(EdgeType(Id))
  <2> DEFINE Of(i) == [j \in DOMAIN zones[i].perimeter.exits |->
                         [from |-> zones[i].perimeter.exits[j][1],
                          to |-> zones[i].perimeter.exits[j][2],
                          left |-> "UNDEFINED", right |-> "UNDEFINED",
                          is_exit |-> TRUE]]
             ss == [i \in DOMAIN zones |-> Of(i)]
  <2>1. ZoneExits(zones) = FlattenSeq(ss)
    BY DEF ZoneExits
  <2>3. ASSUME NEW i \in 1..Len(zones) PROVE Of(i) \in Seq(EdgeType(Id))
    <3> DEFINE x == zones[i].perimeter.exits
    <3>1. zones[i] \in ZoneType
      OBVIOUS
    <3>2. x \in Seq(Exit)
      BY <3>1 DEF ZoneType, PerimeterType
    <3>3. \A j \in 1..Len(x) : x[j][1] \in Id /\ x[j][2] \in Id
      <4> HIDE DEF x
      <4>1. \A j \in 1..Len(x) : x[j] \in Exit
        BY <3>2
      <4> QED BY <4>1 DEF Exit
    <3>4. Of(i) \in [1..Len(x) -> EdgeType(Id)] /\ Len(x) \in Nat
      BY <3>2, <3>3 DEF EdgeType, Markings
    <3> HIDE DEF Of, x
    <3> QED BY <3>4, FunctionSeq
  <2> HIDE DEF Of
  <2>4. /\ Len(zones) \in Nat /\ ss = [i \in 1..Len(zones) |-> ss[i]]
        /\ \A i \in 1..Len(zones) : ss[i] \in Seq(EdgeType(Id))
    BY <2>3
  <2> HIDE DEF ss
  <2>5. ss \in Seq(Seq(EdgeType(Id)))
    BY <2>4, SeqOfSeqs
  <2> QED BY <2>1, <2>5, FlattenHas
<1> QED
  BY <1>1, <1>2

\* A sequence whose elements are all in Y.
LEMMA SeqNarrow ==
  ASSUME NEW X, NEW Y, NEW s \in Seq(X), ToSet(s) \subseteq Y
  PROVE  s \in Seq(Y)
<1>1. s \in [1..Len(s) -> Y] /\ Len(s) \in Nat
  BY DEF ToSet
<1> QED
  BY <1>1, FunctionSeq

\* The elements of two sequences one after the other.
LEMMA ConcatSet ==
  ASSUME NEW X, NEW s \in Seq(X), NEW t \in Seq(X)
  PROVE  ToSet(s \o t) = ToSet(s) \cup ToSet(t)
<1>1. ASSUME NEW x \in ToSet(s \o t) PROVE x \in ToSet(s) \cup ToSet(t)
  <2>1. PICK i \in 1..Len(s \o t) : x = (s \o t)[i]
    BY DEF ToSet
  <2>2. CASE i <= Len(s)
    BY <2>1, <2>2 DEF ToSet
  <2>3. CASE i > Len(s)
    <3>1. i - Len(s) \in 1..Len(t) /\ x = t[i - Len(s)]
      BY <2>1, <2>3
    <3> QED BY <3>1 DEF ToSet
  <2> QED BY <2>2, <2>3
<1>2. ASSUME NEW x \in ToSet(s) PROVE x \in ToSet(s \o t)
  BY DEF ToSet
<1>3. ASSUME NEW x \in ToSet(t) PROVE x \in ToSet(s \o t)
  <2>1. PICK j \in 1..Len(t) : x = t[j]
    BY DEF ToSet
  <2>2. Len(s) + j \in 1..Len(s \o t) /\ (s \o t)[Len(s) + j] = t[j]
    OBVIOUS
  <2> QED BY <2>1, <2>2 DEF ToSet
<1> QED
  BY <1>1, <1>2, <1>3

\* Exits are added to edges without a change of what the edges join.
LEMMA AddExitsType ==
  ASSUME NEW K, NEW edges \in Seq(EdgeType(K)), NEW exits \in Seq(EdgeType(K))
  PROVE  AddExits(edges, exits) \in Seq(EdgeType(K))
<1> DEFINE own == {x \in ToSet(exits) : x.to = Succ(x.from)}
           marked(i) == \E x \in own :
                          /\ edges[i].from = x.from /\ edges[i].to = x.to
                          /\ \A j \in 1..(i - 1) :
                               ~(edges[j].from = x.from /\ edges[j].to = x.to)
           u == [i \in DOMAIN edges |-> [edges[i] EXCEPT !.is_exit = marked(i)]]
<1>1. AddExits(edges, exits) = u \o Those(exits, ToSet(exits) \ own)
  BY DEF AddExits
<1>2. \A i : marked(i) \in BOOLEAN
  OBVIOUS
<1> HIDE DEF marked, own
<1>3. ASSUME NEW e \in EdgeType(K), NEW b \in BOOLEAN
      PROVE  [e EXCEPT !.is_exit = b] \in EdgeType(K)
  BY DEF EdgeType
<1>4. u \in [1..Len(edges) -> EdgeType(K)] /\ Len(edges) \in Nat
  <2>1. \A i \in 1..Len(edges) : edges[i] \in EdgeType(K)
    OBVIOUS
  <2> DEFINE new(i) == [edges[i] EXCEPT !.is_exit = marked(i)]
  <2>2. \A i \in 1..Len(edges) : new(i) \in EdgeType(K)
    BY <1>2, <1>3, <2>1
  <2>3. u = [i \in 1..Len(edges) |-> new(i)]
    OBVIOUS
  <2> HIDE DEF new, u
  <2> QED BY <2>2, <2>3
<1> HIDE DEF u
<1>5. u \in Seq(EdgeType(K))
  BY <1>4, FunctionSeq
<1>6. Those(exits, ToSet(exits) \ own) \in Seq(EdgeType(K))
  BY ThoseKeeps
<1> QED
  BY <1>1, <1>5, <1>6

\* Every edge of the file's graph joins two of its way-points.
LEMMA EdgesType ==
  ASSUME NEW segments \in Seq(SegmentType), NEW zones \in Seq(ZoneType),
         RefsKnown(segments, zones)
  PROVE  prep_graph(segments, zones).edges \in Seq(EdgeType(Known(segments, zones)))
<1> DEFINE K == Known(segments, zones)
           X == LaneExits(segments)
           Z == ZoneExits(zones)
<1>1. X \in Seq(EdgeType(Id)) /\ Z \in Seq(EdgeType(Id))
  BY ExitsType
<1>2. \A e \in ToSet(X \o Z) : e.from \in K /\ e.to \in K
  BY DEF RefsKnown, Known
<1>3. LaneEdges(segments) \in Seq(EdgeType(K))
  BY LaneEdgesType
<1> HIDE DEF K, X, Z
<1>4. ToSet(X \o Z) = ToSet(X) \cup ToSet(Z)
  BY <1>1, ConcatSet
<1>5. \A e \in EdgeType(Id) : e.from \in K /\ e.to \in K => e \in EdgeType(K)
  BY DEF EdgeType
<1>6. ToSet(X) \subseteq EdgeType(K) /\ ToSet(Z) \subseteq EdgeType(K)
  <2>1. ToSet(X) \subseteq EdgeType(Id) /\ ToSet(Z) \subseteq EdgeType(Id)
    BY <1>1, ToSetIn
  <2> QED BY <1>2, <1>4, <1>5, <2>1
<1>7. X \in Seq(EdgeType(K)) /\ Z \in Seq(EdgeType(K))
  BY <1>1, <1>6, SeqNarrow
<1>8. AddExits(LaneEdges(segments), X) \in Seq(EdgeType(K))
  BY <1>3, <1>7, AddExitsType
<1>9. prep_graph(segments, zones).edges = AddExits(LaneEdges(segments), X) \o Z
  BY DEF prep_graph, X, Z
<1> QED
  BY <1>7, <1>8, <1>9 DEF K

\* A set of numbers from 1 to n that is not empty has a greatest one.
LEMMA GreatestIndex ==
  ASSUME NEW n \in Nat, NEW T, T \subseteq 1..n, T # {}
  PROVE  \E i \in T : \A j \in T : j <= i
<1> DEFINE D == {n - i : i \in T}
<1>0. \A i \in T : i \in Int /\ n - i \in Nat
  OBVIOUS
<1>1. D \subseteq Nat /\ D # {}
  <2>1. \A d \in D : d \in Nat
    BY <1>0
  <2>2. PICK i : i \in T
    OBVIOUS
  <2>3. n - i \in D
    BY <2>2
  <2> QED BY <2>1, <2>3
<1>2. \A i \in T : n - i \in D /\ i \in Int
  BY <1>0
<1>3. \A d \in D : \E i \in T : d = n - i
  OBVIOUS
<1> HIDE DEF D
<1>4. PICK d \in D : \A e \in D : d <= e
  BY <1>1, LeastNatural
<1>5. PICK i \in T : d = n - i
  BY <1>3
<1>6. \A j \in T : n - i <= n - j
  BY <1>2, <1>4, <1>5
<1> QED
  BY <1>2, <1>6

\* There is one node for every known element id, and no other, with the place
\* of a way-point of that id.
LEMMA NodesType ==
  ASSUME NEW segments \in Seq(SegmentType), NEW zones \in Seq(ZoneType)
  PROVE  /\ \A n \in Nodes(segments, zones) :
              /\ n.id \in Known(segments, zones) \cap Id
              /\ n.index \in 0..(Len(Vertices(segments, zones)) - 1)
              /\ n.index \in Int /\ n.x \in Int /\ n.y \in Int
         /\ \A id \in Known(segments, zones) :
              \E n \in Nodes(segments, zones) : n.id = id
         /\ \A m, n \in Nodes(segments, zones) : m.id = n.id => m = n
<1> DEFINE V == Vertices(segments, zones)
           K == Known(segments, zones)
           X == ToSet(LaneExits(segments) \o ZoneExits(zones))
           C == Checkpoints(segments, zones)
           last(id) == CHOOSE i \in DOMAIN V :
                          V[i].id = id /\ \A j \in DOMAIN V : V[j].id = id => j <= i
           I(id) == {i \in DOMAIN C : C[i][1] = id}
           cp(id) == IF I(id) = {} THEN 0
                     ELSE C[CHOOSE i \in I(id) : \A j \in I(id) : j <= i][2]
           stop(id) == id \in StopIds(segments)
           out(id) == \E e \in X : e.from = id
           in(id) == \E e \in X : e.to = id
           Node(id) == [id |-> id, index |-> last(id) - 1, x |-> V[last(id)].x,
                        y |-> V[last(id)].y, kind |-> V[last(id)].kind,
                        is_stop |-> stop(id), is_exit |-> out(id),
                        is_entry |-> in(id), checkpoint_id |-> cp(id)]
<1>1. Nodes(segments, zones) = {Node(id) : id \in K}
  BY DEF Nodes, Known
<1>2. V \in Seq(VertexType)
  BY VerticesType
<1>3. \A id \in K : \E i \in 1..Len(V) : V[i].id = id
  BY <1>2 DEF Known, ToSet
<1>4. \A i \in 1..Len(V) : V[i].id \in Id /\ V[i].x \in Int /\ V[i].y \in Int
  <2> HIDE DEF V
  <2>1. \A i \in 1..Len(V) : V[i] \in VertexType
    BY <1>2
  <2> QED BY <2>1 DEF VertexType
<1> HIDE DEF V, K, X, C, cp, stop, out, in
<1>5. ASSUME NEW id \in K PROVE last(id) \in 1..Len(V) /\ id \in Id
  <2> DEFINE T == {i \in 1..Len(V) : V[i].id = id}
  <2>1. T \subseteq 1..Len(V) /\ T # {}
    BY <1>3
  <2>2. Len(V) \in Nat /\ DOMAIN V = 1..Len(V)
    BY <1>2
  <2>3. \A i : i \in T <=> i \in DOMAIN V /\ V[i].id = id
    BY <2>2
  <2> HIDE DEF T
  <2>4. PICK i \in T : \A j \in T : j <= i
    BY <2>1, <2>2, GreatestIndex
  <2>5. last(id) \in DOMAIN V
    BY <2>3, <2>4
  <2> QED BY <1>3, <1>4, <2>2, <2>5
<1> HIDE DEF last
<1>6. ASSUME NEW id \in K
      PROVE  /\ Node(id).id = id /\ id \in Id
             /\ Node(id).index \in Int /\ Node(id).index \in 0..(Len(V) - 1)
             /\ Node(id).x \in Int /\ Node(id).y \in Int
  <2>1. Len(V) \in Nat
    BY <1>2
  <2> QED BY <1>4, <1>5, <2>1
<1> HIDE DEF Node
<1> QED
  BY <1>1, <1>6 DEF K, V

\* The nodes are there for exactly the known element ids.
LEMMA NodesKnown ==
  ASSUME NEW segments \in Seq(SegmentType), NEW zones \in Seq(ZoneType)
  PROVE  \A id : Has(Nodes(segments, zones), id) <=> id \in Known(segments, zones)
BY NodesType DEF Has

\* When no element id was read twice there are as many nodes as way-points, and
\* every index is one of the array.
LEMMA IndicesFit ==
  ASSUME NEW segments \in Seq(SegmentType), NEW zones \in Seq(ZoneType),
         \A i, j \in DOMAIN Vertices(segments, zones) :
           Vertices(segments, zones)[i].id = Vertices(segments, zones)[j].id => i = j
  PROVE  \A n \in Nodes(segments, zones) :
           n.index < Cardinality(Nodes(segments, zones))
<1> DEFINE V == Vertices(segments, zones)
           N == Nodes(segments, zones)
           f == [i \in 1..Len(V) |-> CHOOSE n \in N : n.id = V[i].id]
<1>1. V \in Seq(VertexType)
  BY VerticesType
<1>2. /\ \A n \in N : /\ \E i \in 1..Len(V) : V[i].id = n.id
                      /\ n.index \in 0..(Len(V) - 1)
      /\ \A i \in 1..Len(V) : \E n \in N : n.id = V[i].id
      /\ \A m, n \in N : m.id = n.id => m = n
  <2>1. \A id : id \in Known(segments, zones) <=> \E i \in 1..Len(V) : V[i].id = id
    BY <1>1 DEF Known, ToSet
  <2> QED BY <2>1, NodesType
<1>3. Len(V) \in Nat /\ \A i, j \in 1..Len(V) : V[i].id = V[j].id => i = j
  BY <1>1
<1> HIDE DEF V, N
<1>4. \A i \in 1..Len(V) : f[i] \in N /\ f[i].id = V[i].id
  BY <1>2
<1>5. f \in [1..Len(V) -> N]
  BY <1>4
<1> HIDE DEF f
<1>6. \A i, j \in 1..Len(V) : f[i] = f[j] => i = j
  BY <1>3, <1>4
<1>7. \A n \in N : \E i \in 1..Len(V) : f[i] = n
  BY <1>2, <1>4
<1>8. f \in Bijection(1..Len(V), N)
  BY <1>5, <1>6, <1>7 DEF Bijection, Injection, Surjection, IsInjective
<1>9. ExistsBijection(1..Len(V), N)
  BY <1>8 DEF ExistsBijection
<1>10. Cardinality(N) = Len(V)
  BY <1>3, <1>9, FS_CountingElements
<1> QED
  BY <1>2, <1>3, <1>10 DEF N

\* Lane changes and the edges inside the zones join nodes.
LEMMA ImplicitJoins ==
  ASSUME NEW g
  PROVE  \A e \in find_implicit_edges(g) :
           \E a, b \in g.nodes :
             /\ e = [from |-> a.id, to |-> b.id] /\ ~a.is_stop
             /\ LET d == Direction(g.nodes, a, b) IN
                d.same /\ passing_allowed(g, a, b, d.left)
             /\ a.id[1] = b.id[1] /\ b.id[2] \in {a.id[2] - 1, a.id[2] + 1}
<1> SUFFICES ASSUME NEW e \in find_implicit_edges(g)
             PROVE  \E a, b \in g.nodes :
                      /\ e = [from |-> a.id, to |-> b.id] /\ ~a.is_stop
                      /\ LET d == Direction(g.nodes, a, b) IN
                         d.same /\ passing_allowed(g, a, b, d.left)
                      /\ a.id[1] = b.id[1] /\ b.id[2] \in {a.id[2] - 1, a.id[2] + 1}
  OBVIOUS
<1>1. PICK a \in g.nodes : e \in ImplicitFrom(g, a)
  BY DEF find_implicit_edges
<1>2. /\ ~a.is_stop
      /\ \/ e \in Changes(g, a, LeftPoint(g.nodes, a))
         \/ e \in Changes(g, a, RightPoint(g.nodes, a))
  BY <1>1 DEF ImplicitFrom
<1>3. \A n \in LeftPoint(g.nodes, a) :
        n \in g.nodes /\ n.id[1] = a.id[1] /\ n.id[2] = a.id[2] - 1
  BY DEF LeftPoint
<1>4. \A n \in RightPoint(g.nodes, a) :
        n \in g.nodes /\ n.id[1] = a.id[1] /\ n.id[2] = a.id[2] + 1
  BY DEF RightPoint, First
<1>5. \A to : e \in Changes(g, a, to) =>
        \E b \in to : /\ e = [from |-> a.id, to |-> b.id]
                      /\ LET d == Direction(g.nodes, a, b) IN
                         d.same /\ passing_allowed(g, a, b, d.left)
  BY DEF Changes
<1>6. PICK b : /\ b \in LeftPoint(g.nodes, a) \cup RightPoint(g.nodes, a)
               /\ e = [from |-> a.id, to |-> b.id]
               /\ LET d == Direction(g.nodes, a, b) IN
                  d.same /\ passing_allowed(g, a, b, d.left)
  BY <1>2, <1>5
<1> QED
  BY <1>2, <1>3, <1>4, <1>6

----------------------------------------------------------------------------
(* Part 5.  The graph and the mission, as long as the program runs.        *)

\* The actions that read the two files.
Reading ==
  \/ ReadComment \/ ReadUnknown \/ ReadGeneral \/ ReadSegment \/ EndSegment
  \/ ReadLane \/ EndLane \/ ReadZone \/ EndZone \/ ReadPerimeter
  \/ EndPerimeter \/ ReadSpot \/ EndSpot \/ EndOfRNDF
  \/ ReadMdfGeneral \/ ReadCheckpoints \/ ReadSpeedLimits \/ EndMdfBlock
  \/ EndOfMDF

\* Reading the files leaves the commander's own state alone.
LEMMA ReadingFrame ==
  Reading => /\ phase \in {"rndf", "mdf"} /\ phase' \in {"rndf", "mdf", "build"}
             /\ UNCHANGED <<graph, mission, disk, reached>>
<1> SUFFICES ASSUME Reading
             PROVE  /\ phase \in {"rndf", "mdf"} /\ phase' \in {"rndf", "mdf", "build"}
                    /\ UNCHANGED <<graph, mission, disk, reached>>
  OBVIOUS
<1> USE DEF runVars
<1>1. CASE ReadComment
  BY <1>1 DEF ReadComment, Read
<1>2. CASE ReadUnknown
  BY <1>2 DEF ReadUnknown, Take, Read, Accept, Refuse
<1>3. CASE ReadGeneral
  BY <1>3 DEF ReadGeneral, Take, Read, Accept, Refuse
<1>4. CASE ReadSegment
  BY <1>4 DEF ReadSegment, Take, Read, Accept, Refuse
<1>5. CASE EndSegment
  BY <1>5 DEF EndSegment, Read, Accept, Refuse
<1>6. CASE ReadLane
  BY <1>6 DEF ReadLane, Take, Read, Accept, Refuse
<1>7. CASE EndLane
  BY <1>7 DEF EndLane, Read, Accept, Refuse
<1>8. CASE ReadZone
  BY <1>8 DEF ReadZone, Take, Read, Accept, Refuse
<1>9. CASE EndZone
  BY <1>9 DEF EndZone, Read, Accept, Refuse
<1>10. CASE ReadPerimeter
  BY <1>10 DEF ReadPerimeter, Take, Read, Accept, Refuse
<1>11. CASE EndPerimeter
  BY <1>11 DEF EndPerimeter, Read, Accept, Refuse
<1>12. CASE ReadSpot
  BY <1>12 DEF ReadSpot, Take, Read, Accept, Refuse
<1>13. CASE EndSpot
  BY <1>13 DEF EndSpot, Read, Accept, Refuse
<1>14. CASE EndOfRNDF
  BY <1>14 DEF EndOfRNDF
<1>15. CASE ReadMdfGeneral
  BY <1>15 DEF ReadMdfGeneral, Take, Read, Accept, Refuse
<1>16. CASE ReadCheckpoints
  BY <1>16 DEF ReadCheckpoints, Take, Read, Accept, Refuse
<1>17. CASE ReadSpeedLimits
  BY <1>17 DEF ReadSpeedLimits, Take, Read, Accept, Refuse
<1>18. CASE EndMdfBlock
  BY <1>18 DEF EndMdfBlock, Read, Accept, Refuse
<1>19. CASE EndOfMDF
  BY <1>19 DEF EndOfMDF
<1> QED
  BY <1>1, <1>2, <1>3, <1>4, <1>5, <1>6, <1>7, <1>8, <1>9,
     <1>10, <1>11, <1>12, <1>13, <1>14, <1>15, <1>16, <1>17, <1>18, <1>19
     DEF Reading

\* What may end the process: an edge or a node that the array has no place for.
Misfit ==
  \/ ~find_mapxy(Populated)
  \/ Populated.nodes # Nodes(rndf.segments, rndf.zones)

\* The graph is the one that the files give, from the moment it is built, and
\* it is only built of a valid road network.
GraphInv ==
  /\ phase \in {"rndf", "mdf"} => graph = NoGraph
  /\ phase \in {"run", "saving", "down"} => rndf.is_valid /\ graph = BuiltGraph
  /\ graph # NoGraph => /\ phase # "rndf" /\ rndf.is_valid
                        /\ graph = BuiltGraph /\ find_mapxy(Populated)
  /\ phase = "crashed" => rndf.is_valid /\ Misfit

\* No step changes the road network once the graph is built.
LEMMA GraphStep ==
  GraphInv /\ [FilesNext]_vars => GraphInv'
<1> SUFFICES ASSUME GraphInv, [FilesNext]_vars PROVE GraphInv'
  OBVIOUS
<1>1. CASE Reading
  BY <1>1, ReadingFrame DEF GraphInv
<1>2. CASE build_graph
  <2>1. UNCHANGED <<rndf, mdf>> /\ phase = "build"
    BY <1>2 DEF build_graph, Dies, Exits
  <2>2. Populated' = Populated /\ BuiltGraph' = BuiltGraph /\ Misfit' = Misfit
    BY <2>1 DEF BuiltGraph, Populated, Misfit
  <2>3. \/ phase' = "refused" /\ graph' = graph
        \/ phase' = "crashed" /\ graph' = graph /\ rndf.is_valid /\ Misfit
        \/ /\ phase' \in {"refused", "run"} /\ rndf.is_valid
           /\ graph' = BuiltGraph /\ find_mapxy(Populated)
    BY <1>2 DEF build_graph, Exits, Dies, Misfit
  <2>4. graph = NoGraph
    BY <1>2 DEF build_graph
  <2>5. find_mapxy(Populated)' <=> find_mapxy(Populated)
    BY <2>2 DEF find_mapxy
  <2> HIDE DEF BuiltGraph, Populated, Misfit
  <2> QED BY <2>1, <2>2, <2>3, <2>4, <2>5 DEF GraphInv, NoGraph
<1>3. CASE next_checkpoint \/ save \/ Crash \/ Restart \/ UNCHANGED vars
  <2>1. UNCHANGED <<rndf, mdf, graph>>
    BY <1>3 DEF next_checkpoint, save, Crash, Restart, vars
  <2>2. \/ phase' = phase
        \/ /\ phase \in {"run", "saving", "down"}
           /\ phase' \notin {"rndf", "mdf", "crashed"}
    BY <1>3 DEF next_checkpoint, save, Crash, Restart, vars
  <2>3. Populated' = Populated /\ BuiltGraph' = BuiltGraph /\ Misfit' = Misfit
    BY <2>1 DEF BuiltGraph, Populated, Misfit
  <2>4. find_mapxy(Populated)' <=> find_mapxy(Populated)
    BY <2>3 DEF find_mapxy
  <2> HIDE DEF BuiltGraph, Populated, Misfit
  <2> QED BY <2>1, <2>2, <2>3, <2>4 DEF GraphInv, NoGraph
<1> QED
  BY <1>1, <1>2, <1>3 DEF FilesNext, Reading

\* The array holds nodes of the road network; the edges are all there.
LEMMA PopulatedIs ==
  LET g == prep_graph(rndf.segments, rndf.zones)
      N == Nodes(rndf.segments, rndf.zones)
  IN /\ Populated.nodes = {n \in N : n.index < Cardinality(N)}
     /\ Populated.edges = g.edges /\ Populated.inner = g.inner
BY DEF Populated, populate_graph, prep_graph

\* A graph that is not empty is that of a consistent road network.
LEMMA GraphOf ==
  ASSUME ParseInv, GraphInv, graph # NoGraph
  PROVE  /\ rndf.segments \in Seq(SegmentType) /\ rndf.zones \in Seq(ZoneType)
         /\ graph.nodes = Populated.nodes /\ graph.edges = Populated.edges
         /\ graph.inner = Populated.inner
         /\ graph.implicit = find_implicit_edges(Populated)
         /\ graph.nodes \subseteq Nodes(rndf.segments, rndf.zones)
         /\ find_mapxy(Populated)
<1>1. rndf.segments \in Seq(SegmentType) /\ rndf.zones \in Seq(ZoneType)
  BY DEF ParseInv, BuiltTypes, RndfType
<1>2. graph = BuiltGraph /\ find_mapxy(Populated)
  BY DEF GraphInv
<1>3. Populated.nodes \subseteq Nodes(rndf.segments, rndf.zones)
  BY PopulatedIs
<1> QED
  BY <1>1, <1>2, <1>3 DEF BuiltGraph

\* A consistent road network in which no way-point was read twice fits its array.
LEMMA Fits ==
  ASSUME NEW S \in Seq(SegmentType), NEW Z \in Seq(ZoneType), RefsKnown(S, Z),
         S = rndf.segments, Z = rndf.zones,
         \A i, j \in DOMAIN Vertices(S, Z) :
           Vertices(S, Z)[i].id = Vertices(S, Z)[j].id => i = j
  PROVE  ~Misfit
<1> DEFINE g == prep_graph(S, Z)
           K == Known(S, Z)
           N == Nodes(S, Z)
<1>1. /\ Populated.nodes = {n \in N : n.index < Cardinality(N)}
      /\ Populated.edges = g.edges /\ Populated.inner = g.inner
  BY PopulatedIs
<1>2. \A n \in N : n.index < Cardinality(N)
  BY IndicesFit
<1>3. g.edges \in Seq(EdgeType(K))
  BY EdgesType
<1>4. \A id \in K : Has(N, id)
  BY NodesKnown
<1>5. g.inner = {[from |-> e.from.id, to |-> e.to.id] : e \in ZoneEdges(N)}
  BY DEF prep_graph
<1> HIDE DEF g, K, N
<1>6. Populated.nodes = N
  BY <1>1, <1>2
<1>7. ASSUME NEW e \in ToSet(g.edges) PROVE Has(N, e.from) /\ Has(N, e.to)
  <2>1. e \in EdgeType(K)
    BY <1>3, ToSetIn
  <2> QED BY <1>4, <2>1 DEF EdgeType
<1>8. ASSUME NEW e \in g.inner PROVE Has(N, e.from) /\ Has(N, e.to)
  <2>1. PICK f \in ZoneEdges(N) : e = [from |-> f.from.id, to |-> f.to.id]
    BY <1>5
  <2>2. f.from \in N /\ f.to \in N
    BY DEF ZoneEdges
  <2> QED BY <2>1, <2>2 DEF Has
<1>9. find_mapxy(Populated)
  BY <1>1, <1>6, <1>7, <1>8 DEF find_mapxy
<1> QED
  BY <1>6, <1>9 DEF Misfit, N

\* The graph's edges of all kinds join its nodes, and only a way-point read twice
\* keeps the commander from building it.
LEMMA Anchored ==
  ParseInv /\ GraphInv => EdgesAnchored
<1> SUFFICES ASSUME ParseInv, GraphInv PROVE EdgesAnchored
  OBVIOUS
<1>1. ASSUME phase = "crashed"
      PROVE  \E i, j \in DOMAIN Vertices(rndf.segments, rndf.zones) :
               /\ i # j
               /\ Vertices(rndf.segments, rndf.zones)[i].id
                    = Vertices(rndf.segments, rndf.zones)[j].id
  <2>1. rndf.is_valid /\ Misfit
    BY <1>1 DEF GraphInv
  <2>2. rndf.segments \in Seq(SegmentType) /\ rndf.zones \in Seq(ZoneType)
    BY DEF ParseInv, BuiltTypes, RndfType
  <2>3. RefsKnown(rndf.segments, rndf.zones)
    BY <1>1, <2>1 DEF ParseInv, RefsOK
  <2> QED BY <2>1, <2>2, <2>3, Fits
<1>2. ASSUME NEW e \in ToSet(graph.edges) \cup graph.inner \cup graph.implicit
      PROVE  Has(graph.nodes, e.from) /\ Has(graph.nodes, e.to)
  <2>1. graph # NoGraph
    BY DEF NoGraph, ToSet
  <2>2. /\ graph.nodes = Populated.nodes /\ graph.edges = Populated.edges
        /\ graph.inner = Populated.inner
        /\ graph.implicit = find_implicit_edges(Populated)
        /\ find_mapxy(Populated)
    BY <2>1, GraphOf
  <2>3. CASE e \in ToSet(graph.edges) \cup graph.inner
    BY <2>2, <2>3 DEF find_mapxy
  <2>4. CASE e \in graph.implicit
    <3>1. PICK a, b \in Populated.nodes : e = [from |-> a.id, to |-> b.id]
      BY <2>2, <2>4, ImplicitJoins
    <3> QED BY <2>2, <3>1 DEF Has
  <2> QED
    BY <2>3, <2>4
<1> QED
  BY <1>1, <1>2 DEF EdgesAnchored

\* At first there is no graph.
LEMMA GraphInit ==
  FilesInit => GraphInv
BY DEF FilesInit, GraphInv

\* However the road network was damaged, the commander writes no node past the end
\* of its array and finds the node of every edge, unless a way-point was read twice
\* (RNDF::prep_graph, populate_graph, Graph::find_mapxy, find_implicit_edges), for
\* all texts.
THEOREM FilesEdgesAnchored ==
  FilesSpec => []EdgesAnchored
<1>1. FilesInit => ParseInv /\ GraphInv
  BY ParseInit, GraphInit
<1>2. (ParseInv /\ GraphInv) /\ [FilesNext]_vars => (ParseInv /\ GraphInv)'
  BY ParseStep, GraphStep
<1>3. ParseInv /\ GraphInv => EdgesAnchored
  BY Anchored
<1> QED
  BY <1>1, <1>2, <1>3, PTL DEF FilesSpec

\* The point before a way-point gives the same turn and the same way as the
\* vectors that start at the way-point, seen from the other end.
LEMMA PieceBefore ==
  ASSUME NEW a, NEW b, NEW p, NEW q, a.x \in Int, a.y \in Int, b.x \in Int,
         b.y \in Int, p.x \in Int, p.y \in Int, q.x \in Int, q.y \in Int
  PROVE  /\ Dot(p, a, q, b) = Dot(a, p, b, q)
         /\ Cross(p, a, b) > 0 <=> Cross(a, p, b) < 0
<1>1. ASSUME NEW ax \in Int, NEW ay \in Int, NEW bx \in Int, NEW by \in Int,
             NEW px \in Int, NEW py \in Int, NEW qx \in Int, NEW qy \in Int
      PROVE  /\ (ax - px) * (bx - qx) + (ay - py) * (by - qy)
                  = (px - ax) * (qx - bx) + (py - ay) * (qy - by)
             /\ (ax - px) * (by - py) - (ay - py) * (bx - px)
                  = 0 - ((px - ax) * (by - ay) - (py - ay) * (bx - ax))
  OBVIOUS
<1>2. Dot(p, a, q, b) = Dot(a, p, b, q)
  BY <1>1 DEF Dot
<1>3. Cross(p, a, b) = 0 - Cross(a, p, b)
  BY <1>1 DEF Cross
<1>4. Cross(a, p, b) \in Int
  BY DEF Cross
<1> QED
  BY <1>2, <1>3, <1>4

\* The lane changes of the graph are legal.
LEMMA Legal ==
  ParseInv /\ GraphInv => ChangesLegal
<1> SUFFICES ASSUME ParseInv, GraphInv, graph # NoGraph PROVE ChangesLegal
  BY DEF ChangesLegal, NoGraph
<1> DEFINE g == Populated
           N == graph.nodes
<1>1. /\ graph.nodes = g.nodes /\ graph.edges = g.edges
      /\ graph.implicit = find_implicit_edges(g)
  BY GraphOf
<1>2. /\ \A n \in N : n.id \in Id /\ n.x \in Int /\ n.y \in Int
      /\ \A m, n \in N : m.id = n.id => m = n
  <2>1. N \subseteq Nodes(rndf.segments, rndf.zones)
    BY GraphOf
  <2> QED BY <2>1, GraphOf, NodesType
<1> HIDE DEF g, N
<1>3. /\ \A n \in N : Get(N, n.id) = n
      /\ \A id : Has(N, id) => Get(N, id) \in N
  BY <1>2 DEF Has, Get
<1> SUFFICES
      ASSUME NEW e \in graph.implicit
      PROVE  LET on == Has(N, Succ(e.from)) /\ Has(N, Succ(e.to))
                 tail(id) == Get(N, IF on THEN id ELSE Prev(id))
                 head(id) == Get(N, IF on THEN Succ(id) ELSE id)
                 left == Cross(tail(e.from), head(e.from), Get(N, e.to)) > 0
                 mark(id, l) == {IF l THEN f.left ELSE f.right :
                                   f \in {h \in ToSet(graph.edges) :
                                            h.from = id /\ h.to = Succ(id)}}
             IN /\ e.from[1] = e.to[1] /\ e.from[2] # e.to[2]
                /\ ~Get(N, e.from).is_stop
                /\ on \/ (Has(N, Prev(e.from)) /\ Has(N, Prev(e.to)))
                /\ Dot(tail(e.from), head(e.from), tail(e.to), head(e.to)) > 0
                /\ Has(N, Succ(e.from)) =>
                     (mark(e.from, left) \cup mark(e.to, ~left)) \cap Solid = {}
  BY DEF ChangesLegal, N
<1>4. PICK a, b \in N :
        /\ e = [from |-> a.id, to |-> b.id] /\ ~a.is_stop
        /\ Direction(N, a, b).same
        /\ passing_allowed(g, a, b, Direction(N, a, b).left)
        /\ a.id[1] = b.id[1] /\ b.id[2] \in {a.id[2] - 1, a.id[2] + 1}
  <2>1. N = g.nodes
    BY <1>1 DEF N
  <2> QED BY <1>1, <2>1, ImplicitJoins
<1> DEFINE on == Has(N, Succ(a.id)) /\ Has(N, Succ(b.id))
           back == Has(N, Prev(a.id)) /\ Has(N, Prev(b.id))
           Tail0(id) == Get(N, IF on THEN id ELSE Prev(id))
           Head0(id) == Get(N, IF on THEN Succ(id) ELSE id)
           left == Cross(Tail0(a.id), Head0(a.id), b) > 0
           mark(id, l) == {IF l THEN f.left ELSE f.right :
                             f \in {h \in ToSet(graph.edges) :
                                      h.from = id /\ h.to = Succ(id)}}
           d == Direction(N, a, b)
<1>5. e.from = a.id /\ e.to = b.id /\ Get(N, a.id) = a /\ Get(N, b.id) = b
  BY <1>3, <1>4
<1>6. a.id[1] = b.id[1] /\ a.id[2] # b.id[2]
  <2>1. a.id[2] \in Int
    BY <1>2 DEF Id
  <2> QED BY <1>4, <2>1
<1>7. /\ on \/ back
      /\ Dot(Tail0(a.id), Head0(a.id), Tail0(b.id), Head0(b.id)) > 0
      /\ d.left <=> left
  <2>1. CASE on
    <3> DEFINE a1 == Get(N, Succ(a.id))
               b1 == Get(N, Succ(b.id))
    <3>1. d = [same |-> Dot(a, a1, b, b1) > 0, left |-> Cross(a, a1, b) > 0]
      BY <2>1 DEF Direction
    <3>2. Tail0(a.id) = a /\ Tail0(b.id) = b /\ Head0(a.id) = a1 /\ Head0(b.id) = b1
      BY <1>5, <2>1
    <3>3. Dot(a, a1, b, b1) > 0 /\ (d.left <=> Cross(a, a1, b) > 0)
      <4> DEFINE P == Dot(a, a1, b, b1) > 0
                 Q == Cross(a, a1, b) > 0
      <4>1. d = [same |-> P, left |-> Q]
        BY <3>1
      <4>2. d.same
        BY <1>4
      <4> HIDE DEF P, Q, d
      <4>3. d.same = P /\ d.left = Q
        BY <4>1
      <4>4. P /\ (d.left <=> Q)
        BY <4>2, <4>3, Zenon
      <4> QED BY <4>4 DEF P, Q
    <3> HIDE DEF a1, b1, d, Tail0, Head0, on
    <3> QED BY <2>1, <3>2, <3>3
  <2>2. CASE ~on
    <3> DEFINE a1 == Get(N, Prev(a.id))
               b1 == Get(N, Prev(b.id))
    <3>1. back
      BY <1>4, <2>2 DEF Direction
    <3>2. d = [same |-> Dot(a, a1, b, b1) > 0, left |-> Cross(a, a1, b) < 0]
      BY <2>2, <3>1 DEF Direction
    <3>3. Tail0(a.id) = a1 /\ Tail0(b.id) = b1 /\ Head0(a.id) = a /\ Head0(b.id) = b
      BY <1>5, <2>2
    <3>4. Dot(a, a1, b, b1) > 0 /\ (d.left <=> Cross(a, a1, b) < 0)
      <4> DEFINE P == Dot(a, a1, b, b1) > 0
                 Q == Cross(a, a1, b) < 0
      <4>1. d = [same |-> P, left |-> Q]
        BY <3>2
      <4>2. d.same
        BY <1>4
      <4> HIDE DEF P, Q, d
      <4>3. d.same = P /\ d.left = Q
        BY <4>1
      <4>4. P /\ (d.left <=> Q)
        BY <4>2, <4>3, Zenon
      <4> QED BY <4>4 DEF P, Q
    <3>5. a1 \in N /\ b1 \in N
      BY <1>3, <3>1
    <3> HIDE DEF a1, b1, d, Tail0, Head0, on, back
    <3>6. /\ a.x \in Int /\ a.y \in Int /\ b.x \in Int /\ b.y \in Int
          /\ a1.x \in Int /\ a1.y \in Int /\ b1.x \in Int /\ b1.y \in Int
      BY <1>2, <3>5
    <3>7. /\ Dot(a1, a, b1, b) = Dot(a, a1, b, b1)
          /\ Cross(a1, a, b) > 0 <=> Cross(a, a1, b) < 0
      BY <3>6, PieceBefore
    <3> QED BY <3>1, <3>3, <3>4, <3>7
  <2> QED BY <2>1, <2>2
<1>8. ASSUME Has(N, Succ(a.id))
      PROVE  (mark(a.id, left) \cup mark(b.id, ~left)) \cap Solid = {}
  <2>1. \A f \in ToSet(graph.edges) :
          /\ f.from = a.id /\ f.to = Succ(a.id) =>
                (IF d.left THEN f.left ELSE f.right) \notin Solid
          /\ f.from = b.id /\ f.to = Succ(b.id) =>
                (IF d.left THEN f.right ELSE f.left) \notin Solid
    <3>1. N = g.nodes
      BY <1>1 DEF N
    <3> QED BY <1>1, <1>4, <1>8, <3>1 DEF passing_allowed
  <2> HIDE DEF d, left
  <2>2. \A x \in mark(a.id, left) : x \notin Solid
    BY <1>7, <2>1
  <2>3. \A x \in mark(b.id, ~left) : x \notin Solid
    BY <1>7, <2>1
  <2> HIDE DEF mark
  <2> QED BY <2>2, <2>3
<1> QED
  BY <1>4, <1>5, <1>6, <1>7, <1>8

\* A lane change the commander may plan stays in its segment, leads to a lane
\* that runs the same way and crosses no solid line
\* (Graph::find_implicit_edges), for all texts and damages.
THEOREM FilesChangesLegal ==
  FilesSpec => []ChangesLegal
<1>1. FilesInit => ParseInv /\ GraphInv
  BY ParseInit, GraphInit
<1>2. (ParseInv /\ GraphInv) /\ [FilesNext]_vars => (ParseInv /\ GraphInv)'
  BY ParseStep, GraphStep
<1>3. ParseInv /\ GraphInv => ChangesLegal
  BY Legal
<1> QED
  BY <1>1, <1>2, <1>3, PTL DEF FilesSpec

----------------------------------------------------------------------------
(* Part 6.  The mission and its file.                                      *)

\* The check-points of the mission (Mission::Mission).
LEMMA MissionType ==
  ASSUME NEW ids \in Seq(Int)
  PROVE  Mission(ids) \in Seq(Int)
<1> DEFINE n == Len(ids)
           places == [i \in DOMAIN ids |-> i]
           new == {i \in DOMAIN ids : i > 1 => ids[i] # ids[i - 1]}
           kept == Those(places, new)
<1>1. Mission(ids) = [j \in DOMAIN kept |-> ids[kept[j]]]
  BY DEF Mission
<1> DEFINE D == 1..n
<1>2. places \in [1..n -> D] /\ n \in Nat /\ \A i \in D : ids[i] \in Int
  OBVIOUS
<1> HIDE DEF places, new, n, D
<1>3. places \in Seq(D)
  BY <1>2, FunctionSeq
<1>4. kept \in Seq(D)
  BY <1>3, ThoseKeeps
<1> HIDE DEF kept
<1> DEFINE f == [j \in DOMAIN kept |-> ids[kept[j]]]
<1>5. f \in [1..Len(kept) -> Int] /\ Len(kept) \in Nat
  <2>1. \A j \in 1..Len(kept) : kept[j] \in D
    BY <1>4
  <2> QED BY <1>2, <1>4, <2>1
<1> HIDE DEF f
<1>6. f \in Seq(Int)
  BY <1>5, FunctionSeq
<1> QED
  BY <1>1, <1>6 DEF f

\* Every check-point of ids is the number of a node.
AllKnown(nodes, ids) ==
  \A i \in 1..Len(ids) : \E n \in nodes : n.checkpoint_id = ids[i]

\* The lengths tell whether a check-point is unknown, and if none is, every one
\* has its way-point (Mission::populate_elementid).
LEMMA ElementsAre ==
  ASSUME NEW nodes, NEW ids \in Seq(Int)
  PROVE  /\ Len(Elements(nodes, ids)) = Len(ids) => AllKnown(nodes, ids)
         /\ AllKnown(nodes, ids) =>
              Elements(nodes, ids) =
                [j \in 1..Len(ids) |-> WaypointOf(nodes, ids[j])]
<1> DEFINE P == {n.checkpoint_id : n \in nodes}
           known == Those(ids, P)
           f == [j \in DOMAIN known |-> WaypointOf(nodes, known[j])]
<1>1. Elements(nodes, ids) = f
  BY DEF Elements
<1>2. \A c : c \in P <=> \E n \in nodes : n.checkpoint_id = c
  OBVIOUS
<1> HIDE DEF P
<1>3. /\ known \in Seq(Int)
      /\ Len(known) = Len(ids) => \A j \in 1..Len(ids) : ids[j] \in P
  BY ThoseKeeps
<1>4. Len(f) = Len(known)
  <2> HIDE DEF known
  <2>1. Len(known) \in Nat /\ DOMAIN known = 1..Len(known)
    BY <1>3, LenProperties
  <2> DEFINE R == {f[j] : j \in 1..Len(known)}
  <2>2. f \in [1..Len(known) -> R]
    BY <2>1
  <2> HIDE DEF f, R
  <2> QED BY <2>1, <2>2, FunctionSeq
<1>5. ASSUME AllKnown(nodes, ids) PROVE known = ids
  <2>1. \A j \in 1..Len(ids) : ids[j] \in P
    BY <1>2, <1>5 DEF AllKnown
  <2> QED BY <2>1, ThoseAll
<1> HIDE DEF known
<1>6. ASSUME AllKnown(nodes, ids)
      PROVE  f = [j \in 1..Len(ids) |-> WaypointOf(nodes, ids[j])]
  <2>1. known = ids /\ DOMAIN ids = 1..Len(ids)
    BY <1>5, <1>6
  <2> QED BY <2>1
<1> QED
  BY <1>1, <1>2, <1>3, <1>4, <1>6 DEF AllKnown

\* The lines of the mission file, by their number.
LEMMA SavedLines ==
  ASSUME NEW n \in Nat, NEW m, m.ids \in Seq(Int), Len(m.ids) = n,
         NEW X, m.elems \in Seq(X), Len(m.elems) = n
  PROVE  LET s == Saved(m) IN
         /\ \E Y : s \in Seq(Y)
         /\ Len(s) = 2 * n + 2
         /\ s[1] = Line("MISSION-STATE", <<>>) /\ s[2] = Line("Number", <<n>>)
         /\ \A j \in 3..(n + 2) : s[j] = Line("Id", <<m.ids[j - 2]>>)
         /\ \A j \in (n + 3)..(2 * n + 2) :
              s[j] = Line("ElementID", m.elems[j - n - 2])
<1> DEFINE h == <<Line("MISSION-STATE", <<>>), Line("Number", <<n>>)>>
           idOf(i) == Line("Id", <<m.ids[i]>>)
           elOf(i) == Line("ElementID", m.elems[i])
           a == [i \in DOMAIN m.ids |-> idOf(i)]
           b == [i \in DOMAIN m.elems |-> elOf(i)]
           Y == {h[1], h[2]} \cup {idOf(i) : i \in 1..n} \cup {elOf(i) : i \in 1..n}
           s == Saved(m)
<1>1. s = h \o a \o b
  BY DEF Saved
<1>2. h \in Seq(Y) /\ Len(h) = 2
  OBVIOUS
<1>3. h[1] = Line("MISSION-STATE", <<>>) /\ h[2] = Line("Number", <<n>>)
  OBVIOUS
<1>4. /\ \A i \in 1..n : idOf(i) \in Y /\ elOf(i) \in Y
      /\ DOMAIN m.ids = 1..n /\ DOMAIN m.elems = 1..n
  <2>1. DOMAIN m.ids = 1..n /\ DOMAIN m.elems = 1..n
    BY LenProperties
  <2> HIDE DEF h, idOf, elOf
  <2> QED BY <2>1
<1> HIDE DEF h, Y, idOf, elOf
<1>5. /\ a \in [1..n -> Y] /\ b \in [1..n -> Y]
      /\ \A i \in 1..n : a[i] = idOf(i) /\ b[i] = elOf(i)
  BY <1>4
<1> HIDE DEF a, b, s
<1>6. a \in Seq(Y) /\ b \in Seq(Y) /\ Len(a) = n /\ Len(b) = n
  BY <1>5, FunctionSeq
<1> DEFINE u == h \o a
<1>61. /\ u \in Seq(Y) /\ Len(u) = n + 2
       /\ \A i \in 1..(n + 2) : u[i] = IF i <= 2 THEN h[i] ELSE a[i - 2]
  <2>1. /\ u \in Seq(Y) /\ Len(u) = Len(h) + Len(a)
        /\ \A i \in 1..(Len(h) + Len(a)) :
             u[i] = IF i <= Len(h) THEN h[i] ELSE a[i - Len(h)]
    BY <1>2, <1>6, ConcatProperties
  <2> HIDE DEF u
  <2> QED BY <1>2, <1>6, <2>1
<1> HIDE DEF u
<1>7. /\ s \in Seq(Y) /\ Len(s) = 2 * n + 2
      /\ \A i \in 1..(2 * n + 2) :
           s[i] = IF i <= n + 2 THEN u[i] ELSE b[i - (n + 2)]
  <2>1. s = u \o b
    BY <1>1 DEF u
  <2>2. /\ s \in Seq(Y) /\ Len(s) = Len(u) + Len(b)
        /\ \A i \in 1..(Len(u) + Len(b)) :
             s[i] = IF i <= Len(u) THEN u[i] ELSE b[i - Len(u)]
    BY <1>6, <1>61, <2>1, ConcatProperties
  <2>3. Len(u) = n + 2 /\ Len(b) = n /\ Len(u) + Len(b) = 2 * n + 2
    BY <1>6, <1>61
  <2> QED BY <2>2, <2>3
<1>8. s[1] = h[1] /\ s[2] = h[2]
  <2>1. 1 \in 1..(n + 2) /\ 2 \in 1..(n + 2) /\ 1 \in 1..(2 * n + 2) /\ 2 \in 1..(2 * n + 2)
    OBVIOUS
  <2> QED BY <1>61, <1>7, <2>1
<1>9. ASSUME NEW j \in 3..(n + 2) PROVE s[j] = idOf(j - 2)
  <2>1. s[j] = a[j - 2]
    <3>1. j \in 1..(n + 2) /\ j \in 1..(2 * n + 2) /\ ~(j <= 2) /\ j <= n + 2
      OBVIOUS
    <3> QED BY <1>61, <1>7, <3>1
  <2>2. j - 2 \in 1..n
    OBVIOUS
  <2> QED BY <1>5, <2>1, <2>2
<1>10. ASSUME NEW j \in (n + 3)..(2 * n + 2) PROVE s[j] = elOf(j - n - 2)
  <2>1. s[j] = b[j - n - 2]
    <3>1. j \in 1..(2 * n + 2) /\ ~(j <= n + 2) /\ j - (n + 2) = j - n - 2
      OBVIOUS
    <3> QED BY <1>7, <3>1
  <2>2. j - n - 2 \in 1..n
    OBVIOUS
  <2> QED BY <1>5, <2>1, <2>2
<1> QED
  BY <1>3, <1>7, <1>8, <1>9, <1>10 DEF s, idOf, elOf

\* A torn line keeps its token or has none.
LEMMA TornToken ==
  ASSUME NEW t, NEW a, NEW l \in Torn(Line(t, a))
  PROVE  l.t \in {"cut", t}
<1>1. CASE l \in {Line("cut", <<>>), Line(t, <<>>), Line(t, a)}
  BY <1>1 DEF Line
<1>2. CASE \E i : l = Line(t, SubSeq(a, 1, i))
  BY <1>2 DEF Line
<1>3. CASE \E g : l = [Line(t, a) EXCEPT !.a[Len(Line(t, a).a)] = g]
  BY <1>3 DEF Line
<1> QED
  BY <1>1, <1>2, <1>3 DEF Torn, Line

Full == Mission(mdf.checkpoint_ids)

\* The mission after k of its check-points.
Rest(full, nodes, k) ==
  LET ids == SubSeq(full, k + 1, Len(full))
  IN [ids |-> ids, elems |-> Elements(nodes, ids)]

\* d is what a crash during Mission::save may leave of the file, or all of it.
LeftOf(d, m) ==
  LET s == Saved(m) IN
  \/ \E i \in 0..Len(s) : d = SubSeq(s, 1, i)
  \/ \E i \in 1..Len(s) : \E l \in Torn(s[i]) : d = Append(SubSeq(s, 1, i - 1), l)

\* The file d holds the mission m, or it has not been written.
Holds(d, m) == d = <<>> \/ LeftOf(d, m)
\* A file that is left of m: it is m's as far as it goes, but for its last line,
\* which has its token or none.
LEMMA LeftLines ==
  ASSUME NEW n \in Nat, NEW m, m.ids \in Seq(Int), Len(m.ids) = n,
         NEW X, m.elems \in Seq(X), Len(m.elems) = n, NEW d, LeftOf(d, m)
  PROVE  LET s == Saved(m) IN
         /\ \E Y : d \in Seq(Y)
         /\ Len(d) \in 0..(2 * n + 2)
         /\ \A j \in 1..(Len(d) - 1) : d[j] = s[j]
         /\ Len(d) > 0 => d[Len(d)].t \in {"cut", s[Len(d)].t}
<1> DEFINE s == Saved(m)
<1>1. /\ \E Y : s \in Seq(Y)
      /\ Len(s) = 2 * n + 2
      /\ s[1] = Line("MISSION-STATE", <<>>) /\ s[2] = Line("Number", <<n>>)
      /\ \A j \in 3..(n + 2) : s[j] = Line("Id", <<m.ids[j - 2]>>)
      /\ \A j \in (n + 3)..(2 * n + 2) :
           s[j] = Line("ElementID", m.elems[j - n - 2])
  BY SavedLines
<1>2. \/ \E i \in 0..Len(s) : d = SubSeq(s, 1, i)
      \/ \E i \in 1..Len(s) : \E l \in Torn(s[i]) : d = Append(SubSeq(s, 1, i - 1), l)
  BY DEF LeftOf
<1> HIDE DEF s
<1>3. PICK Y : s \in Seq(Y)
  BY <1>1
<1>4. ASSUME NEW i \in 0..Len(s)
      PROVE  /\ SubSeq(s, 1, i) \in Seq(Y) /\ Len(SubSeq(s, 1, i)) = i
             /\ \A j \in 1..i : SubSeq(s, 1, i)[j] = s[j]
  BY <1>3
<1>5. ASSUME NEW j \in 1..Len(s) PROVE s[j] = Line(s[j].t, s[j].a)
  <2>0. \A t, a : Line(t, a) = Line(Line(t, a).t, Line(t, a).a)
    BY DEF Line
  <2>1. j = 1 \/ j = 2 \/ j \in 3..(n + 2) \/ j \in (n + 3)..(2 * n + 2)
    BY <1>1
  <2>2. CASE j = 1
    BY <1>1, <2>0, <2>2
  <2>3. CASE j = 2
    BY <1>1, <2>0, <2>3
  <2>4. CASE j \in 3..(n + 2)
    <3>1. PICK v : s[j] = Line("Id", v)
      BY <1>1, <2>4
    <3> QED BY <2>0, <3>1
  <2>5. CASE j \in (n + 3)..(2 * n + 2)
    <3>1. PICK v : s[j] = Line("ElementID", v)
      BY <1>1, <2>5
    <3> QED BY <2>0, <3>1
  <2> QED BY <2>1, <2>2, <2>3, <2>4, <2>5
<1>6. CASE \E i \in 0..Len(s) : d = SubSeq(s, 1, i)
  <2>1. PICK i \in 0..Len(s) : d = SubSeq(s, 1, i)
    BY <1>6
  <2>2. d \in Seq(Y) /\ Len(d) = i /\ \A j \in 1..i : d[j] = s[j]
    BY <1>4, <2>1
  <2>3. /\ Len(d) \in 0..(2 * n + 2)
        /\ \A j \in 1..(Len(d) - 1) : d[j] = s[j]
        /\ Len(d) > 0 => d[Len(d)].t \in {"cut", s[Len(d)].t}
    BY <1>1, <2>2
  <2>4. \E V : d \in Seq(V)
    BY <2>2
  <2> QED BY <2>3, <2>4 DEF s
<1>7. CASE \E i \in 1..Len(s) : \E l \in Torn(s[i]) : d = Append(SubSeq(s, 1, i - 1), l)
  <2>1. PICK i \in 1..Len(s) : \E l \in Torn(s[i]) : d = Append(SubSeq(s, 1, i - 1), l)
    BY <1>7
  <2>2. PICK l \in Torn(s[i]) : d = Append(SubSeq(s, 1, i - 1), l)
    BY <2>1
  <2> DEFINE u == SubSeq(s, 1, i - 1)
             Z == Y \cup {l}
  <2>3. i - 1 \in 0..Len(s) /\ Len(s) \in Nat
    BY <1>1
  <2>4. u \in Seq(Y) /\ Len(u) = i - 1 /\ \A j \in 1..(i - 1) : u[j] = s[j]
    BY <1>4, <2>3
  <2> HIDE DEF u
  <2>5. u \in Seq(Z) /\ l \in Z
    BY <2>4, SeqMonotonic
  <2> HIDE DEF Z
  <2>6. d \in Seq(Z) /\ Len(d) = i /\ d[i] = l /\ \A j \in 1..(i - 1) : d[j] = u[j]
    BY <2>2, <2>4, <2>5 DEF u
  <2>8. l.t \in {"cut", s[i].t}
    <3>1. l \in Torn(Line(s[i].t, s[i].a))
      BY <1>5
    <3> QED BY <3>1, TornToken
  <2>9. /\ Len(d) \in 0..(2 * n + 2)
        /\ \A j \in 1..(Len(d) - 1) : d[j] = s[j]
        /\ Len(d) > 0 => d[Len(d)].t \in {"cut", s[Len(d)].t}
    BY <1>1, <2>4, <2>6, <2>8
  <2>10. \E V : d \in Seq(V)
    BY <2>6
  <2> QED BY <2>9, <2>10 DEF s
<1> QED
  BY <1>2, <1>6, <1>7

\* The nodes of a graph: one for each element id.
OneEach(nodes) ==
  /\ \A n \in nodes : n.index \in Int
  /\ \A m, n \in nodes : m.id = n.id => m = n

\* The nodes of check-point c, and there are some, have the element id id.
Sole(nodes, c, id) ==
  /\ \E n \in nodes : n.checkpoint_id = c
  /\ \A n \in nodes : n.checkpoint_id = c => id = n.id

\* A check-point whose nodes all have one id has that way-point.
LEMMA WaypointIs ==
  ASSUME NEW nodes, OneEach(nodes), NEW c, NEW id, Sole(nodes, c, id)
  PROVE  WaypointOf(nodes, c) = id
<1> DEFINE N == {n \in nodes : n.checkpoint_id = c}
<1>1. PICK n \in nodes : n.checkpoint_id = c
  BY DEF Sole
<1>2. n.id = id /\ \A m \in N : m = n
  BY <1>1 DEF OneEach, Sole
<1>3. n \in N /\ \A m \in N : n.index <= m.index
  BY <1>1, <1>2 DEF OneEach
<1>4. WaypointOf(nodes, c) = (CHOOSE x \in N : \A m \in N : x.index <= m.index).id
  BY DEF WaypointOf
<1> HIDE DEF N
<1>5. (CHOOSE x \in N : \A m \in N : x.index <= m.index) \in N
  BY <1>3
<1> QED
  BY <1>1, <1>2, <1>4, <1>5

\* Mission::load gives back the mission of the file or refuses it.
LEMMA LoadIsRest ==
  ASSUME NEW nodes, OneEach(nodes), NEW ids \in Seq(Int), AllKnown(nodes, ids),
         NEW m, m.ids = ids, m.elems = Elements(nodes, ids),
         NEW d, LeftOf(d, m), NEW x \in load(d, nodes)
  PROVE  x = [ids |-> ids, elems |-> Elements(nodes, ids)]
<1> DEFINE n == Len(ids)
           el == [j \in 1..n |-> WaypointOf(nodes, ids[j])]
           s == Saved(m)
           p == Len(d)
           I == LinesOf(d, "Id")
           E == LinesOf(d, "ElementID")
<1>1. m.ids = ids /\ m.elems = el /\ n \in Nat /\ el = Elements(nodes, ids)
  BY ElementsAre
<1>2. \E X : el \in Seq(X) /\ Len(el) = n
  <2> DEFINE X == {WaypointOf(nodes, ids[j]) : j \in 1..n}
  <2>1. el \in [1..n -> X] /\ n \in Nat
    OBVIOUS
  <2> HIDE DEF X, el, n
  <2>2. el \in Seq(X) /\ Len(el) = n
    BY <2>1, FunctionSeq
  <2> QED BY <2>2
<1>3. \A j \in 1..n : el[j] = WaypointOf(nodes, ids[j])
  OBVIOUS
<1>31. el = [j \in 1..n |-> el[j]]
  OBVIOUS
<1>32. \A j \in 1..n : \E v \in nodes : v.checkpoint_id = ids[j]
  BY DEF AllKnown
<1> HIDE DEF n, el
<1>4. PICK X : /\ m.ids \in Seq(Int) /\ Len(m.ids) = n
               /\ m.elems \in Seq(X) /\ Len(m.elems) = n
  BY <1>1, <1>2 DEF n
<1>5. /\ Len(s) = 2 * n + 2 /\ s[1] = Line("MISSION-STATE", <<>>)
      /\ s[2] = Line("Number", <<n>>)
      /\ \A j \in 3..(n + 2) : s[j] = Line("Id", <<m.ids[j - 2]>>)
      /\ \A j \in (n + 3)..(2 * n + 2) : s[j] = Line("ElementID", m.elems[j - n - 2])
  BY <1>1, <1>4, SavedLines
<1>6. /\ \E Y : d \in Seq(Y)
      /\ p \in 0..(2 * n + 2)
      /\ \A j \in 1..(p - 1) : d[j] = s[j]
      /\ p > 0 => d[p].t \in {"cut", s[p].t}
  BY <1>1, <1>4, LeftLines
<1> HIDE DEF s
<1>7. PICK Y : d \in Seq(Y)
  BY <1>6
<1>8. /\ x.ids \in Values(d, "Id") /\ x = [ids |-> x.ids, elems |-> x.elems]
      /\ x.elems = [i \in DOMAIN E |-> ElementOf(E[i])]
      /\ p >= 4
      /\ \A i \in 3..p : d[i].t \in {"Id", "ElementID"}
      /\ Len(x.ids) \in Ints(d[2]) /\ Len(x.elems) \in Ints(d[2])
      /\ \A j \in DOMAIN x.ids : \A v \in nodes :
           v.checkpoint_id = x.ids[j] => x.elems[j] = v.id
  BY DEF load
<1> HIDE DEF p
<1>9. Len(x.ids) = n /\ Len(x.elems) = n
  <2>1. 2 \in 1..(p - 1)
    BY <1>1, <1>6, <1>8
  <2>2. d[2] = Line("Number", <<n>>)
    BY <1>5, <1>6, <2>1
  <2>3. Ints(d[2]) = {n}
    BY <2>2 DEF Ints, Line
  <2> QED BY <1>8, <2>3
<1>10. /\ \A j \in 1..p : d[j].t = "Id" <=> (2 < j /\ j <= n + 2)
       /\ \A j \in 1..p : d[j].t = "ElementID" <=> (n + 2 < j)
  <2>1. ASSUME NEW j \in 1..p PROVE d[j].t = s[j].t
    <3>1. CASE j < p
      <4>1. j \in 1..(p - 1)
        BY <1>6, <3>1
      <4> QED BY <1>6, <4>1
    <3>2. CASE j = p
      <4>1. p \in 3..p /\ p > 0
        BY <1>6, <1>8
      <4>2. d[p].t \in {"Id", "ElementID"} /\ d[p].t \in {"cut", s[p].t}
        BY <1>6, <1>8, <4>1
      <4> QED BY <3>2, <4>2
    <3> QED BY <1>6, <3>1, <3>2
  <2>2. \A j \in 1..p : j = 1 \/ j = 2 \/ j \in 3..(n + 2) \/ j \in (n + 3)..(2 * n + 2)
    BY <1>1, <1>6
  <2>3. ASSUME NEW j \in 1..p
        PROVE  /\ s[j].t = "Id" <=> (2 < j /\ j <= n + 2)
               /\ s[j].t = "ElementID" <=> (n + 2 < j)
    <3>0. \A t, a : Line(t, a).t = t
      BY DEF Line
    <3>1. CASE j = 1
      BY <1>1, <1>5, <3>0, <3>1
    <3>2. CASE j = 2
      BY <1>1, <1>5, <3>0, <3>2
    <3>3. CASE j \in 3..(n + 2)
      <4>1. s[j].t = "Id"
        BY <1>5, <3>0, <3>3
      <4> QED BY <1>1, <3>3, <4>1
    <3>4. CASE j \in (n + 3)..(2 * n + 2)
      <4>1. s[j].t = "ElementID"
        BY <1>5, <3>0, <3>4
      <4> QED BY <1>1, <3>4, <4>1
    <3> QED BY <2>2, <3>1, <3>2, <3>3, <3>4
  <2> QED BY <2>1, <2>3
<1>11. PICK b \in Nat : b = IF p <= n + 2 THEN p ELSE n + 2
  BY <1>1, <1>6
<1>12. PICK a \in Nat : a = 2
  OBVIOUS
<1>13. \A t : \A j \in 1..Len(d) : d[j] \in {l \in ToSet(d) : l.t = t} <=> d[j].t = t
  BY <1>7 DEF ToSet
<1>14. /\ I \in Seq(Y) /\ Len(I) = b - a /\ \A j \in 1..(b - a) : I[j] = d[a + j]
  <2> DEFINE P == {l \in ToSet(d) : l.t = "Id"}
  <2>1. Together(d, P, a, b)
    <3>1. \A j \in 1..p : d[j] \in P <=> d[j].t = "Id"
      BY <1>13 DEF p
    <3> HIDE DEF P
    <3>2. \A j \in 1..p : (2 < j /\ j <= n + 2) <=> (a < j /\ j <= b)
      BY <1>1, <1>6, <1>11, <1>12
    <3>3. a <= b /\ b <= p
      BY <1>1, <1>6, <1>8, <1>11, <1>12
    <3> QED BY <1>10, <3>1, <3>2, <3>3 DEF p, Together
  <2>2. I = Those(d, P)
    BY DEF LinesOf
  <2> HIDE DEF P, I, E
  <2>3. Those(d, P) \in Seq(Y) /\ Len(Those(d, P)) = b - a
    BY <1>7, <2>1, ThosePiece
  <2>4. ASSUME NEW j \in 1..(b - a) PROVE Those(d, P)[j] = d[a + j]
    BY <1>7, <2>1, ThosePiece
  <2> QED BY <2>2, <2>3, <2>4
<1>15. E \in Seq(Y) /\ Len(E) = p - b
  <2> DEFINE P == {l \in ToSet(d) : l.t = "ElementID"}
  <2>0. PICK c \in Nat : c = p
    BY <1>6
  <2>1. Together(d, P, b, c)
    <3>1. \A j \in 1..p : d[j] \in P <=> d[j].t = "ElementID"
      BY <1>13 DEF p
    <3> HIDE DEF P
    <3>2. \A j \in 1..p : n + 2 < j <=> (b < j /\ j <= c)
      BY <1>1, <1>6, <1>11, <2>0
    <3>3. b <= c /\ c <= p
      BY <1>1, <1>6, <1>11, <2>0
    <3> QED BY <1>10, <3>1, <3>2, <3>3 DEF p, Together
  <2>2. E = Those(d, P)
    BY DEF LinesOf
  <2> HIDE DEF P, E
  <2>3. E \in Seq(Y) /\ Len(E) = c - b
    BY <1>7, <2>1, <2>2, ThosePiece
  <2> QED BY <2>0, <2>3
<1> HIDE DEF I, E
<1>16. Len(x.elems) = Len(E)
  <2> DEFINE f == [i \in 1..Len(E) |-> ElementOf(E[i])]
             R == {ElementOf(E[i]) : i \in 1..Len(E)}
  <2>1. DOMAIN E = 1..Len(E) /\ Len(E) \in Nat
    BY <1>15
  <2>2. x.elems = f
    BY <1>8, <2>1
  <2>3. f \in [1..Len(E) -> R]
    OBVIOUS
  <2> HIDE DEF f, R
  <2>4. Len(f) = Len(E)
    BY <2>1, <2>3, FunctionSeq
  <2> QED BY <2>2, <2>4
<1>17. p = 2 * n + 2 /\ n > 0 /\ b = n + 2
  <2>1. p - b = n
    BY <1>9, <1>15, <1>16
  <2>2. p \in 0..(2 * n + 2) /\ p >= 4 /\ n \in Nat
    BY <1>1, <1>6, <1>8
  <2> QED BY <1>11, <2>1, <2>2
<1>18. \A j \in 1..n : I[j] = Line("Id", <<ids[j]>>)
  <2> SUFFICES ASSUME NEW j \in 1..n PROVE I[j] = Line("Id", <<ids[j]>>)
    OBVIOUS
  <2>1. j \in 1..(b - a) /\ a + j = j + 2 /\ j + 2 \in 1..(p - 1) /\ j + 2 \in 3..(n + 2)
        /\ j + 2 - 2 = j
    BY <1>1, <1>12, <1>17
  <2>2. I[j] = d[j + 2]
    BY <1>14, <2>1
  <2>3. d[j + 2] = s[j + 2]
    BY <1>6, <2>1
  <2>4. s[j + 2] = Line("Id", <<m.ids[j + 2 - 2]>>)
    BY <1>5, <2>1
  <2> QED BY <1>1, <2>1, <2>2, <2>3, <2>4
<1>19. x.ids = ids
  <2>1. DOMAIN I = 1..n
    BY <1>1, <1>12, <1>14, <1>17
  <2>2. /\ x.ids = [i \in DOMAIN I |-> x.ids[i]]
        /\ \A i \in DOMAIN I : x.ids[i] \in Ints(I[i])
    BY <1>8 DEF Values, I
  <2>3. ASSUME NEW i \in 1..n PROVE Ints(I[i]) = {ids[i]}
    <3>0. \A t, v : Line(t, v).a = v
      BY DEF Line
    <3>1. I[i].a = <<ids[i]>>
      BY <1>18, <3>0
    <3>2. I[i].a # <<>> /\ I[i].a[1] = ids[i]
      BY <3>1
    <3> QED BY <3>2 DEF Ints
  <2>4. \A i \in 1..n : x.ids[i] = ids[i]
    BY <2>1, <2>2, <2>3
  <2>5. ids = [i \in 1..n |-> ids[i]]
    BY DEF n
  <2> QED BY <2>1, <2>2, <2>4, <2>5
<1>20. x.elems = el
  <2>1. DOMAIN x.ids = 1..n
    BY <1>19 DEF n
  <2>2. ASSUME NEW j \in 1..n PROVE x.elems[j] = el[j]
    <3>1. \A v \in nodes : v.checkpoint_id = ids[j] => x.elems[j] = v.id
      BY <1>8, <1>19, <2>1
    <3>2. Sole(nodes, ids[j], x.elems[j])
      BY <1>32, <3>1 DEF Sole
    <3>3. WaypointOf(nodes, ids[j]) = x.elems[j]
      BY <3>2, WaypointIs
    <3> QED BY <1>3, <3>3
  <2>3. x.elems = [j \in 1..n |-> x.elems[j]]
    <3>1. DOMAIN E = 1..n
      BY <1>9, <1>15, <1>16
    <3> QED BY <1>8, <3>1
  <2> QED BY <1>31, <2>2, <2>3
<1> QED
  BY <1>1, <1>8, <1>19, <1>20


\* The mission is known to the graph, and it and its file are never more than
\* one check-point behind.
MissionInv ==
  LET R(k) == Rest(Full, graph.nodes, k) IN
  /\ phase \in {"rndf", "mdf", "build"} => disk = <<>> /\ reached = 0
  /\ phase \in {"run", "saving", "down"} =>
       reached \in 0..Len(Full) /\ AllKnown(graph.nodes, Full)
  /\ phase = "run" =>
       \E k \in {reached - 1, reached} \cap Nat : mission = R(k) /\ Holds(disk, R(k))
  /\ phase = "saving" =>
       reached > 0 /\ mission = R(reached) /\ Holds(disk, R(reached - 1))
  /\ phase = "down" => \E k \in {reached - 1, reached} \cap Nat : Holds(disk, R(k))

\* What is left of the mission after k check-points.
LEMMA RestIs ==
  ASSUME NEW nodes, NEW full \in Seq(Int), AllKnown(nodes, full),
         NEW k \in 0..Len(full)
  PROVE  /\ Rest(full, nodes, k).ids \in Seq(Int)
         /\ Len(Rest(full, nodes, k).ids) = Len(full) - k
         /\ \A j \in 1..(Len(full) - k) : Rest(full, nodes, k).ids[j] = full[k + j]
         /\ AllKnown(nodes, Rest(full, nodes, k).ids)
         /\ Rest(full, nodes, k).elems =
              [j \in 1..(Len(full) - k) |-> WaypointOf(nodes, full[k + j])]
         /\ Rest(full, nodes, k) = [ids |-> Rest(full, nodes, k).ids,
                       elems |-> Elements(nodes, Rest(full, nodes, k).ids)]
<1> DEFINE n == Len(full)
           r == SubSeq(full, k + 1, n)
<1>1. Rest(full, nodes, k) = [ids |-> r, elems |-> Elements(nodes, r)]
  BY DEF Rest
<1>2. n \in Nat /\ \A i \in (k + 1)..n : full[i] \in Int
  OBVIOUS
<1>3. /\ r \in Seq(Int) /\ Len(r) = n - k
      /\ \A j \in 1..(n - k) : r[j] = full[k + j]
  <2>1. /\ r \in Seq(Int)
        /\ Len(r) = IF k + 1 <= n THEN n - (k + 1) + 1 ELSE 0
        /\ \A j \in 1..(n - (k + 1) + 1) : r[j] = full[(k + 1) + j - 1]
    BY <1>2, SubSeqProperties
  <2> HIDE DEF r
  <2>2. n - (k + 1) + 1 = n - k /\ Len(r) = n - k
    BY <1>2, <2>1
  <2>3. \A j \in 1..(n - k) : (k + 1) + j - 1 = k + j
    BY <1>2
  <2> QED BY <2>1, <2>2, <2>3
<1> HIDE DEF r
<1>4. AllKnown(nodes, r)
  <2>1. ASSUME NEW j \in 1..(n - k)
        PROVE  \E v \in nodes : v.checkpoint_id = r[j]
    <3>1. k + j \in 1..n /\ r[j] = full[k + j]
      BY <1>2, <1>3
    <3> QED BY <3>1 DEF AllKnown
  <2> QED BY <1>3, <2>1 DEF AllKnown
<1>5. Elements(nodes, r) = [j \in 1..Len(r) |-> WaypointOf(nodes, r[j])]
  BY <1>3, <1>4, ElementsAre
<1>6. Elements(nodes, r) =
        [j \in 1..(n - k) |-> WaypointOf(nodes, full[k + j])]
  BY <1>3, <1>5
<1>7. Rest(full, nodes, k).ids = r /\ Rest(full, nodes, k).elems = Elements(nodes, r)
  BY <1>1
<1> QED
  BY <1>1, <1>3, <1>4, <1>6, <1>7

\* One check-point less (Mission::nextPoint).
LEMMA RestTail ==
  ASSUME NEW nodes, NEW full \in Seq(Int), AllKnown(nodes, full),
         NEW k \in 0..Len(full), k < Len(full)
  PROVE  [ids |-> Tail(Rest(full, nodes, k).ids),
          elems |-> Tail(Rest(full, nodes, k).elems)] 
         = Rest(full, nodes, k + 1)
<1>0. PICK q \in 0..Len(full) : q = k + 1
  OBVIOUS
<1> SUFFICES [ids |-> Tail(Rest(full, nodes, k).ids),
              elems |-> Tail(Rest(full, nodes, k).elems)] = Rest(full, nodes, q)
  BY <1>0
<1> DEFINE n == Len(full)
           u == Rest(full, nodes, k)
           v == Rest(full, nodes, q)
<1>1. k \in 0..n /\ n \in Nat /\ q \in Nat /\ q = k + 1 /\ q =< n
  BY <1>0
<1>2. /\ u.ids \in Seq(Int) /\ Len(u.ids) = n - k
      /\ \A j \in 1..(n - k) : u.ids[j] = full[k + j]
      /\ u.elems = [j \in 1..(n - k) |-> WaypointOf(nodes, full[k + j])]
  BY RestIs
<1>3. /\ v.ids \in Seq(Int) /\ Len(v.ids) = n - q
      /\ \A j \in 1..(n - q) : v.ids[j] = full[q + j]
      /\ v.elems = [j \in 1..(n - q) |-> WaypointOf(nodes, full[q + j])]
  BY RestIs
<1>6. v = [ids |-> v.ids, elems |-> v.elems]
  BY DEF Rest
<1> HIDE DEF u, v
<1>4. Tail(u.ids) = v.ids
  <2> DEFINE t == Tail(u.ids)
  <2>1. u.ids # <<>>
    BY <1>1, <1>2
  <2>2. /\ t \in Seq(Int) /\ Len(t) = n - k - 1
        /\ \A i \in 1..Len(t) : t[i] = u.ids[i + 1]
    BY <1>2, <2>1, HeadTailProperties
  <2> HIDE DEF t
  <2>3. ASSUME NEW i \in 1..Len(t) PROVE t[i] = v.ids[i]
    <3>1. i + 1 \in 1..(n - k) /\ i \in 1..(n - q) /\ k + (i + 1) = q + i
      BY <1>1, <2>2
    <3>2. t[i] = u.ids[i + 1]
      BY <2>2
    <3>3. u.ids[i + 1] = full[k + (i + 1)]
      BY <1>2, <3>1
    <3>4. v.ids[i] = full[q + i]
      BY <1>3, <3>1
    <3> QED BY <3>1, <3>2, <3>3, <3>4
  <2>4. Len(t) = Len(v.ids)
    BY <1>1, <1>3, <2>2
  <2>5. t = v.ids
    BY <1>3, <2>2, <2>3, <2>4, SeqEqual
  <2> QED BY <2>5 DEF t
<1>5. Tail(u.elems) = v.elems
  <2> DEFINE t == Tail(u.elems)
             W(i) == WaypointOf(nodes, full[i])
             X == {W(i) : i \in 1..n}
  <2>1. \A i \in 1..n : W(i) \in X
    OBVIOUS
  <2>2. u.elems = [j \in 1..(n - k) |-> W(k + j)]
        /\ v.elems = [j \in 1..(n - q) |-> W(q + j)]
    BY <1>2, <1>3
  <2> HIDE DEF t, W, X
  <2>3. u.elems \in [1..(n - k) -> X] /\ n - k \in Nat
    BY <1>1, <2>1, <2>2
  <2>4. v.elems \in [1..(n - q) -> X] /\ n - q \in Nat
    BY <1>1, <2>1, <2>2
  <2>5. u.elems \in Seq(X) /\ Len(u.elems) = n - k
    BY <2>3, FunctionSeq
  <2>6. v.elems \in Seq(X) /\ Len(v.elems) = n - q
    BY <2>4, FunctionSeq
  <2>7. u.elems # <<>>
    BY <1>1, <2>5
  <2>8. /\ t \in Seq(X) /\ Len(t) = n - k - 1
        /\ \A i \in 1..Len(t) : t[i] = u.elems[i + 1]
    BY <2>5, <2>7, HeadTailProperties DEF t
  <2>9. ASSUME NEW i \in 1..Len(t) PROVE t[i] = v.elems[i]
    <3>1. i + 1 \in 1..(n - k) /\ i \in 1..(n - q) /\ k + (i + 1) = q + i
      BY <1>1, <2>8
    <3>2. u.elems[i + 1] = W(k + (i + 1)) /\ v.elems[i] = W(q + i)
      BY <2>2, <3>1
    <3> QED BY <2>8, <3>1, <3>2
  <2>10. Len(t) = Len(v.elems)
    BY <1>1, <2>6, <2>8
  <2>11. t = v.elems
    BY <2>6, <2>8, <2>9, <2>10, SeqEqual
  <2> QED BY <2>11 DEF t
<1> QED
  BY <1>4, <1>5, <1>6 DEF u, v

\* The nodes of the commander's graph differ in their ids.
LEMMA GraphNodes ==
  ParseInv /\ GraphInv => OneEach(graph.nodes) /\ Full \in Seq(Int)
<1> SUFFICES ASSUME ParseInv, GraphInv
             PROVE  OneEach(graph.nodes) /\ Full \in Seq(Int)
  OBVIOUS
<1>1. Full \in Seq(Int)
  <2>1. mdf.checkpoint_ids \in Seq(Int)
    BY DEF ParseInv, BuiltTypes, MdfType
  <2> QED BY <2>1, MissionType DEF Full
<1>2. CASE graph = NoGraph
  BY <1>1, <1>2 DEF OneEach, NoGraph
<1>3. CASE graph # NoGraph
  <2>1. graph.nodes \subseteq Nodes(rndf.segments, rndf.zones)
    BY <1>3, GraphOf
  <2>2. rndf.segments \in Seq(SegmentType) /\ rndf.zones \in Seq(ZoneType)
    BY <1>3, GraphOf
  <2> QED BY <1>1, <2>1, <2>2, NodesType DEF OneEach
<1> QED
  BY <1>2, <1>3

\* The greater of two numbers.
LEMMA MaxOfTwo ==
  ASSUME NEW a \in Int, NEW b \in Int
  PROVE  Max({a, b}) = IF a >= b THEN a ELSE b
BY DEF Max

\* The whole file is among what may be left of it.
LEMMA SavedLeft ==
  ASSUME NEW nodes, NEW full \in Seq(Int), AllKnown(nodes, full),
         NEW k \in 0..Len(full), NEW m, m = Rest(full, nodes, k)
  PROVE  LeftOf(Saved(m), m)
<1> DEFINE n == Len(full) - k
           W(j) == WaypointOf(nodes, full[k + j])
           X == {W(j) : j \in 1..n}
           s == Saved(m)
<1>1. /\ m.ids \in Seq(Int) /\ Len(m.ids) = n /\ n \in Nat
      /\ m.elems = [j \in 1..n |-> W(j)]
  <2>1. n \in Nat
    OBVIOUS
  <2>2. /\ Rest(full, nodes, k).ids \in Seq(Int)
        /\ Len(Rest(full, nodes, k).ids) = n
        /\ Rest(full, nodes, k).elems = [j \in 1..n |-> W(j)]
    BY RestIs
  <2> QED BY <2>1, <2>2
<1>2. m.elems \in [1..n -> X]
  BY <1>1
<1> HIDE DEF n, X, W
<1>3. m.elems \in Seq(X) /\ Len(m.elems) = n
  BY <1>1, <1>2, FunctionSeq
<1>4. (\E Y : s \in Seq(Y)) /\ Len(s) = 2 * n + 2
  BY <1>1, <1>3, SavedLines
<1> HIDE DEF s
<1>5. PICK Y : s \in Seq(Y)
  BY <1>4
<1>6. s = SubSeq(s, 1, Len(s))
  BY <1>5, SubSeqFull
<1>7. Len(s) \in 0..Len(s)
  BY <1>5
<1> QED
  BY <1>6, <1>7 DEF LeftOf, s

\* At first there is no mission and no file.
LEMMA MissionInit ==
  FilesInit => MissionInv
BY DEF FilesInit, MissionInv

\* Every step keeps the mission and its file together.
LEMMA MissionStep ==
  ParseInv /\ GraphInv /\ MissionInv /\ [FilesNext]_vars => MissionInv'
<1> SUFFICES ASSUME ParseInv, GraphInv, MissionInv, [FilesNext]_vars
             PROVE  MissionInv'
  OBVIOUS
<1> DEFINE R(k) == Rest(Full, graph.nodes, k)
<1>0. OneEach(graph.nodes) /\ Full \in Seq(Int)
  BY GraphNodes
<1>1. CASE Reading
  BY <1>1, ReadingFrame DEF MissionInv
<1>2. CASE build_graph
  <2>1. /\ phase = "build" /\ phase' \in {"refused", "crashed", "run"}
        /\ UNCHANGED <<mdf, disk, reached>>
    BY <1>2 DEF build_graph, Dies, Exits, runVars
  <2>2. disk' = <<>> /\ reached' = 0 /\ Full' = Full
    BY <2>1 DEF MissionInv, Full
  <2>3. CASE phase' = "run"
    <3> DEFINE el == Elements(graph'.nodes, Full)
    <3>1. mission' = [ids |-> Full, elems |-> el] /\ Len(el) = Len(Full)
      BY <1>2, <2>3 DEF build_graph, Dies, Exits, Full
    <3>2. AllKnown(graph'.nodes, Full)
      BY <1>0, <3>1, ElementsAre
    <3>3. SubSeq(Full, 0 + 1, Len(Full)) = Full
      BY <1>0, SubSeqFull
    <3>4. Rest(Full, graph'.nodes, 0) = [ids |-> Full, elems |-> el]
      BY <3>3 DEF Rest
    <3>5. mission' = Rest(Full', graph'.nodes, 0)
          /\ Holds(disk', Rest(Full', graph'.nodes, 0))
      BY <2>2, <3>1, <3>4 DEF Holds
    <3>6. 0 \in {reached' - 1, reached'} \cap Nat /\ reached' \in 0..Len(Full')
      BY <1>0, <2>2
    <3> HIDE DEF el
    <3> QED BY <2>2, <2>3, <3>2, <3>5, <3>6 DEF MissionInv
  <2> QED BY <2>1, <2>2, <2>3 DEF MissionInv
<1>3. CASE next_checkpoint
  <2>1. /\ phase = "run" /\ phase' = "saving" /\ mission.ids # <<>>
        /\ mission' = [ids |-> Tail(mission.ids), elems |-> Tail(mission.elems)]
        /\ reached' = Max({reached, Passed(mission'.ids)})
        /\ UNCHANGED <<mdf, graph, disk>>
    BY <1>3 DEF next_checkpoint
  <2>2. reached \in 0..Len(Full) /\ AllKnown(graph.nodes, Full)
    BY <2>1 DEF MissionInv
  <2>3. PICK k \in {reached - 1, reached} \cap Nat : mission = R(k) /\ Holds(disk, R(k))
    BY <2>1 DEF MissionInv
  <2>4. k \in 0..Len(Full) /\ Len(Full) \in Nat /\ reached \in Nat
    BY <1>0, <2>2, <2>3
  <2>5. k < Len(Full)
    <3>1. R(k).ids \in Seq(Int) /\ Len(R(k).ids) = Len(Full) - k
      BY <1>0, <2>2, <2>4, RestIs
    <3> QED BY <2>1, <2>3, <2>4, <3>1
  <2>6. mission' = R(k + 1)
    BY <1>0, <2>1, <2>2, <2>3, <2>4, <2>5, RestTail
  <2>7. Passed(mission'.ids) = k + 1
    <3>1. k + 1 \in 0..Len(Full)
      BY <2>4, <2>5
    <3>2. Len(R(k + 1).ids) = Len(Full) - (k + 1)
      BY <1>0, <2>2, <3>1, RestIs
    <3>3. Passed(mission'.ids) = Len(Full) - Len(mission'.ids)
      BY DEF Passed, Full
    <3> QED BY <2>4, <2>6, <3>2, <3>3
  <2>8. reached' = k + 1
    <3>1. reached' = Max({reached, k + 1})
      BY <2>1, <2>7
    <3>2. Max({reached, k + 1}) = IF reached >= k + 1 THEN reached ELSE k + 1
      BY <2>4, MaxOfTwo
    <3> QED BY <2>3, <2>4, <3>1, <3>2
  <2>9. Full' = Full /\ graph' = graph /\ disk' = disk
    BY <2>1 DEF Full
  <2>10. reached' > 0 /\ reached' \in 0..Len(Full) /\ reached' - 1 = k
    BY <2>4, <2>5, <2>8
  <2>11. mission' = R(reached') /\ Holds(disk, R(reached' - 1))
    BY <2>3, <2>6, <2>8, <2>10
  <2> QED
    BY <2>1, <2>2, <2>9, <2>10, <2>11 DEF MissionInv
<1>4. CASE save
  <2>1. /\ phase = "saving" /\ phase' = "run" /\ disk' = Saved(mission)
        /\ UNCHANGED <<mdf, graph, mission, reached>>
    BY <1>4 DEF save
  <2>2. /\ reached \in 0..Len(Full) /\ AllKnown(graph.nodes, Full)
        /\ mission = R(reached)
    BY <2>1 DEF MissionInv
  <2>3. Full' = Full
    BY <2>1 DEF Full
  <2>4. LeftOf(Saved(mission), mission)
    BY <1>0, <2>2, SavedLeft
  <2>5. Holds(disk', R(reached)) /\ mission' = R(reached)
    BY <2>1, <2>2, <2>4 DEF Holds
  <2>6. reached \in {reached - 1, reached} \cap Nat
    BY <2>2
  <2> QED
    BY <2>1, <2>2, <2>3, <2>5, <2>6 DEF MissionInv
<1>5. CASE Crash
  <2>1. /\ phase \in {"run", "saving"} /\ phase' = "down"
        /\ UNCHANGED <<mdf, graph, reached>>
        /\ disk' = disk \/ (phase = "saving" /\ LeftOf(disk', mission))
    BY <1>5 DEF Crash, LeftOf
  <2>2. Full' = Full
    BY <2>1 DEF Full
  <2>3. reached \in 0..Len(Full) /\ AllKnown(graph.nodes, Full)
    BY <2>1 DEF MissionInv
  <2>4. \E k \in {reached - 1, reached} \cap Nat : Holds(disk', R(k))
    <3>1. CASE phase = "run"
      BY <2>1, <3>1 DEF MissionInv
    <3>2. CASE phase = "saving" /\ disk' = disk
      <4>1. reached - 1 \in Nat /\ Holds(disk, R(reached - 1))
        BY <1>0, <2>3, <3>2 DEF MissionInv
      <4> QED BY <3>2, <4>1
    <3>3. CASE phase = "saving" /\ LeftOf(disk', mission)
      <4>1. mission = R(reached) /\ reached \in Nat
        BY <1>0, <2>3, <3>3 DEF MissionInv
      <4> QED BY <3>3, <4>1 DEF Holds
    <3> QED BY <2>1, <3>1, <3>2, <3>3
  <2> QED
    BY <2>1, <2>2, <2>3, <2>4 DEF MissionInv
<1>6. CASE Restart
  <2>1. /\ phase = "down" /\ phase' \in {"run", "refused"}
        /\ UNCHANGED <<mdf, graph, disk, reached>>
        /\ phase' = "run" => mission' \in load(disk, graph.nodes)
    BY <1>6 DEF Restart
  <2>2. Full' = Full
    BY <2>1 DEF Full
  <2>3. reached \in 0..Len(Full) /\ AllKnown(graph.nodes, Full)
    BY <2>1 DEF MissionInv
  <2>4. CASE phase' = "run"
    <3>1. mission' \in load(disk, graph.nodes)
      BY <2>1, <2>4
    <3>2. PICK k \in {reached - 1, reached} \cap Nat : Holds(disk, R(k))
      BY <2>1 DEF MissionInv
    <3>3. disk # <<>>
      BY <3>1 DEF load
    <3>4. LeftOf(disk, R(k))
      BY <3>2, <3>3 DEF Holds
    <3>5. k \in 0..Len(Full)
      BY <1>0, <2>3, <3>2
    <3>6. /\ R(k).ids \in Seq(Int) /\ AllKnown(graph.nodes, R(k).ids)
          /\ R(k) = [ids |-> R(k).ids, elems |-> Elements(graph.nodes, R(k).ids)]
      BY <1>0, <2>3, <3>5, RestIs
    <3>7. R(k).elems = Elements(graph.nodes, R(k).ids)
      BY DEF Rest
    <3> HIDE DEF R
    <3>8. mission' = [ids |-> R(k).ids, elems |-> Elements(graph.nodes, R(k).ids)]
      BY <1>0, <3>1, <3>4, <3>6, <3>7, LoadIsRest
    <3>9. mission' = R(k)
      BY <3>6, <3>8
    <3> USE DEF R
    <3> QED
      BY <2>1, <2>2, <2>3, <2>4, <3>2, <3>9 DEF MissionInv
  <2> QED BY <2>1, <2>4 DEF MissionInv
<1>7. CASE UNCHANGED vars
  <2>1. UNCHANGED <<phase, mdf, graph, mission, disk, reached>>
    BY <1>7 DEF vars, runVars
  <2>2. Full' = Full
    BY <2>1 DEF Full
  <2> QED BY <2>1, <2>2 DEF MissionInv
<1> QED
  BY <1>1, <1>2, <1>3, <1>4, <1>5, <1>6, <1>7 DEF FilesNext, Reading

\* Whatever a crash leaves of the mission file, a commander that resumes from
\* it has the rest of its mission, with at most the last check-point reached
\* again (Mission::save, load, next_checkpoint), for all texts and missions.
THEOREM FilesMissionRestored ==
  FilesSpec => []MissionRestored
<1> DEFINE Inv == ParseInv /\ GraphInv /\ MissionInv
<1>1. FilesInit => Inv
  BY ParseInit, GraphInit, MissionInit
<1>2. Inv /\ [FilesNext]_vars => Inv'
  BY ParseStep, GraphStep, MissionStep
<1>3. Inv => MissionRestored
  <2> SUFFICES ASSUME Inv, phase = "run"
               PROVE  LET k == Passed(mission.ids) IN
                      /\ k \in {reached, reached - 1} /\ k >= 0
                      /\ mission.ids = SubSeq(Full, k + 1, Len(Full))
                      /\ mission.elems = Elements(graph.nodes, mission.ids)
    BY DEF MissionRestored, Full
  <2>1. Full \in Seq(Int)
    BY GraphNodes
  <2>2. reached \in 0..Len(Full) /\ AllKnown(graph.nodes, Full)
    BY DEF MissionInv
  <2>3. PICK k \in {reached - 1, reached} \cap Nat : mission = Rest(Full, graph.nodes, k)
    BY DEF MissionInv
  <2>4. k \in 0..Len(Full)
    BY <2>1, <2>2, <2>3
  <2>5. Len(mission.ids) = Len(Full) - k
    BY <2>1, <2>2, <2>3, <2>4, RestIs
  <2>6. Passed(mission.ids) = Len(Full) - Len(mission.ids)
    BY DEF Passed, Full
  <2>7. Passed(mission.ids) = k
    BY <2>1, <2>4, <2>5, <2>6
  <2>8. /\ mission.ids = SubSeq(Full, k + 1, Len(Full))
        /\ mission.elems = Elements(graph.nodes, mission.ids)
    BY <2>3 DEF Rest
  <2> QED BY <2>7, <2>8
<1> QED
  BY <1>1, <1>2, <1>3, PTL DEF FilesSpec

----------------------------------------------------------------------------
(* Part 7.  The mission file and its damages.                              *)

\* f[i] is what the first i lines of s have of token t.
Reads(f, X, s, t) ==
  /\ f \in [0..Len(s) -> Seq(X)]
  /\ f[0] = <<>>
  /\ \A i \in 1..Len(s) :
       f[i] = IF s[i].t = t THEN Append(f[i - 1], s[i]) ELSE f[i - 1]
  /\ LinesOf(s, t) = f[Len(s)]

\* The lines of a token, as the parser meets them.
SoFar(X, s, t) == CHOOSE f : Reads(f, X, s, t)

\* They can be read off line by line.
LEMMA SoFarReads ==
  ASSUME NEW X, NEW s \in Seq(X), NEW t
  PROVE  Reads(SoFar(X, s, t), X, s, t)
<1> DEFINE P == {l \in ToSet(s) : l.t = t}
<1>1. PICK f : Keeps(f, X, s, P)
  BY ThoseSteps
<1>2. \A i \in 1..Len(s) : s[i] \in P <=> s[i].t = t
  BY DEF ToSet
<1>3. LinesOf(s, t) = Those(s, P)
  BY DEF LinesOf
<1> HIDE DEF P
<1>4. Reads(f, X, s, t)
  BY <1>1, <1>2, <1>3 DEF Keeps, Reads
<1> QED
  BY <1>4 DEF SoFar

\* u is s without its line i.
Without(u, s, i) ==
  /\ Len(u) = Len(s) - 1
  /\ \A j \in 1..Len(u) : u[j] = IF j < i THEN s[j] ELSE s[j + 1]

\* A lost line is missed among the lines of its token, and no others are.
LEMMA LostLine ==
  ASSUME NEW X, NEW s \in Seq(X), NEW u \in Seq(X), NEW t, NEW i \in 1..Len(s),
         Without(u, s, i)
  PROVE  /\ s[i].t = t => Len(LinesOf(s, t)) = Len(LinesOf(u, t)) + 1
         /\ s[i].t # t => LinesOf(s, t) = LinesOf(u, t)
         /\ Len(LinesOf(u, t)) \in Nat
<1> DEFINE n == Len(s)
           f == SoFar(X, s, t)
           g == SoFar(X, u, t)
<1>1. Reads(f, X, s, t) /\ Reads(g, X, u, t)
  BY SoFarReads
<1>2. n \in Nat /\ Len(u) = n - 1 /\ i \in 1..n
  BY DEF Without
<1>3. \A j \in 1..(n - 1) : u[j] = IF j < i THEN s[j] ELSE s[j + 1]
  BY <1>2 DEF Without
<1> HIDE DEF f, g
<1>4. /\ f \in [0..n -> Seq(X)] /\ f[0] = <<>> /\ LinesOf(s, t) = f[n]
      /\ \A j \in 1..n :
           f[j] = IF s[j].t = t THEN Append(f[j - 1], s[j]) ELSE f[j - 1]
  BY <1>1 DEF Reads
<1>5. /\ g \in [0..(n - 1) -> Seq(X)] /\ g[0] = <<>> /\ LinesOf(u, t) = g[n - 1]
      /\ \A j \in 1..(n - 1) :
           g[j] = IF u[j].t = t THEN Append(g[j - 1], u[j]) ELSE g[j - 1]
  BY <1>1, <1>2 DEF Reads
<1> HIDE DEF n
<1>6. g[i - 1] = f[i - 1]
  <2> DEFINE G == {k \in 0..(i - 1) : g[k] = f[k]}
  <2>1. 0 \in G
    BY <1>2, <1>4, <1>5
  <2>2. ASSUME NEW k \in 1..(i - 1), k - 1 \in G PROVE k \in G
    <3>1. k \in 1..(n - 1) /\ k \in 1..n /\ u[k] = s[k] /\ g[k - 1] = f[k - 1]
      BY <1>2, <1>3, <2>2
    <3> QED BY <1>4, <1>5, <3>1
  <2>3. i - 1 \in Nat /\ i - 1 \in 0..(i - 1)
    BY <1>2
  <2> HIDE DEF G
  <2>4. \A k \in 0..(i - 1) : k \in G
    BY <2>1, <2>2, <2>3, Induction
  <2> QED BY <2>3, <2>4 DEF G
<1> DEFINE Off(k) == IF s[i].t = t THEN Len(f[i + k]) = Len(g[i - 1 + k]) + 1
                     ELSE f[i + k] = g[i - 1 + k]
           H == {k \in 0..(n - i) : Off(k)}
<1>7. 0 \in H
  <2>1. i \in 1..n /\ f[i - 1] \in Seq(X) /\ s[i] \in X
    BY <1>2, <1>4 DEF n
  <2>2. f[i] = IF s[i].t = t THEN Append(g[i - 1], s[i]) ELSE g[i - 1]
    BY <1>4, <1>6, <2>1
  <2>3. s[i].t = t => Len(f[i]) = Len(g[i - 1]) + 1
    BY <1>6, <2>1, <2>2
  <2>4. i + 0 = i /\ i - 1 + 0 = i - 1 /\ 0 \in 0..(n - i)
    BY <1>2
  <2> QED BY <2>2, <2>3, <2>4
<1>8. ASSUME NEW k \in 1..(n - i), k - 1 \in H PROVE k \in H
  <2> DEFINE p == i + k
  <2>1. /\ p \in 1..n /\ p - 1 \in 1..(n - 1) /\ i - 1 + k = p - 1
        /\ i + (k - 1) = p - 1 /\ i - 1 + (k - 1) = p - 2 /\ (p - 1) - 1 = p - 2
        /\ p - 1 \in 0..n /\ p - 2 \in 0..(n - 1) /\ ~(p - 1 < i) /\ (p - 1) + 1 = p
    BY <1>2
  <2>2. Off(k - 1)
    BY <1>8
  <2>3. IF s[i].t = t THEN Len(f[p - 1]) = Len(g[p - 2]) + 1 ELSE f[p - 1] = g[p - 2]
    BY <2>1, <2>2
  <2> HIDE DEF p
  <2>4. u[p - 1] = s[p] /\ s[p] \in X
    BY <1>3, <2>1 DEF n
  <2>5. /\ f[p] = IF s[p].t = t THEN Append(f[p - 1], s[p]) ELSE f[p - 1]
        /\ g[p - 1] = IF s[p].t = t THEN Append(g[p - 2], s[p]) ELSE g[p - 2]
    BY <1>4, <1>5, <2>1, <2>4
  <2>6. f[p - 1] \in Seq(X) /\ g[p - 2] \in Seq(X)
    BY <1>4, <1>5, <2>1
  <2>7. IF s[i].t = t THEN Len(f[p]) = Len(g[p - 1]) + 1 ELSE f[p] = g[p - 1]
    <3>1. CASE s[i].t # t
      BY <2>3, <2>5, <3>1
    <3>2. CASE s[i].t = t
      BY <2>3, <2>4, <2>5, <2>6, <3>2
    <3> QED BY <3>1, <3>2
  <2>8. Off(k)
    BY <2>1, <2>7 DEF p
  <2> QED BY <2>8
<1>9. Off(n - i)
  <2>1. n - i \in Nat /\ n - i \in 0..(n - i)
    BY <1>2
  <2> HIDE DEF H
  <2>2. \A k \in 0..(n - i) : k \in H
    BY <1>7, <1>8, <2>1, Induction
  <2> QED BY <2>1, <2>2 DEF H
<1>10. i + (n - i) = n /\ i - 1 + (n - i) = n - 1 /\ g[n - 1] \in Seq(X)
  BY <1>2, <1>5
<1> QED
  BY <1>4, <1>5, <1>9, <1>10

\* The damages: none, a cut, a line lost, a line doubled, which is the text
\* that gives the undamaged one when it loses that line.
LEMMA Damages ==
  ASSUME NEW X, NEW s \in Seq(X), NEW d \in Damaged(s)
  PROVE  /\ d \in Seq(X)
         /\ \/ d = s
            \/ Len(d) < Len(s) /\ \A j \in 1..Len(d) : d[j] = s[j]
            \/ \E i \in 1..Len(s) : Without(d, s, i)
            \/ \E i \in 1..Len(d) : Without(s, d, i) /\ i <= Len(s) /\ d[i] = s[i]
<1>0. Len(s) \in Nat
  OBVIOUS
<1>1. CASE d = s
  BY <1>1
<1>2. ASSUME NEW i \in 0..(Len(s) - 1), d = SubSeq(s, 1, i)
      PROVE  d \in Seq(X) /\ Len(d) < Len(s) /\ \A j \in 1..Len(d) : d[j] = s[j]
  BY <1>2
<1>3. ASSUME NEW i \in 1..Len(s), d = RemoveAt(s, i)
      PROVE  d \in Seq(X) /\ Without(d, s, i)
  <2> DEFINE a == SubSeq(s, 1, i - 1)
             b == SubSeq(s, i + 1, Len(s))
  <2>1. d = a \o b
    BY <1>3 DEF RemoveAt
  <2>2. /\ a \in Seq(X) /\ Len(a) = i - 1 /\ \A j \in 1..(i - 1) : a[j] = s[j]
        /\ b \in Seq(X) /\ Len(b) = Len(s) - i
        /\ \A j \in 1..(Len(s) - i) : b[j] = s[i + j]
    OBVIOUS
  <2> HIDE DEF a, b
  <2>3. d \in Seq(X) /\ Len(d) = Len(s) - 1
    <3>1. d \in Seq(X) /\ Len(d) = Len(a) + Len(b)
      BY <2>1, <2>2, ConcatProperties
    <3> QED BY <1>0, <2>2, <3>1
  <2>4. ASSUME NEW j \in 1..Len(d) PROVE d[j] = IF j < i THEN s[j] ELSE s[j + 1]
    <3>1. CASE j < i
      BY <2>1, <2>2, <2>3, <3>1
    <3>2. CASE ~(j < i)
      <4>1. j - (i - 1) \in 1..(Len(s) - i) /\ i + (j - (i - 1)) = j + 1
        BY <2>3, <3>2
      <4>2. d[j] = b[j - (i - 1)]
        BY <2>1, <2>2, <2>3, <3>2
      <4> QED BY <2>2, <3>2, <4>1, <4>2
    <3> QED BY <3>1, <3>2
  <2> QED BY <2>3, <2>4 DEF Without
<1>4. ASSUME NEW i \in 1..Len(s), d = InsertAt(s, i, s[i])
      PROVE  d \in Seq(X) /\ i \in 1..Len(d) /\ Without(s, d, i) /\ d[i] = s[i]
  <2> DEFINE a == SubSeq(s, 1, i - 1)
             b == SubSeq(s, i, Len(s))
             c == <<s[i]>>
  <2>1. d = a \o c \o b
    BY <1>4 DEF InsertAt
  <2>2. /\ a \in Seq(X) /\ Len(a) = i - 1 /\ \A j \in 1..(i - 1) : a[j] = s[j]
        /\ b \in Seq(X) /\ Len(b) = Len(s) - i + 1
        /\ \A j \in 1..(Len(s) - i + 1) : b[j] = s[i + j - 1]
        /\ c \in Seq(X) /\ Len(c) = 1 /\ c[1] = s[i]
    OBVIOUS
  <2> HIDE DEF a, b, c
  <2> DEFINE e == a \o c
  <2>3. /\ e \in Seq(X) /\ Len(e) = i /\ e[i] = s[i]
        /\ \A j \in 1..(i - 1) : e[j] = s[j]
    <3>1. e \in Seq(X) /\ Len(e) = Len(a) + Len(c)
      BY <2>2, ConcatProperties
    <3>2. \A j \in 1..Len(e) : e[j] = IF j <= Len(a) THEN a[j] ELSE c[j - Len(a)]
      BY <2>2, ConcatProperties
    <3>3. Len(e) = i /\ i - Len(a) = 1 /\ ~(i <= Len(a)) /\ i \in 1..i
      BY <2>2, <3>1
    <3>4. e[i] = s[i]
      BY <2>2, <3>2, <3>3
    <3>5. \A j \in 1..(i - 1) : j \in 1..Len(e) /\ j <= Len(a)
      BY <2>2, <3>3
    <3> HIDE DEF e
    <3> QED BY <2>2, <3>1, <3>2, <3>3, <3>4, <3>5
  <2>4. d = e \o b
    BY <2>1
  <2> HIDE DEF e
  <2>5. d \in Seq(X) /\ Len(d) = Len(s) + 1
    BY <1>0, <2>2, <2>3, <2>4, ConcatProperties
  <2>6. d[i] = s[i] /\ i \in 1..Len(d)
    BY <2>2, <2>3, <2>4, <2>5
  <2>7. ASSUME NEW j \in 1..Len(s) PROVE s[j] = IF j < i THEN d[j] ELSE d[j + 1]
    <3>1. CASE j < i
      <4>1. d[j] = e[j]
        BY <2>2, <2>3, <2>4, <3>1
      <4> QED BY <2>3, <3>1, <4>1
    <3>2. CASE ~(j < i)
      <4>1. j + 1 - i \in 1..(Len(s) - i + 1) /\ i + (j + 1 - i) - 1 = j
        BY <3>2
      <4>2. d[j + 1] = b[j + 1 - i]
        BY <2>2, <2>3, <2>4, <2>5, <3>2
      <4>3. b[j + 1 - i] = s[j]
        BY <2>2, <4>1
      <4> QED BY <3>2, <4>2, <4>3
    <3> QED BY <3>1, <3>2
  <2> QED BY <2>5, <2>6, <2>7 DEF Without
<1> QED
  BY <1>1, <1>2, <1>3, <1>4 DEF Damaged

\* In a text whose end_file is its last line, whatever the damage, nothing
\* but end_file follows an end_file.
LEMMA EndLast ==
  ASSUME NEW X, NEW s \in Seq(X), NEW d \in Damaged(s), NEW end,
         \A i \in 1..Len(s) : s[i].t = end => i = Len(s),
         NEW e \in 1..Len(d), d[e].t = end
  PROVE  /\ \A j \in e..Len(d) : d[j].t = end
         /\ Len(s) \in 1..Len(s) /\ s[Len(s)].t = end
<1>0. Len(s) \in Nat
  OBVIOUS
<1>1. d \in Seq(X) /\ Len(d) \in Nat
  BY Damages
<1>2. CASE d = s
  BY <1>0, <1>2
<1>3. CASE Len(d) < Len(s) /\ \A j \in 1..Len(d) : d[j] = s[j]
  BY <1>0, <1>1, <1>3
<1>4. ASSUME NEW i \in 1..Len(s), Without(d, s, i)
      PROVE  e = Len(d) /\ 1 <= Len(s) /\ s[Len(s)].t = end
  <2>1. Len(d) = Len(s) - 1 /\ d[e] = IF e < i THEN s[e] ELSE s[e + 1]
    BY <1>4 DEF Without
  <2>2. CASE e < i
    BY <1>0, <2>1, <2>2
  <2>3. CASE ~(e < i)
    BY <1>0, <2>1, <2>3
  <2> QED BY <2>2, <2>3
<1>5. ASSUME NEW i \in 1..Len(d), Without(s, d, i), i <= Len(s), d[i] = s[i]
      PROVE  /\ \A j \in e..Len(d) : d[j].t = end
             /\ 1 <= Len(s) /\ s[Len(s)].t = end
  <2>1. Len(d) = Len(s) + 1
    BY <1>0, <1>1, <1>5 DEF Without
  <2>2. \A j \in 1..Len(s) : s[j] = IF j < i THEN d[j] ELSE d[j + 1]
    BY <1>5 DEF Without
  <2>3. CASE e < i
    BY <1>0, <1>5, <2>2, <2>3
  <2>4. CASE e = i
    <3>1. i = Len(s)
      BY <1>0, <1>5, <2>4
    <3>2. s[i] = d[i + 1]
      BY <2>2, <3>1, <1>0
    <3>3. \A j \in e..Len(d) : j = i \/ j = i + 1
      BY <2>1, <2>4, <3>1
    <3> QED BY <1>5, <2>4, <3>1, <3>2, <3>3
  <2>5. CASE e > i
    <3>1. e - 1 \in 1..Len(s) /\ ~(e - 1 < i) /\ (e - 1) + 1 = e
      BY <2>1, <2>5
    <3>2. s[e - 1] = d[e]
      BY <2>2, <3>1
    <3>3. e - 1 = Len(s)
      BY <1>0, <3>1, <3>2
    <3>4. \A j \in e..Len(d) : j = e
      BY <2>1, <3>3
    <3> QED BY <3>1, <3>2, <3>3, <3>4
  <2> QED BY <2>3, <2>4, <2>5
<1>6. CASE \E i \in 1..Len(s) : Without(d, s, i)
  <2>1. e = Len(d) /\ 1 <= Len(s) /\ s[Len(s)].t = end
    BY <1>4, <1>6
  <2>2. \A j \in e..Len(d) : j = e
    BY <1>1, <2>1
  <2> QED BY <1>0, <2>1, <2>2
<1>7. CASE \E i \in 1..Len(d) : Without(s, d, i) /\ i <= Len(s) /\ d[i] = s[i]
  <2>1. /\ \A j \in e..Len(d) : d[j].t = end
        /\ 1 <= Len(s) /\ s[Len(s)].t = end
    BY <1>5, <1>7
  <2> QED BY <1>0, <2>1
<1> QED
  BY <1>2, <1>3, <1>6, <1>7, Damages

\* If the first k lines have a count line, the number is that of one of them.
Stated(s, k, count, number) ==
  \A j \in 1..k : s[j].t = count =>
     \E i \in 1..k : s[i].t = count /\ number = s[i].a[1]

\* The count that a text states for the lines of token t catches a damage to
\* them: a text read to its end_file whose lines of token t are as many as a
\* count line that is left says, or that has no count line left, has them all.
LEMMA CountsCatch ==
  ASSUME NEW X, NEW s \in Seq(X), NEW d \in Damaged(s), NEW t, NEW count, NEW end,
         t # count, States(s, count, t),
         \A i \in 1..Len(s) : s[i].t = end => i = Len(s),
         NEW e \in 1..Len(d), d[e].t = end,
         Stated(d, Len(d), count, Len(LinesOf(d, t)))
  PROVE  LinesOf(d, t) = LinesOf(s, t)
<1>0. Len(s) \in Nat
  OBVIOUS
<1>1. d \in Seq(X) /\ Len(d) \in Nat
  BY Damages
<1>2. \A l : l \in ToSet(s) <=> \E k \in 1..Len(s) : l = s[k]
  BY <1>0 DEF ToSet
<1>3. PICK k \in 1..Len(s) : s[k].t = count
  <2>1. Len(LinesOf(s, t)) \in {l.a[1] : l \in {m \in ToSet(s) : m.t = count}}
    BY DEF States
  <2>2. \E l \in ToSet(s) : l.t = count
    BY <2>1
  <2> QED BY <1>2, <2>2
<1>4. \A j \in 1..Len(s) : s[j].t = count => s[j].a[1] = Len(LinesOf(s, t))
  <2> SUFFICES ASSUME NEW j \in 1..Len(s), s[j].t = count
               PROVE  s[j].a[1] = Len(LinesOf(s, t))
    OBVIOUS
  <2>1. s[j] \in {m \in ToSet(s) : m.t = count}
    BY <1>2
  <2>2. s[j].a[1] \in {l.a[1] : l \in {m \in ToSet(s) : m.t = count}}
    BY <2>1
  <2> QED BY <2>2 DEF States
<1>5. ASSUME NEW j \in 1..Len(d), d[j] = s[k],
             \A i \in 1..Len(d) : \E h \in 1..Len(s) : d[i] = s[h]
      PROVE  Len(LinesOf(d, t)) = Len(LinesOf(s, t))
  <2>1. PICK i \in 1..Len(d) : d[i].t = count /\ d[i].a[1] = Len(LinesOf(d, t))
    BY <1>3, <1>5 DEF Stated
  <2>2. PICK h \in 1..Len(s) : d[i] = s[h]
    BY <1>5
  <2> QED BY <1>4, <2>1, <2>2
<1>6. CASE Len(d) < Len(s) /\ \A j \in 1..Len(d) : d[j] = s[j]
  BY <1>0, <1>1, <1>6
<1>7. ASSUME NEW i \in 1..Len(s), Without(d, s, i)
      PROVE  LinesOf(d, t) = LinesOf(s, t)
  <2>1. /\ s[i].t = t => Len(LinesOf(s, t)) = Len(LinesOf(d, t)) + 1
        /\ s[i].t # t => LinesOf(s, t) = LinesOf(d, t)
        /\ Len(LinesOf(d, t)) \in Nat
    BY <1>1, <1>7, LostLine
  <2>2. /\ Len(d) = Len(s) - 1
        /\ \A j \in 1..Len(d) : d[j] = IF j < i THEN s[j] ELSE s[j + 1]
    BY <1>7 DEF Without
  <2>3. \A h \in 1..Len(d) : \E j \in 1..Len(s) : d[h] = s[j]
    BY <1>0, <2>2
  <2>4. CASE s[i].t = t
    <3>1. k # i
      BY <1>3, <2>4
    <3> DEFINE j == IF k < i THEN k ELSE k - 1
    <3>2. j \in 1..Len(d) /\ d[j] = s[k]
      <4>1. CASE k < i
        BY <1>0, <2>2, <4>1
      <4>2. CASE k > i
        <5>1. k - 1 \in 1..Len(d) /\ ~(k - 1 < i) /\ (k - 1) + 1 = k
          BY <1>0, <2>2, <4>2
        <5>2. d[k - 1] = s[k]
          BY <2>2, <5>1
        <5> QED BY <4>2, <5>1, <5>2
      <4> QED BY <3>1, <4>1, <4>2
    <3>3. Len(LinesOf(d, t)) = Len(LinesOf(s, t))
      BY <1>5, <2>3, <3>2
    <3> QED BY <2>1, <2>4, <3>3
  <2> QED BY <2>1, <2>4
<1>8. ASSUME NEW i \in 1..Len(d), Without(s, d, i), i <= Len(s), d[i] = s[i]
      PROVE  LinesOf(d, t) = LinesOf(s, t)
  <2>1. /\ d[i].t = t => Len(LinesOf(d, t)) = Len(LinesOf(s, t)) + 1
        /\ d[i].t # t => LinesOf(d, t) = LinesOf(s, t)
        /\ Len(LinesOf(s, t)) \in Nat
    BY <1>1, <1>8, LostLine
  <2>2. Len(d) = Len(s) + 1
    BY <1>0, <1>1, <1>8 DEF Without
  <2>3. \A j \in 1..Len(s) : s[j] = IF j < i THEN d[j] ELSE d[j + 1]
    BY <1>8 DEF Without
  <2>4. ASSUME NEW h \in 1..Len(d) PROVE \E j \in 1..Len(s) : d[h] = s[j]
    <3>1. CASE h < i
      <4>1. h \in 1..Len(s)
        BY <1>8, <3>1
      <4> QED BY <2>3, <3>1, <4>1
    <3>2. CASE h = i
      BY <1>8, <3>2
    <3>3. CASE h > i
      <4>1. h - 1 \in 1..Len(s) /\ ~(h - 1 < i) /\ (h - 1) + 1 = h
        BY <2>2, <3>3
      <4> QED BY <2>3, <4>1
    <3> QED BY <3>1, <3>2, <3>3
  <2>5. PICK j \in 1..Len(d) : d[j] = s[k]
    <3>1. s[k] = IF k < i THEN d[k] ELSE d[k + 1]
      BY <2>3
    <3>2. k \in 1..Len(d) /\ k + 1 \in 1..Len(d)
      BY <1>0, <2>2
    <3> QED BY <3>1, <3>2
  <2>6. Len(LinesOf(d, t)) = Len(LinesOf(s, t))
    BY <1>5, <2>4, <2>5
  <2> QED BY <2>1, <2>6
<1> QED
  BY <1>6, <1>7, <1>8, Damages

\* MDF::isvalid of a mission m.
CountsRight(m) ==
  /\ m.number_of_checkpoints > 0 /\ m.number_of_speedlimits > 0
  /\ m.number_of_checkpoints = Len(m.checkpoint_ids)
  /\ m.number_of_speedlimits = Len(m.speed_limits)

\* What a line l that is accepted makes of the mission m.
Takes(m, v, l) ==
  /\ v.checkpoint_ids = IF l.t = "id" THEN Append(m.checkpoint_ids, l.a[1])
                        ELSE m.checkpoint_ids
  /\ v.speed_limits = IF l.t = "limit" THEN Append(m.speed_limits, l.a)
                      ELSE m.speed_limits
  /\ v.number_of_checkpoints = IF l.t = "num_checkpoints" THEN l.a[1]
                               ELSE m.number_of_checkpoints
  /\ v.number_of_speedlimits = IF l.t = "num_speed_limits" THEN l.a[1]
                               ELSE m.number_of_speedlimits
  /\ v.ended <=> (m.ended \/ l.t = "end_file")
  /\ l.t = "end_file" => CountsRight(m)

\* In each state of the parser a line that is not refused does what its token
\* says.
LEMMA LineTakes ==
  ASSUME mdf \in MdfType, NEW l, NEW v, v # Bad,
         \/ v = MdfGeneralLine(mdf, l)
         \/ v = CheckpointsLine(mdf, l)
         \/ v = SpeedLimitsLine(mdf, l)
  PROVE  Takes(mdf, v, l)
<1> USE DEF MdfType, Takes
<1>1. CASE v = MdfGeneralLine(mdf, l)
  <2>1. CASE l.t = "end_file"
    <3>1. CountsRight(mdf) /\ v = [mdf EXCEPT !.ended = TRUE]
      BY <1>1, <2>1 DEF MdfGeneralLine, mdf_isvalid, CountsRight
    <3> QED BY <2>1, <3>1
  <2>2. CASE l.t # "end_file"
    <3>1. v = mdf /\ l.t \in {"MDF_name", "RNDF", "format_version", "creation_date"}
      BY <1>1, <2>2 DEF MdfGeneralLine
    <3> QED BY <3>1
  <2> QED BY <2>1, <2>2
<1>2. CASE v = CheckpointsLine(mdf, l)
  <2>1. CASE l.t = "id"
    <3>1. v = [mdf EXCEPT !.checkpoint_ids = Append(@, l.a[1])]
      BY <1>2, <2>1 DEF CheckpointsLine
    <3> QED BY <2>1, <3>1
  <2>2. CASE l.t = "num_checkpoints"
    <3>1. v = [mdf EXCEPT !.number_of_checkpoints = l.a[1]]
      BY <1>2, <2>2 DEF CheckpointsLine
    <3> QED BY <2>2, <3>1
  <2>3. CASE l.t \notin {"id", "num_checkpoints"}
    <3>1. v = mdf /\ l.t = "checkpoints"
      BY <1>2, <2>3 DEF CheckpointsLine
    <3> QED BY <3>1
  <2> QED BY <2>1, <2>2, <2>3
<1>3. CASE v = SpeedLimitsLine(mdf, l)
  <2>1. CASE l.t = "limit"
    <3>1. v = [mdf EXCEPT !.speed_limits = Append(@, l.a)]
      BY <1>3, <2>1 DEF SpeedLimitsLine
    <3> QED BY <2>1, <3>1
  <2>2. CASE l.t = "num_speed_limits"
    <3>1. v = [mdf EXCEPT !.number_of_speedlimits = l.a[1]]
      BY <1>3, <2>2 DEF SpeedLimitsLine
    <3> QED BY <2>2, <3>1
  <2>3. CASE l.t \notin {"limit", "num_speed_limits"}
    <3>1. v = mdf /\ l.t = "speed_limits"
      BY <1>3, <2>3 DEF SpeedLimitsLine
    <3> QED BY <3>1
  <2> QED BY <2>1, <2>2, <2>3
<1> QED
  BY <1>1, <1>2, <1>3

\* While the road network is read the mission stays as it was constructed, and
\* its own file is read from the first line.
LEMMA RndfFrame ==
  ASSUME ParseInv, Reading, phase = "rndf"
  PROVE  /\ UNCHANGED <<origin, text, mdf>>
         /\ phase' = "rndf" \/ (phase' = "mdf" /\ line' = 0 /\ state' = "UNKNOWN")
<1> USE DEF Read
<1>0. ASSUME NEW s, Read(s)
      PROVE  s \notin {"MDF_GENERAL", "MDF_CHECKPOINTS", "MDF_SPEEDLIMITS"}
  BY <1>0, HereStates DEF RndfStates
<1>1. CASE ReadComment
  BY <1>1 DEF ReadComment
<1>2. CASE ReadUnknown
  BY <1>2 DEF ReadUnknown, Refuse
<1>3. CASE ReadGeneral \/ ReadSegment \/ ReadLane \/ ReadZone \/ ReadPerimeter
           \/ ReadSpot
  BY <1>3 DEF ReadGeneral, ReadSegment, ReadLane, ReadZone, ReadPerimeter, ReadSpot,
              Take, Accept, Refuse
<1>4. CASE EndSegment \/ EndLane \/ EndZone \/ EndPerimeter \/ EndSpot
  BY <1>4 DEF EndSegment, EndLane, EndZone, EndPerimeter, EndSpot, Accept, Refuse
<1>5. CASE EndOfRNDF
  BY <1>5 DEF EndOfRNDF
<1>6. CASE ReadMdfGeneral \/ ReadCheckpoints \/ ReadSpeedLimits \/ EndMdfBlock
  <2>1. \E s \in {"MDF_GENERAL", "MDF_CHECKPOINTS", "MDF_SPEEDLIMITS"} : Read(s)
    BY <1>6 DEF ReadMdfGeneral, ReadCheckpoints, ReadSpeedLimits, EndMdfBlock
  <2> QED BY <1>0, <2>1
<1>7. CASE EndOfMDF
  BY <1>7 DEF EndOfMDF
<1> QED
  BY <1>1, <1>2, <1>3, <1>4, <1>5, <1>6, <1>7 DEF Reading

\* A step of the parser of the mission takes the next line, refuses it, or
\* comes to the end of the file.
LEMMA MdfRead ==
  ASSUME ParseInv, Reading, phase = "mdf", state # "MDF_COMMENT",
         More => Now.t # "comment"
  PROVE  /\ UNCHANGED <<origin, text>>
         /\ \/ /\ More /\ phase' = "mdf" /\ line' = line + 1
               /\ state' # "MDF_COMMENT" /\ Takes(mdf, mdf', Now)
            \/ phase' = "build" /\ ~mdf'.is_valid
            \/ ~More /\ phase' = "build" /\ mdf' = mdf
<1> DEFINE Goal == /\ UNCHANGED <<origin, text>>
                   /\ \/ /\ More /\ phase' = "mdf" /\ line' = line + 1
                         /\ state' # "MDF_COMMENT" /\ Takes(mdf, mdf', Now)
                      \/ phase' = "build" /\ ~mdf'.is_valid
                      \/ ~More /\ phase' = "build" /\ mdf' = mdf
<1>0. mdf \in MdfType /\ Here \in MdfStates /\ state \in MdfStates
  BY HereStates DEF ParseInv, BuiltTypes, StatesOK
<1>1. ASSUME Refuse PROVE Goal
  BY <1>0, <1>1 DEF Refuse, MdfType
<1>2. ASSUME NEW s, Read(s)
      PROVE  /\ More /\ Here = s
             /\ s \in RndfStates => s = "UNKNOWN"
  BY <1>0, <1>2 DEF Read, RndfStates, MdfStates
<1>3. CASE ReadComment
  <2>1. Here = "MDF_COMMENT" /\ More
    BY <1>2, <1>3 DEF ReadComment, RndfStates
  <2>2. Switches /\ Now.t \in {"comment", "remark"} /\ Before = state
    BY <2>1 DEF Here, Switches, Keyword, MdfKeyword, Before
  <2>3. Now.t = "remark"
    BY <2>1, <2>2
  <2>4. /\ line' = line + 1 /\ state' = state /\ UNCHANGED <<origin, text, phase, mdf>>
    BY <1>3, <2>2, <2>3 DEF ReadComment
  <2>5. Takes(mdf, mdf', Now)
    BY <1>0, <2>3, <2>4 DEF Takes, MdfType
  <2> QED BY <2>1, <2>4, <2>5
<1>4. CASE ReadUnknown
  BY <1>1, <1>4 DEF ReadUnknown
<1>5. ASSUME NEW v, NEW s \in {"MDF_GENERAL", "MDF_CHECKPOINTS", "MDF_SPEEDLIMITS"},
             Read(s),
             v = Bad => Refuse,
             v # Bad => mdf' = v /\ Accept(Here),
             \/ v = MdfGeneralLine(mdf, Now) \/ v = CheckpointsLine(mdf, Now)
             \/ v = SpeedLimitsLine(mdf, Now)
      PROVE  Goal
  <2>1. CASE v = Bad
    BY <1>1, <1>5, <2>1
  <2>2. CASE v # Bad
    <3>1. Takes(mdf, v, Now)
      BY <1>0, <1>5, <2>2, LineTakes
    <3>2. Here = s /\ More
      BY <1>2, <1>5
    <3>3. mdf' = v /\ line' = line + 1 /\ state' = s /\ UNCHANGED <<origin, text, phase>>
      BY <1>5, <2>2, <3>2 DEF Accept
    <3> QED BY <3>1, <3>2, <3>3
  <2> QED BY <2>1, <2>2
<1>6. CASE ReadMdfGeneral
  <2> DEFINE v == MdfGeneralLine(mdf, Now)
  <2>1. Read("MDF_GENERAL") /\ (v = Bad => Refuse) /\ (v # Bad => mdf' = v /\ Accept(Here))
    BY <1>6 DEF ReadMdfGeneral, Take
  <2>2. \/ v = MdfGeneralLine(mdf, Now) \/ v = CheckpointsLine(mdf, Now)
        \/ v = SpeedLimitsLine(mdf, Now)
    OBVIOUS
  <2> HIDE DEF Goal, v
  <2>3. Goal
    BY <1>5, <2>1, <2>2
  <2> QED BY <2>3 DEF Goal
<1>7. CASE ReadCheckpoints
  <2> DEFINE v == CheckpointsLine(mdf, Now)
  <2>1. Read("MDF_CHECKPOINTS") /\ (v = Bad => Refuse) /\ (v # Bad => mdf' = v /\ Accept(Here))
    BY <1>7 DEF ReadCheckpoints, Take
  <2>2. \/ v = MdfGeneralLine(mdf, Now) \/ v = CheckpointsLine(mdf, Now)
        \/ v = SpeedLimitsLine(mdf, Now)
    OBVIOUS
  <2> HIDE DEF Goal, v
  <2>3. Goal
    BY <1>5, <2>1, <2>2
  <2> QED BY <2>3 DEF Goal
<1>8. CASE ReadSpeedLimits
  <2> DEFINE v == SpeedLimitsLine(mdf, Now)
  <2>1. Read("MDF_SPEEDLIMITS") /\ (v = Bad => Refuse) /\ (v # Bad => mdf' = v /\ Accept(Here))
    BY <1>8 DEF ReadSpeedLimits, Take
  <2>2. \/ v = MdfGeneralLine(mdf, Now) \/ v = CheckpointsLine(mdf, Now)
        \/ v = SpeedLimitsLine(mdf, Now)
    OBVIOUS
  <2> HIDE DEF Goal, v
  <2>3. Goal
    BY <1>5, <2>1, <2>2
  <2> QED BY <2>3 DEF Goal
<1>9. CASE EndMdfBlock
  <2>1. More /\ Now.t \in {"end_checkpoints", "end_speed_limits"}
    BY <1>2, <1>9 DEF EndMdfBlock
  <2>2. /\ line' = line + 1 /\ state' = "MDF_GENERAL"
        /\ UNCHANGED <<origin, text, phase, mdf>>
    BY <1>9 DEF EndMdfBlock, Accept
  <2>3. Takes(mdf, mdf', Now)
    BY <1>0, <2>1, <2>2 DEF Takes, MdfType
  <2> QED BY <2>1, <2>2, <2>3
<1>10. CASE EndOfMDF
  BY <1>10 DEF EndOfMDF
<1>11. CASE \/ ReadGeneral \/ ReadSegment \/ EndSegment \/ ReadLane \/ EndLane
            \/ ReadZone \/ EndZone \/ ReadPerimeter \/ EndPerimeter \/ ReadSpot
            \/ EndSpot
  <2>1. \E s \in RndfStates \ {"UNKNOWN"} : Read(s)
    BY <1>11 DEF ReadGeneral, ReadSegment, EndSegment, ReadLane, EndLane, ReadZone,
                 EndZone, ReadPerimeter, EndPerimeter, ReadSpot, EndSpot, RndfStates
  <2> QED BY <1>2, <2>1
<1>12. CASE EndOfRNDF
  BY <1>12 DEF EndOfRNDF
<1> QED
  BY <1>3, <1>4, <1>6, <1>7, <1>8, <1>9, <1>10, <1>11, <1>12 DEF Reading

\* What the mission m is when its text s, damaged from o, has been read up to
\* line k.
ReadTo(o, s, m, k) ==
  LET I == SoFar(ToSet(o), s, "id")[k]
      L == SoFar(ToSet(o), s, "limit")[k]
  IN /\ m.checkpoint_ids = [i \in DOMAIN I |-> I[i].a[1]]
     /\ m.speed_limits = [i \in DOMAIN L |-> L[i].a]
     /\ Stated(s, k, "num_checkpoints", m.number_of_checkpoints)
     /\ Stated(s, k, "num_speed_limits", m.number_of_speedlimits)
     /\ m.ended => CountsRight(m) /\ \E e \in 1..k : s[e].t = "end_file"

\* A mission that is not refused is what its text says up to the line read.
DamageInv ==
  /\ origin \in Texts /\ text.mdf \in Damaged(origin.mdf)
  /\ phase = "rndf" => ReadTo(origin.mdf, text.mdf, mdf, 0)
  /\ phase = "mdf" => /\ state # "MDF_COMMENT" /\ line <= Len(text.mdf)
                      /\ ReadTo(origin.mdf, text.mdf, mdf, line)
  /\ phase \notin {"rndf", "mdf"} /\ mdf.is_valid =>
       ReadTo(origin.mdf, text.mdf, mdf, Len(text.mdf))

\* Before the first line nothing has been read.
LEMMA DamageInit ==
  FilesInit => DamageInv
<1> SUFFICES ASSUME FilesInit PROVE DamageInv
  OBVIOUS
<1>1. phase = "rndf"
  BY DEF FilesInit
<1>2. PICK m \in Garbage, n \in Garbage : mdf = NewMDF(m, n)
  BY DEF FilesInit
<1>3. origin \in Texts /\ text.mdf \in Damaged(origin.mdf)
  <2>1. PICK o \in Texts :
          /\ origin = o
          /\ \/ text \in {[rndf |-> d, mdf |-> o.mdf] : d \in Damaged(o.rndf)}
             \/ text \in {[rndf |-> o.rndf, mdf |-> d] : d \in Damaged(o.mdf)}
    BY DEF FilesInit
  <2>2. o.mdf \in Damaged(o.mdf)
    BY DEF Damaged
  <2>3. CASE text \in {[rndf |-> d, mdf |-> o.mdf] : d \in Damaged(o.rndf)}
    BY <2>1, <2>2, <2>3
  <2>4. CASE text \in {[rndf |-> o.rndf, mdf |-> d] : d \in Damaged(o.mdf)}
    BY <2>1, <2>4
  <2> QED BY <2>1, <2>3, <2>4
<1>4. ReadTo(origin.mdf, text.mdf, mdf, 0)
  <2> DEFINE X == ToSet(origin.mdf)
  <2>1. text.mdf \in Seq(X)
    BY <1>3, FilesAssumption, DamagedLines
  <2>2. \A t : SoFar(X, text.mdf, t)[0] = <<>>
    BY <2>1, SoFarReads DEF Reads
  <2> HIDE DEF X
  <2>3. mdf.checkpoint_ids = <<>> /\ mdf.speed_limits = <<>> /\ ~mdf.ended
    BY <1>2 DEF NewMDF
  <2>4. \A j \in 1..0 : FALSE
    OBVIOUS
  <2>5. Stated(text.mdf, 0, "num_checkpoints", mdf.number_of_checkpoints)
        /\ Stated(text.mdf, 0, "num_speed_limits", mdf.number_of_speedlimits)
    BY <2>4 DEF Stated
  <2> QED BY <2>2, <2>3, <2>5 DEF ReadTo, X
<1> QED
  BY <1>1, <1>3, <1>4 DEF DamageInv

\* A line that is accepted is read as the text says it.
LEMMA ReadOn ==
  ASSUME NEW o, NEW s \in Seq(ToSet(o)), NEW m \in MdfType, NEW v \in MdfType,
         NEW k \in Nat, k < Len(s), ReadTo(o, s, m, k), Takes(m, v, s[k + 1]),
         m.ended => s[k + 1].t = "end_file"
  PROVE  ReadTo(o, s, v, k + 1)
<1> DEFINE X == ToSet(o)
           l == s[k + 1]
           f == SoFar(X, s, "id")
           g == SoFar(X, s, "limit")
           n == k + 1
<1>1. Reads(f, X, s, "id") /\ Reads(g, X, s, "limit")
  BY SoFarReads
<1>2. n \in 1..Len(s) /\ n - 1 = k /\ k \in 0..Len(s)
  OBVIOUS
<1>3. /\ m.checkpoint_ids = [i \in DOMAIN f[k] |-> f[k][i].a[1]]
      /\ m.speed_limits = [i \in DOMAIN g[k] |-> g[k][i].a]
      /\ Stated(s, k, "num_checkpoints", m.number_of_checkpoints)
      /\ Stated(s, k, "num_speed_limits", m.number_of_speedlimits)
      /\ m.ended => CountsRight(m) /\ \E e \in 1..k : s[e].t = "end_file"
  BY DEF ReadTo
<1> HIDE DEF X, f, g
<1>4. /\ f[k] \in Seq(X) /\ f[n] = IF l.t = "id" THEN Append(f[k], l) ELSE f[k]
      /\ g[k] \in Seq(X) /\ g[n] = IF l.t = "limit" THEN Append(g[k], l) ELSE g[k]
  BY <1>1, <1>2 DEF Reads
<1>5. l \in X
  BY <1>2 DEF X
<1>6. v.checkpoint_ids = [i \in DOMAIN f[n] |-> f[n][i].a[1]]
  <2>1. CASE l.t # "id"
    BY <1>3, <1>4, <2>1 DEF Takes
  <2>2. CASE l.t = "id"
    <3> DEFINE u == f[k]
               w == [i \in DOMAIN u |-> u[i].a[1]]
    <3>1. v.checkpoint_ids = Append(w, l.a[1]) /\ f[n] = Append(u, l) /\ u \in Seq(X)
      BY <1>3, <1>4, <2>2 DEF Takes
    <3>2. w \in Seq(Int) /\ v.checkpoint_ids \in Seq(Int)
      BY <1>3 DEF MdfType
    <3> HIDE DEF u
    <3>3. DOMAIN u = 1..Len(u) /\ Len(u) \in Nat
      BY <3>1
    <3>4. DOMAIN w = 1..Len(u)
      BY <3>3
    <3>5. Len(w) = Len(u) /\ \A i \in 1..Len(u) : w[i] = u[i].a[1]
      BY <3>2, <3>3, <3>4
    <3> HIDE DEF w
    <3>6. DOMAIN Append(w, l.a[1]) = 1..(Len(u) + 1)
      BY <3>1, <3>2, <3>5
    <3>7. DOMAIN f[n] = 1..(Len(u) + 1)
      BY <1>5, <3>1
    <3>8. ASSUME NEW i \in 1..(Len(u) + 1)
          PROVE  Append(w, l.a[1])[i] = f[n][i].a[1]
      BY <1>5, <3>1, <3>2, <3>3, <3>5
    <3>9. Append(w, l.a[1]) = [i \in 1..(Len(u) + 1) |-> Append(w, l.a[1])[i]]
      BY <3>1, <3>2, <3>6
    <3> QED BY <3>1, <3>7, <3>8, <3>9
  <2> QED BY <2>1, <2>2
<1>7. v.speed_limits = [i \in DOMAIN g[n] |-> g[n][i].a]
  <2>1. CASE l.t # "limit"
    BY <1>3, <1>4, <2>1 DEF Takes
  <2>2. CASE l.t = "limit"
    <3> DEFINE u == g[k]
               w == [i \in DOMAIN u |-> u[i].a]
    <3>1. v.speed_limits = Append(w, l.a) /\ g[n] = Append(u, l) /\ u \in Seq(X)
      BY <1>3, <1>4, <2>2 DEF Takes
    <3>2. w \in Seq(Id) /\ v.speed_limits \in Seq(Id)
      BY <1>3 DEF MdfType
    <3> HIDE DEF u
    <3>3. DOMAIN u = 1..Len(u) /\ Len(u) \in Nat
      BY <3>1
    <3>4. DOMAIN w = 1..Len(u)
      BY <3>3
    <3>5. Len(w) = Len(u) /\ \A i \in 1..Len(u) : w[i] = u[i].a
      BY <3>2, <3>3, <3>4
    <3> HIDE DEF w
    <3>6. DOMAIN Append(w, l.a) = 1..(Len(u) + 1)
      BY <3>1, <3>2, <3>5
    <3>7. DOMAIN g[n] = 1..(Len(u) + 1)
      BY <1>5, <3>1
    <3>8. ASSUME NEW i \in 1..(Len(u) + 1)
          PROVE  Append(w, l.a)[i] = g[n][i].a
      BY <1>5, <3>1, <3>2, <3>3, <3>5
    <3>9. Append(w, l.a) = [i \in 1..(Len(u) + 1) |-> Append(w, l.a)[i]]
      BY <3>1, <3>2, <3>6
    <3> QED BY <3>1, <3>7, <3>8, <3>9
  <2> QED BY <2>1, <2>2
<1>8. ASSUME NEW count, NEW p, NEW q, Stated(s, k, count, p),
             q = IF l.t = count THEN l.a[1] ELSE p
      PROVE  Stated(s, n, count, q)
  <2>1. \A j \in 1..n : j = n \/ j \in 1..k
    OBVIOUS
  <2>2. n \in 1..n /\ s[n] = l /\ \A j \in 1..k : j \in 1..n
    OBVIOUS
  <2> HIDE DEF n, l
  <2>3. CASE l.t = count
    BY <1>8, <2>2, <2>3 DEF Stated
  <2>4. CASE l.t # count
    BY <1>8, <2>1, <2>2, <2>4 DEF Stated
  <2> QED BY <2>3, <2>4
<1>9. /\ Stated(s, n, "num_checkpoints", v.number_of_checkpoints)
      /\ Stated(s, n, "num_speed_limits", v.number_of_speedlimits)
  <2>1. /\ v.number_of_checkpoints = IF l.t = "num_checkpoints" THEN l.a[1]
                                     ELSE m.number_of_checkpoints
        /\ v.number_of_speedlimits = IF l.t = "num_speed_limits" THEN l.a[1]
                                     ELSE m.number_of_speedlimits
    BY DEF Takes
  <2> HIDE DEF n, l
  <2> QED BY <1>3, <1>8, <2>1
<1>10. ASSUME v.ended
       PROVE  CountsRight(v) /\ \E e \in 1..n : s[e].t = "end_file"
  <2>1. l.t = "end_file"
    BY <1>10 DEF Takes
  <2>2. CountsRight(m)
    BY <2>1 DEF Takes
  <2>3. CountsRight(v)
    BY <2>1, <2>2 DEF Takes, CountsRight
  <2>4. n \in 1..n
    OBVIOUS
  <2> QED BY <2>1, <2>3, <2>4
<1> QED
  BY <1>6, <1>7, <1>9, <1>10 DEF ReadTo, f, g, X

\* Every step keeps the mission as its text says.
LEMMA DamageStep ==
  ParseInv /\ DamageInv /\ [FilesNext]_vars => DamageInv'
<1> SUFFICES ASSUME ParseInv, DamageInv, [FilesNext]_vars PROVE DamageInv'
  OBVIOUS
<1> DEFINE o == origin.mdf
           s == text.mdf
<1>0. /\ s \in Seq(ToSet(o)) /\ mdf \in MdfType /\ line \in Nat
      /\ o \in Seq(ToSet(o)) /\ s \in Damaged(o) /\ origin \in Texts
  <2>1. origin \in Texts /\ s \in Damaged(o)
    BY DEF DamageInv
  <2>2. o \in Seq(ToSet(o))
    BY <2>1, FilesAssumption
  <2>3. s \in Seq(ToSet(o))
    BY <2>1, <2>2, DamagedLines
  <2> QED BY <2>1, <2>2, <2>3 DEF ParseInv, BuiltTypes
<1>1. CASE Reading /\ phase = "rndf"
  <2>1. /\ UNCHANGED <<origin, text, mdf>>
        /\ phase' = "rndf" \/ (phase' = "mdf" /\ line' = 0 /\ state' = "UNKNOWN")
    BY <1>1, RndfFrame
  <2>2. ReadTo(o, s, mdf, 0) /\ 0 <= Len(s)
    BY <1>0, <1>1 DEF DamageInv
  <2> HIDE DEF o, s
  <2>3. ReadTo(o, s, mdf, 0)' /\ (0 <= Len(s))'
    BY <2>1, <2>2 DEF o, s
  <2>4. origin' \in Texts /\ text'.mdf \in Damaged(origin'.mdf)
    BY <2>1 DEF DamageInv
  <2> QED BY <2>1, <2>3, <2>4 DEF DamageInv, o, s
<1>2. CASE Reading /\ phase = "mdf"
  <2>1. ReadTo(o, s, mdf, line) /\ line <= Len(s) /\ state # "MDF_COMMENT"
    BY <1>2 DEF DamageInv
  <2>2. More <=> line < Len(s)
    BY <1>2 DEF More, Lines
  <2>3. Now = s[line + 1]
    BY <1>2 DEF Now, Lines
  <2>4. ASSUME More PROVE Now \in ToSet(o) /\ Now.t # "comment"
    <3>1. Now \in ToSet(o)
      <4> DEFINE Y == ToSet(o)
      <4>1. s \in Seq(Y) /\ line + 1 \in 1..Len(s)
        BY <1>0, <2>2, <2>4
      <4> HIDE DEF s, Y
      <4> QED BY <2>3, <4>1 DEF Y
    <3>2. \A l \in ToSet(o) : l.t # "comment"
      BY <1>0, MissionAssumption
    <3> QED BY <3>1, <3>2
  <2>5. /\ UNCHANGED <<origin, text>>
        /\ \/ /\ More /\ phase' = "mdf" /\ line' = line + 1
              /\ state' # "MDF_COMMENT" /\ Takes(mdf, mdf', Now)
           \/ phase' = "build" /\ ~mdf'.is_valid
           \/ ~More /\ phase' = "build" /\ mdf' = mdf
    BY <1>2, <2>1, <2>4, MdfRead
  <2>6. origin' \in Texts /\ text'.mdf \in Damaged(origin'.mdf)
    BY <1>0, <2>5
  <2>7. CASE More /\ phase' = "mdf" /\ line' = line + 1
             /\ state' # "MDF_COMMENT" /\ Takes(mdf, mdf', Now)
    <3>1. mdf' \in MdfType
      BY ParseStep DEF ParseInv, BuiltTypes
    <3>2. mdf.ended => Now.t = "end_file"
      <4> SUFFICES ASSUME mdf.ended PROVE Now.t = "end_file"
        OBVIOUS
      <4>1. PICK e \in 1..line : s[e].t = "end_file"
        BY <2>1 DEF ReadTo
      <4>2. e \in 1..Len(s) /\ line + 1 \in e..Len(s)
        BY <1>0, <2>2, <2>7
      <4>3. \A i \in 1..Len(o) : o[i].t = "end_file" => i = Len(o)
        BY <1>0, MissionAssumption
      <4> HIDE DEF o, s
      <4>4. \A j \in e..Len(s) : s[j].t = "end_file"
        BY <1>0, <4>1, <4>2, <4>3, EndLast
      <4> QED BY <2>3, <4>2, <4>4
    <3>3. ReadTo(o, s, mdf', line + 1)
      <4> HIDE DEF o, s
      <4> QED BY <1>0, <2>1, <2>2, <2>3, <2>7, <3>1, <3>2, ReadOn
    <3>4. ReadTo(origin'.mdf, text'.mdf, mdf', line') /\ line' <= Len(text'.mdf)
      BY <1>0, <2>2, <2>5, <2>7, <3>3
    <3> QED BY <2>6, <2>7, <3>4 DEF DamageInv
  <2>8. CASE phase' = "build" /\ ~mdf'.is_valid
    BY <2>6, <2>8 DEF DamageInv
  <2>9. CASE ~More /\ phase' = "build" /\ mdf' = mdf
    <3>1. line = Len(s)
      BY <1>0, <2>1, <2>2, <2>9
    <3>2. ReadTo(origin'.mdf, text'.mdf, mdf', Len(text'.mdf))
      BY <2>1, <2>5, <2>9, <3>1
    <3> QED BY <2>6, <2>9, <3>2 DEF DamageInv
  <2> QED BY <2>5, <2>7, <2>8, <2>9
<1>3. CASE build_graph \/ next_checkpoint \/ save \/ Crash \/ Restart
  <2>1. /\ UNCHANGED <<origin, text, mdf>>
        /\ phase \notin {"rndf", "mdf"} /\ phase' \notin {"rndf", "mdf"}
    BY <1>3 DEF build_graph, Dies, Exits, next_checkpoint, save, Crash, Restart
  <2> QED BY <2>1 DEF DamageInv
<1>4. CASE UNCHANGED vars
  BY <1>4 DEF DamageInv, vars, parseVars
<1>5. Reading => phase \in {"rndf", "mdf"}
  BY ReadingFrame
<1> QED
  BY <1>1, <1>2, <1>3, <1>4, <1>5 DEF FilesNext, Reading

\* A mission accepted to its end_file is the one that was written.
LEMMA MissionWhole ==
  ASSUME ParseInv, DamageInv, phase \notin {"rndf", "mdf"}, mdf.is_valid, mdf.ended
  PROVE  LET I == LinesOf(origin.mdf, "id")
             L == LinesOf(origin.mdf, "limit")
         IN /\ mdf.checkpoint_ids = [i \in DOMAIN I |-> I[i].a[1]]
            /\ mdf.speed_limits = [i \in DOMAIN L |-> L[i].a]
<1> DEFINE o == origin.mdf
           s == text.mdf
           X == ToSet(o)
           n == Len(s)
<1>1. origin \in Texts /\ s \in Damaged(o) /\ ReadTo(o, s, mdf, n)
  BY DEF DamageInv
<1>2. o \in Seq(X)
  BY <1>1, FilesAssumption
<1>3. s \in Seq(X)
  BY <1>1, <1>2, DamagedLines
<1>4. \A i \in 1..Len(o) : o[i].t = "end_file" => i = Len(o)
  BY <1>1, <1>2, MissionAssumption
<1>5. mdf \in MdfType
  BY DEF ParseInv, BuiltTypes
<1>6. /\ mdf.checkpoint_ids = [i \in DOMAIN LinesOf(s, "id") |-> LinesOf(s, "id")[i].a[1]]
      /\ mdf.speed_limits = [i \in DOMAIN LinesOf(s, "limit") |-> LinesOf(s, "limit")[i].a]
      /\ Stated(s, n, "num_checkpoints", mdf.number_of_checkpoints)
      /\ Stated(s, n, "num_speed_limits", mdf.number_of_speedlimits)
      /\ CountsRight(mdf) /\ \E e \in 1..n : s[e].t = "end_file"
  <2>1. \A t : SoFar(X, s, t)[n] = LinesOf(s, t)
    BY <1>3, SoFarReads DEF Reads
  <2> HIDE DEF o, s, X, n
  <2> QED BY <1>1, <2>1 DEF ReadTo, X
<1>7. PICK e \in 1..n : s[e].t = "end_file"
  BY <1>6
<1> HIDE DEF o, s, X, n
<1>8. States(o, "num_checkpoints", "id") /\ States(o, "num_speed_limits", "limit")
  <2>1. Len(o) \in 1..Len(o) /\ o[Len(o)].t = "end_file"
    BY <1>1, <1>2, <1>4, <1>7, EndLast DEF n
  <2>2. Len(o) \in DOMAIN o
    BY <1>2, <2>1
  <2> QED BY <1>1, <2>1, <2>2, MissionAssumption DEF o
<1>9. ASSUME NEW t
      PROVE  LinesOf(s, t) \in Seq(X)
  BY <1>3, ThoseKeeps DEF LinesOf
<1>10. ASSUME NEW t, NEW count, t # count, States(o, count, t),
              Stated(s, Len(s), count, Len(LinesOf(s, t)))
       PROVE  LinesOf(s, t) = LinesOf(o, t)
  <2>1. e \in 1..Len(s)
    BY DEF n
  <2>2. s \in Damaged(o)
    BY <1>1
  <2> DEFINE end == "end_file"
  <2>3. s[e].t = end /\ \A i \in 1..Len(o) : o[i].t = end => i = Len(o)
    BY <1>4, <1>7
  <2> HIDE DEF end
  <2> QED BY <1>2, <1>10, <2>1, <2>2, <2>3, CountsCatch
<1>11. LinesOf(s, "id") = LinesOf(o, "id")
  <2> DEFINE u == LinesOf(s, "id")
             w == [i \in DOMAIN u |-> u[i].a[1]]
  <2>1. u \in Seq(X) /\ w \in Seq(Int)
    BY <1>5, <1>6, <1>9 DEF MdfType
  <2> HIDE DEF u
  <2>2. DOMAIN w = 1..Len(u) /\ Len(u) \in Nat
    BY <2>1
  <2>3. Len(w) = Len(u)
    BY <2>1, <2>2
  <2>4. mdf.number_of_checkpoints = Len(u)
    BY <1>6, <2>3 DEF CountsRight, u
  <2>5. Stated(s, n, "num_checkpoints", Len(u))
    BY <1>6, <2>4
  <2>6. "id" # "num_checkpoints"
    OBVIOUS
  <2> QED BY <1>8, <1>10, <2>5, <2>6 DEF n, u
<1>12. LinesOf(s, "limit") = LinesOf(o, "limit")
  <2> DEFINE u == LinesOf(s, "limit")
             w == [i \in DOMAIN u |-> u[i].a]
  <2>1. u \in Seq(X) /\ w \in Seq(Id)
    BY <1>5, <1>6, <1>9 DEF MdfType
  <2> HIDE DEF u
  <2>2. DOMAIN w = 1..Len(u) /\ Len(u) \in Nat
    BY <2>1
  <2>3. Len(w) = Len(u)
    BY <2>1, <2>2
  <2>4. mdf.number_of_speedlimits = Len(u)
    BY <1>6, <2>3 DEF CountsRight, u
  <2>5. Stated(s, n, "num_speed_limits", Len(u))
    BY <1>6, <2>4
  <2>6. "limit" # "num_speed_limits"
    OBVIOUS
  <2> QED BY <1>8, <1>10, <2>5, <2>6 DEF n, u
<1> QED
  BY <1>6, <1>11, <1>12 DEF o

\* However the mission file was damaged, a mission that is accepted to its
\* end_file has every check-point and every speed limit that was written, in
\* their order (MDF::MDF, MDF::isvalid), for all texts and whatever the
\* uninitialized counts hold.
THEOREM FilesMissionIntact ==
  FilesSpec => []MissionIntact
<1>1. FilesInit => ParseInv /\ DamageInv
  BY ParseInit, DamageInit
<1>2. (ParseInv /\ DamageInv) /\ [FilesNext]_vars => (ParseInv /\ DamageInv)'
  BY ParseStep, DamageStep
<1>3. ParseInv /\ DamageInv => MissionIntact
  BY MissionWhole DEF MissionIntact
<1> QED
  BY <1>1, <1>2, <1>3, PTL DEF FilesSpec

\* The lines of a token are the lines that have it.
LEMMA LinesOfAll ==
  ASSUME NEW X, NEW s \in Seq(X), NEW t
  PROVE  /\ LinesOf(s, t) \in Seq(X)
         /\ \A i \in 1..Len(LinesOf(s, t)) :
              LinesOf(s, t)[i] \in ToSet(s) /\ LinesOf(s, t)[i].t = t
         /\ \A l \in ToSet(s) : l.t = t =>
              \E i \in 1..Len(LinesOf(s, t)) : LinesOf(s, t)[i] = l
<1> DEFINE f == SoFar(X, s, t)
           n == Len(s)
           P == {l \in ToSet(s) : l.t = t}
<1>1. /\ f \in [0..n -> Seq(X)] /\ LinesOf(s, t) = f[n] /\ n \in Nat
      /\ \A i \in 1..n : f[i] = IF s[i].t = t THEN Append(f[i - 1], s[i]) ELSE f[i - 1]
  BY SoFarReads DEF Reads
<1>2. /\ LinesOf(s, t) \in Seq(X)
      /\ ToSet(LinesOf(s, t)) \subseteq ToSet(s) \cap P
  BY ThoseKeeps DEF LinesOf
<1>3. \A i \in 1..Len(LinesOf(s, t)) :
         LinesOf(s, t)[i] \in ToSet(s) /\ LinesOf(s, t)[i].t = t
  BY <1>2 DEF ToSet
<1> HIDE DEF f, P
<1> DEFINE Good(i) == \A j \in 1..i : s[j].t = t =>
                         \E h \in 1..Len(f[i]) : f[i][h] = s[j]
           G == {i \in 0..n : Good(i)}
<1>4. 0 \in G
  BY <1>1
<1>5. ASSUME NEW i \in 1..n, i - 1 \in G PROVE i \in G
  <2>1. Good(i - 1) /\ f[i - 1] \in Seq(X) /\ i \in 0..n /\ s[i] \in X
    BY <1>1, <1>5
  <2>2. \A j \in 1..i : j = i \/ j \in 1..(i - 1)
    OBVIOUS
  <2>3. CASE s[i].t = t
    <3> DEFINE u == f[i - 1]
    <3>1. f[i] = Append(u, s[i]) /\ u \in Seq(X)
      BY <1>1, <2>1, <2>3
    <3> HIDE DEF u
    <3>2. /\ Len(f[i]) = Len(u) + 1 /\ f[i][Len(u) + 1] = s[i] /\ Len(u) \in Nat
          /\ \A h \in 1..Len(u) : f[i][h] = u[h] /\ h \in 1..Len(f[i])
      BY <2>1, <3>1
    <3>3. Good(i)
      BY <2>1, <2>2, <3>2 DEF u
    <3> QED BY <2>1, <3>3
  <2>4. CASE s[i].t # t
    <3>1. f[i] = f[i - 1]
      BY <1>1, <2>4
    <3>2. Good(i)
      BY <2>1, <2>2, <2>4, <3>1
    <3> QED BY <2>1, <3>2
  <2> QED BY <2>3, <2>4
<1>6. Good(n)
  <2> HIDE DEF G
  <2>1. \A i \in 0..n : i \in G
    BY <1>1, <1>4, <1>5, Induction
  <2>2. n \in G
    BY <1>1, <2>1
  <2> QED BY <2>2 DEF G
<1>7. \A l \in ToSet(s) : l.t = t =>
         \E i \in 1..Len(LinesOf(s, t)) : LinesOf(s, t)[i] = l
  <2>1. \A l \in ToSet(s) : \E j \in 1..n : l = s[j]
    BY DEF ToSet
  <2> QED BY <1>1, <1>6, <2>1
<1> QED
  BY <1>2, <1>3, <1>7

\* The speeds of a segment come from one of its limits, if it has any
\* (MDF::add_speed_limits).
LEMMA SpeedOf ==
  ASSUME NEW nodes, NEW limits \in Seq(Id), NEW s \in {n.id[1] : n \in nodes},
         NEW v, v = add_speed_limits(nodes, limits)[s]
  PROVE  IF \A i \in 1..Len(limits) : limits[i][1] # s
         THEN v = [min |-> 0, max |-> DEFAULT_LANE_SPEED]
         ELSE \E i \in 1..Len(limits) :
                LET a == limits[i] IN
                /\ a[1] = s
                /\ v.min = a[2] /\ v.min <= v.max
                /\ IF a[3] = 0 THEN v.max >= DEFAULT_LANE_SPEED
                   ELSE a[3] >= a[2] => v.max = a[3]
<1> DEFINE n == Len(limits)
           T == {i \in DOMAIN limits : limits[i][1] = s}
           l == LimitOf(limits, s)
           top == IF l[3] = 0 THEN DEFAULT_LANE_SPEED ELSE l[3]
<1>1. v = IF \A i \in DOMAIN limits : limits[i][1] # s
          THEN [min |-> 0, max |-> DEFAULT_LANE_SPEED]
          ELSE [min |-> l[2], max |-> Max({l[2], top})]
  BY DEF add_speed_limits
<1>2. DOMAIN limits = 1..n /\ n \in Nat
  OBVIOUS
<1>3. CASE \A i \in 1..n : limits[i][1] # s
  BY <1>1, <1>2, <1>3
<1>4. CASE ~(\A i \in 1..n : limits[i][1] # s)
  <2>1. T \subseteq 1..n /\ T # {}
    BY <1>2, <1>4
  <2>2. l = limits[Max(T)]
    BY DEF LimitOf
  <2>3. \A i \in T : limits[i][1] = s /\ i \in 1..n
    BY <1>2
  <2> HIDE DEF T
  <2>4. PICK m \in T : \A j \in T : j <= m
    BY <1>2, <2>1, GreatestIndex
  <2>5. Max(T) \in T
    <3>1. \E x \in T : \A y \in T : x >= y
      BY <2>3, <2>4
    <3> QED BY <3>1 DEF Max
  <2>6. PICK i \in 1..n : l = limits[i] /\ limits[i][1] = s
    BY <2>2, <2>3, <2>5
  <2> HIDE DEF l
  <2>7. l \in Id
    BY <2>6
  <2>8. l[2] \in Int /\ l[3] \in Int /\ top \in Int
    BY <2>7 DEF Id, DEFAULT_LANE_SPEED
  <2> HIDE DEF top
  <2>9. Max({l[2], top}) = IF l[2] >= top THEN l[2] ELSE top
    BY <2>8, MaxOfTwo
  <2>10. v.min = l[2] /\ v.max = IF l[2] >= top THEN l[2] ELSE top
    BY <1>1, <1>2, <1>4, <2>9
  <2>11. /\ v.min = l[2] /\ v.min <= v.max
         /\ IF l[3] = 0 THEN v.max >= DEFAULT_LANE_SPEED
            ELSE l[3] >= l[2] => v.max = l[3]
    BY <2>8, <2>10 DEF top, DEFAULT_LANE_SPEED
  <2> QED BY <1>4, <2>6, <2>11
<1> QED
  BY <1>3, <1>4

\* A mission that runs has a valid description.
RunInv == phase \in {"run", "saving", "down"} => mdf.is_valid

\* No step runs a mission whose file was refused.
LEMMA RunStep ==
  RunInv /\ [FilesNext]_vars => RunInv'
<1> SUFFICES ASSUME RunInv, [FilesNext]_vars PROVE RunInv'
  OBVIOUS
<1>1. CASE Reading
  BY <1>1, ReadingFrame DEF RunInv
<1>2. CASE build_graph
  BY <1>2 DEF build_graph, Dies, Exits, RunInv
<1>3. CASE next_checkpoint \/ save \/ Crash \/ Restart \/ UNCHANGED vars
  BY <1>3 DEF next_checkpoint, save, Crash, Restart, vars, RunInv
<1> QED
  BY <1>1, <1>2, <1>3 DEF FilesNext, Reading

\* A mission that starts from files read to their end_file drives every edge
\* at the speeds that were written for the segment it leaves (MDF::MDF,
\* MDF::add_speed_limits), for all texts and damages.
THEOREM FilesSpeedsAsStated ==
  FilesSpec => []SpeedsAsStated
<1> DEFINE Inv == ParseInv /\ GraphInv /\ DamageInv /\ RunInv
<1>1. FilesInit => Inv
  BY ParseInit, GraphInit, DamageInit DEF FilesInit, RunInv
<1>2. Inv /\ [FilesNext]_vars => Inv'
  BY ParseStep, GraphStep, DamageStep, RunStep
<1>3. Inv => SpeedsAsStated
  <2> SUFFICES ASSUME Inv, phase = "run", rndf.ended, mdf.ended,
                      NEW e \in ToSet(graph.edges) \cup graph.inner \cup graph.implicit
               PROVE  LET v == graph.speed[e.from[1]]
                          stated == {k.a : k \in {l \in ToSet(origin.mdf) :
                                        l.t = "limit" /\ l.a[1] = e.from[1]}}
                      IN IF stated = {} THEN v = [min |-> 0, max |-> DEFAULT_LANE_SPEED]
                         ELSE \E a \in stated :
                                /\ v.min = a[2] /\ v.min <= v.max
                                /\ IF a[3] = 0 THEN v.max >= DEFAULT_LANE_SPEED
                                   ELSE a[3] >= a[2] => v.max = a[3]
    BY DEF SpeedsAsStated
  <2> DEFINE o == origin.mdf
             L == LinesOf(o, "limit")
             lim == mdf.speed_limits
             seg == e.from[1]
             v == graph.speed[seg]
             stated == {k.a : k \in {l \in ToSet(o) : l.t = "limit" /\ l.a[1] = seg}}
  <2>1. lim = [i \in DOMAIN L |-> L[i].a] /\ mdf.is_valid
    BY MissionWhole DEF RunInv
  <2>2. lim \in Seq(Id)
    BY DEF ParseInv, BuiltTypes, MdfType
  <2>3. v = add_speed_limits(graph.nodes, lim)[seg]
    <3>1. graph = BuiltGraph
      BY DEF GraphInv
    <3> QED BY <2>1, <3>1 DEF BuiltGraph
  <2>4. seg \in {n.id[1] : n \in graph.nodes}
    <3>1. Has(graph.nodes, e.from)
      BY Anchored DEF EdgesAnchored
    <3> QED BY <3>1 DEF Has
  <2>5. origin \in Texts
    BY DEF DamageInv
  <2>6. o \in Seq(ToSet(o))
    BY <2>5, FilesAssumption
  <2>7. /\ L \in Seq(ToSet(o))
        /\ \A i \in 1..Len(L) : L[i] \in ToSet(o) /\ L[i].t = "limit"
        /\ \A l \in ToSet(o) : l.t = "limit" => \E i \in 1..Len(L) : L[i] = l
    BY <2>6, LinesOfAll
  <2> HIDE DEF o, L, lim, seg, v
  <2>8. DOMAIN L = 1..Len(L) /\ Len(L) \in Nat
    BY <2>7
  <2>9. Len(lim) = Len(L) /\ \A i \in 1..Len(L) : lim[i] = L[i].a
    BY <2>1, <2>2, <2>8
  <2>10. \A i \in 1..Len(L) : lim[i][1] = seg => lim[i] \in stated
    BY <2>7, <2>9
  <2>11. ASSUME stated # {} PROVE \E i \in 1..Len(L) : lim[i][1] = seg
    BY <2>7, <2>9, <2>11
  <2> HIDE DEF stated
  <2>12. IF \A i \in 1..Len(lim) : lim[i][1] # seg
         THEN v = [min |-> 0, max |-> DEFAULT_LANE_SPEED]
         ELSE \E i \in 1..Len(lim) :
                LET a == lim[i] IN
                /\ a[1] = seg
                /\ v.min = a[2] /\ v.min <= v.max
                /\ IF a[3] = 0 THEN v.max >= DEFAULT_LANE_SPEED
                   ELSE a[3] >= a[2] => v.max = a[3]
    BY <2>2, <2>3, <2>4, SpeedOf
  <2>13. CASE stated = {}
    <3>1. \A i \in 1..Len(lim) : lim[i][1] # seg
      BY <2>9, <2>10, <2>13
    <3> QED BY <2>12, <2>13, <3>1 DEF stated, v, seg, o
  <2>14. CASE stated # {}
    <3>1. ~(\A i \in 1..Len(lim) : lim[i][1] # seg)
      BY <2>9, <2>11, <2>14
    <3>2. \E a \in stated :
                /\ v.min = a[2] /\ v.min <= v.max
                /\ IF a[3] = 0 THEN v.max >= DEFAULT_LANE_SPEED
                   ELSE a[3] >= a[2] => v.max = a[3]
      BY <2>9, <2>10, <2>12, <3>1
    <3> QED BY <2>14, <3>2 DEF stated, v, seg, o
  <2> QED BY <2>13, <2>14
<1> QED
  BY <1>1, <1>2, <1>3, PTL DEF FilesSpec

=============================================================================
