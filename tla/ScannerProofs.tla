--------------------------- MODULE ScannerProofs ---------------------------
(***************************************************************************)
(* Proofs about Scanner, for every call: any text, any rules, any number   *)
(* of workers, whatever order the tasks finish in.                         *)
(***************************************************************************)
EXTENDS Scanner, SequenceTheorems, FiniteSetTheorems, WellFoundedInduction, TLAPS

-----------------------------------------------------------------------------
(* Induction, with the property as a set: the provers cannot instantiate   *)
(* the library's theorems over operators, but they can this one.           *)

\* A set of naturals that is not empty has a least element.
LEMMA LeastNat ==
  ASSUME NEW T, T \subseteq Nat, T # {}
  PROVE  \E x \in T : \A y \in T : x <= y
  <1> DEFINE R == OpToRel(<, Nat)
  <1>1. IsWellFoundedOn(R, Nat)
    BY NatLessThanWellFounded
  <1>2. PICK x \in T : \A y \in T : ~(<<y, x>> \in R)
    <2> HIDE DEF R
    <2> QED
      BY <1>1, WFMin
  <1>3. ASSUME NEW y \in T PROVE x <= y
    <2>1. y < x => <<y, x>> \in R
      BY Zenon DEF OpToRel
    <2>2. ~(y < x)
      BY <1>2, <2>1
    <2> QED
      BY <2>2
  <1> QED
    BY <1>3

\* What holds of x when it holds of everything ranked below x, holds.
LEMMA RankInduction ==
  ASSUME NEW S, NEW rank \in [S -> Nat], NEW Good,
         \A x \in S : (\A y \in S : rank[y] < rank[x] => y \in Good) => x \in Good
  PROVE  S \subseteq Good
  <1> DEFINE Bad == {rank[x] : x \in {y \in S : y \notin Good}}
  <1> SUFFICES ASSUME Bad # {} PROVE FALSE
    OBVIOUS
  <1>1. PICK n \in Bad : \A m \in Bad : n <= m
    <2>1. Bad \subseteq Nat
      OBVIOUS
    <2> HIDE DEF Bad
    <2> QED
      BY <2>1, LeastNat
  <1>2. PICK x \in S : x \notin Good /\ rank[x] = n
    <2>1. n \in {rank[x] : x \in {y \in S : y \notin Good}}
      BY <1>1
    <2>2. \E x \in {y \in S : y \notin Good} : n = rank[x]
      BY ONLY <2>1
    <2> QED
      BY <2>2
  <1>3. ASSUME NEW y \in S, rank[y] < rank[x] PROVE y \in Good
    <2> SUFFICES ASSUME y \notin Good PROVE FALSE
      OBVIOUS
    <2>1. rank[y] \in Bad
      OBVIOUS
    <2>2. n <= rank[y] /\ n \in Nat /\ rank[y] \in Nat
      <3> HIDE DEF Bad
      <3> QED
        BY <1>1, <1>2, <2>1
    <2> QED
      BY <1>2, <1>3, <2>2
  <1> QED
    BY <1>2, <1>3

\* F makes of a function from S to T another, whose value at x depends on the
\* values of the first below x only.
Recursion(S, T, N, rank, F) ==
  /\ T # {} /\ N \in Nat /\ rank \in [S -> 0..N]
  /\ F \in [[S -> T] -> [S -> T]]
  /\ \A g, h \in [S -> T], x \in S :
       (\A y \in S : rank[y] < rank[x] => g[y] = h[y]) => F[g][x] = F[h][x]

\* A function that is defined by recursion to lower ranks exists.
LEMMA RecursiveFunction ==
  ASSUME NEW S, NEW T, NEW N, NEW rank, NEW F, Recursion(S, T, N, rank, F)
  PROVE  \E g \in [S -> T] : g = F[g]
  <1>0. /\ T # {} /\ N \in Nat /\ rank \in [S -> 0..N]
        /\ F \in [[S -> T] -> [S -> T]]
        /\ \A g, h \in [S -> T], x \in S :
             (\A y \in S : rank[y] < rank[x] => g[y] = h[y]) => F[g][x] = F[h][x]
    BY DEF Recursion
  <1> PICK t0 \in T : TRUE
    BY <1>0
  <1> DEFINE Upto(n) == \E g \in [S -> T] : \A x \in S : rank[x] < n => g[x] = F[g][x]
             Good == {n \in Nat : Upto(n)}
             id == [n \in Nat |-> n]
  <1>1. ASSUME NEW n \in Nat, \A m \in Nat : id[m] < id[n] => m \in Good
        PROVE  n \in Good
    <2>1. CASE n = 0
      <3>1. [x \in S |-> t0] \in [S -> T] /\ \A x \in S : ~(rank[x] < 0)
        BY <1>0
      <3>2. Upto(0)
        BY <3>1
      <3> QED
        BY <2>1, <3>2
    <2>2. CASE n # 0
      <3>1. n - 1 \in Nat /\ n - 1 \in Good
        BY <1>1, <2>2
      <3>2. PICK g \in [S -> T] : \A x \in S : rank[x] < n - 1 => g[x] = F[g][x]
        BY <3>1
      <3>3. F[g] \in [S -> T]
        BY <1>0
      <3>4. ASSUME NEW x \in S, rank[x] < n PROVE F[g][x] = F[F[g]][x]
        <4>1. ASSUME NEW y \in S, rank[y] < rank[x] PROVE F[g][y] = g[y]
          <5>1. rank[y] < n - 1
            BY <1>0, <3>4, <4>1
          <5> QED
            BY <3>2, <5>1
        <4> QED
          BY <1>0, <3>3, <4>1
      <3>5. Upto(n)
        BY <3>3, <3>4
      <3> QED
        BY <3>5
    <2> QED
      BY <2>1, <2>2
  <1>2. Nat \subseteq Good
    <2>1. id \in [Nat -> Nat]
      OBVIOUS
    <2> HIDE DEF Good, id
    <2> QED
      BY <1>1, <2>1, RankInduction
  <1>3. PICK g \in [S -> T] : \A x \in S : rank[x] < N + 1 => g[x] = F[g][x]
    <2>1. N + 1 \in Good
      <3> HIDE DEF Good
      <3> QED
        BY <1>0, <1>2
    <2> QED
      BY <2>1
  <1>4. \A x \in S : rank[x] < N + 1
    BY <1>0
  <1>5. \A x \in S : g[x] = F[g][x]
    BY <1>3, <1>4
  <1>6. g = F[g]
    BY <1>0, <1>5
  <1> QED
    BY <1>6
-----------------------------------------------------------------------------
(* The loop over the matches of one rule.                                  *)

Positions(size) == (0..(size + 1)) \X (-1..size)

\* The body of Accepted's walk.
Step(r, at, g) ==
  UNION {(IF m.start = m.end /\ m.start = at[2] THEN {} ELSE {m})
           \cup g[<<IF m.start < m.end THEN m.end ELSE m.start + 1, m.end>>]
         : m \in Leftmost(r, at[1])}

\* Where the loop goes after the match m.
After(m) == <<IF m.start < m.end THEN m.end ELSE m.start + 1, m.end>>

MatchesWithin(r, size) == \A m \in r.raw : Within(size, m)

\* The loop moves on with every match.
LEMMA MovesOn ==
  ASSUME NEW r, NEW size \in Nat, MatchesWithin(r, size),
         NEW at \in Positions(size), NEW m \in Leftmost(r, at[1])
  PROVE  /\ m \in r.raw /\ m.start \in Nat /\ m.end \in Nat /\ m.start <= m.end
         /\ at[1] <= m.start
         /\ After(m) \in Positions(size) /\ After(m)[1] > at[1]
  <1>1. /\ m \in r.raw /\ m.start >= at[1] /\ at[1] \in 0..(size + 1)
        /\ m.start \in 0..size /\ m.end \in m.start..size
    BY DEF Leftmost, MatchesWithin, Within, Positions
  <1>2. /\ (IF m.start < m.end THEN m.end ELSE m.start + 1) \in 0..(size + 1)
        /\ (IF m.start < m.end THEN m.end ELSE m.start + 1) > at[1]
        /\ m.end \in -1..size
    BY <1>1
  <1>3. After(m) \in Positions(size) /\ After(m)[1] > at[1]
    BY <1>2 DEF After, Positions
  <1> QED
    BY <1>1, <1>3

\* A member of Step.
LEMMA InStep ==
  ASSUME NEW r, NEW at, NEW g, NEW x
  PROVE  x \in Step(r, at, g) <=>
           \E m \in Leftmost(r, at[1]) :
             \/ x = m /\ ~(m.start = m.end /\ m.start = at[2])
             \/ x \in g[After(m)]
  BY DEF Step, After

\* The recursion of Accepted is well founded: walk exists.
LEMMA WalkExists ==
  ASSUME NEW r, NEW size \in Nat, MatchesWithin(r, size)
  PROVE  \E g : g = [at \in Positions(size) |-> Step(r, at, g)]
  <1> DEFINE S == Positions(size)
             T == SUBSET r.raw
             F == [g \in [S -> T] |-> [at \in S |-> Step(r, at, g)]]
             rank == [at \in S |-> size + 1 - at[1]]
             N == size + 1
  <1>1. rank \in [S -> 0..N]
    BY DEF Positions
  <1>2. F \in [[S -> T] -> [S -> T]]
    <2> SUFFICES ASSUME NEW g \in [S -> T], NEW at \in S, NEW x \in Step(r, at, g)
                 PROVE  x \in r.raw
      OBVIOUS
    <2>1. PICK m \in Leftmost(r, at[1]) : x = m \/ x \in g[After(m)]
      BY InStep
    <2>2. m \in r.raw /\ After(m) \in S
      BY MovesOn
    <2> QED
      BY <2>1, <2>2
  <1>3. ASSUME NEW g \in [S -> T], NEW h \in [S -> T], NEW at \in S,
               \A y \in S : rank[y] < rank[at] => g[y] = h[y]
        PROVE  F[g][at] = F[h][at]
    <2>1. ASSUME NEW m \in Leftmost(r, at[1]) PROVE g[After(m)] = h[After(m)]
      <3>1. After(m) \in S /\ After(m)[1] > at[1]
        BY MovesOn
      <3>2. at[1] \in Int /\ After(m)[1] \in Int
        BY <3>1 DEF Positions
      <3>3. rank[After(m)] < rank[at]
        BY <3>1, <3>2
      <3> QED
        BY <1>3, <3>1, <3>3
    <2>2. \A x : x \in Step(r, at, g) <=> x \in Step(r, at, h)
      BY <2>1, InStep
    <2>3. Step(r, at, g) = Step(r, at, h)
      BY <2>2
    <2> QED
      BY <2>3
  <1>4. {} \in T /\ N \in Nat
    OBVIOUS
  <1>5. Recursion(S, T, N, rank, F)
    <2> HIDE DEF S, T, F, rank, N
    <2> QED
      BY <1>1, <1>2, <1>3, <1>4 DEF Recursion
  <1>6. PICK g \in [S -> T] : g = F[g]
    <2> HIDE DEF S, T, F, rank, N
    <2> QED
      BY <1>5, RecursiveFunction
  <1> QED
    BY <1>6

\* What Accepted is: the value of a function that obeys its equation.
LEMMA WalkEquation ==
  ASSUME NEW r, NEW size \in Nat, size # 0, MatchesWithin(r, size)
  PROVE  \E g : /\ g = [at \in Positions(size) |-> Step(r, at, g)]
                /\ Accepted(r, size) = g[<<0, -1>>]
  <1> DEFINE walk[at \in (0..(size + 1)) \X (-1..size)] ==
        UNION {(IF m.start = m.end /\ m.start = at[2] THEN {} ELSE {m})
                 \cup walk[<<IF m.start < m.end THEN m.end ELSE m.start + 1, m.end>>]
               : m \in Leftmost(r, at[1])}
  <1>1. Accepted(r, size) = walk[<<0, -1>>]
    BY DEF Accepted
  <1>2. walk = CHOOSE g : g = [at \in Positions(size) |-> Step(r, at, g)]
    BY DEF Step, Positions
  <1>3. walk = [at \in Positions(size) |-> Step(r, at, walk)]
    <2> HIDE DEF walk
    <2> QED
      BY <1>2, WalkExists
  <1> QED
    BY <1>1, <1>3

\* m is accepted from at on, or starts inside a match that is.
Seen(g, at, m) ==
  m \in g[at] \/ \E n \in g[at] \ {m} : n.start < m.start /\ m.start < n.end

\* The loop accepts matches of the rule only, and passes over none that is not
\* empty: what it does not accept starts inside a match it accepts.
LEMMA LoopSeesAll ==
  ASSUME NEW r, NEW size \in Nat, MatchesWithin(r, size), size # 0
  PROVE  /\ Accepted(r, size) \subseteq r.raw
         /\ \A m \in r.raw : m.start < m.end =>
              \/ m \in Accepted(r, size)
              \/ \E n \in Accepted(r, size) \ {m} : n.start < m.start /\ m.start < n.end
  <1>1. PICK g : /\ g = [at \in Positions(size) |-> Step(r, at, g)]
                 /\ Accepted(r, size) = g[<<0, -1>>]
    BY WalkEquation
  <1> DEFINE S == Positions(size)
             Good == {at \in S : /\ g[at] \subseteq r.raw
                                 /\ \A m \in r.raw : m.start < m.end /\ at[1] <= m.start
                                                     => Seen(g, at, m)}
             rank == [at \in S |-> size + 1 - at[1]]
  <1>2. rank \in [S -> Nat]
    BY DEF Positions
  <1>3. ASSUME NEW at \in S, \A y \in S : rank[y] < rank[at] => y \in Good
        PROVE  at \in Good
    <2>1. g[at] = Step(r, at, g)
      BY <1>1
    <2>2. ASSUME NEW m \in Leftmost(r, at[1])
          PROVE  /\ m \in r.raw /\ m.start \in Nat /\ m.end \in Nat /\ m.start <= m.end
                 /\ at[1] <= m.start /\ After(m) \in Good
      <3>1. /\ m \in r.raw /\ m.start \in Nat /\ m.end \in Nat /\ m.start <= m.end
            /\ at[1] <= m.start
            /\ After(m) \in S /\ After(m)[1] > at[1]
        BY MovesOn
      <3>2. at[1] \in Int /\ After(m)[1] \in Int
        BY <3>1 DEF Positions
      <3>3. rank[After(m)] < rank[at]
        BY <3>1, <3>2
      <3>4. After(m) \in Good
        <4> HIDE DEF rank, Good, S
        <4> QED
          BY <1>3, <3>1, <3>3
      <3> QED
        BY <3>1, <3>4
    <2>3. g[at] \subseteq r.raw
      BY <2>1, <2>2, InStep
    <2>4. ASSUME NEW m \in r.raw, m.start < m.end, at[1] <= m.start
          PROVE  Seen(g, at, m)
      <3>1. PICK n \in Leftmost(r, at[1]) : n.start <= m.start
        <4> DEFINE T == {x.start : x \in {y \in r.raw : y.start >= at[1]}}
        <4>1. \A x \in r.raw : x.start \in Nat
          BY DEF MatchesWithin, Within
        <4>2. T \subseteq Nat /\ m.start \in T
          BY <2>4, <4>1 DEF Positions
        <4>3. PICK a \in T : \A b \in T : a <= b
          <5> HIDE DEF T
          <5> QED
            BY <4>2, LeastNat
        <4>4. PICK n \in {y \in r.raw : y.start >= at[1]} : n.start = a
          BY Zenon
        <4>5. \A x \in r.raw : x.start >= at[1] => n.start <= x.start
          BY <4>3, <4>4
        <4>6. n \in Leftmost(r, at[1]) /\ n.start <= m.start
          BY <4>2, <4>3, <4>4, <4>5 DEF Leftmost
        <4> QED
          BY <4>6
      <3>2. /\ n \in r.raw /\ n.start \in Nat /\ n.end \in Nat /\ n.start <= n.end
            /\ at[1] <= n.start /\ After(n) \in Good
            /\ m.start \in Nat /\ m.end \in Nat /\ at[1] \in Int
        BY <2>2 DEF MatchesWithin, Within, Positions
      <3>3. g[After(n)] \subseteq g[at]
        BY <2>1, InStep
      <3>4. CASE n.start = m.start
        <4>1. m \in Leftmost(r, at[1])
          BY <2>4, <3>2, <3>4 DEF Leftmost
        <4>2. m.start # m.end
          BY <2>4, <3>2
        <4>3. m \in Step(r, at, g)
          BY <4>1, <4>2, InStep
        <4> QED
          BY <2>1, <4>3 DEF Seen
      <3>5. CASE n.start < m.start /\ m.start < n.end
        <4>1. n \in Step(r, at, g) /\ n # m
          BY <3>2, <3>5, InStep
        <4> QED
          BY <2>1, <3>5, <4>1 DEF Seen
      <3>6. CASE n.start < m.start /\ n.end <= m.start
        <4>1. After(n)[1] <= m.start
          BY <3>2, <3>6 DEF After
        <4>2. Seen(g, After(n), m)
          BY <2>4, <3>2, <4>1
        <4> QED
          BY <3>3, <4>2 DEF Seen
      <3> QED
        BY <3>1, <3>2, <3>4, <3>5, <3>6
    <2> QED
      BY <2>3, <2>4
  <1>4. S \subseteq Good
    <2> HIDE DEF S, Good, rank
    <2> QED
      BY <1>2, <1>3, RankInduction
  <1>5. <<0, -1>> \in S /\ <<0, -1>>[1] = 0
    BY DEF Positions
  <1>6. \A m \in r.raw : 0 <= m.start
    BY DEF MatchesWithin, Within
  <1> QED
    BY <1>1, <1>4, <1>5, <1>6 DEF Seen

OneForEachStart(r) == \A m, n \in r.raw : m.start = n.start => m = n

Apart(m, n) == m.end <= n.start \/ n.end <= m.start

\* No two matches that the loop accepts overlap: it searches on from the end of
\* the one it has.
LEMMA AcceptedApart ==
  ASSUME NEW r, NEW size \in Nat, MatchesWithin(r, size), OneForEachStart(r), size # 0
  PROVE  \A m, n \in Accepted(r, size) : m # n => Apart(m, n)
  <1>1. PICK g : /\ g = [at \in Positions(size) |-> Step(r, at, g)]
                 /\ Accepted(r, size) = g[<<0, -1>>]
    BY WalkEquation
  <1> DEFINE S == Positions(size)
             Good == {at \in S : /\ \A m \in g[at] : m \in r.raw /\ at[1] <= m.start
                                 /\ \A m, n \in g[at] : m # n => Apart(m, n)}
             rank == [at \in S |-> size + 1 - at[1]]
  <1>2. rank \in [S -> Nat]
    BY DEF Positions
  <1>3. ASSUME NEW at \in S, \A y \in S : rank[y] < rank[at] => y \in Good
        PROVE  at \in Good
    <2>1. g[at] = Step(r, at, g)
      BY <1>1
    <2>2. ASSUME NEW m \in Leftmost(r, at[1])
          PROVE  /\ m \in r.raw /\ m.start \in Nat /\ m.end \in Nat /\ m.start <= m.end
                 /\ at[1] <= m.start /\ After(m) \in Good /\ m.end <= After(m)[1]
                 /\ at[1] < After(m)[1] /\ After(m)[1] \in Int /\ at[1] \in Int
      <3>1. /\ m \in r.raw /\ m.start \in Nat /\ m.end \in Nat /\ m.start <= m.end
            /\ at[1] <= m.start
            /\ After(m) \in S /\ After(m)[1] > at[1]
        BY MovesOn
      <3>2. at[1] \in Int /\ After(m)[1] \in Int
        BY <3>1 DEF Positions
      <3>3. rank[After(m)] < rank[at]
        BY <3>1, <3>2
      <3>4. After(m) \in Good
        <4> HIDE DEF rank, Good, S
        <4> QED
          BY <1>3, <3>1, <3>3
      <3>5. m.end <= After(m)[1]
        BY <3>1 DEF After
      <3> QED
        BY <3>1, <3>2, <3>4, <3>5
    <2>3. ASSUME NEW x \in g[at]
          PROVE  \E m \in Leftmost(r, at[1]) : x = m \/ x \in g[After(m)]
      BY <2>1, InStep
    <2>4. ASSUME NEW x \in g[at] PROVE x \in r.raw /\ at[1] <= x.start
      <3>1. PICK m \in Leftmost(r, at[1]) : x = m \/ x \in g[After(m)]
        BY <2>3
      <3>2. x \in g[After(m)] => x \in r.raw /\ After(m)[1] <= x.start
        BY <2>2
      <3>3. x \in r.raw => x.start \in Nat
        BY DEF MatchesWithin, Within
      <3> QED
        BY <2>2, <3>1, <3>2, <3>3
    <2>5. ASSUME NEW x \in g[at], NEW y \in g[at], x # y PROVE Apart(x, y)
      <3>1. PICK m \in Leftmost(r, at[1]) : x = m \/ x \in g[After(m)]
        BY <2>3
      <3>2. PICK n \in Leftmost(r, at[1]) : y = n \/ y \in g[After(n)]
        BY <2>3
      <3>3. m = n
        <4>1. m.start <= n.start /\ n.start <= m.start
          BY <2>2 DEF Leftmost
        <4> QED
          BY <2>2, <4>1 DEF OneForEachStart
      <3>4. \A z \in g[After(m)] : z \in r.raw /\ After(m)[1] <= z.start /\ z.start \in Nat
        BY <2>2 DEF MatchesWithin, Within
      <3>5. \A z \in g[After(m)] : m.end <= z.start
        BY <2>2, <3>4
      <3>6. CASE x = m
        BY <2>5, <3>2, <3>3, <3>5, <3>6 DEF Apart
      <3>7. CASE y = m
        BY <2>5, <3>1, <3>5, <3>7 DEF Apart
      <3>8. CASE x \in g[After(m)] /\ y \in g[After(m)]
        BY <2>2, <2>5, <3>8
      <3> QED
        BY <3>1, <3>2, <3>3, <3>6, <3>7, <3>8
    <2> QED
      BY <2>4, <2>5
  <1>4. S \subseteq Good
    <2> HIDE DEF S, Good, rank
    <2> QED
      BY <1>2, <1>3, RankInduction
  <1>5. <<0, -1>> \in S
    BY DEF Positions
  <1> QED
    BY <1>1, <1>4, <1>5
-----------------------------------------------------------------------------
(* The calls, and what a rule reports.                                     *)

CallInv == in \in Inputs

LEMMA CallInvariant == Spec => []CallInv
  <1>1. Init => CallInv
    BY DEF Init, CallInv
  <1>2. CallInv /\ [Next]_vars => CallInv'
    BY DEF CallInv, Next, vars, NothingToScan, Return, Filter, LaunchTask, LaunchFails,
           ScanRule, Collect, Unwind, GrowRun, EmitRun, Finish, Returned
  <1> QED
    BY <1>1, <1>2, PTL DEF Spec

\* What the constants' assumption says of a call.
LEMMA CallFacts ==
  ASSUME CallInv
  PROVE  /\ MaxText \in Nat /\ in.size \in Nat /\ in.size <= MaxText
         /\ in.max_workers \in Nat /\ in.hardware_concurrency \in Nat
         /\ in.rules \in Seq(Range(in.rules))
         /\ \A r \in Range(in.rules) : MatchesWithin(r, in.size) /\ OneForEachStart(r)
  BY ScannerAssumption DEF CallInv, MatchesWithin, OneForEachStart

\* The loop of scan_one_rule skips no match of a rule's regex and accepts no two
\* that overlap, whatever the rule matches: FindingsComplete, for every call.
THEOREM LoopComplete == Spec => []FindingsComplete
  <1>1. CallInv => FindingsComplete
    <2> SUFFICES ASSUME CallInv, NEW r \in Range(in.rules)
                 PROVE  /\ \A m, n \in Accepted(r, in.size) : m # n => Apart(m, n)
                        /\ \A m \in r.raw : m.start < m.end /\ in.size > 0 =>
                             \/ m \in Accepted(r, in.size)
                             \/ \E n \in Accepted(r, in.size) \ {m} :
                                  n.start < m.start /\ m.start < n.end
      BY DEF FindingsComplete, Apart
    <2>1. in.size \in Nat /\ MatchesWithin(r, in.size) /\ OneForEachStart(r)
      BY CallFacts
    <2>2. CASE in.size = 0
      <3>1. Accepted(r, in.size) = {}
        BY <2>2 DEF Accepted
      <3> QED
        BY <2>2, <3>1
    <2>3. CASE in.size # 0
      BY <2>1, <2>3, LoopSeesAll, AcceptedApart
    <2> QED
      BY <2>2, <2>3
  <1> QED
    BY <1>1, CallInvariant, PTL

\* What the sweep is given: spans of the text that are not empty.
Spans(D) == \A m \in D : /\ m.start \in 0..MaxText /\ m.end \in 0..MaxText
                         /\ m.start < m.end

LEMMA RuleReportsSpans ==
  ASSUME CallInv, NEW r \in Range(in.rules)
  PROVE  Spans(scan_one_rule(r, in.size))
  <1> SUFFICES ASSUME NEW m \in Accepted(r, in.size), NEW s \in sensitive_span(m, r)
               PROVE  /\ s.start \in 0..MaxText /\ s.end \in 0..MaxText
                      /\ s.start < s.end
    BY DEF Spans, scan_one_rule
  <1>1. m \in r.raw
    <2>1. CASE in.size = 0
      BY <2>1 DEF Accepted
    <2>2. CASE in.size # 0
      BY <2>2, CallFacts, LoopSeesAll
    <2> QED
      BY <2>1, <2>2
  <1>2. /\ Within(in.size, m)
        /\ \A g \in DOMAIN m.groups : Within(in.size, m.groups[g])
    BY <1>1, ScannerAssumption DEF CallInv
  <1>3. CASE r.capture_groups = <<>>
    <2>1. s = [start |-> m.start, end |-> m.end] /\ s.start < s.end
      BY <1>3 DEF sensitive_span
    <2> QED
      BY <1>2, <2>1, CallFacts DEF Within
  <1>4. CASE r.capture_groups # <<>>
    <2>1. PICK g \in DOMAIN m.groups : s = m.groups[g] /\ s.start < s.end
      BY <1>4, Zenon DEF sensitive_span
    <2>2. Within(in.size, s)
      BY <1>2, <2>1
    <2> QED
      BY <2>1, <2>2, CallFacts DEF Within
  <1> QED
    BY <1>3, <1>4

\* The least and the greatest of positions.
LEMMA Extremes ==
  ASSUME NEW T, T \subseteq 0..MaxText, T # {}, MaxText \in Nat
  PROVE  /\ Min(T) \in T /\ \A t \in T : Min(T) <= t
         /\ Max(T) \in T /\ \A t \in T : t <= Max(T)
  <1>1. \E x \in T : \A y \in T : x <= y
    <2>1. T \subseteq Nat
      OBVIOUS
    <2> QED
      BY <2>1, LeastNat
  <1>2. \E x \in T : \A y \in T : x >= y
    <2> DEFINE U == {MaxText - t : t \in T}
    <2>1. U \subseteq Nat /\ U # {}
      <3>1. \A t \in T : MaxText - t \in Nat /\ MaxText - t \in U
        OBVIOUS
      <3> QED
        BY <3>1
    <2>2. PICK u \in U : \A v \in U : u <= v
      <3> HIDE DEF U
      <3> QED
        BY <2>1, LeastNat
    <2>3. PICK x \in T : u = MaxText - x
      OBVIOUS
    <2>4. ASSUME NEW y \in T PROVE x >= y
      <3>1. MaxText - y \in U
        OBVIOUS
      <3>2. u <= MaxText - y
        BY <2>2, <3>1
      <3> QED
        BY <2>3, <3>2
    <2> QED
      BY <2>4
  <1>3. Min(T) \in T /\ \A t \in T : Min(T) <= t
    BY <1>1 DEF Min
  <1>4. Max(T) \in T /\ \A t \in T : Max(T) >= t
    BY <1>2 DEF Max
  <1> QED
    BY <1>3, <1>4

LEMMA LeastIndex ==
  ASSUME NEW n \in Nat, NEW T, T \subseteq 1..n, T # {}
  PROVE  Min(T) \in T
  <1>1. T \subseteq Nat
    OBVIOUS
  <1> QED
    BY <1>1, LeastNat DEF Min

\* A sequence with one more element.
LEMMA RangeOfAppend ==
  ASSUME NEW S, NEW s \in Seq(S), NEW e \in S
  PROVE  /\ Append(s, e) \in Seq(S) /\ Range(Append(s, e)) = Range(s) \cup {e}
         /\ Len(Append(s, e)) = Len(s) + 1
         /\ \A i \in 1..Len(s) : Append(s, e)[i] = s[i]
         /\ Append(s, e)[Len(s) + 1] = e
  <1>1. /\ Append(s, e) \in Seq(S) /\ Len(Append(s, e)) = Len(s) + 1
        /\ \A i \in 1..Len(s) : Append(s, e)[i] = s[i]
        /\ Append(s, e)[Len(s) + 1] = e
    BY AppendProperties
  <1>2. /\ DOMAIN s = 1..Len(s) /\ Len(s) \in Nat
        /\ DOMAIN Append(s, e) = 1..(Len(s) + 1)
    BY <1>1
  <1>3. Range(Append(s, e)) = Range(s) \cup {e}
    <2>1. ASSUME NEW x \in Range(Append(s, e)) PROVE x \in Range(s) \cup {e}
      <3>1. PICK i \in 1..(Len(s) + 1) : x = Append(s, e)[i]
        BY <1>2 DEF Range
      <3> QED
        BY <1>1, <1>2, <3>1 DEF Range
    <2>2. ASSUME NEW x \in Range(s) \cup {e} PROVE x \in Range(Append(s, e))
      <3>1. CASE x = e
        BY <1>1, <1>2, <3>1 DEF Range
      <3>2. CASE x \in Range(s)
        <4>1. PICK i \in 1..Len(s) : x = s[i]
          BY <1>2, <3>2 DEF Range
        <4>2. i \in DOMAIN Append(s, e) /\ x = Append(s, e)[i]
          BY <1>1, <1>2, <4>1
        <4> QED
          BY <4>2 DEF Range
      <3> QED
        BY <3>1, <3>2
    <2> QED
      BY <2>1, <2>2
  <1> QED
    BY <1>1, <1>3
-----------------------------------------------------------------------------
(* The keyword pre-filter.                                                 *)

\* filter_by_keywords keeps the rule.
Kept(r) == r.broken = "null" \/ ~r.eligible \/ r.hit

FilterStep(rules, i, g) ==
  IF i = 0 THEN <<>>
  ELSE IF Kept(rules[i]) THEN Append(g[i-1], rules[i]) ELSE g[i-1]

\* A rule more keeps the sequence one of rules.
LEMMA FilterStepType ==
  ASSUME NEW R, NEW rules \in Seq(R), NEW i \in 0..Len(rules), NEW g,
         i # 0 => g[i-1] \in Seq(R)
  PROVE  FilterStep(rules, i, g) \in Seq(R)
  <1>1. i # 0 => rules[i] \in R
    OBVIOUS
  <1> QED
    BY <1>1 DEF FilterStep

\* The recursion of filter_by_keywords is well founded.
LEMMA FilterExists ==
  ASSUME NEW R, NEW rules \in Seq(R)
  PROVE  \E g : g = [i \in 0..Len(rules) |-> FilterStep(rules, i, g)]
  <1> DEFINE N == Len(rules)
             S == 0..N
             T == Seq(R)
             F == [g \in [S -> T] |-> [i \in S |-> FilterStep(rules, i, g)]]
             rank == [i \in S |-> i]
  <1>1. T # {} /\ N \in Nat /\ rank \in [S -> 0..N]
    <2>1. <<>> \in Seq(R)
      OBVIOUS
    <2> QED
      BY <2>1
  <1>2. F \in [[S -> T] -> [S -> T]]
    <2> SUFFICES ASSUME NEW g \in [S -> T], NEW i \in S
                 PROVE  FilterStep(rules, i, g) \in T
      OBVIOUS
    <2>1. i # 0 => g[i-1] \in T
      <3>1. i # 0 => i - 1 \in S
        OBVIOUS
      <3> HIDE DEF S, T
      <3> QED
        BY <3>1
    <2> QED
      BY <2>1, FilterStepType
  <1>3. ASSUME NEW g \in [S -> T], NEW h \in [S -> T], NEW i \in S,
               \A y \in S : rank[y] < rank[i] => g[y] = h[y]
        PROVE  F[g][i] = F[h][i]
    <2>1. i # 0 => g[i-1] = h[i-1]
      BY <1>3
    <2>2. FilterStep(rules, i, g) = FilterStep(rules, i, h)
      BY <2>1 DEF FilterStep
    <2> QED
      BY <2>2
  <1>4. Recursion(S, T, N, rank, F)
    <2> HIDE DEF S, T, F, rank, N
    <2> QED
      BY <1>1, <1>2, <1>3 DEF Recursion
  <1>5. PICK g \in [S -> T] : g = F[g]
    <2> HIDE DEF S, T, F, rank, N
    <2> QED
      BY <1>4, RecursiveFunction
  <1> QED
    BY <1>5

\* What filter_by_keywords returns: rules of the call, and all it keeps.
LEMMA FilterKeeps ==
  ASSUME NEW R, NEW rules \in Seq(R)
  PROVE  /\ filter_by_keywords(rules) \in Seq(R)
         /\ Range(filter_by_keywords(rules)) \subseteq Range(rules)
         /\ \A r \in Range(rules) : Kept(r) => r \in Range(filter_by_keywords(rules))
  <1> DEFINE kept[i \in 0..Len(rules)] ==
               IF i = 0 THEN <<>>
               ELSE IF rules[i].broken = "null" \/ ~rules[i].eligible \/ rules[i].hit
               THEN Append(kept[i-1], rules[i]) ELSE kept[i-1]
             S == 0..Len(rules)
             Good == {i \in S : /\ kept[i] \in Seq(R)
                                /\ Range(kept[i]) \subseteq Range(rules)
                                /\ \A j \in 1..i : Kept(rules[j]) => rules[j] \in Range(kept[i])}
             id == [i \in S |-> i]
  <1>1. filter_by_keywords(rules) = kept[Len(rules)]
    BY DEF filter_by_keywords
  <1>2. kept = CHOOSE g : g = [i \in S |-> FilterStep(rules, i, g)]
    BY DEF FilterStep, Kept
  <1>3. kept = [i \in S |-> FilterStep(rules, i, kept)]
    <2> HIDE DEF kept
    <2> QED
      BY <1>2, FilterExists
  <1> HIDE DEF kept
  <1>4. ASSUME NEW i \in S, \A j \in S : id[j] < id[i] => j \in Good
        PROVE  i \in Good
    <2>1. kept[i] = FilterStep(rules, i, kept)
      BY <1>3
    <2>2. CASE i = 0
      <3>1. kept[i] = <<>>
        BY <2>1, <2>2 DEF FilterStep
      <3>2. <<>> \in Seq(R) /\ Range(<<>>) = {}
        BY DEF Range
      <3>3. 1..0 = {}
        OBVIOUS
      <3> QED
        BY <2>2, <3>1, <3>2, <3>3
    <2>3. CASE i # 0
      <3>1. i - 1 \in S /\ id[i - 1] < id[i]
        BY <2>3
      <3>2. /\ kept[i-1] \in Seq(R) /\ Range(kept[i-1]) \subseteq Range(rules)
            /\ \A j \in 1..(i-1) : Kept(rules[j]) => rules[j] \in Range(kept[i-1])
        BY <1>4, <3>1
      <3>3. rules[i] \in R /\ rules[i] \in Range(rules)
        BY <2>3 DEF Range
      <3>4. CASE Kept(rules[i])
        <4>1. kept[i] = Append(kept[i-1], rules[i])
          BY <2>1, <2>3, <3>4 DEF FilterStep
        <4>2. Range(kept[i]) = Range(kept[i-1]) \cup {rules[i]} /\ kept[i] \in Seq(R)
          BY <3>2, <3>3, <4>1, RangeOfAppend
        <4> QED
          BY <3>2, <3>3, <4>2
      <3>5. CASE ~Kept(rules[i])
        <4>1. kept[i] = kept[i-1]
          BY <2>1, <2>3, <3>5 DEF FilterStep
        <4> QED
          BY <3>2, <3>5, <4>1
      <3> QED
        BY <3>4, <3>5
    <2> QED
      BY <2>2, <2>3
  <1>5. S \subseteq Good
    <2>1. id \in [S -> Nat]
      OBVIOUS
    <2> HIDE DEF S, Good, id
    <2> QED
      BY <1>4, <2>1, RankInduction
  <1>6. Len(rules) \in S /\ Range(rules) = {rules[j] : j \in 1..Len(rules)}
    BY DEF Range
  <1>7. /\ kept[Len(rules)] \in Seq(R) /\ Range(kept[Len(rules)]) \subseteq Range(rules)
        /\ \A j \in 1..Len(rules) :
             Kept(rules[j]) => rules[j] \in Range(kept[Len(rules)])
    BY <1>5, <1>6
  <1> QED
    BY <1>1, <1>6, <1>7

\* The rules scan_rules scans, of a call.
LEMMA ActiveRules ==
  ASSUME CallInv
  PROVE  /\ Active \in Seq(Range(in.rules))
         /\ Range(Active) \subseteq Range(in.rules)
         /\ \A r \in Range(in.rules) \ Range(Active) : in.prefilter_enabled /\ ~Kept(r)
  <1>1. in.rules \in Seq(Range(in.rules)) /\ in.prefilter_enabled \in BOOLEAN
    BY ScannerAssumption DEF CallInv
  <1>2. CASE in.prefilter_enabled = TRUE
    <2>1. Active = filter_by_keywords(in.rules)
      BY <1>2 DEF Active
    <2> QED
      BY <1>1, <1>2, <2>1, FilterKeeps
  <1>3. CASE in.prefilter_enabled = FALSE
    <2>1. Active = in.rules
      BY <1>3 DEF Active
    <2> QED
      BY <1>1, <2>1
  <1> QED
    BY <1>1, <1>2, <1>3
-----------------------------------------------------------------------------
(* The fan-out.                                                            *)

\* What the rules that are scanned detect.
Scans == UNION {scan_one_rule(r, in.size) : r \in Range(active)}

Idle == /\ active = <<>> /\ task = <<>> /\ todo = <<>> /\ found = <<>>
        /\ candidates = {} /\ run = {} /\ resolved = <<>>

FanTypes ==
  /\ active = Active
  /\ \E w \in Nat : DOMAIN task = 1..w
  /\ task \in [DOMAIN task -> {"none", "running", "ready", "failed"}]
  /\ todo \in [DOMAIN task -> SUBSET (1..Len(active))]
  /\ found \in [DOMAIN task -> SUBSET Scans]

\* Every rule is still to be scanned by some bucket, or some bucket holds
\* what it detects.
Covered ==
  \A i \in 1..Len(active) : \E k \in DOMAIN task :
    \/ i \in todo[k]
    \/ active[i].broken = "no" /\ scan_one_rule(active[i], in.size) \subseteq found[k]

TaskInv ==
  \A k \in DOMAIN task :
    /\ task[k] = "ready" => todo[k] = {}
    /\ task[k] = "failed" => \E r \in Range(active) : r.broken # "no"

PhaseInv ==
  /\ phase \in {"filter", "launch", "scan", "unwind", "sweep", "done", "threw"}
  /\ phase \in {"launch", "unwind"} => Unlaunched # {}
  /\ phase \in {"scan", "sweep", "done"} => Unlaunched = {}
  /\ phase \in {"sweep", "done", "threw"} => AllJoined
  /\ phase \in {"sweep", "done"} => Failed = {}
  /\ phase = "threw" => Failed # {} \/ Unlaunched # {}
  /\ phase \notin {"sweep", "done"} => candidates = {} /\ run = {} /\ resolved = <<>>

FanInv ==
  /\ CallInv /\ PhaseInv
  /\ phase = "filter" => Idle
  /\ phase # "filter" => FanTypes /\ Covered /\ TaskInv

LEMMA Workers ==
  ASSUME CallInv, NEW n \in Nat \ {0}
  PROVE  compute_worker_count(n) \in Nat \ {0}
  <1> DEFINE ok(k) == \/ k = in.max_workers /\ k # 0
                      \/ in.max_workers = 0 /\ k = in.hardware_concurrency /\ k # 0
                      \/ in.max_workers = 0 /\ in.hardware_concurrency = 0 /\ k = 1
             hw == CHOOSE k \in {in.max_workers, in.hardware_concurrency, 1} : ok(k)
  <1>1. in.max_workers \in Nat /\ in.hardware_concurrency \in Nat
    BY CallFacts
  <1>2. \E k \in {in.max_workers, in.hardware_concurrency, 1} : ok(k)
    OBVIOUS
  <1>3. hw \in {in.max_workers, in.hardware_concurrency, 1} /\ ok(hw)
    <2> HIDE DEF ok
    <2> QED
      BY <1>2
  <1>4. hw \in Nat \ {0}
    <2> HIDE DEF hw
    <2> QED
      BY <1>1, <1>3
  <1>5. compute_worker_count(n) = Min({n, hw})
    BY DEF compute_worker_count
  <1> HIDE DEF hw
  <1>6. \E x \in {n, hw} : \A y \in {n, hw} : x <= y
    BY <1>4
  <1>7. Min({n, hw}) \in {n, hw}
    BY <1>6 DEF Min
  <1> QED
    BY <1>4, <1>5, <1>7

\* Every rule is dealt to some bucket.
LEMMA BucketsCover ==
  ASSUME NEW n \in Nat, NEW w \in Nat \ {0}
  PROVE  /\ Buckets(n, w) \in [1..w -> SUBSET (1..n)]
         /\ \A i \in 1..n : \E k \in 1..w : i \in Buckets(n, w)[k]
  <1>1. Buckets(n, w) \in [1..w -> SUBSET (1..n)]
    BY DEF Buckets
  <1>2. ASSUME NEW i \in 1..n PROVE \E k \in 1..w : i \in Buckets(n, w)[k]
    <2> DEFINE k == ((i - 1) % w) + 1
    <2>1. k \in 1..w
      OBVIOUS
    <2>2. i \in Buckets(n, w)[k]
      <3> HIDE DEF k
      <3>1. Buckets(n, w)[k] = {j \in 1..n : ((j - 1) % w) + 1 = k}
        BY <2>1 DEF Buckets
      <3> USE DEF k
      <3> QED
        BY <3>1
    <2> HIDE DEF k
    <2> QED
      BY <2>1, <2>2
  <1> QED
    BY <1>1, <1>2

\* The fan-out does not change while its variables do not.
LEMMA FanStays ==
  ASSUME FanTypes, Covered, TaskInv, UNCHANGED <<in, active, task, todo, found>>
  PROVE  FanTypes' /\ Covered' /\ TaskInv'
  <1>1. Scans' = Scans /\ Active' = Active
    BY DEF Scans, Active
  <1>2. FanTypes'
    BY <1>1 DEF FanTypes
  <1>3. Covered' /\ TaskInv'
    BY DEF Covered, TaskInv
  <1> QED
    BY <1>2, <1>3

LEMMA FilterKeepsFan ==
  ASSUME FanInv, Filter
  PROVE  FanInv'
  <1> DEFINE n == Len(Active)
             w == IF Serial(n) THEN 1 ELSE compute_worker_count(n)
             t == IF Serial(n) THEN "running" ELSE "none"
  <1>1. /\ phase = "filter" /\ Active # <<>> /\ active' = Active
        /\ todo' = Buckets(n, w) /\ found' = [k \in 1..w |-> {}]
        /\ task' = [k \in 1..w |-> t]
        /\ phase' = IF Serial(n) THEN "scan" ELSE "launch"
        /\ UNCHANGED <<in, candidates, run, resolved>>
    BY Zenon DEF Filter
  <1>2. CallInv /\ Active' = Active
    BY <1>1 DEF FanInv, Active
  <1>3. n \in Nat \ {0} /\ active' \in Seq(Range(in.rules)) /\ Len(active') = n
    BY <1>1, <1>2, ActiveRules
  <1>4. w \in Nat \ {0}
    <2> HIDE DEF n
    <2> QED
      BY <1>2, <1>3, Workers
  <1>5. t \in {"none", "running"} /\ (phase' = "launch" <=> t = "none")
        /\ phase' \in {"scan", "launch"}
    BY <1>1
  <1> HIDE DEF n, w, t
  <1>6. DOMAIN task' = 1..w /\ 1 \in 1..w /\ \A k \in 1..w : task'[k] = t
    BY <1>1, <1>4
  <1>7. FanTypes'
    <2>1. todo' \in [1..w -> SUBSET (1..n)]
      BY <1>1, <1>3, <1>4, BucketsCover
    <2>2. found' \in [1..w -> SUBSET (Scans')]
      BY <1>1
    <2>3. task' \in [1..w -> {"none", "running", "ready", "failed"}]
      BY <1>1, <1>5
    <2> QED
      BY <1>1, <1>2, <1>3, <1>4, <1>6, <2>1, <2>2, <2>3 DEF FanTypes
  <1>8. Covered'
    <2>1. \A i \in 1..n : \E k \in 1..w : i \in todo'[k]
      BY <1>1, <1>3, <1>4, BucketsCover
    <2> QED
      BY <1>3, <1>6, <2>1 DEF Covered
  <1>9. TaskInv'
    BY <1>5, <1>6 DEF TaskInv
  <1>10. PhaseInv'
    <2>1. candidates' = {} /\ run' = {} /\ resolved' = <<>>
      BY <1>1 DEF FanInv, PhaseInv
    <2>2. phase' = "launch" => Unlaunched' # {}
      BY <1>5, <1>6 DEF Unlaunched
    <2>3. phase' = "scan" => Unlaunched' = {}
      BY <1>5, <1>6 DEF Unlaunched
    <2> QED
      BY <1>5, <2>1, <2>2, <2>3 DEF PhaseInv
  <1> QED
    BY <1>1, <1>2, <1>5, <1>7, <1>8, <1>9, <1>10 DEF FanInv, CallInv

LEMMA LaunchKeepsFan ==
  ASSUME FanInv, LaunchTask
  PROVE  FanInv'
  <1> DEFINE U == Unlaunched
             k0 == Min(U)
  <1>1. /\ phase = "launch" /\ U # {}
        /\ task' = [task EXCEPT ![k0] = "running"]
        /\ phase' = IF Cardinality(U) = 1 THEN "scan" ELSE "launch"
        /\ UNCHANGED <<in, active, todo, found, candidates, run, resolved>>
    BY DEF LaunchTask
  <1>2. CallInv /\ PhaseInv /\ FanTypes /\ Covered /\ TaskInv
    BY <1>1 DEF FanInv
  <1>3. PICK w \in Nat : DOMAIN task = 1..w
    BY <1>2 DEF FanTypes
  <1>4. U \subseteq 1..w /\ U = {k \in 1..w : task[k] = "none"}
    BY <1>3 DEF Unlaunched
  <1>5. k0 \in U
    <2> HIDE DEF U
    <2> QED
      BY <1>1, <1>4, LeastIndex
  <1>6. /\ DOMAIN task' = 1..w /\ task'[k0] = "running"
        /\ \A k \in 1..w : k # k0 => task'[k] = task[k]
    BY <1>1, <1>2, <1>3, <1>4, <1>5 DEF FanTypes
  <1>7. Unlaunched' = U \ {k0}
    <2>1. Unlaunched' = {k \in 1..w : task'[k] = "none"}
      BY <1>6 DEF Unlaunched
    <2> HIDE DEF U, k0
    <2> QED
      BY <1>4, <1>5, <1>6, <2>1
  <1>8. IsFiniteSet(U)
    <2>1. IsFiniteSet(1..w)
      BY FS_Interval
    <2> HIDE DEF U
    <2> QED
      BY <1>4, <2>1, FS_Subset
  <1> HIDE DEF U, k0
  <1>9. Cardinality(U) = 1 <=> Unlaunched' = {}
    <2>1. Cardinality(U) = 1 <=> \E x : U = {x}
      BY <1>8, FS_Singleton
    <2> QED
      BY <1>5, <1>7, <2>1
  <1>10. Scans' = Scans /\ Active' = Active
    BY <1>1 DEF Scans, Active
  <1>11. FanTypes'
    <2>1. task' \in [1..w -> {"none", "running", "ready", "failed"}]
      BY <1>1, <1>2, <1>3 DEF FanTypes
    <2> QED
      BY <1>1, <1>2, <1>3, <1>6, <1>10, <2>1 DEF FanTypes
  <1>12. Covered' /\ TaskInv'
    <2>1. Covered'
      BY <1>1, <1>2, <1>3, <1>6 DEF Covered
    <2>2. TaskInv'
      BY <1>1, <1>2, <1>3, <1>6 DEF TaskInv
    <2> QED
      BY <2>1, <2>2
  <1>13. PhaseInv'
    <2>1. candidates' = {} /\ run' = {} /\ resolved' = <<>>
      BY <1>1, <1>2 DEF PhaseInv
    <2> QED
      BY <1>1, <1>9, <2>1 DEF PhaseInv
  <1>14. CallInv'
    BY <1>1, <1>2 DEF CallInv
  <1>15. phase' # "filter"
    BY <1>1
  <1> QED
    BY <1>11, <1>12, <1>13, <1>14, <1>15 DEF FanInv

\* A task that scans: the rule it takes from its bucket is in what it found,
\* or the task has failed.
LEMMA ScanKeepsFan ==
  ASSUME FanInv, NEW k \in DOMAIN task, ScanRule(k)
  PROVE  FanInv'
  <1>1. /\ task[k] = "running"
        /\ UNCHANGED <<in, phase, active, candidates, run, resolved>>
    BY DEF ScanRule
  <1>2. phase # "filter"
    BY <1>1 DEF FanInv, Idle
  <1>3. CallInv /\ PhaseInv /\ FanTypes /\ Covered /\ TaskInv
    BY <1>2 DEF FanInv
  <1>4. PICK w \in Nat : DOMAIN task = 1..w
    BY <1>3 DEF FanTypes
  <1>5. /\ task \in [1..w -> {"none", "running", "ready", "failed"}]
        /\ todo \in [1..w -> SUBSET (1..Len(active))]
        /\ found \in [1..w -> SUBSET Scans]
        /\ k \in 1..w /\ active = Active
    BY <1>3, <1>4 DEF FanTypes
  <1>6. phase \in {"launch", "scan", "unwind"}
    BY <1>1, <1>2, <1>3 DEF PhaseInv, AllJoined
  <1>7. Scans' = Scans /\ Active' = Active
    BY <1>1 DEF Scans, Active
  <1>8. Len(active) \in Nat /\ \A i \in 1..Len(active) : active[i] \in Range(active)
    <2>1. active \in Seq(Range(in.rules))
      BY <1>3, <1>5, ActiveRules
    <2> QED
      BY <2>1 DEF Range
  <1>9. ASSUME task' \in [1..w -> {"none", "running", "ready", "failed"}],
               todo' \in [1..w -> SUBSET (1..Len(active))],
               found' \in [1..w -> SUBSET Scans],
               \A j \in 1..w : task'[j] = "none" <=> task[j] = "none",
               Covered', TaskInv'
        PROVE  FanInv'
    <2>1. FanTypes'
      BY <1>1, <1>5, <1>7, <1>9 DEF FanTypes
    <2>2. Unlaunched' = Unlaunched
      BY <1>4, <1>9 DEF Unlaunched
    <2>3. PhaseInv'
      BY <1>1, <1>3, <1>6, <2>2 DEF PhaseInv
    <2> QED
      BY <1>1, <1>2, <1>3, <1>9, <2>1, <2>3 DEF FanInv, CallInv
  <1>10. CASE todo[k] = {}
    <2>1. task' = [task EXCEPT ![k] = "ready"] /\ UNCHANGED <<todo, found>>
      BY <1>10, Zenon DEF ScanRule
    <2>2. /\ task' \in [1..w -> {"none", "running", "ready", "failed"}]
          /\ task'[k] = "ready" /\ \A j \in 1..w : j # k => task'[j] = task[j]
      BY <1>5, <2>1
    <2>3. Covered'
      BY <1>1, <1>3, <1>4, <2>1, <2>2 DEF Covered
    <2>4. TaskInv'
      BY <1>1, <1>3, <1>4, <1>10, <2>1, <2>2 DEF TaskInv
    <2>5. \A j \in 1..w : task'[j] = "none" <=> task[j] = "none"
      BY <1>1, <2>2
    <2>6. todo' \in [1..w -> SUBSET (1..Len(active))] /\ found' \in [1..w -> SUBSET Scans]
      BY <1>5, <2>1
    <2> QED
      BY <1>9, <2>2, <2>3, <2>4, <2>5, <2>6
  <1>11. CASE todo[k] # {}
    <2> DEFINE i == Min(todo[k])
    <2>1. i \in todo[k] /\ i \in 1..Len(active)
      BY <1>5, <1>8, <1>11, LeastIndex
    <2>2. CASE active[i].broken # "no"
      <3>1. task' = [task EXCEPT ![k] = "failed"] /\ UNCHANGED <<todo, found>>
        BY <1>11, <2>2, Zenon DEF ScanRule
      <3>2. /\ task' \in [1..w -> {"none", "running", "ready", "failed"}]
            /\ task'[k] = "failed" /\ \A j \in 1..w : j # k => task'[j] = task[j]
        BY <1>5, <3>1
      <3>3. Covered'
        BY <1>1, <1>3, <1>4, <3>1, <3>2 DEF Covered
      <3>4. TaskInv'
        <4>1. \E r \in Range(active) : r.broken # "no"
          BY <1>8, <2>1, <2>2
        <4> QED
          BY <1>1, <1>3, <1>4, <3>1, <3>2, <4>1 DEF TaskInv
      <3>5. \A j \in 1..w : task'[j] = "none" <=> task[j] = "none"
        BY <1>1, <3>2
      <3>6. todo' \in [1..w -> SUBSET (1..Len(active))] /\ found' \in [1..w -> SUBSET Scans]
        BY <1>5, <3>1
      <3> QED
        BY <1>9, <3>2, <3>3, <3>4, <3>5, <3>6
    <2>3. CASE active[i].broken = "no"
      <3> DEFINE new == scan_one_rule(active[i], in.size)
      <3>1. /\ found' = [found EXCEPT ![k] = @ \cup new]
            /\ todo' = [todo EXCEPT ![k] = @ \ {i}]
            /\ UNCHANGED task
        BY <1>11, <2>3, Zenon DEF ScanRule
      <3>2. new \subseteq Scans
        BY <1>8, <2>1 DEF Scans
      <3>3. /\ found'[k] = found[k] \cup new /\ todo'[k] = todo[k] \ {i}
            /\ \A j \in 1..w : j # k => found'[j] = found[j] /\ todo'[j] = todo[j]
            /\ DOMAIN found' = 1..w /\ DOMAIN todo' = 1..w
        BY <1>5, <3>1
      <3> HIDE DEF i, new
      <3>4. Covered'
        <4> SUFFICES ASSUME NEW h \in 1..Len(active)
                     PROVE  \E j \in 1..w :
                              \/ h \in todo'[j]
                              \/ /\ active[h].broken = "no"
                                 /\ scan_one_rule(active[h], in.size) \subseteq found'[j]
          BY <1>1, <1>4, <3>1 DEF Covered
        <4>1. CASE h = i
          BY <1>5, <2>3, <3>3, <4>1 DEF new
        <4>2. CASE h # i
          <5>1. PICK j \in 1..w :
                  \/ h \in todo[j]
                  \/ /\ active[h].broken = "no"
                     /\ scan_one_rule(active[h], in.size) \subseteq found[j]
            BY <1>3, <1>4 DEF Covered
          <5> QED
            BY <3>3, <4>2, <5>1
        <4> QED
          BY <4>1, <4>2
      <3>5. TaskInv'
        BY <1>1, <1>3, <1>4, <3>1, <3>3 DEF TaskInv
      <3>6. \A j \in 1..w : task'[j] = "none" <=> task[j] = "none"
        BY <3>1
      <3>7. task' \in [1..w -> {"none", "running", "ready", "failed"}]
        BY <1>5, <3>1
      <3>8. todo' \in [1..w -> SUBSET (1..Len(active))]
        BY <1>5, <3>1
      <3>9. found' \in [1..w -> SUBSET Scans]
        BY <1>5, <3>1, <3>2
      <3> QED
        BY <1>9, <3>4, <3>5, <3>6, <3>7, <3>8, <3>9
    <2> QED
      BY <2>2, <2>3
  <1> QED
    BY <1>10, <1>11

\* No other action touches the fan-out.
LEMMA OthersKeepFan ==
  ASSUME FanInv,
         \/ NothingToScan \/ LaunchFails \/ Collect \/ Unwind
         \/ GrowRun \/ EmitRun \/ Finish \/ UNCHANGED vars
  PROVE  FanInv'
  <1>1. UNCHANGED <<in, active, task, todo, found>>
    BY DEF NothingToScan, Return, LaunchFails, Collect, Unwind, GrowRun, EmitRun,
           Finish, vars
  <1>2. /\ (AllJoined' <=> AllJoined) /\ Failed' = Failed /\ Unlaunched' = Unlaunched
        /\ CallInv'
    BY <1>1 DEF FanInv, AllJoined, Failed, Unlaunched, CallInv
  <1>3. CASE NothingToScan
    <2>1. /\ phase = "filter" /\ Active = <<>> /\ phase' = "done"
          /\ UNCHANGED <<candidates, run, resolved>> /\ Idle
      BY <1>3 DEF NothingToScan, Return, FanInv
    <2>2. DOMAIN task = {} /\ Len(active) = 0 /\ 1..0 = {}
      BY <2>1 DEF Idle
    <2>3. FanTypes
      <3>1. active = Active /\ todo = <<>> /\ found = <<>> /\ task = <<>>
        BY <2>1 DEF Idle
      <3>2. \A S : <<>> \in [{} -> S]
        OBVIOUS
      <3>3. DOMAIN task = 1..0 /\ 0 \in Nat
        BY <2>2
      <3> QED
        BY <2>2, <3>1, <3>2, <3>3 DEF FanTypes
    <2>4. Covered /\ TaskInv
      BY <2>2 DEF Covered, TaskInv
    <2>5. FanTypes' /\ Covered' /\ TaskInv'
      BY <1>1, <2>3, <2>4, FanStays
    <2>6. Unlaunched = {} /\ Failed = {} /\ AllJoined
      BY <2>2 DEF Unlaunched, Failed, AllJoined
    <2>7. PhaseInv'
      BY <1>2, <2>1, <2>6 DEF PhaseInv
    <2> QED
      BY <1>2, <2>1, <2>5, <2>7 DEF FanInv
  <1>4. CASE UNCHANGED vars
    <2>1. phase' = phase /\ UNCHANGED <<candidates, run, resolved>>
      BY <1>4 DEF vars
    <2>2. PhaseInv'
      BY <1>2, <2>1 DEF FanInv, PhaseInv
    <2>3. Idle => Idle'
      BY <1>1, <2>1 DEF Idle
    <2>4. phase # "filter" => FanTypes' /\ Covered' /\ TaskInv'
      BY <1>1, FanStays DEF FanInv
    <2> QED
      BY <1>2, <2>1, <2>2, <2>3, <2>4 DEF FanInv
  <1>5. CASE LaunchFails \/ Collect \/ Unwind \/ GrowRun \/ EmitRun \/ Finish
    <2>1. phase # "filter" /\ phase' # "filter"
      BY <1>5 DEF LaunchFails, Collect, Unwind, GrowRun, EmitRun, Finish, IsNext
    <2>2. FanTypes' /\ Covered' /\ TaskInv' /\ PhaseInv
      BY <1>1, <2>1, FanStays DEF FanInv
    <2>3. PhaseInv'
      <3>1. CASE LaunchFails
        BY <1>2, <2>2, <3>1 DEF LaunchFails, PhaseInv
      <3>2. CASE Collect
        BY <1>2, <2>2, <3>2 DEF Collect, PhaseInv
      <3>3. CASE Unwind
        BY <1>2, <2>2, <3>3 DEF Unwind, PhaseInv
      <3>4. CASE GrowRun \/ EmitRun \/ Finish
        <4>1. phase = "sweep" /\ phase' \in {"sweep", "done"}
          BY <3>4 DEF GrowRun, EmitRun, Finish, IsNext
        <4> QED
          BY <1>2, <2>2, <4>1 DEF PhaseInv
      <3> QED
        BY <1>5, <3>1, <3>2, <3>3, <3>4
    <2> QED
      BY <1>2, <2>1, <2>2, <2>3 DEF FanInv
  <1> QED
    BY <1>3, <1>4, <1>5

LEMMA FanInvariant == Spec => []FanInv
  <1>1. Init => FanInv
    <2> SUFFICES ASSUME Init PROVE FanInv
      OBVIOUS
    <2>1. Idle /\ phase = "filter" /\ CallInv
      BY DEF Init, Idle, CallInv
    <2>2. PhaseInv
      BY <2>1 DEF PhaseInv, Idle
    <2> QED
      BY <2>1, <2>2 DEF FanInv
  <1>2. FanInv /\ [Next]_vars => FanInv'
    <2> SUFFICES ASSUME FanInv, [Next]_vars PROVE FanInv'
      OBVIOUS
    <2>1. CASE Filter
      BY <2>1, FilterKeepsFan
    <2>2. CASE LaunchTask
      BY <2>2, LaunchKeepsFan
    <2>3. CASE \E k \in DOMAIN task : ScanRule(k)
      BY <2>3, ScanKeepsFan
    <2>4. CASE \/ NothingToScan \/ LaunchFails \/ Collect \/ Unwind
               \/ GrowRun \/ EmitRun \/ Finish \/ UNCHANGED vars
      BY <2>4, OthersKeepFan
    <2> QED
      BY <2>1, <2>2, <2>3, <2>4 DEF Next, Returned
  <1> QED
    BY <1>1, <1>2, PTL DEF Spec

\* When every task is ready, every rule has been scanned and none is broken.
LEMMA AllScanned ==
  ASSUME CallInv, FanTypes, Covered, TaskInv, AllJoined, Failed = {}, Unlaunched = {}
  PROVE  /\ \A r \in Range(active) : r.broken = "no"
         /\ \A k \in DOMAIN task : todo[k] = {}
         /\ UNION {found[k] : k \in DOMAIN task} = Scans
  <1>1. \A k \in DOMAIN task : task[k] = "ready"
    BY DEF FanTypes, AllJoined, Failed, Unlaunched
  <1>2. \A k \in DOMAIN task : todo[k] = {}
    BY <1>1 DEF TaskInv
  <1>3. Range(active) = {active[i] : i \in 1..Len(active)}
    <2>1. active \in Seq(Range(in.rules))
      BY ActiveRules DEF FanTypes
    <2> QED
      BY <2>1 DEF Range
  <1>4. \A r \in Range(active) : \E k \in DOMAIN task :
          r.broken = "no" /\ scan_one_rule(r, in.size) \subseteq found[k]
    BY <1>2, <1>3 DEF Covered
  <1>5. UNION {found[k] : k \in DOMAIN task} \subseteq Scans
    BY DEF FanTypes
  <1>6. Scans \subseteq UNION {found[k] : k \in DOMAIN task}
    BY <1>4 DEF Scans
  <1> QED
    BY <1>2, <1>4, <1>5, <1>6

\* scan_rules throws exactly when a rule it had to scan is broken or a thread
\* could not be started, what it returns has every bucket's rules scanned, and
\* no task outlives it: for every number of workers and every interleaving of
\* the tasks.
THEOREM NoFailureHidden == Spec => []FailureSurfaces
  <1>1. FanInv => FailureSurfaces
    <2> SUFFICES ASSUME FanInv, phase \in {"done", "threw"}
                 PROVE  /\ AllJoined
                        /\ phase = "done" => /\ \A r \in Range(active) : r.broken = "no"
                                             /\ Unlaunched = {}
                                             /\ \A k \in DOMAIN todo : todo[k] = {}
                        /\ phase = "threw" => \/ \E r \in Range(active) : r.broken # "no"
                                              \/ Unlaunched # {}
      BY DEF FailureSurfaces
    <2>1. /\ AllJoined /\ CallInv /\ FanTypes /\ Covered /\ TaskInv
          /\ phase = "done" => Failed = {} /\ Unlaunched = {}
          /\ phase = "threw" => Failed # {} \/ Unlaunched # {}
      BY DEF FanInv, PhaseInv
    <2>2. phase = "done" => /\ \A r \in Range(active) : r.broken = "no"
                            /\ \A k \in DOMAIN todo : todo[k] = {}
      BY <2>1, AllScanned DEF FanTypes
    <2>3. Failed # {} => \E r \in Range(active) : r.broken # "no"
      BY <2>1 DEF Failed, TaskInv
    <2> QED
      BY <2>1, <2>2, <2>3
  <1> QED
    BY <1>1, FanInvariant, PTL
-----------------------------------------------------------------------------
(* The sweep.                                                              *)

\* The span that coalesces the matches of C, and those of all of D.
Coalesced(C) ==
  [start |-> Min({n.start : n \in C}), end |-> Max({n.end : n \in C}),
   id |-> (CHOOSE n \in C : \A o \in C \ {n} : prefer_as_primary(n, o)).id]

Coalescing(D) == {Coalesced(Cluster(D, m)) : m \in D}

\* No position inside C's extent is a cut of C.
Connected(C) ==
  \A p \in Int : (\E a \in C : a.start < p) /\ (\E b \in C : p < b.end)
                 => \E c \in C : c.start < p /\ p < c.end

Sorted(s) == \A i \in 1..(Len(s) - 1) : s[i].end <= s[i + 1].start

\* The matches of the runs that have been emitted.
Past == Scans \ (candidates \cup run)

Sweeping ==
  /\ candidates \subseteq Scans /\ run \subseteq Scans \ candidates
  /\ run = {} => candidates = Scans /\ resolved = <<>>
  /\ \A a \in Scans \ candidates, c \in candidates : a.start <= c.start
  /\ \A a \in Past, b \in run : a.end <= b.start
  /\ Connected(run)
  /\ resolved \in Seq(Coalescing(Scans))
  /\ \A a \in Past : Coalesced(Cluster(Scans, a)) \in Range(resolved)
  /\ \A i \in 1..Len(resolved), b \in run : resolved[i].end <= b.start
  /\ Sorted(resolved)

SweepInv ==
  /\ phase = "sweep" => Sweeping
  /\ phase = "done" => Range(resolved) = Coalescing(Scans) /\ Sorted(resolved)

LEMMA ScansAreSpans ==
  ASSUME CallInv, active = Active
  PROVE  Spans(Scans)
  <1>1. \A r \in Range(active) : Spans(scan_one_rule(r, in.size))
    BY ActiveRules, RuleReportsSpans
  <1> QED
    BY <1>1 DEF Scans, Spans

\* The extent of matches that are coalesced.
LEMMA Extent ==
  ASSUME MaxText \in Nat, NEW C, Spans(C), C # {}
  PROVE  /\ \E a \in C : Coalesced(C).start = a.start
         /\ \E b \in C : Coalesced(C).end = b.end
         /\ \A c \in C : Coalesced(C).start <= c.start /\ c.end <= Coalesced(C).end
         /\ Coalesced(C).start \in 0..MaxText /\ Coalesced(C).end \in 0..MaxText
  <1> DEFINE A == {n.start : n \in C}
             B == {n.end : n \in C}
  <1>1. Coalesced(C).start = Min(A) /\ Coalesced(C).end = Max(B)
    BY DEF Coalesced
  <1>2. A \subseteq 0..MaxText /\ B \subseteq 0..MaxText
    BY DEF Spans
  <1>3. /\ Min(A) \in A /\ \A t \in A : Min(A) <= t
        /\ Max(B) \in B /\ \A t \in B : t <= Max(B)
    <2>1. A # {} /\ B # {}
      OBVIOUS
    <2> HIDE DEF A, B
    <2> QED
      BY <1>2, <2>1, Extremes
  <1>4. (\E a \in C : Min(A) = a.start) /\ (\E b \in C : Max(B) = b.end)
    BY <1>3
  <1>5. \A c \in C : Min(A) <= c.start /\ c.end <= Max(B)
    <2>1. \A c \in C : c.start \in A /\ c.end \in B
      OBVIOUS
    <2> HIDE DEF A, B
    <2> QED
      BY <1>3, <2>1
  <1> QED
    BY <1>1, <1>2, <1>3, <1>4, <1>5

\* A connected run with nothing else of D between its first and its last byte
\* is a cluster of D.
LEMMA RunIsCluster ==
  ASSUME MaxText \in Nat, NEW D, Spans(D), NEW C, C \subseteq D, C # {}, Connected(C),
         \A x \in D \ C : \/ \A b \in C : x.end <= b.start
                          \/ \A b \in C : b.end <= x.start
  PROVE  \A b \in C : Cluster(D, b) = C
  <1> DEFINE lo == Coalesced(C).start
             hi == Coalesced(C).end
  <1>1. \A m \in D : m.start \in Nat /\ m.end \in Nat /\ m.start < m.end
    BY DEF Spans
  <1>2. /\ lo \in 0..MaxText /\ hi \in 0..MaxText
        /\ \E a \in C : lo = a.start
        /\ \E b \in C : hi = b.end
        /\ \A c \in C : lo <= c.start /\ c.end <= hi
    <2>1. Spans(C)
      BY DEF Spans
    <2> QED
      BY <2>1, Extent
  <1> HIDE DEF lo, hi
  <1>3. PICK a \in C : lo = a.start
    BY <1>2
  <1>4. PICK z \in C : hi = z.end
    BY <1>2
  <1>5. \A x \in D \ C : x.end <= lo \/ hi <= x.start
    BY <1>3, <1>4
  <1>6. lo < hi
    BY <1>1, <1>2, <1>3
  <1>7. lo \in Cut(D) /\ hi \in Cut(D)
    <2>1. ASSUME NEW m \in D PROVE lo <= m.start \/ m.end <= lo
      BY <1>1, <1>2, <1>5, <1>6
    <2>2. ASSUME NEW m \in D PROVE hi <= m.start \/ m.end <= hi
      BY <1>1, <1>2, <1>5, <1>6
    <2> QED
      BY <1>2, <2>1, <2>2 DEF Cut
  <1>8. ASSUME NEW b \in C, NEW x \in D \ C PROVE ~Together(D, b, x)
    <2>1. /\ lo \in Nat /\ hi \in Nat /\ lo <= b.start /\ b.end <= hi
          /\ b.start \in Nat /\ b.end \in Nat /\ b.start < b.end
          /\ x.start \in Nat /\ x.end \in Nat /\ x.start < x.end
      BY <1>1, <1>2
    <2>2. CASE x.end <= lo
      <3>1. ~(b.end <= lo)
        BY <2>1
      <3> QED
        BY <1>7, <2>2, <3>1 DEF Together
    <2>3. CASE hi <= x.start
      <3>1. ~(x.end <= hi)
        BY <2>1, <2>3
      <3> QED
        BY <1>7, <2>1, <3>1 DEF Together
    <2> QED
      BY <1>5, <2>2, <2>3
  <1>9. ASSUME NEW b \in C, NEW x \in C, NEW p \in Cut(D), b.end <= p PROVE x.end <= p
    <2>1. /\ p \in Int /\ \A m \in C : p <= m.start \/ m.end <= p
      BY DEF Cut
    <2>2. /\ b.start \in Nat /\ b.end \in Nat /\ b.start < b.end
          /\ x.start \in Nat /\ x.end \in Nat /\ x.start < x.end
      BY <1>1
    <2>3. SUFFICES ASSUME p < x.end PROVE FALSE
      BY <2>1, <2>2
    <2>4. b.start < p
      BY <1>9, <2>1, <2>2
    <2>5. PICK c \in C : c.start < p /\ p < c.end
      BY <2>1, <2>3, <2>4 DEF Connected
    <2>6. c.start \in Nat /\ c.end \in Nat
      BY <1>1
    <2> QED
      BY <2>1, <2>5, <2>6
  <1>10. ASSUME NEW b \in C, NEW x \in C PROVE Together(D, b, x)
    BY <1>9 DEF Together
  <1> QED
    BY <1>8, <1>10 DEF Cluster

\* A cluster is not empty and has its own extent.
LEMMA ClusterExtent ==
  ASSUME MaxText \in Nat, NEW D, Spans(D), NEW c \in Coalescing(D)
  PROVE  c.start \in Nat /\ c.end \in Nat
  <1>1. PICK m \in D : c = Coalesced(Cluster(D, m))
    BY DEF Coalescing
  <1>2. Spans(Cluster(D, m)) /\ m \in Cluster(D, m)
    BY DEF Cluster, Spans, Together
  <1>3. c.start \in 0..MaxText /\ c.end \in 0..MaxText
    BY <1>1, <1>2, Extent
  <1> QED
    BY <1>3

LEMMA RunExtent ==
  ASSUME CallInv, active = Active, Sweeping, run # {}
  PROVE  /\ coalesce_run = Coalesced(run) /\ run_end = Coalesced(run).end
         /\ \E a \in run : Coalesced(run).start = a.start
         /\ \E b \in run : run_end = b.end
         /\ \A c \in run : Coalesced(run).start <= c.start /\ c.end <= run_end
         /\ run_end \in Nat
  <1>1. Spans(run)
    BY ScansAreSpans DEF Sweeping, Spans
  <1>2. coalesce_run = Coalesced(run) /\ run_end = Coalesced(run).end
    BY DEF coalesce_run, Coalesced, run_start, run_end
  <1>3. MaxText \in Nat
    BY CallFacts
  <1> QED
    BY <1>1, <1>2, <1>3, Extent

\* The match the sweep takes next starts no later than the ones it leaves.
LEMMA NextMatch ==
  ASSUME CallInv, active = Active, Sweeping, NEW m, IsNext(m)
  PROVE  /\ m \in candidates /\ m \in Scans
         /\ \A n \in Scans : n.start \in Nat /\ n.end \in Nat /\ n.start < n.end
         /\ \A n \in candidates : m.start <= n.start
         /\ \A a \in Scans \ candidates : a.start <= m.start
  <1>1. m \in candidates /\ m \in Scans
    BY DEF IsNext, Sweeping
  <1>2. \A n \in Scans : n.start \in Nat /\ n.end \in Nat /\ n.start < n.end
    BY ScansAreSpans DEF Spans
  <1>3. ASSUME NEW n \in candidates PROVE m.start <= n.start
    <2>1. n \in Scans
      BY DEF Sweeping
    <2>2. n # m => scan_match_less(m, n)
      BY DEF IsNext
    <2>3. scan_match_less(m, n) => m.start <= n.start
      BY <1>1, <1>2, <2>1 DEF scan_match_less
    <2> QED
      BY <1>1, <1>2, <2>2, <2>3
  <1>4. \A a \in Scans \ candidates : a.start <= m.start
    BY <1>1 DEF Sweeping
  <1> QED
    BY <1>1, <1>2, <1>3, <1>4

\* Sweeping is about Scans, candidates, run and resolved only.
LEMMA ScansStay ==
  ASSUME UNCHANGED <<in, active>>
  PROVE  /\ Scans' = Scans /\ Coalescing(Scans)' = Coalescing(Scans)
         /\ \A a : Cluster(Scans, a)' = Cluster(Scans, a)
         /\ \A a : Coalesced(Cluster(Scans, a))' = Coalesced(Cluster(Scans, a))
  BY DEF Scans, Coalescing, Coalesced, Cluster

LEMMA GrowKeepsSweep ==
  ASSUME CallInv, active = Active, Sweeping, GrowRun
  PROVE  Sweeping'
  <1>1. /\ UNCHANGED <<in, phase, active, resolved>>
        /\ \E m \in candidates : /\ IsNext(m) /\ Joins(m)
                                 /\ run' = run \cup {m}
                                 /\ candidates' = candidates \ {m}
    BY DEF GrowRun
  <1>2. PICK m \in candidates : /\ IsNext(m) /\ Joins(m)
                                /\ run' = run \cup {m}
                                /\ candidates' = candidates \ {m}
    BY <1>1
  <1>3. /\ m \in candidates /\ m \in Scans
        /\ \A n \in Scans : n.start \in Nat /\ n.end \in Nat /\ n.start < n.end
        /\ \A n \in candidates : m.start <= n.start
        /\ \A a \in Scans \ candidates : a.start <= m.start
    BY <1>2, NextMatch
  <1>4. run # {} /\ m.start < run_end
    BY <1>2 DEF Joins
  <1>5. PICK z \in run : run_end = z.end
    BY <1>4, RunExtent
  <1>6. Scans' = Scans /\ Coalescing(Scans)' = Coalescing(Scans)
    BY <1>1, ScansStay
  <1>7. /\ candidates \subseteq Scans /\ run \subseteq Scans \ candidates
        /\ \A a \in Past, b \in run : a.end <= b.start
        /\ Connected(run) /\ resolved \in Seq(Coalescing(Scans))
        /\ \A a \in Past : Coalesced(Cluster(Scans, a)) \in Range(resolved)
        /\ \A i \in 1..Len(resolved), b \in run : resolved[i].end <= b.start
        /\ Sorted(resolved)
    BY DEF Sweeping
  <1>8. Past' = Past
    BY <1>1, <1>2, <1>6 DEF Past
  <1>9. candidates' \subseteq Scans' /\ run' \subseteq Scans' \ candidates' /\ run' # {}
    BY <1>2, <1>3, <1>6, <1>7
  <1>10. \A a \in Scans' \ candidates', c \in candidates' : a.start <= c.start
    BY <1>2, <1>3, <1>6, <1>7 DEF Sweeping
  <1>11. \A a \in Past, b \in run' : a.end <= b.start
    <2>1. ASSUME NEW a \in Past PROVE a.end <= m.start
      <3>1. a.end <= z.start /\ z.start <= m.start
        BY <1>3, <1>5, <1>7
      <3>2. a \in Scans /\ z \in Scans
        BY <1>7 DEF Past
      <3> QED
        BY <1>3, <3>1, <3>2
    <2> QED
      BY <1>2, <1>7, <2>1
  <1>12. Connected(run')
    <2> SUFFICES ASSUME NEW p \in Int, NEW a \in run', a.start < p, NEW b \in run', p < b.end
                 PROVE  \E c \in run' : c.start < p /\ p < c.end
      BY DEF Connected
    <2>1. /\ m.start \in Nat /\ m.end \in Nat
          /\ \A n \in run : n.start \in Nat /\ n.end \in Nat /\ n.start <= m.start
      BY <1>3, <1>7
    <2>2. CASE p < z.end
      <3>1. a \in run => \E c \in run : c.start < p /\ p < c.end
        BY <1>5, <1>7, <2>2 DEF Connected
      <3>2. a = m => z.start < p
        BY <2>1
      <3>3. a = m => \E c \in run : c.start < p /\ p < c.end
        BY <1>5, <1>7, <2>2, <3>2 DEF Connected
      <3> QED
        BY <1>2, <3>1, <3>3
    <2>3. CASE z.end <= p
      <3>1. b \notin run
        <4>1. \A n \in run : n.end <= z.end
          BY <1>4, <1>5, RunExtent
        <4> QED
          BY <2>1, <2>3, <4>1
      <3>2. b = m /\ m.start < p
        BY <1>2, <1>4, <1>5, <2>1, <2>3, <3>1
      <3> QED
        BY <1>2, <3>2
    <2> QED
      BY <2>1, <2>2, <2>3
  <1>13. \A i \in 1..Len(resolved), b \in run' : resolved[i].end <= b.start
    <2>1. ASSUME NEW i \in 1..Len(resolved) PROVE resolved[i].end <= m.start
      <3>1. resolved[i] \in Coalescing(Scans)
        BY <1>7
      <3>2. resolved[i].end \in Nat
        BY <3>1, CallFacts, ScansAreSpans, ClusterExtent
      <3>3. resolved[i].end <= z.start /\ z.start <= m.start /\ z \in Scans
        BY <1>3, <1>5, <1>7
      <3> QED
        BY <1>3, <3>2, <3>3
    <2> QED
      BY <1>2, <1>7, <2>1
  <1>14. \A a \in Past : Coalesced(Cluster(Scans, a))' \in Range(resolved)
    BY <1>1, <1>7, ScansStay
  <1>15. resolved' = resolved
    BY <1>1
  <1> QED
    BY <1>6, <1>7, <1>8, <1>9, <1>10, <1>11, <1>12, <1>13, <1>14, <1>15 DEF Sweeping

\* A run that nothing left can join is a cluster, and the span made of it goes
\* after the ones emitted before.
LEMMA RunEmitted ==
  ASSUME CallInv, active = Active, Sweeping, run # {},
         \A c \in candidates : run_end <= c.start
  PROVE  /\ Append(resolved, coalesce_run) \in Seq(Coalescing(Scans))
         /\ Sorted(Append(resolved, coalesce_run))
         /\ \A a \in Past \cup run :
              Coalesced(Cluster(Scans, a)) \in Range(Append(resolved, coalesce_run))
         /\ \A i \in 1..Len(Append(resolved, coalesce_run)) :
              /\ Append(resolved, coalesce_run)[i].end \in Nat
              /\ Append(resolved, coalesce_run)[i].end <= run_end
  <1>1. /\ candidates \subseteq Scans /\ run \subseteq Scans \ candidates
        /\ \A a \in Past, b \in run : a.end <= b.start
        /\ Connected(run) /\ resolved \in Seq(Coalescing(Scans))
        /\ \A a \in Past : Coalesced(Cluster(Scans, a)) \in Range(resolved)
        /\ \A i \in 1..Len(resolved), b \in run : resolved[i].end <= b.start
        /\ Sorted(resolved)
    BY DEF Sweeping
  <1>2. MaxText \in Nat /\ Spans(Scans)
    BY CallFacts, ScansAreSpans
  <1>3. \A n \in Scans : n.start \in Nat /\ n.end \in Nat /\ n.start < n.end
    BY <1>2 DEF Spans
  <1>4. /\ coalesce_run = Coalesced(run) /\ run_end = Coalesced(run).end
        /\ \E a \in run : Coalesced(run).start = a.start
        /\ \A c \in run : Coalesced(run).start <= c.start /\ c.end <= run_end
        /\ run_end \in Nat
    BY RunExtent
  <1>5. \A b \in run : Cluster(Scans, b) = run
    <2>1. ASSUME NEW x \in Scans \ run
          PROVE  \/ \A b \in run : x.end <= b.start
                 \/ \A b \in run : b.end <= x.start
      <3>1. CASE x \in candidates
        <4>1. ASSUME NEW b \in run PROVE b.end <= x.start
          <5>1. b.end <= run_end /\ run_end <= x.start /\ b \in Scans
            BY <1>1, <1>4, <3>1
          <5> QED
            BY <1>3, <1>4, <5>1
        <4> QED
          BY <4>1
      <3>2. CASE x \notin candidates
        BY <1>1, <3>2 DEF Past
      <3> QED
        BY <3>1, <3>2
    <2>2. run \subseteq Scans
      BY <1>1
    <2> QED
      BY <1>1, <1>2, <2>1, <2>2, RunIsCluster
  <1>6. coalesce_run \in Coalescing(Scans)
    <2>1. PICK b \in run : TRUE
      OBVIOUS
    <2>2. coalesce_run = Coalesced(Cluster(Scans, b)) /\ b \in Scans
      BY <1>1, <1>4, <1>5
    <2> QED
      BY <2>2 DEF Coalescing
  <1> DEFINE s == Append(resolved, coalesce_run)
             n == Len(resolved)
  <1>7. /\ s \in Seq(Coalescing(Scans)) /\ Range(s) = Range(resolved) \cup {coalesce_run}
        /\ Len(s) = n + 1 /\ s[n + 1] = coalesce_run
        /\ \A i \in 1..n : s[i] = resolved[i]
        /\ n \in Nat
    BY <1>1, <1>6, RangeOfAppend
  <1> HIDE DEF s, n
  <1>8. \A a \in Past \cup run : Coalesced(Cluster(Scans, a)) \in Range(s)
    BY <1>1, <1>4, <1>5, <1>7
  <1>9. ASSUME NEW i \in 1..n
        PROVE  /\ s[i].end \in Nat /\ s[i].end <= coalesce_run.start
               /\ s[i].end <= run_end
    <2>1. PICK a \in run : coalesce_run.start = a.start
      BY <1>4
    <2>2. resolved[i] \in Coalescing(Scans) /\ resolved[i].end <= a.start
      BY <1>1, <1>7 DEF n
    <2>3. resolved[i].end \in Nat
      BY <1>2, <2>2, ClusterExtent
    <2>4. a.start < a.end /\ a.end <= run_end /\ a.start \in Nat /\ a.end \in Nat
      BY <1>1, <1>3, <1>4
    <2>5. s[i] = resolved[i]
      BY <1>7
    <2>6. resolved[i].end <= run_end
      BY <1>4, <2>2, <2>3, <2>4
    <2> QED
      BY <2>1, <2>2, <2>3, <2>5, <2>6
  <1>10. \A i \in 1..Len(s) : s[i].end \in Nat /\ s[i].end <= run_end
    <2>1. s[n + 1].end = run_end
      BY <1>4, <1>7
    <2> QED
      BY <1>4, <1>7, <1>9, <2>1
  <1>11. Sorted(s)
    <2> SUFFICES ASSUME NEW i \in 1..n PROVE s[i].end <= s[i + 1].start
      BY <1>7 DEF Sorted
    <2>1. CASE i = n
      BY <1>7, <1>9, <2>1
    <2>2. CASE i # n
      <3>1. i \in 1..(n - 1) /\ i + 1 \in 1..n
        BY <1>7, <2>2
      <3> QED
        BY <1>1, <1>7, <3>1 DEF Sorted, n
    <2> QED
      BY <2>1, <2>2
  <1> QED
    BY <1>7, <1>8, <1>10, <1>11 DEF s

LEMMA EmitKeepsSweep ==
  ASSUME CallInv, active = Active, Sweeping, EmitRun
  PROVE  Sweeping'
  <1>1. PICK m \in candidates : /\ IsNext(m) /\ ~Joins(m)
                                /\ run' = {m} /\ candidates' = candidates \ {m}
    BY DEF EmitRun
  <1>2. /\ UNCHANGED <<in, active>>
        /\ resolved' = IF run = {} THEN resolved ELSE Append(resolved, coalesce_run)
    BY DEF EmitRun
  <1>3. /\ m \in candidates /\ m \in Scans
        /\ \A n \in Scans : n.start \in Nat /\ n.end \in Nat /\ n.start < n.end
        /\ \A n \in candidates : m.start <= n.start
        /\ \A a \in Scans \ candidates : a.start <= m.start
    BY <1>1, NextMatch
  <1>4. Scans' = Scans /\ Coalescing(Scans)' = Coalescing(Scans)
    BY <1>2, ScansStay
  <1>5. /\ candidates \subseteq Scans /\ run \subseteq Scans \ candidates
        /\ run = {} => candidates = Scans /\ resolved = <<>>
        /\ \A a \in Past, b \in run : a.end <= b.start
    BY DEF Sweeping
  <1>6. Past' = Scans \ candidates /\ Past' = Past \cup run
    BY <1>1, <1>4, <1>5 DEF Past
  <1>7. candidates' \subseteq Scans' /\ run' \subseteq Scans' \ candidates' /\ run' # {}
    BY <1>1, <1>3, <1>4, <1>5
  <1>8. \A a \in Scans' \ candidates', c \in candidates' : a.start <= c.start
    BY <1>1, <1>3, <1>4, <1>5 DEF Sweeping
  <1>9. Connected(run')
    BY <1>1 DEF Connected
  <1>10. ASSUME NEW s, s = resolved',
                s \in Seq(Coalescing(Scans)), Sorted(s),
                \A a \in Past \cup run : Coalesced(Cluster(Scans, a)) \in Range(s),
                \A i \in 1..Len(s) : s[i].end <= m.start,
                \A a \in Past \cup run : a.end <= m.start
         PROVE  Sweeping'
    <2>1. \A a \in Past' : Coalesced(Cluster(Scans, a))' \in Range(s)
      BY <1>2, <1>6, <1>10, ScansStay
    <2>2. \A a \in Past', b \in run' : a.end <= b.start
      BY <1>1, <1>6, <1>10
    <2>3. \A i \in 1..Len(s), b \in run' : s[i].end <= b.start
      BY <1>1, <1>10
    <2> QED
      BY <1>4, <1>7, <1>8, <1>9, <1>10, <2>1, <2>2, <2>3 DEF Sweeping
  <1>11. CASE run = {}
    <2>1. resolved' = <<>> /\ Past \cup run = {}
      BY <1>2, <1>5, <1>11 DEF Past
    <2>2. <<>> \in Seq(Coalescing(Scans)) /\ Sorted(<<>>) /\ 1..Len(<<>>) = {}
      BY DEF Sorted
    <2> QED
      BY <1>10, <2>1, <2>2
  <1>12. CASE run # {}
    <2>1. run_end <= m.start /\ run_end \in Nat /\ \A c \in run : c.end <= run_end
      <3>1. run_end \in Nat /\ \A c \in run : c.end <= run_end
        BY <1>12, RunExtent
      <3>2. ~(m.start < run_end)
        BY <1>1, <1>12 DEF Joins
      <3> QED
        BY <1>3, <3>1, <3>2
    <2>2. \A c \in candidates : run_end <= c.start
      BY <1>3, <1>5, <2>1
    <2>3. \A a \in Past \cup run : a.end <= m.start
      <3>1. \A a \in run : a.end <= m.start
        BY <1>3, <1>5, <2>1
      <3>2. ASSUME NEW a \in Past PROVE a.end <= m.start
        <4>1. PICK b \in run : TRUE
          BY <1>12
        <4>2. a.end <= b.start /\ b.start <= m.start /\ a \in Scans /\ b \in Scans
          BY <1>3, <1>5 DEF Past
        <4> QED
          BY <1>3, <4>2
      <3> QED
        BY <3>1, <3>2
    <2> DEFINE s == Append(resolved, coalesce_run)
    <2>4. s = resolved'
      BY <1>2, <1>12
    <2>5. /\ s \in Seq(Coalescing(Scans)) /\ Sorted(s)
          /\ \A a \in Past \cup run : Coalesced(Cluster(Scans, a)) \in Range(s)
          /\ \A i \in 1..Len(s) : s[i].end \in Nat /\ s[i].end <= run_end
      BY <1>12, <2>2, RunEmitted
    <2> HIDE DEF s
    <2>6. \A i \in 1..Len(s) : s[i].end <= m.start
      BY <1>3, <2>1, <2>5
    <2> QED
      BY <1>10, <2>3, <2>4, <2>5, <2>6
  <1> QED
    BY <1>11, <1>12

LEMMA FinishEndsSweep ==
  ASSUME CallInv, active = Active, Sweeping, Finish
  PROVE  Range(resolved') = Coalescing(Scans) /\ Sorted(resolved')
  <1>1. /\ candidates = {}
        /\ resolved' = IF run = {} THEN resolved ELSE Append(resolved, coalesce_run)
    BY DEF Finish
  <1>2. CASE run = {}
    <2>1. resolved' = <<>> /\ Scans = {}
      BY <1>1, <1>2 DEF Sweeping
    <2> QED
      BY <2>1 DEF Coalescing, Range, Sorted
  <1>3. CASE run # {}
    <2> DEFINE s == Append(resolved, coalesce_run)
    <2>1. resolved' = s /\ Past \cup run = Scans
      BY <1>1, <1>3 DEF Past, Sweeping
    <2>2. /\ s \in Seq(Coalescing(Scans)) /\ Sorted(s)
          /\ \A a \in Past \cup run : Coalesced(Cluster(Scans, a)) \in Range(s)
      BY <1>1, <1>3, RunEmitted
    <2> HIDE DEF s
    <2>3. Range(s) \subseteq Coalescing(Scans)
      BY <2>2 DEF Range
    <2>4. Coalescing(Scans) \subseteq Range(s)
      BY <2>1, <2>2 DEF Coalescing
    <2> QED
      BY <2>1, <2>2, <2>3, <2>4
  <1> QED
    BY <1>2, <1>3

LEMMA SweepInvariant == Spec => []SweepInv
  <1>1. Init => SweepInv
    BY DEF Init, SweepInv
  <1>2. FanInv /\ FanInv' /\ SweepInv /\ [Next]_vars => SweepInv'
    <2> SUFFICES ASSUME FanInv, FanInv', SweepInv, [Next]_vars PROVE SweepInv'
      OBVIOUS
    <2>1. CallInv /\ (phase # "filter" => active = Active)
      BY DEF FanInv, FanTypes
    <2>2. CASE NothingToScan
      <3>1. phase' = "done" /\ resolved' = <<>> /\ active' = <<>>
        BY <2>2 DEF NothingToScan, Return, FanInv, Idle
      <3>2. Scans' = {}
        BY <3>1 DEF Scans, Range
      <3>3. Range(resolved') = {} /\ Coalescing(Scans') = {} /\ Sorted(resolved')
        BY <3>1, <3>2 DEF Range, Coalescing, Sorted
      <3> QED
        BY <3>1, <3>3 DEF SweepInv
    <2>3. CASE Collect
      <3>1. CASE Failed # {}
        BY <2>3, <3>1 DEF Collect, SweepInv
      <3>2. CASE Failed = {}
        <4>1. /\ phase = "scan" /\ AllJoined /\ phase' = "sweep"
              /\ candidates' = UNION {found[k] : k \in DOMAIN task}
              /\ UNCHANGED <<in, active, run, resolved>>
          BY <2>3, <3>2 DEF Collect
        <4>2. /\ Unlaunched = {} /\ run = {} /\ resolved = <<>>
              /\ FanTypes /\ Covered /\ TaskInv
          BY <4>1 DEF FanInv, PhaseInv
        <4>3. candidates' = Scans /\ Scans' = Scans
          BY <2>1, <3>2, <4>1, <4>2, AllScanned, ScansStay
        <4>4. run' = {} /\ resolved' = <<>> /\ Past' = {}
          BY <4>1, <4>2, <4>3 DEF Past
        <4>5. <<>> \in Seq(Coalescing(Scans)') /\ Sorted(<<>>) /\ Connected({})
              /\ 1..Len(<<>>) = {}
          BY DEF Sorted, Connected
        <4>6. Sweeping'
          BY <4>3, <4>4, <4>5 DEF Sweeping
        <4> QED
          BY <4>1, <4>6 DEF SweepInv
      <3> QED
        BY <3>1, <3>2
    <2>4. CASE GrowRun
      <3>1. phase = "sweep" /\ phase' = "sweep" /\ Sweeping
        BY <2>4 DEF GrowRun, IsNext, SweepInv
      <3> QED
        BY <2>1, <2>4, <3>1, GrowKeepsSweep DEF SweepInv
    <2>5. CASE EmitRun
      <3>1. phase = "sweep" /\ phase' = "sweep" /\ Sweeping
        BY <2>5 DEF EmitRun, IsNext, SweepInv
      <3> QED
        BY <2>1, <2>5, <3>1, EmitKeepsSweep DEF SweepInv
    <2>6. CASE Finish
      <3>1. phase = "sweep" /\ phase' = "done" /\ Sweeping /\ UNCHANGED <<in, active>>
        BY <2>6 DEF Finish, SweepInv
      <3>2. Range(resolved') = Coalescing(Scans) /\ Sorted(resolved')
        BY <2>1, <2>6, <3>1, FinishEndsSweep
      <3> QED
        BY <3>1, <3>2, ScansStay DEF SweepInv
    <2>7. CASE UNCHANGED vars
      <3>1. /\ UNCHANGED <<in, active>> /\ phase' = phase /\ run' = run
            /\ candidates' = candidates /\ resolved' = resolved
        BY <2>7 DEF vars
      <3>2. Scans' = Scans
        BY <3>1, ScansStay
      <3>3. Past' = Past
        BY <3>1, <3>2 DEF Past
      <3>4. Sweeping => Sweeping'
        BY <3>1, <3>2, <3>3 DEF Sweeping
      <3> QED
        BY <3>1, <3>2, <3>4 DEF SweepInv
    <2>8. CASE \/ Filter \/ LaunchTask \/ LaunchFails \/ Unwind
               \/ \E k \in DOMAIN task : ScanRule(k)
      <3>1. phase' \notin {"sweep", "done"}
        <4>1. CASE Filter \/ LaunchTask \/ LaunchFails \/ Unwind
          BY <4>1 DEF Filter, LaunchTask, LaunchFails, Unwind
        <4>2. CASE \E k \in DOMAIN task : ScanRule(k)
          <5>1. PICK k \in DOMAIN task : task[k] = "running" /\ phase' = phase
            BY <4>2 DEF ScanRule
          <5> QED
            BY <5>1 DEF FanInv, PhaseInv, AllJoined
        <4> QED
          BY <2>8, <4>1, <4>2
      <3> QED
        BY <3>1 DEF SweepInv
    <2> QED
      BY <2>2, <2>3, <2>4, <2>5, <2>6, <2>7, <2>8 DEF Next, Returned
  <1> QED
    BY <1>1, <1>2, FanInvariant, PTL DEF Spec
-----------------------------------------------------------------------------
(* The result.                                                             *)

\* What scan_rules returns when it returns: the rules it scanned, whichever
\* bucket each was in and whichever task finished first, are all in it, and
\* spans that overlap are one.
ScansCoalesced ==
  phase = "done" => Range(resolved) = Coalescing(Scans) /\ Sorted(resolved)

\* The serial loop, or any number of tasks in any order, and the sweep give
\* the clusters of what the rules that were scanned detect.
THEOREM ScannedIsReturned == Spec => []ScansCoalesced
  <1>1. SweepInv => ScansCoalesced
    BY DEF SweepInv, ScansCoalesced
  <1> QED
    BY <1>1, SweepInvariant, PTL

\* The pre-filter's contract with scan_rules, which PrefilterSound checks of
\* the keywords the registry compiles: a rule that is left out detects nothing.
PrefilterContract ==
  \A i \in Inputs : i.prefilter_enabled =>
    \A r \in Range(i.rules) : ~Kept(r) => scan_one_rule(r, i.size) = {}

\* With a pre-filter that keeps its contract, scan_rules returns what it
\* promises of all the rules of the call: ResultIsPromised, for every text,
\* every set of rules and every number of workers.
THEOREM PromiseKept ==
  ASSUME PrefilterContract
  PROVE  Spec => []ResultIsPromised
  <1>1. ASSUME FanInv, SweepInv, phase = "done" PROVE ResultIsPromised
    <2>1. CallInv /\ active = Active
      BY <1>1 DEF FanInv, FanTypes
    <2>2. Range(active) \subseteq Range(in.rules)
      BY <2>1, ActiveRules
    <2>3. \A r \in Range(in.rules) \ Range(active) : scan_one_rule(r, in.size) = {}
      <3>1. \A r \in Range(in.rules) \ Range(active) : in.prefilter_enabled /\ ~Kept(r)
        BY <2>1, ActiveRules
      <3> QED
        BY <2>1, <3>1 DEF PrefilterContract, CallInv
    <2>4. Detected = Scans
      BY <2>2, <2>3 DEF Detected, Scans
    <2>5. Promised = Coalescing(Scans)
      <3>1. Promised = {Coalesced(C) : C \in {Cluster(Scans, m) : m \in Scans}}
        BY <2>4 DEF Promised, Coalesced
      <3> QED
        BY <3>1 DEF Coalescing
    <2>6. Range(resolved) = Coalescing(Scans) /\ Sorted(resolved)
      BY <1>1 DEF SweepInv
    <2> QED
      BY <2>5, <2>6 DEF ResultIsPromised, Sorted
  <1>2. FanInv /\ SweepInv => ResultIsPromised
    BY <1>1 DEF ResultIsPromised
  <1> QED
    BY <1>2, FanInvariant, SweepInvariant, PTL
=============================================================================
