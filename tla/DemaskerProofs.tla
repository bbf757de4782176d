---------------------------- MODULE DemaskerProofs --------------------------
(***************************************************************************)
(* Proofs about Demasker, for every response, every way to cut it into     *)
(* chunks and every set of placeholders.                                   *)
(***************************************************************************)
EXTENDS Demasker, SequenceTheorems, FiniteSetTheorems, WellFoundedInduction, TLAPS

-----------------------------------------------------------------------------
(* Induction, with the property as a set: the provers cannot instantiate   *)
(* the library's theorems over operators, but they can this one.           *)

\* A set of naturals that is not empty has a least element.
LEMMA LeastNat ==
  ASSUME NEW T, T \subseteq Nat, T # {}
  PROVE  \E x \in T : \A y \in T : x <= y
  <1> DEFINE R == OpToRel(<, Nat)
  <1>1. IsWellFoundedOn(R, Nat)
    BY NatLessThanWellFounded
  <1>2. PICK x \in T : \A y \in T : ~(<<y, x>> \in R)
    <2> HIDE DEF R
    <2> QED
      BY <1>1, WFMin
  <1>3. ASSUME NEW y \in T PROVE x <= y
    <2>1. y < x => <<y, x>> \in R
      BY Zenon DEF OpToRel
    <2>2. ~(y < x)
      BY <1>2, <2>1
    <2> QED
      BY <2>2
  <1> QED
    BY <1>3

\* What holds of x when it holds of everything ranked below x, holds.
LEMMA RankInduction ==
  ASSUME NEW S, NEW rank \in [S -> Nat], NEW Good,
         \A x \in S : (\A y \in S : rank[y] < rank[x] => y \in Good) => x \in Good
  PROVE  S \subseteq Good
  <1> DEFINE Bad == {rank[x] : x \in {y \in S : y \notin Good}}
  <1> SUFFICES ASSUME Bad # {} PROVE FALSE
    OBVIOUS
  <1>1. PICK n \in Bad : \A m \in Bad : n <= m
    <2>1. Bad \subseteq Nat
      OBVIOUS
    <2> HIDE DEF Bad
    <2> QED
      BY <2>1, LeastNat
  <1>2. PICK x \in S : x \notin Good /\ rank[x] = n
    <2>1. n \in {rank[x] : x \in {y \in S : y \notin Good}}
      BY <1>1
    <2>2. \E x \in {y \in S : y \notin Good} : n = rank[x]
      BY ONLY <2>1
    <2> QED
      BY <2>2
  <1>3. ASSUME NEW y \in S, rank[y] < rank[x] PROVE y \in Good
    <2> SUFFICES ASSUME y \notin Good PROVE FALSE
      OBVIOUS
    <2>1. rank[y] \in Bad
      OBVIOUS
    <2>2. n <= rank[y] /\ n \in Nat /\ rank[y] \in Nat
      <3> HIDE DEF Bad
      <3> QED
        BY <1>1, <1>2, <2>1
    <2> QED
      BY <1>2, <1>3, <2>2
  <1> QED
    BY <1>2, <1>3

\* F makes of a function from S to T another, whose value at x depends on the
\* values of the first below x only.
Recursion(S, T, N, rank, F) ==
  /\ T # {} /\ N \in Nat /\ rank \in [S -> 0..N]
  /\ F \in [[S -> T] -> [S -> T]]
  /\ \A g, h \in [S -> T], x \in S :
       (\A y \in S : rank[y] < rank[x] => g[y] = h[y]) => F[g][x] = F[h][x]

\* A function that is defined by recursion to lower ranks exists.
LEMMA RecursiveFunction ==
  ASSUME NEW S, NEW T, NEW N, NEW rank, NEW F, Recursion(S, T, N, rank, F)
  PROVE  \E g \in [S -> T] : g = F[g]
  <1>0. /\ T # {} /\ N \in Nat /\ rank \in [S -> 0..N]
        /\ F \in [[S -> T] -> [S -> T]]
        /\ \A g, h \in [S -> T], x \in S :
             (\A y \in S : rank[y] < rank[x] => g[y] = h[y]) => F[g][x] = F[h][x]
    BY DEF Recursion
  <1> PICK t0 \in T : TRUE
    BY <1>0
  <1> DEFINE Upto(n) == \E g \in [S -> T] : \A x \in S : rank[x] < n => g[x] = F[g][x]
             Good == {n \in Nat : Upto(n)}
             id == [n \in Nat |-> n]
  <1>1. ASSUME NEW n \in Nat, \A m \in Nat : id[m] < id[n] => m \in Good
        PROVE  n \in Good
    <2>1. CASE n = 0
      <3>1. [x \in S |-> t0] \in [S -> T] /\ \A x \in S : ~(rank[x] < 0)
        BY <1>0
      <3>2. Upto(0)
        BY <3>1
      <3> QED
        BY <2>1, <3>2
    <2>2. CASE n # 0
      <3>1. n - 1 \in Nat /\ n - 1 \in Good
        BY <1>1, <2>2
      <3>2. PICK g \in [S -> T] : \A x \in S : rank[x] < n - 1 => g[x] = F[g][x]
        BY <3>1
      <3>3. F[g] \in [S -> T]
        BY <1>0
      <3>4. ASSUME NEW x \in S, rank[x] < n PROVE F[g][x] = F[F[g]][x]
        <4>1. ASSUME NEW y \in S, rank[y] < rank[x] PROVE F[g][y] = g[y]
          <5>1. rank[y] < n - 1
            BY <1>0, <3>4, <4>1
          <5> QED
            BY <3>2, <5>1
        <4> QED
          BY <1>0, <3>3, <4>1
      <3>5. Upto(n)
        BY <3>3, <3>4
      <3> QED
        BY <3>5
    <2> QED
      BY <2>1, <2>2
  <1>2. Nat \subseteq Good
    <2>1. id \in [Nat -> Nat]
      OBVIOUS
    <2> HIDE DEF Good, id
    <2> QED
      BY <1>1, <2>1, RankInduction
  <1>3. PICK g \in [S -> T] : \A x \in S : rank[x] < N + 1 => g[x] = F[g][x]
    <2>1. N + 1 \in Good
      <3> HIDE DEF Good
      <3> QED
        BY <1>0, <1>2
    <2> QED
      BY <2>1
  <1>4. \A x \in S : rank[x] < N + 1
    BY <1>0
  <1>5. \A x \in S : g[x] = F[g][x]
    BY <1>3, <1>4
  <1>6. g = F[g]
    BY <1>0, <1>5
  <1> QED
    BY <1>6

\* A bounded set of naturals has a greatest element.
LEMMA GreatestNat ==
  ASSUME NEW T, T \subseteq Nat, T # {}, NEW N \in Nat, \A x \in T : x <= N
  PROVE  \E x \in T : \A y \in T : y <= x
  <1> DEFINE D == {N - x : x \in T}
  <1>1. D \subseteq Nat /\ D # {}
    <2>1. \A x \in T : N - x \in Nat
      OBVIOUS
    <2>2. D \subseteq Nat
      BY <2>1
    <2>3. PICK x \in T : TRUE
      OBVIOUS
    <2>4. N - x \in D
      OBVIOUS
    <2> QED
      BY <2>2, <2>4
  <1>2. PICK d \in D : \A e \in D : d <= e
    <2> HIDE DEF D
    <2> QED
      BY <1>1, LeastNat
  <1>3. PICK x \in T : d = N - x
    OBVIOUS
  <1>4. ASSUME NEW y \in T PROVE y <= x
    <2>1. N - y \in D
      OBVIOUS
    <2>2. N - x <= N - y
      BY <1>2, <1>3, <2>1
    <2> QED
      BY <2>2
  <1> QED
    BY <1>4

\* Max and Min of such sets.
LEMMA MaxNat ==
  ASSUME NEW T, T \subseteq Nat, T # {}, NEW N \in Nat, \A x \in T : x <= N
  PROVE  Max(T) \in T /\ \A y \in T : y <= Max(T)
  <1>1. PICK x \in T : \A y \in T : y <= x
    BY GreatestNat
  <1>2. \A y \in T : x >= y
    BY <1>1
  <1>3. Max(T) \in T /\ \A y \in T : Max(T) >= y
    BY <1>2 DEF Max
  <1> QED
    BY <1>3

LEMMA MinNat ==
  ASSUME NEW T, T \subseteq Nat, T # {}
  PROVE  Min(T) \in T /\ \A y \in T : Min(T) <= y
  <1>1. PICK x \in T : \A y \in T : x <= y
    BY LeastNat
  <1>2. \E z \in T : \A y \in T : z <= y
    BY <1>1
  <1> QED
    BY <1>2, Zenon DEF Min
-----------------------------------------------------------------------------
(* Reading bytes as runes.                                                 *)

\* A byte starts a rune of up to WidestRune bytes, or continues one.
LEMMA RuneFacts ==
  /\ WidestRune \in 1..4
  /\ \A b \in Byte : RuneBytes[b] \in 0..WidestRune
  <1> DEFINE T == {RuneBytes[b] : b \in Byte}
  <1>1. T \subseteq 0..4
    BY DemaskerAssumption
  <1>2. PICK b \in Byte : RuneBytes[b] # 0
    BY DemaskerAssumption DEF is_rune_start
  <1>3. RuneBytes[b] \in T
    OBVIOUS
  <1>4. WidestRune \in T /\ \A y \in T : y <= WidestRune
    <2>1. WidestRune = Max(T)
      BY DEF WidestRune
    <2>2. T \subseteq Nat /\ T # {} /\ \A x \in T : x <= 4
      BY <1>1, <1>3
    <2> HIDE DEF T
    <2> QED
      BY <2>1, <2>2, MaxNat
  <1>5. WidestRune \in 0..4
    BY <1>1, <1>4, Zenon
  <1>6. ASSUME NEW c \in Byte PROVE RuneBytes[c] \in 0..WidestRune
    <2>1. RuneBytes[c] \in T
      OBVIOUS
    <2> HIDE DEF T
    <2>2. RuneBytes[c] \in 0..4
      BY <1>1, <2>1, Zenon
    <2>3. RuneBytes[c] <= WidestRune
      BY <1>4, <2>1, Zenon
    <2> QED
      BY <1>5, <2>2, <2>3
  <1>7. WidestRune \in 1..4
    <2>1. RuneBytes[b] \in 0..WidestRune
      BY <1>6
    <2> QED
      BY <1>2, <1>5, <2>1
  <1> QED
    BY <1>6, <1>7

Left == 0..(WidestRune - 1)

\* left[k] bytes of a rune are still to come after the k-th byte of s.
Decodes(s, left) ==
  /\ left \in [0..Len(s) -> Left]
  /\ \A k \in 1..Len(s) :
       IF is_rune_start(s[k])
       THEN left[k-1] = 0 /\ left[k] = RuneBytes[s[k]] - 1
       ELSE left[k-1] > 0 /\ left[k] = left[k-1] - 1

\* s follows a text that misses a bytes of its last rune, and misses b.
Reads(s, a, b) ==
  /\ s \in Seq(Byte)
  /\ \E left : Decodes(s, left) /\ left[0] = a /\ left[Len(s)] = b

LEMMA ReadsNothing ==
  ASSUME NEW a \in Left
  PROVE  Reads(<<>>, a, a)
  <1> DEFINE left == [k \in 0..0 |-> a]
  <1>1. <<>> \in Seq(Byte) /\ Len(<<>>) = 0
    BY EmptySeq
  <1>2. left \in [0..0 -> Left] /\ left[0] = a
    OBVIOUS
  <1> HIDE DEF left
  <1>3. Decodes(<<>>, left)
    BY <1>1, <1>2 DEF Decodes
  <1>4. left[Len(<<>>)] = a
    BY <1>1, <1>2
  <1> QED
    BY <1>1, <1>2, <1>3, <1>4, Zenon DEF Reads

\* One text after the other.
LEMMA ReadsConcat ==
  ASSUME NEW s, NEW t, NEW a, NEW b, NEW c, Reads(s, a, b), Reads(t, b, c)
  PROVE  Reads(s \o t, a, c)
  <1>1. PICK f : Decodes(s, f) /\ f[0] = a /\ f[Len(s)] = b
    BY Zenon DEF Reads
  <1>2. PICK g : Decodes(t, g) /\ g[0] = b /\ g[Len(t)] = c
    BY Zenon DEF Reads
  <1> DEFINE m == Len(s)
             n == Len(t)
             u == s \o t
             h == [k \in 0..(m + n) |-> IF k <= m THEN f[k] ELSE g[k - m]]
  <1>3. s \in Seq(Byte) /\ t \in Seq(Byte) /\ m \in Nat /\ n \in Nat
    BY LenProperties DEF Reads
  <1>4. /\ u \in Seq(Byte) /\ Len(u) = m + n
        /\ \A i \in 1..(m + n) : u[i] = IF i <= m THEN s[i] ELSE t[i - m]
    BY <1>3, ConcatProperties
  <1>5. f \in [0..m -> Left] /\ g \in [0..n -> Left]
    BY <1>1, <1>2 DEF Decodes
  <1> HIDE DEF m, n, u
  <1>6. h \in [0..(m + n) -> Left]
    <2> SUFFICES ASSUME NEW k \in 0..(m + n)
                 PROVE  (IF k <= m THEN f[k] ELSE g[k - m]) \in Left
      OBVIOUS
    <2>1. CASE k <= m
      <3>1. k \in 0..m
        BY <1>3, <2>1
      <3> QED
        BY <1>5, <2>1, <3>1
    <2>2. CASE ~(k <= m)
      <3>1. k - m \in 0..n
        BY <1>3, <2>2
      <3> QED
        BY <1>5, <2>2, <3>1
    <2> QED
      BY <2>1, <2>2
  <1>7. \A k \in 0..m : h[k] = f[k]
    BY <1>3
  <1>8. ASSUME NEW k \in 0..n PROVE h[m + k] = g[k]
    <2>1. CASE k = 0
      <3>1. h[m] = f[m]
        BY <1>3, <1>7
      <3>2. f[m] = g[0]
        BY <1>1, <1>2 DEF m
      <3>3. m + k = m
        BY <1>3, <2>1
      <3> QED
        BY <2>1, <3>1, <3>2, <3>3
    <2>2. CASE k # 0
      <3>1. m + k \in 0..(m + n) /\ ~(m + k <= m) /\ (m + k) - m = k
        BY <1>3, <2>2
      <3> QED
        BY <3>1
    <2> QED
      BY <2>1, <2>2
  <1> HIDE DEF h
  <1>9. ASSUME NEW k \in 1..(m + n)
        PROVE  IF is_rune_start(u[k])
               THEN h[k-1] = 0 /\ h[k] = RuneBytes[u[k]] - 1
               ELSE h[k-1] > 0 /\ h[k] = h[k-1] - 1
    <2>1. CASE k <= m
      <3>1. k \in 1..m /\ k - 1 \in 0..m /\ k \in 0..m
        BY <1>3, <2>1
      <3>2. h[k] = f[k] /\ h[k-1] = f[k-1] /\ u[k] = s[k]
        BY <1>4, <1>7, <2>1, <3>1
      <3> QED
        BY <1>1, <3>1, <3>2 DEF Decodes, m
    <2>2. CASE ~(k <= m)
      <3>1. PICK j \in 1..n : k = m + j /\ k - m = j /\ j - 1 \in 0..n /\ j \in 0..n
                              /\ k - 1 = m + (j - 1)
        <4>1. k - m \in 1..n /\ k = m + (k - m) /\ (k - m) - 1 \in 0..n
              /\ k - m \in 0..n /\ k - 1 = m + ((k - m) - 1)
          BY <1>3, <2>2
        <4> QED
          BY <4>1
      <3>2. h[k] = g[j] /\ h[k-1] = g[j-1] /\ u[k] = t[j]
        BY <1>4, <1>8, <2>2, <3>1
      <3>3. IF is_rune_start(t[j])
            THEN g[j-1] = 0 /\ g[j] = RuneBytes[t[j]] - 1
            ELSE g[j-1] > 0 /\ g[j] = g[j-1] - 1
        BY <1>2 DEF Decodes, n
      <3> QED
        BY <3>2, <3>3
    <2> QED
      BY <2>1, <2>2
  <1>10. Decodes(u, h)
    BY <1>4, <1>6, <1>9 DEF Decodes
  <1>11. h[0] = a /\ h[Len(u)] = c
    <2>1. 0 \in 0..m /\ n \in 0..n
      BY <1>3
    <2>2. g[n] = c
      BY <1>2 DEF n
    <2> QED
      BY <1>1, <1>4, <1>7, <1>8, <2>1, <2>2
  <1> QED
    BY <1>4, <1>10, <1>11, Zenon DEF Reads, u

\* A text can be read in two parts, cut anywhere.
LEMMA DecodesSplit ==
  ASSUME NEW s, NEW t, s \in Seq(Byte), t \in Seq(Byte), NEW h, Decodes(s \o t, h)
  PROVE  /\ h[Len(s)] \in Left
         /\ Reads(s, h[0], h[Len(s)]) /\ Reads(t, h[Len(s)], h[Len(s \o t)])
  <1> DEFINE m == Len(s)
             n == Len(t)
             u == s \o t
  <1>1. Decodes(u, h)
    OBVIOUS
  <1>2. m \in Nat /\ n \in Nat
    BY LenProperties
  <1>3. /\ Len(u) = m + n
        /\ \A i \in 1..(m + n) : u[i] = IF i <= m THEN s[i] ELSE t[i - m]
    BY ConcatProperties
  <1> DEFINE f == [k \in 0..m |-> h[k]]
             g == [k \in 0..n |-> h[m + k]]
  <1> HIDE DEF m, n, u
  <1>4. h \in [0..(m + n) -> Left]
    BY <1>1, <1>3 DEF Decodes
  <1>5. ASSUME NEW k \in 0..n PROVE m + k \in 0..(m + n) /\ h[m + k] \in Left
    <2>1. m + k \in 0..(m + n)
      BY <1>2
    <2> QED
      BY <1>4, <2>1
  <1>6. f \in [0..m -> Left] /\ g \in [0..n -> Left]
    <2>1. ASSUME NEW k \in 0..m PROVE h[k] \in Left
      <3>1. k \in 0..(m + n)
        BY <1>2
      <3> QED
        BY <1>4, <3>1
    <2> QED
      BY <1>5, <2>1
  <1>7. ASSUME NEW k \in 1..(m + n)
        PROVE  IF is_rune_start(u[k])
               THEN h[k-1] = 0 /\ h[k] = RuneBytes[u[k]] - 1
               ELSE h[k-1] > 0 /\ h[k] = h[k-1] - 1
    BY <1>1, <1>3 DEF Decodes
  <1>8. Decodes(s, f)
    <2> SUFFICES ASSUME NEW k \in 1..m
                 PROVE  IF is_rune_start(s[k])
                        THEN f[k-1] = 0 /\ f[k] = RuneBytes[s[k]] - 1
                        ELSE f[k-1] > 0 /\ f[k] = f[k-1] - 1
      BY <1>6 DEF Decodes, m
    <2>1. k \in 1..(m + n) /\ k <= m /\ k \in 0..m /\ k - 1 \in 0..m
      BY <1>2
    <2>2. u[k] = s[k] /\ f[k] = h[k] /\ f[k-1] = h[k-1]
      BY <1>3, <2>1
    <2> HIDE DEF f
    <2> QED
      BY <1>7, <2>1, <2>2
  <1>9. Decodes(t, g)
    <2> SUFFICES ASSUME NEW k \in 1..n
                 PROVE  IF is_rune_start(t[k])
                        THEN g[k-1] = 0 /\ g[k] = RuneBytes[t[k]] - 1
                        ELSE g[k-1] > 0 /\ g[k] = g[k-1] - 1
      BY <1>6 DEF Decodes, n
    <2>1. /\ m + k \in 1..(m + n) /\ ~(m + k <= m) /\ (m + k) - m = k
          /\ k \in 0..n /\ k - 1 \in 0..n /\ m + (k - 1) = (m + k) - 1
      BY <1>2
    <2>2. u[m + k] = t[k] /\ g[k] = h[m + k] /\ g[k-1] = h[(m + k) - 1]
      BY <1>3, <2>1
    <2>3. IF is_rune_start(u[m + k])
          THEN h[(m + k) - 1] = 0 /\ h[m + k] = RuneBytes[u[m + k]] - 1
          ELSE h[(m + k) - 1] > 0 /\ h[m + k] = h[(m + k) - 1] - 1
      BY <1>7, <2>1
    <2> HIDE DEF g
    <2> QED
      BY <2>2, <2>3
  <1>10. /\ f[0] = h[0] /\ f[m] = h[m] /\ g[0] = h[m] /\ g[n] = h[m + n]
         /\ h[m] \in Left
    <2>1. 0 \in 0..m /\ m \in 0..m /\ 0 \in 0..n /\ n \in 0..n /\ m + 0 = m
      BY <1>2
    <2> QED
      BY <1>5, <2>1
  <1> HIDE DEF f, g
  <1>11. Reads(s, h[0], h[m])
    BY <1>8, <1>10, Zenon DEF Reads, m
  <1>12. Reads(t, h[m], h[m + n])
    BY <1>9, <1>10, Zenon DEF Reads, n
  <1>13. Len(u) = m + n
    BY <1>3
  <1> QED
    BY <1>10, <1>11, <1>12, <1>13 DEF m, u

LEMMA ReadsSplit ==
  ASSUME NEW s, NEW t, s \in Seq(Byte), t \in Seq(Byte), NEW a, NEW c, Reads(s \o t, a, c)
  PROVE  \E b \in Left : Reads(s, a, b) /\ Reads(t, b, c)
  <1>1. PICK h : Decodes(s \o t, h) /\ h[0] = a /\ h[Len(s \o t)] = c
    BY Zenon DEF Reads
  <1>2. /\ h[Len(s)] \in Left
        /\ Reads(s, h[0], h[Len(s)]) /\ Reads(t, h[Len(s)], h[Len(s \o t)])
    BY <1>1, DecodesSplit
  <1> QED
    BY <1>1, <1>2

\* What a text misses follows from what the text before it missed.
LEMMA ReadsSame ==
  ASSUME NEW s, NEW a, NEW b, NEW c, Reads(s, a, b), Reads(s, a, c)
  PROVE  b = c
  <1>1. PICK f : Decodes(s, f) /\ f[0] = a /\ f[Len(s)] = b
    BY Zenon DEF Reads
  <1>2. PICK g : Decodes(s, g) /\ g[0] = a /\ g[Len(s)] = c
    BY Zenon DEF Reads
  <1> DEFINE n == Len(s)
             S == 0..n
             rank == [k \in S |-> k]
             Good == {k \in S : f[k] = g[k]}
  <1>3. n \in Nat
    BY LenProperties DEF Reads
  <1> HIDE DEF n
  <1>4. ASSUME NEW k \in S, \A j \in S : rank[j] < rank[k] => j \in Good
        PROVE  k \in Good
    <2>1. CASE k = 0
      BY <1>1, <1>2, <2>1
    <2>2. CASE k # 0
      <3>1. k - 1 \in S /\ k - 1 < k /\ k \in 1..n
        BY <1>3, <2>2
      <3>2. rank[k-1] < rank[k]
        BY <3>1
      <3>3. f[k-1] = g[k-1]
        BY <1>4, <3>1, <3>2
      <3>4. IF is_rune_start(s[k]) THEN f[k] = RuneBytes[s[k]] - 1 ELSE f[k] = f[k-1] - 1
        BY <1>1, <3>1 DEF Decodes, n
      <3>5. IF is_rune_start(s[k]) THEN g[k] = RuneBytes[s[k]] - 1 ELSE g[k] = g[k-1] - 1
        BY <1>2, <3>1 DEF Decodes, n
      <3>6. f[k] = g[k]
        BY <3>3, <3>4, <3>5
      <3> QED
        BY <3>6
    <2> QED
      BY <2>1, <2>2
  <1>5. rank \in [S -> Nat]
    BY <1>3
  <1>6. S \subseteq Good
    <2> HIDE DEF S, rank, Good
    <2> QED
      BY <1>4, <1>5, RankInduction
  <1>7. n \in S
    BY <1>3
  <1>8. f[n] = g[n]
    BY <1>6, <1>7
  <1> QED
    BY <1>1, <1>2, <1>8 DEF n

\* A text of whole runes reads from a boundary to a boundary.
LEMMA Utf8Reads ==
  ASSUME NEW s, Utf8(s)
  PROVE  Reads(s, 0, 0)
  <1> DEFINE n == Len(s)
             R(i) == RuneBytes[s[i]]
             start(i) == is_rune_start(s[i])
             cover(k) == {i \in 1..k : start(i) /\ k < i + R(i)}
             last(k) == CHOOSE i \in cover(k) : TRUE
             left == [k \in 0..n |-> IF k = 0 THEN 0 ELSE last(k) + R(last(k)) - 1 - k]
  <1>1. s \in Seq(Byte) /\ n \in Nat
    BY LenProperties DEF Utf8
  <1>2. \A i \in 1..n : s[i] \in Byte
    BY <1>1, ElementOfSeq
  <1>3. \A i \in 1..n : R(i) \in 0..WidestRune /\ (start(i) <=> R(i) # 0)
    BY <1>2, RuneFacts, Zenon DEF is_rune_start
  <1>4. WidestRune \in 1..4
    BY RuneFacts
  <1>5. \A i \in 1..n : start(i) => /\ i + R(i) - 1 <= n
                                   /\ \A k \in (i+1)..(i + R(i) - 1) : ~start(k)
    BY DEF Utf8
  <1>6. \A i \in 1..n : ~start(i) => \E h \in 1..i : start(h) /\ i < h + R(h)
    BY DEF Utf8
  <1> HIDE DEF n, R, start
  <1>7. ASSUME NEW k \in 1..n PROVE cover(k) # {}
    <2>1. CASE start(k)
      <3>1. R(k) \in Nat /\ R(k) # 0
        BY <1>3, <1>4, <2>1
      <3>2. k \in 1..k /\ k < k + R(k)
        BY <1>1, <3>1
      <3> QED
        BY <2>1, <3>2
    <2>2. CASE ~start(k)
      BY <1>6, <2>2
    <2> QED
      BY <2>1, <2>2
  <1>8. ASSUME NEW k \in 1..n, NEW i \in cover(k), NEW j \in cover(k), i < j PROVE FALSE
    <2>1. i \in 1..n /\ j \in 1..n /\ j <= k /\ k < i + R(i) /\ start(i) /\ start(j)
      BY <1>1
    <2>2. R(i) \in Nat
      BY <1>3, <1>4, <2>1
    <2>3. j \in (i+1)..(i + R(i) - 1)
      BY <1>1, <1>8, <2>1, <2>2
    <2> QED
      BY <1>5, <2>1, <2>3
  <1>9. ASSUME NEW k \in 1..n, NEW i \in cover(k) PROVE i = last(k)
    <2>1. last(k) \in cover(k)
      BY <1>9
    <2> DEFINE l == last(k)
    <2> HIDE DEF last
    <2>2. i \in 1..n /\ l \in 1..n
      BY <1>1, <2>1
    <2>3. ~(i < l) /\ ~(l < i)
      <3> HIDE DEF cover, l
      <3>1. l \in cover(k)
        BY <2>1 DEF l
      <3> QED
        BY <1>8, <3>1
    <2> HIDE DEF l
    <2>4. i = l
      BY <1>1, <2>2, <2>3
    <2> QED
      BY <2>4 DEF l
  <1>10. ASSUME NEW k \in 1..n
         PROVE  /\ last(k) \in 1..k /\ last(k) \in 1..n /\ start(last(k))
                /\ k < last(k) + R(last(k)) /\ R(last(k)) \in 0..WidestRune
    <2>1. last(k) \in cover(k)
      <3> HIDE DEF cover
      <3> QED
        BY <1>7
    <2> HIDE DEF last
    <2>2. last(k) \in 1..k /\ start(last(k)) /\ k < last(k) + R(last(k))
      BY <2>1
    <2>3. last(k) \in 1..n
      BY <1>1, <2>2
    <2> QED
      BY <1>3, <2>2, <2>3
  <1> HIDE DEF last
  <1>11. left \in [0..n -> Left]
    <2> SUFFICES ASSUME NEW k \in 0..n
                 PROVE  (IF k = 0 THEN 0 ELSE last(k) + R(last(k)) - 1 - k) \in Left
      OBVIOUS
    <2>1. CASE k = 0
      BY <1>4, <2>1 DEF Left
    <2>2. CASE k # 0
      <3>1. k \in 1..n
        BY <1>1, <2>2
      <3> QED
        BY <1>4, <1>10, <2>2, <3>1 DEF Left
    <2> QED
      BY <2>1, <2>2
  <1>12. /\ left[0] = 0
         /\ \A k \in 1..n : left[k] = last(k) + R(last(k)) - 1 - k
    <2>1. 0 \in 0..n /\ \A k \in 1..n : k \in 0..n /\ k # 0
      BY <1>1
    <2> QED
      BY <2>1
  <1> HIDE DEF left
  <1>13. ASSUME NEW k \in 1..n, start(k) PROVE left[k-1] = 0 /\ left[k] = R(k) - 1
    <2>1. k \in cover(k)
      <3>1. R(k) \in Nat /\ R(k) # 0
        BY <1>3, <1>4, <1>13
      <3>2. k \in 1..k /\ k < k + R(k)
        BY <1>1, <3>1
      <3> QED
        BY <1>13, <3>2
    <2>2. k = last(k)
      BY <1>9, <2>1
    <2>3. R(k) \in Nat
      BY <1>3, <1>4
    <2>4. left[k] = R(k) - 1
      BY <1>1, <1>12, <2>2, <2>3
    <2>5. CASE k = 1
      BY <1>12, <2>4, <2>5
    <2>6. CASE k # 1
      <3>1. k - 1 \in 1..n
        BY <1>1, <2>6
      <3> DEFINE i == last(k - 1)
      <3>2. /\ i \in 1..(k-1) /\ i \in 1..n /\ start(i)
            /\ k - 1 < i + R(i) /\ R(i) \in 0..WidestRune
        BY <1>10, <3>1
      <3>3. left[k-1] = i + R(i) - 1 - (k - 1)
        BY <1>12, <3>1
      <3> HIDE DEF i
      <3>4. ~(k \in (i+1)..(i + R(i) - 1))
        BY <1>5, <1>13, <3>2
      <3>5. left[k-1] = 0
        BY <1>1, <1>4, <3>2, <3>3, <3>4
      <3> QED
        BY <2>4, <3>5
    <2> QED
      BY <2>5, <2>6
  <1>14. ASSUME NEW k \in 1..n, ~start(k) PROVE left[k-1] > 0 /\ left[k] = left[k-1] - 1
    <2> DEFINE i == last(k)
    <2>1. /\ i \in 1..k /\ i \in 1..n /\ start(i)
          /\ k < i + R(i) /\ R(i) \in 0..WidestRune
      BY <1>10
    <2>2. left[k] = i + R(i) - 1 - k
      BY <1>12
    <2> HIDE DEF i
    <2>3. i # k
      BY <1>14, <2>1
    <2>4. k - 1 \in 1..n /\ i \in 1..(k-1) /\ k - 1 < i + R(i)
      BY <1>1, <1>4, <2>1, <2>3
    <2>5. i \in cover(k-1)
      BY <2>1, <2>4
    <2>6. i = last(k-1)
      BY <1>9, <2>4, <2>5
    <2>7. left[k-1] = i + R(i) - 1 - (k - 1)
      BY <1>12, <2>4, <2>6
    <2> QED
      BY <1>1, <1>4, <2>1, <2>2, <2>7, SMTT(60)
  <1>15. left[n] = 0
    <2>1. CASE n = 0
      BY <1>12, <2>1
    <2>2. CASE n # 0
      <3>1. n \in 1..n
        BY <1>1, <2>2
      <3> DEFINE i == last(n)
      <3>2. /\ i \in 1..n /\ start(i)
            /\ n < i + R(i) /\ R(i) \in 0..WidestRune
        BY <1>10, <3>1
      <3>3. left[n] = i + R(i) - 1 - n
        BY <1>12, <3>1
      <3> HIDE DEF i
      <3>4. i + R(i) - 1 <= n
        BY <1>5, <3>2
      <3> QED
        BY <1>1, <1>4, <3>2, <3>3, <3>4
    <2> QED
      BY <2>1, <2>2
  <1>16. Decodes(s, left)
    <2>1. ASSUME NEW k \in 1..n
          PROVE  IF is_rune_start(s[k])
                 THEN left[k-1] = 0 /\ left[k] = RuneBytes[s[k]] - 1
                 ELSE left[k-1] > 0 /\ left[k] = left[k-1] - 1
      BY <1>13, <1>14 DEF start, R
    <2> QED
      BY <1>11, <2>1, Zenon DEF Decodes, n
  <1> QED
    BY <1>1, <1>12, <1>15, <1>16, Zenon DEF Reads, n

\* Wherever a text of whole runes stands, there is a boundary on both sides.
LEMMA ReadsWhole ==
  ASSUME NEW p, Utf8(p), p # <<>>, NEW x, NEW y, Reads(p, x, y)
  PROVE  x = 0 /\ y = 0
  <1>1. p \in Seq(Byte) /\ Len(p) \in Nat /\ Len(p) # 0
    BY LenProperties, EmptySeq DEF Utf8
  <1>2. 1 \in 1..Len(p)
    BY <1>1
  <1>3. is_rune_start(p[1])
    <2> SUFFICES ASSUME ~is_rune_start(p[1]) PROVE FALSE
      OBVIOUS
    <2>1. \E h \in 1..1 : is_rune_start(p[h])
      BY <1>2 DEF Utf8
    <2> QED
      BY <2>1
  <1>4. PICK f : Decodes(p, f) /\ f[0] = x
    BY Zenon DEF Reads
  <1>5. x = 0
    <2>1. f[1-1] = 0
      BY <1>2, <1>3, <1>4 DEF Decodes
    <2> QED
      BY <1>4, <2>1
  <1>6. y = 0
    BY <1>5, Utf8Reads, ReadsSame
  <1> QED
    BY <1>5, <1>6
-----------------------------------------------------------------------------
(* A pass over a text: some slices are replaced, the other bytes copied.   *)

\* The rest of a text from i on, cut at j.
LEMMA CutAt ==
  ASSUME NEW text \in Seq(Byte), NEW i \in 1..(Len(text) + 1), NEW j \in i..(Len(text) + 1)
  PROVE  /\ SubSeq(text, i, j - 1) \in Seq(Byte)
         /\ SubSeq(text, j, Len(text)) \in Seq(Byte)
         /\ SubSeq(text, i, Len(text)) = SubSeq(text, i, j - 1) \o SubSeq(text, j, Len(text))
  <1>1. Len(text) \in Nat /\ \A k \in 1..Len(text) : text[k] \in Byte
    BY LenProperties, ElementOfSeq
  <1>2. /\ i \in Int /\ j \in Int /\ j - 1 \in Int /\ Len(text) \in Int
        /\ j - 1 \in (i - 1)..Len(text) /\ Len(text) \in (j - 1)..Len(text)
        /\ (j - 1) + 1 = j
    BY <1>1
  <1>3. \A k \in i..(j - 1) : text[k] \in Byte
    BY <1>1
  <1>4. \A k \in j..Len(text) : text[k] \in Byte
    BY <1>1
  <1>5. SubSeq(text, i, j - 1) \in Seq(Byte)
    BY <1>2, <1>3, SubSeqProperties
  <1>6. SubSeq(text, j, Len(text)) \in Seq(Byte)
    BY <1>2, <1>4, SubSeqProperties
  <1>7. SubSeq(text, i, j - 1) \o SubSeq(text, (j - 1) + 1, Len(text))
          = SubSeq(text, i, Len(text))
    BY <1>2, ConcatAdjacentSubSeq
  <1> QED
    BY <1>2, <1>5, <1>6, <1>7

\* At each i of hit a slice up to jump[i] stands, to be replaced by piece[i].
Spliceable(text, hit, jump, piece) ==
  /\ text \in Seq(Byte) /\ hit \subseteq 1..Len(text)
  /\ \A i \in hit : /\ jump[i] \in (i+1)..(Len(text) + 1)
                    /\ Utf8(SubSeq(text, i, jump[i] - 1)) /\ Utf8(piece[i])

SpliceStep(text, hit, jump, piece, i, g) ==
  IF i > Len(text) THEN <<>>
  ELSE IF i \in hit THEN piece[i] \o g[jump[i]]
  ELSE <<text[i]>> \o g[i+1]

Splices(text, hit, jump, piece, g) ==
  g = [i \in 1..(Len(text) + 1) |-> SpliceStep(text, hit, jump, piece, i, g)]

\* The pass is defined: the cursor always moves on.
LEMMA SplicePass ==
  ASSUME NEW text, NEW hit, NEW jump, NEW piece, Spliceable(text, hit, jump, piece)
  PROVE  \E g : Splices(text, hit, jump, piece, g)
  <1> DEFINE n == Len(text)
             S == 1..(n + 1)
             T == Seq(Byte)
             N == n + 1
             Step(i, g) == SpliceStep(text, hit, jump, piece, i, g)
             F == [g \in [S -> T] |-> [i \in S |-> Step(i, g)]]
             rank == [i \in S |-> n + 1 - i]
  <1>1. n \in Nat /\ \A k \in 1..n : text[k] \in Byte
    BY LenProperties, ElementOfSeq DEF Spliceable
  <1>2. \A i \in hit : jump[i] \in (i+1)..(n + 1) /\ piece[i] \in T
    BY DEF Spliceable, Utf8
  <1>3. \A g, i : Step(i, g) = IF i > n THEN <<>>
                              ELSE IF i \in hit THEN piece[i] \o g[jump[i]]
                              ELSE <<text[i]>> \o g[i+1]
    BY DEF SpliceStep
  <1> HIDE DEF n, Step
  <1>4. T # {} /\ N \in Nat /\ rank \in [S -> 0..N]
    <2>1. <<>> \in T
      BY EmptySeq
    <2>2. N \in Nat
      BY <1>1
    <2>3. rank \in [S -> 0..N]
      BY <1>1
    <2> QED
      BY <2>1, <2>2, <2>3
  <1>5. ASSUME NEW i \in S, ~(i > n) PROVE i \in 1..n /\ i + 1 \in S /\ rank[i+1] < rank[i]
    BY <1>1, <1>5
  <1>6. ASSUME NEW i \in S, ~(i > n), i \in hit
        PROVE  jump[i] \in S /\ rank[jump[i]] < rank[i]
    <2>1. i \in Nat /\ i >= 1 /\ jump[i] \in (i+1)..(n + 1)
      BY <1>1, <1>2, <1>6
    <2>2. jump[i] \in S
      BY <1>1, <2>1
    <2>3. rank[jump[i]] = n + 1 - jump[i] /\ rank[i] = n + 1 - i
      BY <2>2
    <2> HIDE DEF rank
    <2> QED
      BY <1>1, <2>1, <2>2, <2>3
  <1>7. F \in [[S -> T] -> [S -> T]]
    <2> SUFFICES ASSUME NEW g \in [S -> T], NEW i \in S PROVE Step(i, g) \in T
      OBVIOUS
    <2>1. CASE i > n
      BY <1>3, <2>1, EmptySeq
    <2>2. CASE ~(i > n) /\ i \in hit
      <3>1. jump[i] \in S
        BY <1>6, <2>2
      <3>2. g[jump[i]] \in T /\ piece[i] \in T
        <4> HIDE DEF S, T
        <4> QED
          BY <1>2, <2>2, <3>1
      <3>3. piece[i] \o g[jump[i]] \in T
        BY <3>2, ConcatProperties
      <3> QED
        BY <1>3, <2>2, <3>3
    <2>3. CASE ~(i > n) /\ i \notin hit
      <3>1. i \in 1..n /\ i + 1 \in S
        BY <1>5, <2>3
      <3>2. g[i+1] \in T /\ <<text[i]>> \in T
        <4>1. g[i+1] \in T
          <5> HIDE DEF S, T
          <5> QED
            BY <3>1
        <4>2. text[i] \in Byte
          BY <1>1, <3>1
        <4> QED
          BY <4>1, <4>2
      <3>3. <<text[i]>> \o g[i+1] \in T
        BY <3>2, ConcatProperties
      <3> QED
        BY <1>3, <2>3, <3>3
    <2> QED
      BY <2>1, <2>2, <2>3
  <1>8. ASSUME NEW g \in [S -> T], NEW h \in [S -> T], NEW i \in S,
               \A y \in S : rank[y] < rank[i] => g[y] = h[y]
        PROVE  F[g][i] = F[h][i]
    <2>1. Step(i, g) = Step(i, h)
      <3> HIDE DEF S, T, rank
      <3>1. CASE i > n
        BY <1>3, <3>1
      <3>2. CASE ~(i > n) /\ i \in hit
        <4>1. g[jump[i]] = h[jump[i]]
          BY <1>6, <1>8, <3>2
        <4> QED
          BY <1>3, <3>2, <4>1
      <3>3. CASE ~(i > n) /\ i \notin hit
        <4>1. g[i+1] = h[i+1]
          BY <1>5, <1>8, <3>3
        <4> QED
          BY <1>3, <3>3, <4>1
      <3> QED
        BY <3>1, <3>2, <3>3
    <2> QED
      BY <2>1
  <1>9. Recursion(S, T, N, rank, F)
    <2> HIDE DEF S, T, N, rank, F
    <2> QED
      BY <1>4, <1>7, <1>8 DEF Recursion
  <1>10. PICK g \in [S -> T] : g = F[g]
    <2> HIDE DEF S, T, N, rank, F
    <2> QED
      BY <1>9, RecursiveFunction
  <1>11. g = [i \in S |-> Step(i, g)]
    <2>1. F[g] = [i \in S |-> Step(i, g)]
      OBVIOUS
    <2> HIDE DEF F
    <2> QED
      BY <1>10, <2>1
  <1> QED
    BY <1>11, Zenon DEF Splices, n, Step

\* It splits no rune: what the text reads as, the result reads as.
LEMMA SpliceReads ==
  ASSUME NEW text, NEW hit, NEW jump, NEW piece, Spliceable(text, hit, jump, piece),
         NEW g, Splices(text, hit, jump, piece, g),
         NEW a0, NEW c0, Reads(text, a0, c0)
  PROVE  Reads(g[1], a0, c0)
  <1> DEFINE n == Len(text)
             S == 1..(n + 1)
             rest(i) == SubSeq(text, i, n)
             Same(i) == \A a, c \in Left : Reads(rest(i), a, c) => Reads(g[i], a, c)
             Good == {i \in S : Same(i)}
             rank == [i \in S |-> n + 1 - i]
  <1>1. text \in Seq(Byte) /\ n \in Nat /\ \A k \in 1..n : text[k] \in Byte
    BY LenProperties, ElementOfSeq DEF Spliceable
  <1>2. \A i \in hit : /\ i \in 1..n /\ jump[i] \in (i+1)..(n + 1)
                      /\ Utf8(SubSeq(text, i, jump[i] - 1)) /\ Utf8(piece[i])
    BY DEF Spliceable
  <1>3. \A i \in S : g[i] = IF i > n THEN <<>>
                            ELSE IF i \in hit THEN piece[i] \o g[jump[i]]
                            ELSE <<text[i]>> \o g[i+1]
    BY DEF Splices, SpliceStep
  <1> HIDE DEF n
  <1>4. ASSUME NEW i \in S, \A j \in S : rank[j] < rank[i] => j \in Good
        PROVE  i \in Good
    <2> SUFFICES ASSUME NEW a \in Left, NEW c \in Left, Reads(rest(i), a, c)
                 PROVE  Reads(g[i], a, c)
      OBVIOUS
    <2>1. CASE i > n
      <3>1. i \in Int /\ n \in Int /\ n < i
        BY <1>1, <2>1
      <3>2. rest(i) = <<>>
        BY <3>1, SubSeqEmpty
      <3>3. g[i] = <<>>
        BY <1>3, <2>1
      <3> QED
        BY <3>2, <3>3
    <2>2. CASE ~(i > n) /\ i \in hit
      <3> DEFINE j == jump[i]
                 s == SubSeq(text, i, j - 1)
      <3>1. /\ j \in S /\ j \in i..(n + 1) /\ j > i /\ rank[j] < rank[i]
            /\ i \in Nat /\ j \in Nat
        <4>1. i \in 1..n /\ j \in (i+1)..(n + 1)
          BY <1>2, <2>2
        <4> HIDE DEF j
        <4> QED
          BY <1>1, <4>1
      <3>2. s \in Seq(Byte) /\ rest(j) \in Seq(Byte) /\ rest(i) = s \o rest(j)
        <4> HIDE DEF j
        <4> QED
          BY <1>1, <3>1, CutAt DEF n
      <3>3. Utf8(s) /\ Utf8(piece[i])
        BY <1>2, <2>2
      <3>4. s # <<>>
        <4> HIDE DEF j
        <4>1. \A k \in i..(j - 1) : text[k] \in Byte
          BY <1>1, <3>1
        <4>2. i \in Int /\ j - 1 \in Int
          BY <3>1
        <4>3. Len(s) = IF i <= j - 1 THEN j - 1 - i + 1 ELSE 0
          BY <4>1, <4>2, SubSeqProperties
        <4>4. Len(s) # 0
          BY <3>1, <4>3
        <4> QED
          BY <4>4, EmptySeq
      <3>5. Same(j)
        <4> HIDE DEF rank, j, Same
        <4> QED
          BY <1>4, <3>1
      <3>6. g[i] = piece[i] \o g[j]
        BY <1>3, <2>2
      <3> HIDE DEF j, s, rest
      <3>7. PICK b \in Left : Reads(s, a, b) /\ Reads(rest(j), b, c)
        BY <3>2, ReadsSplit
      <3>8. a = 0 /\ b = 0
        BY <3>3, <3>4, <3>7, ReadsWhole
      <3>9. Reads(piece[i], 0, 0) /\ Reads(g[j], 0, c)
        BY <3>3, <3>5, <3>7, <3>8, Utf8Reads
      <3> QED
        BY <3>6, <3>8, <3>9, ReadsConcat
    <2>3. CASE ~(i > n) /\ i \notin hit
      <3> DEFINE j == i + 1
                 s == SubSeq(text, i, j - 1)
      <3>1. /\ j \in S /\ j \in i..(n + 1) /\ rank[j] < rank[i] /\ i \in 1..n
            /\ i \in i..n /\ j - 1 = i
        BY <1>1, <2>3
      <3>2. s \in Seq(Byte) /\ rest(j) \in Seq(Byte) /\ rest(i) = s \o rest(j)
        <4> HIDE DEF j
        <4> QED
          BY <1>1, <3>1, CutAt DEF n
      <3>3. s = <<text[i]>>
        <4>1. text[i] \in Byte /\ i \in 1..Len(text) /\ i \in i..Len(text) /\ i \in Int
              /\ i + 1 \in Int /\ i < i + 1
          BY <1>1, <3>1 DEF n
        <4>2. SubSeq(text, i, i) = <<text[i]>> \o SubSeq(text, i + 1, i)
          BY <1>1, <4>1, SubSeqRecursiveFirst
        <4>3. SubSeq(text, i + 1, i) = <<>>
          BY <4>1, SubSeqEmpty
        <4>4. <<text[i]>> \in Seq(Byte) /\ <<text[i]>> \o <<>> = <<text[i]>>
          BY <4>1, ConcatEmptySeq
        <4> QED
          BY <3>1, <4>2, <4>3, <4>4
      <3>4. Same(j)
        <4> HIDE DEF rank, j, Same
        <4> QED
          BY <1>4, <3>1
      <3>5. g[i] = s \o g[j]
        BY <1>3, <2>3, <3>3
      <3> HIDE DEF j, s, rest
      <3>6. PICK b \in Left : Reads(s, a, b) /\ Reads(rest(j), b, c)
        BY <3>2, ReadsSplit
      <3>7. Reads(g[j], b, c)
        BY <3>4, <3>6
      <3> QED
        BY <3>5, <3>6, <3>7, ReadsConcat
    <2> QED
      BY <2>1, <2>2, <2>3
  <1>5. rank \in [S -> Nat]
    BY <1>1
  <1>6. S \subseteq Good
    <2> HIDE DEF S, rank, Good
    <2> QED
      BY <1>4, <1>5, RankInduction
  <1>7. 1 \in S
    BY <1>1
  <1>8. Same(1)
    <2> HIDE DEF Same
    <2> QED
      BY <1>6, <1>7
  <1>9. rest(1) = text
    BY <1>1, SubSeqFull DEF n
  <1>10. a0 \in Left /\ c0 \in Left
    <2>1. PICK f : Decodes(text, f) /\ f[0] = a0 /\ f[Len(text)] = c0
      BY Zenon DEF Reads
    <2>2. f \in [0..n -> Left]
      BY <2>1 DEF Decodes, n
    <2>3. 0 \in 0..n /\ n \in 0..n
      BY <1>1
    <2> QED
      BY <2>1, <2>2, <2>3 DEF n
  <1> HIDE DEF rest
  <1> QED
    BY <1>8, <1>9, <1>10
-----------------------------------------------------------------------------
(* The exact pass.                                                         *)

\* What make_config leaves, and nothing changes.
UsableEntry(e) ==
  /\ Utf8(e.placeholder) /\ e.placeholder # <<>> /\ Len(e.placeholder) >= WidestRune
  /\ Utf8(e.original) /\ Utf8(JsonEscape(e.original))

ConfigOK ==
  /\ Len(cfg.entries) \in Nat
  /\ \A k \in 1..Len(cfg.entries) : UsableEntry(cfg.entries[k])
  /\ cfg.rules \subseteq Known
  /\ cfg.max_pending \in Nat /\ (cfg.max_pending = 0 \/ cfg.max_pending >= WidestRune)

\* The first of some entries exists; its placeholder and original are whole.
LEMMA FirstEntry ==
  ASSUME ConfigOK, NEW ks, ks \subseteq 1..Len(cfg.entries), ks # {}
  PROVE  /\ Min(ks) \in ks /\ Utf8(Restored(Min(ks)))
         /\ Utf8(cfg.entries[Min(ks)].placeholder) /\ cfg.entries[Min(ks)].placeholder # <<>>
  <1>1. ks \subseteq Nat
    BY DEF ConfigOK
  <1>2. Min(ks) \in ks
    BY <1>1, MinNat
  <1>3. UsableEntry(cfg.entries[Min(ks)])
    BY <1>2 DEF ConfigOK
  <1> QED
    BY <1>2, <1>3 DEF UsableEntry, Restored

\* The entries whose placeholder stands at the i-th byte.
HitsAt(text, i) ==
  {k \in 1..Len(cfg.entries) : StartsAt(text, i, cfg.entries[k].placeholder)}

\* The exact pass replaces a slice wherever an entry's placeholder stands.
ExactSplice(text, hit, jump, piece, from) ==
  /\ Spliceable(text, hit, jump, piece) /\ Splices(text, hit, jump, piece, from)
  /\ apply_exact(text) = from[1]
  /\ hit = {i \in 1..Len(text) : HitsAt(text, i) # {}}
  /\ \A i \in hit : /\ jump[i] = i + Len(cfg.entries[Min(HitsAt(text, i))].placeholder)
                     /\ piece[i] = Restored(Min(HitsAt(text, i)))

LEMMA ExactSplices ==
  ASSUME ConfigOK, NEW text \in Seq(Byte)
  PROVE  \E hit, jump, piece, from : ExactSplice(text, hit, jump, piece, from)
  <1> DEFINE n == Len(text)
             P(k) == cfg.entries[k].placeholder
             hits(i) == {k \in 1..Len(cfg.entries) : StartsAt(text, i, cfg.entries[k].placeholder)}
             hit == {i \in 1..n : hits(i) # {}}
             jump == [i \in hit |-> i + Len(P(Min(hits(i))))]
             piece == [i \in hit |-> Restored(Min(hits(i)))]
             S == 1..(n + 1)
             Body(i, g) == IF i > n THEN <<>>
                           ELSE IF hits(i) = {} THEN <<text[i]>> \o g[i+1]
                           ELSE Restored(Min(hits(i)))
                                  \o g[i + Len(cfg.entries[Min(hits(i))].placeholder)]
             from[i \in 1..(Len(text) + 1)] ==
               IF i > Len(text) THEN <<>>
               ELSE IF hits(i) = {} THEN <<text[i]>> \o from[i+1]
               ELSE Restored(Min(hits(i)))
                      \o from[i + Len(cfg.entries[Min(hits(i))].placeholder)]
  <1>1. apply_exact(text) = from[1]
    BY DEF apply_exact
  <1>2. from = CHOOSE h : h = [i \in S |-> Body(i, h)]
    OBVIOUS
  <1> HIDE DEF from
  <1>3. text \in Seq(Byte) /\ n \in Nat
    BY LenProperties
  <1>4. ASSUME NEW i \in hit
        PROVE  /\ jump[i] \in (i+1)..(n + 1) /\ Utf8(SubSeq(text, i, jump[i] - 1))
               /\ Utf8(piece[i])
    <2> DEFINE p == P(Min(hits(i)))
    <2>1. i \in 1..n /\ hits(i) # {} /\ jump[i] = i + Len(p) /\ piece[i] = Restored(Min(hits(i)))
      BY <1>4
    <2>2. Min(hits(i)) \in hits(i) /\ Utf8(Restored(Min(hits(i)))) /\ Utf8(p) /\ p # <<>>
      <3>1. hits(i) \subseteq 1..Len(cfg.entries)
        OBVIOUS
      <3> HIDE DEF hits
      <3> QED
        BY <2>1, <3>1, FirstEntry
    <2>3. StartsAt(text, i, p)
      BY <2>2
    <2> HIDE DEF p, jump, piece
    <2>4. p \in Seq(Byte) /\ Len(p) \in Nat /\ Len(p) # 0
      BY <2>2, LenProperties, EmptySeq DEF Utf8
    <2>5. i + Len(p) - 1 <= n /\ SubSeq(text, i, i + Len(p) - 1) = p
      BY <2>3 DEF StartsAt
    <2>6. jump[i] \in (i+1)..(n + 1) /\ jump[i] - 1 = i + Len(p) - 1
      BY <1>3, <2>1, <2>4, <2>5, SMTT(60)
    <2> QED
      BY <2>1, <2>2, <2>5, <2>6
  <1>5. Spliceable(text, hit, jump, piece)
    BY <1>3, <1>4 DEF Spliceable
  <1>6. PICK g : Splices(text, hit, jump, piece, g)
    <2> HIDE DEF hit, jump, piece
    <2> QED
      BY <1>5, SplicePass
  <1>7. \A h : [i \in S |-> SpliceStep(text, hit, jump, piece, i, h)] = [i \in S |-> Body(i, h)]
    <2> SUFFICES ASSUME NEW h, NEW i \in S
                 PROVE  SpliceStep(text, hit, jump, piece, i, h) = Body(i, h)
      OBVIOUS
    <2>1. CASE i > n
      BY <2>1 DEF SpliceStep
    <2>2. CASE ~(i > n) /\ hits(i) = {}
      <3>1. i \notin hit
        BY <2>2
      <3> HIDE DEF hit, hits
      <3> QED
        BY <2>2, <3>1, SMTT(60) DEF SpliceStep
    <2>3. CASE ~(i > n) /\ hits(i) # {}
      <3>1. i \in hit
        BY <1>3, <2>3
      <3>2. jump[i] = i + Len(P(Min(hits(i)))) /\ piece[i] = Restored(Min(hits(i)))
        BY <3>1
      <3> HIDE DEF hit, hits, jump, piece
      <3> QED
        BY <2>3, <3>1, <3>2 DEF SpliceStep
    <2> QED
      BY <2>1, <2>2, <2>3
  <1>8. g = [i \in S |-> Body(i, g)]
    <2>1. g = [i \in S |-> SpliceStep(text, hit, jump, piece, i, g)]
      BY <1>6, Zenon DEF Splices
    <2> HIDE DEF hit, jump, piece, S, Body
    <2> QED
      BY <1>7, <2>1
  <1>9. from = [i \in S |-> Body(i, from)]
    <2> HIDE DEF S, Body
    <2> QED
      BY <1>2, <1>8
  <1>10. Splices(text, hit, jump, piece, from)
    <2>1. from = [i \in S |-> SpliceStep(text, hit, jump, piece, i, from)]
      <3> HIDE DEF hit, jump, piece, S, Body
      <3> QED
        BY <1>7, <1>9
    <2> HIDE DEF hit, jump, piece
    <2> QED
      BY <2>1, Zenon DEF Splices
  <1>11. hit = {i \in 1..Len(text) : HitsAt(text, i) # {}}
    BY DEF HitsAt
  <1>12. ASSUME NEW i \in hit
         PROVE  /\ jump[i] = i + Len(cfg.entries[Min(HitsAt(text, i))].placeholder)
                /\ piece[i] = Restored(Min(HitsAt(text, i)))
    <2>1. hits(i) = HitsAt(text, i)
      BY DEF HitsAt
    <2>2. /\ jump[i] = i + Len(cfg.entries[Min(hits(i))].placeholder)
          /\ piece[i] = Restored(Min(hits(i)))
      BY <1>12
    <2> HIDE DEF hits, jump, piece
    <2> QED
      BY <2>1, <2>2
  <1> HIDE DEF hit, jump, piece
  <1>13. ExactSplice(text, hit, jump, piece, from)
    BY <1>1, <1>5, <1>10, <1>11, <1>12 DEF ExactSplice
  <1> QED
    BY <1>13

LEMMA ExactReads ==
  ASSUME ConfigOK, NEW text, NEW a0, NEW c0, Reads(text, a0, c0)
  PROVE  Reads(apply_exact(text), a0, c0)
  <1>1. text \in Seq(Byte)
    BY DEF Reads
  <1>2. PICK hit, jump, piece, from : ExactSplice(text, hit, jump, piece, from)
    BY <1>1, ExactSplices
  <1> QED
    BY <1>2, SpliceReads DEF ExactSplice
-----------------------------------------------------------------------------
(* The tolerant pass.                                                      *)

\* A pass that collects what it finds at the positions it visits.
Collects(n, found, next, g) ==
  g = [i \in 1..(n + 1) |-> IF i > n THEN {} ELSE found[i] \cup g[next[i]]]

LEMMA CollectPass ==
  ASSUME NEW n \in Nat, NEW U, NEW found \in [1..n -> SUBSET U], NEW next,
         \A i \in 1..n : next[i] \in (i+1)..(n + 1)
  PROVE  /\ \E g : Collects(n, found, next, g)
         /\ \A g : Collects(n, found, next, g) => g[1] \subseteq U
  <1> DEFINE S == 1..(n + 1)
             T == SUBSET U
             N == n + 1
             Step(i, g) == IF i > n THEN {} ELSE found[i] \cup g[next[i]]
             F == [g \in [S -> T] |-> [i \in S |-> Step(i, g)]]
             rank == [i \in S |-> n + 1 - i]
  <1>1. T # {} /\ N \in Nat /\ rank \in [S -> 0..N]
    <2>1. {} \in T
      OBVIOUS
    <2>2. rank \in [S -> 0..N]
      OBVIOUS
    <2> QED
      BY <2>1, <2>2
  <1>2. ASSUME NEW i \in S, ~(i > n)
        PROVE  i \in 1..n /\ next[i] \in S /\ rank[next[i]] < rank[i]
    <2>1. i \in 1..n
      BY <1>2
    <2>2. next[i] \in (i+1)..(n + 1)
      BY <2>1
    <2>3. next[i] \in S
      BY <2>1, <2>2
    <2>4. rank[next[i]] = n + 1 - next[i] /\ rank[i] = n + 1 - i
      BY <2>3
    <2> HIDE DEF rank
    <2> QED
      BY <2>1, <2>2, <2>3, <2>4
  <1>3. ASSUME NEW i \in S, NEW g, ~(i > n) => g[next[i]] \in T PROVE Step(i, g) \in T
    BY <1>2, <1>3
  <1>4. F \in [[S -> T] -> [S -> T]]
    <2> SUFFICES ASSUME NEW g \in [S -> T], NEW i \in S PROVE Step(i, g) \in T
      OBVIOUS
    <2> HIDE DEF S, T, Step, rank
    <2> QED
      BY <1>2, <1>3
  <1>5. ASSUME NEW g \in [S -> T], NEW h \in [S -> T], NEW i \in S,
               \A y \in S : rank[y] < rank[i] => g[y] = h[y]
        PROVE  F[g][i] = F[h][i]
    <2>1. ~(i > n) => g[next[i]] = h[next[i]]
      <3> HIDE DEF S, T, rank
      <3> QED
        BY <1>2, <1>5
    <2>2. Step(i, g) = Step(i, h)
      BY <2>1
    <2> QED
      BY <2>2
  <1>6. Recursion(S, T, N, rank, F)
    <2> HIDE DEF S, T, N, rank, F
    <2> QED
      BY <1>1, <1>4, <1>5 DEF Recursion
  <1>7. PICK g \in [S -> T] : g = F[g]
    <2> HIDE DEF S, T, N, rank, F
    <2> QED
      BY <1>6, RecursiveFunction
  <1>8. g = [i \in S |-> Step(i, g)]
    <2>1. F[g] = [i \in S |-> Step(i, g)]
      OBVIOUS
    <2> HIDE DEF F
    <2> QED
      BY <1>7, <2>1
  <1>9. Collects(n, found, next, g)
    BY <1>8, Zenon DEF Collects
  <1>10. ASSUME NEW h, Collects(n, found, next, h) PROVE h[1] \subseteq U
    <2>1. \A i \in S : h[i] = Step(i, h)
      BY <1>10 DEF Collects
    <2> DEFINE Good == {i \in S : h[i] \in T}
    <2>2. ASSUME NEW i \in S, \A j \in S : rank[j] < rank[i] => j \in Good
          PROVE  i \in Good
      <3>1. ~(i > n) => h[next[i]] \in T
        <4> HIDE DEF S, T, rank
        <4> QED
          BY <1>2, <2>2
      <3>2. Step(i, h) \in T
        BY <1>3, <3>1
      <3> HIDE DEF S, T, Step
      <3> QED
        BY <2>1, <3>2
    <2>3. rank \in [S -> Nat]
      OBVIOUS
    <2>4. S \subseteq Good
      <3> HIDE DEF S, Good, rank
      <3> QED
        BY <2>2, <2>3, RankInduction
    <2>5. 1 \in S
      OBVIOUS
    <2> QED
      BY <2>4, <2>5
  <1> QED
    BY <1>9, <1>10

\* A match of a known rule, which stands at a slice of whole runes and is
\* determined by its rule and its place.
Form(text, m) ==
  /\ m.rule \in Nat /\ m.start \in 1..Len(text) /\ m.end \in (m.start + 1)..(Len(text) + 1)
  /\ Utf8(SubSeq(text, m.start, m.end - 1))
  /\ m = [rule |-> m.rule, start |-> m.start, end |-> m.end,
          placeholder |->
            Canonical[m.rule][Recognize[m.rule][SubSeq(text, m.start, m.end - 1)]]]

\* Where a form of rule r that starts at the i-th byte ends, and what is reported of
\* the one that ends at the j-th.
EndsOf(text, r, i) == {j \in i..Len(text) : /\ text[i] = "<" /\ text[j] = ">"
                                            /\ SubSeq(text, i, j) \in DOMAIN Recognize[r]}

FoundAt(text, r, i, j) ==
  {[rule |-> r, start |-> i, end |-> j + 1, placeholder |-> Canonical[r][m]] :
     m \in {Recognize[r][SubSeq(text, i, j)]} \ {0}}

\* The scan of one rule collects the shortest form at each position it visits.
Scans(text, r, found, next, from) ==
  /\ scan_rule(text, r) = from[1] /\ Collects(Len(text), found, next, from)
  /\ found \in [1..Len(text) -> SUBSET UNION {found[i] : i \in 1..Len(text)}]
  /\ \A i \in 1..Len(text) :
       LET ends == EndsOf(text, r, i)
       IN  /\ next[i] \in (i+1)..(Len(text) + 1)
           /\ ends = {} => found[i] = {} /\ next[i] = i + 1
           /\ ends # {} => /\ Min(ends) \in ends /\ next[i] = Min(ends) + 1
                           /\ found[i] = FoundAt(text, r, i, Min(ends))

LEMMA ScanPass ==
  ASSUME NEW text \in Seq(Byte), NEW r \in Known
  PROVE  \E found, next, from : Scans(text, r, found, next, from)
  <1> DEFINE n == Len(text)
             S == 1..(n + 1)
             ends(i) == {j \in i..Len(text) : /\ text[i] = "<" /\ text[j] = ">"
                                              /\ SubSeq(text, i, j) \in DOMAIN Recognize[r]}
             at(i, j) == {[rule |-> r, start |-> i, end |-> j + 1,
                           placeholder |-> Canonical[r][m]] :
                             m \in {Recognize[r][SubSeq(text, i, j)]} \ {0}}
             found == [i \in 1..n |-> IF ends(i) = {} THEN {} ELSE at(i, Min(ends(i)))]
             next == [i \in 1..n |-> IF ends(i) = {} THEN i + 1 ELSE Min(ends(i)) + 1]
             U == UNION {found[i] : i \in 1..n}
             Body(i, g) ==
               IF i > n THEN {}
               ELSE IF ends(i) = {} THEN g[i+1]
               ELSE LET j == Min(ends(i))
                        k == Recognize[r][SubSeq(text, i, j)]
                    IN  {[rule |-> r, start |-> i, end |-> j + 1,
                          placeholder |-> Canonical[r][m]] : m \in {k} \ {0}} \cup g[j+1]
             from[i \in 1..(Len(text) + 1)] ==
               IF i > Len(text) THEN {}
               ELSE IF ends(i) = {} THEN from[i+1]
               ELSE LET j == Min(ends(i))
                        k == Recognize[r][SubSeq(text, i, j)]
                    IN  {[rule |-> r, start |-> i, end |-> j + 1,
                          placeholder |-> Canonical[r][m]] : m \in {k} \ {0}} \cup from[j+1]
  <1>1. scan_rule(text, r) = from[1]
    BY DEF scan_rule
  <1>2. from = CHOOSE h : h = [i \in S |-> Body(i, h)]
    OBVIOUS
  <1> HIDE DEF from
  <1>3. n \in Nat
    BY LenProperties
  <1>4. ASSUME NEW i \in 1..n, ends(i) # {}
        PROVE  Min(ends(i)) \in ends(i) /\ Min(ends(i)) \in i..n
    <2>1. Min(ends(i)) \in ends(i)
      <3>1. ends(i) \subseteq Nat
        BY <1>3
      <3> HIDE DEF ends
      <3> QED
        BY <1>4, <3>1, MinNat
    <2> QED
      BY <2>1
  <1>5. \A i \in 1..n : ends(i) = EndsOf(text, r, i)
    BY DEF EndsOf
  <1>6. \A i, j : at(i, j) = FoundAt(text, r, i, j)
    BY DEF FoundAt
  <1> HIDE DEF ends
  <1>7. \A i \in 1..n : next[i] \in (i+1)..(n + 1)
    <2> SUFFICES ASSUME NEW i \in 1..n
                 PROVE  (IF ends(i) = {} THEN i + 1 ELSE Min(ends(i)) + 1) \in (i+1)..(n + 1)
      OBVIOUS
    <2> DEFINE e == Min(ends(i))
    <2>1. ends(i) # {} => e \in i..n
      BY <1>4
    <2> HIDE DEF e
    <2>2. CASE ends(i) = {}
      BY <1>3, <2>2
    <2>3. CASE ends(i) # {}
      <3>1. e + 1 \in (i+1)..(n + 1)
        BY <1>3, <2>1, <2>3
      <3> QED
        BY <2>3, <3>1 DEF e
    <2> QED
      BY <2>2, <2>3
  <1>8. found \in [1..n -> SUBSET U]
    OBVIOUS
  <1>9. ASSUME NEW i \in 1..n
        PROVE  /\ ends(i) = {} => found[i] = {} /\ next[i] = i + 1
               /\ ends(i) # {} => found[i] = at(i, Min(ends(i))) /\ next[i] = Min(ends(i)) + 1
    OBVIOUS
  <1>10. \A h : [i \in S |-> IF i > n THEN {} ELSE found[i] \cup h[next[i]]]
                  = [i \in S |-> Body(i, h)]
    <2> SUFFICES ASSUME NEW h, NEW i \in S
                 PROVE  (IF i > n THEN {} ELSE found[i] \cup h[next[i]]) = Body(i, h)
      OBVIOUS
    <2>1. CASE i > n
      BY <2>1
    <2>2. CASE ~(i > n)
      <3>1. i \in 1..n
        BY <1>3, <2>2
      <3>2. CASE ends(i) = {}
        <4>1. found[i] = {} /\ next[i] = i + 1
          BY <1>9, <3>1, <3>2
        <4> HIDE DEF found, next
        <4> QED
          BY <2>2, <3>2, <4>1
      <3>3. CASE ends(i) # {}
        <4>1. found[i] = at(i, Min(ends(i))) /\ next[i] = Min(ends(i)) + 1
          BY <1>9, <3>1, <3>3
        <4> HIDE DEF found, next
        <4> QED
          BY <2>2, <3>3, <4>1
      <3> QED
        BY <3>2, <3>3
    <2> QED
      BY <2>1, <2>2
  <1>11. \E g : Collects(n, found, next, g)
    <2> HIDE DEF n, found, next, U
    <2> QED
      BY <1>3, <1>7, <1>8, CollectPass
  <1>12. \A g : Collects(n, found, next, g) <=> g = [i \in S |-> Body(i, g)]
    <2> SUFFICES ASSUME NEW g
                 PROVE  Collects(n, found, next, g) <=> g = [i \in S |-> Body(i, g)]
      OBVIOUS
    <2>1. Collects(n, found, next, g)
            <=> g = [i \in S |-> IF i > n THEN {} ELSE found[i] \cup g[next[i]]]
      BY Zenon DEF Collects
    <2> HIDE DEF n, S, found, next, Body
    <2> QED
      BY <1>10, <2>1
  <1>13. Collects(n, found, next, from)
    <2> HIDE DEF S, Body, n, found, next
    <2> QED
      BY <1>2, <1>11, <1>12
  <1> HIDE DEF found, next, at
  <1>14. ASSUME NEW i \in 1..n
         PROVE  LET es == EndsOf(text, r, i)
                IN  /\ next[i] \in (i+1)..(n + 1)
                    /\ es = {} => found[i] = {} /\ next[i] = i + 1
                    /\ es # {} => /\ Min(es) \in es /\ next[i] = Min(es) + 1
                                  /\ found[i] = FoundAt(text, r, i, Min(es))
    BY <1>4, <1>5, <1>6, <1>7, <1>9
  <1>15. Scans(text, r, found, next, from)
    BY <1>1, <1>8, <1>13, <1>14, Zenon DEF Scans
  <1> QED
    BY <1>15

\* What the scan reports of a rule is a form of it with a usable index.
Reported(text, r, m) ==
  /\ m.rule = r /\ m.start \in 1..Len(text) /\ m.end \in (m.start + 1)..(Len(text) + 1)
  /\ SubSeq(text, m.start, m.end - 1) \in DOMAIN Recognize[r]
  /\ Recognize[r][SubSeq(text, m.start, m.end - 1)] # 0
  /\ m = [rule |-> r, start |-> m.start, end |-> m.end,
          placeholder |-> Canonical[r][Recognize[r][SubSeq(text, m.start, m.end - 1)]]]

LEMMA ScanReports ==
  ASSUME NEW text \in Seq(Byte), NEW r \in Known
  PROVE  \A m \in scan_rule(text, r) : Reported(text, r, m)
  <1> DEFINE n == Len(text)
  <1>1. PICK found, next, from : Scans(text, r, found, next, from)
    BY ScanPass
  <1> DEFINE U == UNION {found[i] : i \in 1..n}
  <1>2. n \in Nat
    BY LenProperties
  <1>3. ASSUME NEW m \in U PROVE Reported(text, r, m)
    <2>1. PICK i \in 1..n : m \in found[i]
      OBVIOUS
    <2> DEFINE es == EndsOf(text, r, i)
               j == Min(es)
               w == SubSeq(text, i, j)
    <2>2. j \in es /\ m \in FoundAt(text, r, i, j)
      BY <1>1, <2>1 DEF Scans
    <2>3. j \in i..n /\ w \in DOMAIN Recognize[r]
      BY <2>2 DEF EndsOf
    <2>4. /\ m = [rule |-> r, start |-> i, end |-> j + 1,
                 placeholder |-> Canonical[r][Recognize[r][w]]]
          /\ Recognize[r][w] # 0
      BY <2>2 DEF FoundAt
    <2> HIDE DEF j
    <2>5. m.rule = r /\ m.start = i /\ m.end = j + 1 /\ m.end - 1 = j
      BY <2>3, <2>4
    <2>6. i \in 1..n /\ m.end \in (i + 1)..(n + 1)
      BY <1>2, <2>3, <2>5
    <2> QED
      BY <2>3, <2>4, <2>5, <2>6 DEF Reported
  <1>4. from[1] \subseteq U
    <2>1. /\ found \in [1..n -> SUBSET U] /\ Collects(n, found, next, from)
          /\ \A i \in 1..n : next[i] \in (i+1)..(n + 1)
      BY <1>1 DEF Scans
    <2> HIDE DEF n, U
    <2> QED
      BY <1>2, <2>1, CollectPass
  <1>5. scan_rule(text, r) = from[1]
    BY <1>1 DEF Scans
  <1> HIDE DEF U
  <1> QED
    BY <1>3, <1>4, <1>5

LEMMA ScanRule ==
  ASSUME NEW text \in Seq(Byte), NEW r \in Known
  PROVE  \A m \in scan_rule(text, r) : Form(text, m)
  <1> SUFFICES ASSUME NEW m \in scan_rule(text, r) PROVE Form(text, m)
    OBVIOUS
  <1>1. Reported(text, r, m)
    BY ScanReports
  <1>2. r \in Nat /\ \A w \in DOMAIN Recognize[r] : Utf8(w)
    BY DemaskerAssumption
  <1> QED
    BY <1>1, <1>2 DEF Reported, Form

\* Matches that are not empty have a first one.
LEMMA FirstMatch ==
  ASSUME NEW text \in Seq(Byte), NEW ms, ms # {}, \A m \in ms : Form(text, m)
  PROVE  \E m \in ms : \A o \in ms \ {m} : MatchBefore(m, o)
  <1> DEFINE n == Len(text)
             A == {m.start : m \in ms}
  <1>1. n \in Nat
    BY LenProperties
  <1>2. \A m \in ms : m.start \in 1..n /\ m.end \in 1..(n + 1) /\ m.rule \in Nat
    <2> SUFFICES ASSUME NEW m \in ms
                 PROVE  m.start \in 1..n /\ m.end \in 1..(n + 1) /\ m.rule \in Nat
      OBVIOUS
    <2>1. m.start \in 1..n /\ m.end \in (m.start + 1)..(n + 1) /\ m.rule \in Nat
      BY DEF Form
    <2> QED
      BY <1>1, <2>1
  <1>3. PICK x \in A : \A y \in A : x <= y
    <2>1. A \subseteq Nat /\ A # {}
      BY <1>1, <1>2
    <2> HIDE DEF A
    <2> QED
      BY <2>1, LeastNat
  <1> DEFINE B == {m.end : m \in {o \in ms : o.start = x}}
  <1>4. PICK y \in B : \A z \in B : z <= y
    <2>1. B \subseteq Nat /\ B # {} /\ \A z \in B : z <= n + 1
      BY <1>1, <1>2
    <2>2. n + 1 \in Nat
      BY <1>1
    <2> HIDE DEF B
    <2> QED
      BY <2>1, <2>2, GreatestNat
  <1> DEFINE C == {m.rule : m \in {o \in ms : o.start = x /\ o.end = y}}
  <1>5. PICK z \in C : \A w \in C : z <= w
    <2>1. C \subseteq Nat /\ C # {}
      BY <1>2
    <2> HIDE DEF C
    <2> QED
      BY <2>1, LeastNat
  <1>6. PICK m \in ms : m.start = x /\ m.end = y /\ m.rule = z
    OBVIOUS
  <1>7. ASSUME NEW o \in ms \ {m} PROVE MatchBefore(m, o)
    <2>1. o \in ms /\ o.start \in A
      OBVIOUS
    <2>2. m.start <= o.start
      <3> HIDE DEF A
      <3> QED
        BY <1>3, <1>6, <2>1
    <2>3. CASE m.start # o.start
      <3>1. m.start < o.start
        BY <1>2, <2>1, <2>2, <2>3
      <3> QED
        BY <3>1 DEF MatchBefore
    <2>4. CASE m.start = o.start
      <3>1. o.end \in B
        BY <1>6, <2>1, <2>4
      <3>2. o.end <= m.end
        <4> HIDE DEF B
        <4> QED
          BY <1>4, <1>6, <3>1
      <3>3. CASE m.end # o.end
        <4>1. m.end > o.end
          BY <1>2, <2>1, <3>2, <3>3
        <4> QED
          BY <2>4, <4>1 DEF MatchBefore
      <3>4. CASE m.end = o.end
        <4>1. o.rule \in C
          BY <1>6, <2>1, <2>4, <3>4
        <4>2. m.rule <= o.rule
          <5> HIDE DEF C
          <5> QED
            BY <1>5, <1>6, <4>1
        <4>3. m.rule # o.rule
          <5> SUFFICES ASSUME m.rule = o.rule PROVE FALSE
            OBVIOUS
          <5>1. m = o
            BY <2>1, <2>4, <3>4 DEF Form
          <5> QED
            BY <5>1
        <4>4. m.rule < o.rule
          BY <1>2, <2>1, <4>2, <4>3
        <4> QED
          BY <2>4, <3>4, <4>4 DEF MatchBefore
      <3> QED
        BY <3>3, <3>4
    <2> QED
      BY <2>3, <2>4
  <1> QED
    BY <1>7

FirstOf(ms)   == CHOOSE m \in ms : \A o \in ms \ {m} : MatchBefore(m, o)
LaterThan(ms) == {m \in ms : m.start >= FirstOf(ms).end}

\* The sweep takes the first match and goes on with those behind its end.
Sweeps(matches, sweep, rank) ==
  /\ resolve_conflicts(matches) = sweep[matches]
  /\ rank \in [SUBSET matches -> Nat]
  /\ \A ms \in SUBSET matches :
       /\ ms = {} => sweep[ms] = {}
       /\ ms # {} => /\ FirstOf(ms) \in ms
                     /\ \A o \in ms \ {FirstOf(ms)} : MatchBefore(FirstOf(ms), o)
                     /\ LaterThan(ms) \in SUBSET ms /\ rank[LaterThan(ms)] < rank[ms]
                     /\ \A o \in LaterThan(ms) : FirstOf(ms).start < o.start
                     /\ sweep[ms] = {FirstOf(ms)} \cup sweep[LaterThan(ms)]

LEMMA SweepPass ==
  ASSUME NEW text \in Seq(Byte), NEW matches, \A m \in matches : Form(text, m)
  PROVE  \E sweep, rank : Sweeps(matches, sweep, rank)
  <1> DEFINE n == Len(text)
             S == SUBSET matches
             N == n + 2
             first(ms) == CHOOSE m \in ms : \A o \in ms \ {m} : MatchBefore(m, o)
             later(ms) == {m \in ms : m.start >= first(ms).end}
             Step(ms, g) == IF ms = {} THEN {} ELSE {first(ms)} \cup g[later(ms)]
             F == [g \in [S -> S] |-> [ms \in S |-> Step(ms, g)]]
             rank == [ms \in S |-> IF ms = {} THEN 0 ELSE N - first(ms).start]
             sweep[ms \in SUBSET matches] ==
               IF ms = {} THEN {}
               ELSE {first(ms)} \cup sweep[{m \in ms : m.start >= first(ms).end}]
  <1>1. resolve_conflicts(matches) = sweep[matches]
    BY DEF resolve_conflicts
  <1>2. sweep = CHOOSE h : h = [ms \in S |-> Step(ms, h)]
    OBVIOUS
  <1> HIDE DEF sweep
  <1>3. n \in Nat /\ N \in Nat
    BY LenProperties
  <1>4. \A m \in matches : m.start \in 1..n /\ m.end \in (m.start + 1)..(n + 1)
    BY DEF Form
  <1>5. ASSUME NEW ms \in S, ms # {}
        PROVE  first(ms) \in ms /\ \A o \in ms : first(ms).start <= o.start
    <2>1. \E m \in ms : \A o \in ms \ {m} : MatchBefore(m, o)
      BY <1>5, FirstMatch
    <2>2. first(ms) \in ms /\ \A o \in ms \ {first(ms)} : MatchBefore(first(ms), o)
      BY <2>1
    <2> HIDE DEF first
    <2>3. ASSUME NEW o \in ms PROVE first(ms).start <= o.start
      <3>1. first(ms).start \in Nat /\ o.start \in Nat
        BY <1>3, <1>4, <2>2
      <3>2. o = first(ms) \/ MatchBefore(first(ms), o)
        BY <2>2
      <3> QED
        BY <3>1, <3>2 DEF MatchBefore
    <2> QED
      BY <2>2, <2>3
  <1> HIDE DEF first, n
  <1>6. ASSUME NEW ms \in S, ms # {}
        PROVE  /\ first(ms) \in matches /\ later(ms) \in S /\ rank[later(ms)] < rank[ms]
               /\ \A o \in later(ms) : first(ms).start < o.start
    <2>1. first(ms) \in matches /\ later(ms) \in S
      BY <1>5, <1>6
    <2>2. ASSUME NEW o \in later(ms) PROVE first(ms).start < o.start
      <3>1. o \in matches /\ o.start >= first(ms).end
        OBVIOUS
      <3>2. o.start \in 1..n /\ first(ms).start \in 1..n
            /\ first(ms).end \in (first(ms).start + 1)..(n + 1)
        BY <1>4, <2>1, <3>1
      <3> QED
        BY <1>3, <3>1, <3>2
    <2>3. rank[ms] = N - first(ms).start
      BY <1>6
    <2>4. first(ms).start \in 1..n
      BY <1>4, <2>1
    <2> DEFINE ls == later(ms)
    <2>5. CASE ls = {}
      <3>1. rank[ls] = 0
        BY <2>1, <2>5
      <3> QED
        BY <1>3, <2>1, <2>2, <2>3, <2>4, <3>1 DEF N
    <2>6. CASE ls # {}
      <3>1. rank[ls] = N - first(ls).start
        BY <2>1, <2>6
      <3>2. first(ls) \in ls /\ first(ls) \in matches
        <4>1. ls \in S
          BY <2>1
        <4> HIDE DEF ls
        <4> QED
          BY <1>5, <2>6, <4>1
      <3>3. first(ms).start < first(ls).start /\ first(ls).start \in 1..n
        <4> HIDE DEF ls
        <4>1. first(ls) \in later(ms)
          BY <3>2 DEF ls
        <4> QED
          BY <1>4, <2>2, <3>2, <4>1
      <3>4. rank[ls] < rank[ms]
        <4> HIDE DEF ls, rank, later
        <4> QED
          BY <1>3, <2>3, <2>4, <3>1, <3>3
      <3> QED
        BY <2>1, <2>2, <3>4
    <2> QED
      BY <2>5, <2>6
  <1>7. S # {} /\ rank \in [S -> 0..N]
    <2>1. {} \in S
      OBVIOUS
    <2>2. ASSUME NEW ms \in S PROVE (IF ms = {} THEN 0 ELSE N - first(ms).start) \in 0..N
      <3>1. CASE ms = {}
        BY <1>3, <3>1
      <3>2. CASE ms # {}
        <4>1. first(ms).start \in 1..n
          BY <1>4, <1>6, <3>2
        <4> QED
          BY <1>3, <3>2, <4>1
      <3> QED
        BY <3>1, <3>2
    <2> QED
      BY <2>1, <2>2
  <1> HIDE DEF later, rank
  <1>8. F \in [[S -> S] -> [S -> S]]
    <2> SUFFICES ASSUME NEW g \in [S -> S], NEW ms \in S PROVE Step(ms, g) \in S
      OBVIOUS
    <2>1. CASE ms = {}
      BY <2>1
    <2>2. CASE ms # {}
      <3>1. first(ms) \in matches /\ g[later(ms)] \in S
        <4> HIDE DEF S
        <4> QED
          BY <1>6, <2>2
      <3> QED
        BY <2>2, <3>1
    <2> QED
      BY <2>1, <2>2
  <1>9. ASSUME NEW g \in [S -> S], NEW h \in [S -> S], NEW ms \in S,
               \A y \in S : rank[y] < rank[ms] => g[y] = h[y]
        PROVE  F[g][ms] = F[h][ms]
    <2>1. ms # {} => g[later(ms)] = h[later(ms)]
      <3> HIDE DEF S
      <3> QED
        BY <1>6, <1>9
    <2>2. Step(ms, g) = Step(ms, h)
      BY <2>1
    <2> QED
      BY <2>2
  <1>10. Recursion(S, S, N, rank, F)
    <2> HIDE DEF S, F, N
    <2> QED
      BY <1>3, <1>7, <1>8, <1>9 DEF Recursion
  <1>11. PICK g \in [S -> S] : g = F[g]
    <2> HIDE DEF S, F, N
    <2> QED
      BY <1>10, RecursiveFunction
  <1>12. g = [ms \in S |-> Step(ms, g)]
    <2>1. F[g] = [ms \in S |-> Step(ms, g)]
      OBVIOUS
    <2> HIDE DEF F
    <2> QED
      BY <1>11, <2>1
  <1>13. sweep = [ms \in S |-> Step(ms, sweep)]
    <2> HIDE DEF S, Step
    <2> QED
      BY <1>2, <1>12
  <1>14. \A ms \in S : sweep[ms] = Step(ms, sweep)
    <2> HIDE DEF S, Step
    <2> QED
      BY <1>13
  <1>15. rank \in [S -> Nat]
    <2>1. 0..N \subseteq Nat
      BY <1>3
    <2> HIDE DEF S, N
    <2> QED
      BY <1>7, <2>1
  <1>16. ASSUME NEW ms \in S
         PROVE  /\ first(ms) = FirstOf(ms) /\ later(ms) = LaterThan(ms)
                /\ ms = {} => sweep[ms] = {}
                /\ ms # {} => sweep[ms] = {first(ms)} \cup sweep[later(ms)]
    BY <1>14 DEF first, later, FirstOf, LaterThan
  <1>17. ASSUME NEW ms \in S, ms # {}
         PROVE  /\ FirstOf(ms) \in ms
                /\ \A o \in ms \ {FirstOf(ms)} : MatchBefore(FirstOf(ms), o)
                /\ LaterThan(ms) \in SUBSET ms /\ rank[LaterThan(ms)] < rank[ms]
                /\ \A o \in LaterThan(ms) : FirstOf(ms).start < o.start
                /\ sweep[ms] = {FirstOf(ms)} \cup sweep[LaterThan(ms)]
    <2>1. \E m \in ms : \A o \in ms \ {m} : MatchBefore(m, o)
      BY <1>17, FirstMatch
    <2>2. FirstOf(ms) \in ms /\ \A o \in ms \ {FirstOf(ms)} : MatchBefore(FirstOf(ms), o)
      BY <2>1 DEF FirstOf
    <2>3. rank[later(ms)] < rank[ms] /\ \A o \in later(ms) : first(ms).start < o.start
      BY <1>6, <1>17
    <2>4. LaterThan(ms) \subseteq ms
      BY DEF LaterThan
    <2> QED
      BY <1>16, <1>17, <2>2, <2>3, <2>4
  <1> HIDE DEF S
  <1>18. Sweeps(matches, sweep, rank)
    <2>1. \A ms \in S : ms = {} => sweep[ms] = {}
      BY <1>16
    <2> QED
      BY <1>1, <1>15, <1>17, <2>1, Zenon DEF Sweeps, S
  <1> QED
    BY <1>18

\* Conflicts are resolved: of what was found, no two start together.
LEMMA Resolved ==
  ASSUME NEW text \in Seq(Byte), NEW matches, \A m \in matches : Form(text, m)
  PROVE  /\ resolve_conflicts(matches) \subseteq matches
         /\ \A x, y \in resolve_conflicts(matches) : x.start = y.start => x = y
  <1> DEFINE n == Len(text)
             S == SUBSET matches
  <1>1. PICK sweep, rank : Sweeps(matches, sweep, rank)
    BY SweepPass
  <1>2. n \in Nat /\ \A m \in matches : m.start \in 1..n
    BY LenProperties DEF Form
  <1> HIDE DEF n
  <1> DEFINE Fine(ms) == /\ sweep[ms] \subseteq ms
                         /\ \A x, y \in sweep[ms] : x.start = y.start => x = y
             Good == {ms \in S : Fine(ms)}
  <1>3. ASSUME NEW ms \in S, \A y \in S : rank[y] < rank[ms] => y \in Good
        PROVE  ms \in Good
    <2>1. CASE ms = {}
      <3>1. sweep[ms] = {}
        BY <1>1, <2>1 DEF Sweeps
      <3> QED
        BY <3>1
    <2>2. CASE ms # {}
      <3> DEFINE f == FirstOf(ms)
                 ls == LaterThan(ms)
      <3>1. /\ f \in ms /\ ls \in SUBSET ms /\ rank[ls] < rank[ms]
            /\ \A o \in ls : f.start < o.start
            /\ sweep[ms] = {f} \cup sweep[ls]
        BY <1>1, <2>2 DEF Sweeps
      <3> HIDE DEF f, ls
      <3>2. Fine(ls)
        <4>1. ls \in S
          BY <3>1
        <4> HIDE DEF S, Fine
        <4> QED
          BY <1>3, <3>1, <4>1
      <3>3. sweep[ms] \subseteq ms
        BY <3>1, <3>2
      <3>4. ASSUME NEW x \in sweep[ms], NEW y \in sweep[ms], x.start = y.start PROVE x = y
        <4>1. CASE x = f /\ y = f
          BY <4>1
        <4>2. CASE x \in sweep[ls] /\ y \in sweep[ls]
          BY <3>2, <3>4, <4>2
        <4>3. CASE x = f /\ y \in sweep[ls]
          <5>1. f.start < y.start /\ y.start \in 1..n
            BY <1>2, <3>1, <3>2, <4>3
          <5> QED
            BY <1>2, <3>4, <4>3, <5>1
        <4>4. CASE y = f /\ x \in sweep[ls]
          <5>1. f.start < x.start /\ x.start \in 1..n
            BY <1>2, <3>1, <3>2, <4>4
          <5> QED
            BY <1>2, <3>4, <4>4, <5>1
        <4> QED
          BY <3>1, <4>1, <4>2, <4>3, <4>4
      <3> QED
        BY <3>3, <3>4
    <2> QED
      BY <2>1, <2>2
  <1>4. rank \in [S -> Nat]
    BY <1>1 DEF Sweeps
  <1>5. S \subseteq Good
    <2> HIDE DEF S, Good
    <2> QED
      BY <1>3, <1>4, RankInduction
  <1>6. matches \in S
    OBVIOUS
  <1>7. Fine(matches)
    <2> HIDE DEF Fine
    <2> QED
      BY <1>5, <1>6
  <1>8. resolve_conflicts(matches) = sweep[matches]
    BY <1>1 DEF Sweeps
  <1> QED
    BY <1>7, <1>8

\* A match stays if it comes before those that start with it and starts behind the end
\* of those that start before it.
LEMMA ResolvedKeeps ==
  ASSUME NEW text \in Seq(Byte), NEW matches, \A m \in matches : Form(text, m),
         NEW m \in matches,
         \A o \in matches \ {m} : IF o.start < m.start THEN o.end <= m.start ELSE MatchBefore(m, o)
  PROVE  m \in resolve_conflicts(matches)
  <1> DEFINE n == Len(text)
             S == SUBSET matches
  <1>1. PICK sweep, rank : Sweeps(matches, sweep, rank)
    BY SweepPass
  <1>2. /\ n \in Nat
        /\ \A o \in matches :
             o.start \in 1..n /\ o.end \in (o.start + 1)..(n + 1) /\ o.rule \in Nat
    BY LenProperties DEF Form
  <1>3. \A o \in matches : o.start \in Nat /\ o.end \in Nat /\ o.rule \in Nat
    BY <1>2
  <1> HIDE DEF n
  <1> DEFINE Good == {ms \in S : m \in ms => m \in sweep[ms]}
  <1>4. ASSUME NEW ms \in S, \A y \in S : rank[y] < rank[ms] => y \in Good
        PROVE  ms \in Good
    <2> SUFFICES ASSUME m \in ms PROVE m \in sweep[ms]
      OBVIOUS
    <2> DEFINE f == FirstOf(ms)
               ls == LaterThan(ms)
    <2>1. ms # {}
      OBVIOUS
    <2>2. /\ f \in ms /\ ls \in SUBSET ms /\ rank[ls] < rank[ms]
          /\ \A o \in ms \ {f} : MatchBefore(f, o)
          /\ sweep[ms] = {f} \cup sweep[ls]
      BY <1>1, <2>1 DEF Sweeps
    <2>3. ls = {o \in ms : o.start >= f.end}
      BY DEF LaterThan
    <2> HIDE DEF f, ls
    <2>4. CASE f = m
      BY <2>2, <2>4
    <2>5. CASE f # m
      <3>1. MatchBefore(f, m) /\ f \in matches \ {m}
        BY <2>2, <2>5
      <3>2. f.start < m.start
        <4> SUFFICES ASSUME ~(f.start < m.start) PROVE FALSE
          OBVIOUS
        <4>1. MatchBefore(m, f)
          BY <3>1
        <4> QED
          BY <1>3, <3>1, <4>1 DEF MatchBefore
      <3>3. f.end <= m.start
        BY <3>1, <3>2
      <3>4. m.start >= f.end
        BY <1>3, <3>1, <3>3
      <3>5. m \in ls
        BY <2>3, <3>4
      <3>6. ls \in S
        BY <2>2
      <3>7. m \in sweep[ls]
        BY <1>4, <2>2, <3>5, <3>6
      <3> QED
        BY <2>2, <3>7
    <2> QED
      BY <2>4, <2>5
  <1>5. rank \in [S -> Nat]
    BY <1>1 DEF Sweeps
  <1>6. S \subseteq Good
    <2> HIDE DEF S, Good
    <2> QED
      BY <1>4, <1>5, RankInduction
  <1>7. matches \in S
    OBVIOUS
  <1>8. m \in sweep[matches]
    BY <1>6, <1>7
  <1>9. resolve_conflicts(matches) = sweep[matches]
    BY <1>1 DEF Sweeps
  <1> QED
    BY <1>8, <1>9

\* The matches the tolerant pass resolves to, and the one that starts at the i-th byte.
AllMatches(text) == UNION {scan_rule(text, r) : r \in cfg.rules}
Matches(text)    == resolve_conflicts(AllMatches(text))
MatchAt(text, i) == CHOOSE m \in Matches(text) : m.start = i
Restores(text, i) ==
  text[i] = "<" /\ \E m \in Matches(text) : m.start = i /\ Lookup(m.placeholder) # {}

LEMMA MatchesFacts ==
  ASSUME ConfigOK, NEW text \in Seq(Byte)
  PROVE  /\ \A m \in AllMatches(text) : Form(text, m)
         /\ Matches(text) \subseteq AllMatches(text)
         /\ \A x, y \in Matches(text) : x.start = y.start => x = y
  <1>1. \A m \in AllMatches(text) : Form(text, m)
    <2> SUFFICES ASSUME NEW r \in cfg.rules, NEW m \in scan_rule(text, r) PROVE Form(text, m)
      BY DEF AllMatches
    <2>1. r \in Known
      BY DEF ConfigOK
    <2> QED
      BY <2>1, ScanRule
  <1> QED
    BY <1>1, Resolved DEF Matches

\* The tolerant pass replaces a slice wherever such a match has an entry.
TolerantSplice(text, hit, jump, piece, from) ==
  /\ Spliceable(text, hit, jump, piece) /\ Splices(text, hit, jump, piece, from)
  /\ apply_placeholder_regex(text) = from[1]
  /\ hit = {i \in 1..Len(text) : Restores(text, i)}
  /\ \A i \in hit : /\ MatchAt(text, i) \in Matches(text) /\ MatchAt(text, i).start = i
                    /\ Lookup(MatchAt(text, i).placeholder) # {}
                    /\ jump[i] = MatchAt(text, i).end
                    /\ piece[i] = Restored(Min(Lookup(MatchAt(text, i).placeholder)))

LEMMA TolerantSplices ==
  ASSUME ConfigOK, NEW text \in Seq(Byte)
  PROVE  \E hit, jump, piece, from : TolerantSplice(text, hit, jump, piece, from)
  <1> DEFINE n == Len(text)
             matches == resolve_conflicts(UNION {scan_rule(text, r) : r \in cfg.rules})
             here(i) == /\ text[i] = "<"
                        /\ \E m \in matches : m.start = i /\ Lookup(m.placeholder) # {}
             at(i) == CHOOSE m \in matches : m.start = i
             hit == {i \in 1..n : here(i)}
             jump == [i \in hit |-> at(i).end]
             piece == [i \in hit |-> Restored(Min(Lookup(at(i).placeholder)))]
             S == 1..(n + 1)
             Body(i, g) == IF i > n THEN <<>>
                           ELSE IF here(i)
                           THEN Restored(Min(Lookup(at(i).placeholder))) \o g[at(i).end]
                           ELSE <<text[i]>> \o g[i+1]
             from[i \in 1..(Len(text) + 1)] ==
               IF i > Len(text) THEN <<>>
               ELSE IF text[i] = "<" /\ \E m \in matches : m.start = i /\ Lookup(m.placeholder) # {}
               THEN LET m == CHOOSE m \in matches : m.start = i
                    IN  Restored(Min(Lookup(m.placeholder))) \o from[m.end]
               ELSE <<text[i]>> \o from[i+1]
  <1>1. apply_placeholder_regex(text) = from[1]
    BY DEF apply_placeholder_regex
  <1>2. from = CHOOSE h : h = [i \in S |-> Body(i, h)]
    OBVIOUS
  <1> HIDE DEF from
  <1>3. text \in Seq(Byte) /\ n \in Nat
    BY LenProperties
  <1>4. /\ matches = Matches(text) /\ \A m \in matches : Form(text, m)
        /\ \A x, y \in matches : x.start = y.start => x = y
    <2>1. matches = Matches(text)
      BY DEF Matches, AllMatches
    <2> HIDE DEF matches
    <2> QED
      BY <1>3, <2>1, MatchesFacts
  <1> HIDE DEF matches
  <1>5. ASSUME NEW i \in 1..n, here(i)
        PROVE  /\ at(i) \in matches /\ at(i).start = i /\ Lookup(at(i).placeholder) # {}
    <2>1. PICK m \in matches : m.start = i /\ Lookup(m.placeholder) # {}
      BY <1>5
    <2>2. at(i) \in matches /\ at(i).start = i
      BY <2>1
    <2> HIDE DEF at
    <2>3. at(i) = m
      BY <1>4, <2>1, <2>2
    <2> QED
      BY <2>1, <2>2, <2>3
  <1>0. \A i : here(i) = Restores(text, i) /\ at(i) = MatchAt(text, i)
    BY <1>4 DEF Restores, MatchAt
  <1> HIDE DEF here, at
  <1>6. ASSUME NEW i \in hit
        PROVE  /\ jump[i] \in (i+1)..(n + 1) /\ Utf8(SubSeq(text, i, jump[i] - 1))
               /\ Utf8(piece[i])
    <2> DEFINE m == at(i)
               ks == Lookup(m.placeholder)
    <2>1. i \in 1..n /\ here(i) /\ jump[i] = m.end /\ piece[i] = Restored(Min(ks))
      BY <1>6
    <2>2. m \in matches /\ m.start = i /\ ks # {}
      BY <1>5, <2>1
    <2>3. m.end \in (i+1)..(n + 1) /\ Utf8(SubSeq(text, i, m.end - 1))
      BY <1>4, <2>2 DEF Form
    <2>4. ks \subseteq 1..Len(cfg.entries)
      BY DEF Lookup
    <2> HIDE DEF ks
    <2>5. Utf8(Restored(Min(ks)))
      BY <2>2, <2>4, FirstEntry
    <2> HIDE DEF m, jump, piece
    <2> QED
      BY <2>1, <2>3, <2>5
  <1>7. Spliceable(text, hit, jump, piece)
    BY <1>3, <1>6 DEF Spliceable
  <1>8. PICK g : Splices(text, hit, jump, piece, g)
    <2> HIDE DEF hit, jump, piece
    <2> QED
      BY <1>7, SplicePass
  <1>9. \A h : [i \in S |-> SpliceStep(text, hit, jump, piece, i, h)] = [i \in S |-> Body(i, h)]
    <2> SUFFICES ASSUME NEW h, NEW i \in S
                 PROVE  SpliceStep(text, hit, jump, piece, i, h) = Body(i, h)
      OBVIOUS
    <2>1. CASE i > n
      BY <2>1 DEF SpliceStep
    <2>2. CASE ~(i > n) /\ ~here(i)
      <3>1. i \notin hit
        BY <2>2
      <3> HIDE DEF hit
      <3> QED
        BY <2>2, <3>1 DEF SpliceStep
    <2>3. CASE ~(i > n) /\ here(i)
      <3>1. i \in hit
        BY <1>3, <2>3
      <3>2. jump[i] = at(i).end /\ piece[i] = Restored(Min(Lookup(at(i).placeholder)))
        BY <3>1
      <3> HIDE DEF hit, jump, piece
      <3> QED
        BY <2>3, <3>1, <3>2 DEF SpliceStep
    <2> QED
      BY <2>1, <2>2, <2>3
  <1>10. g = [i \in S |-> Body(i, g)]
    <2>1. g = [i \in S |-> SpliceStep(text, hit, jump, piece, i, g)]
      BY <1>8, Zenon DEF Splices
    <2> HIDE DEF hit, jump, piece, S, Body
    <2> QED
      BY <1>9, <2>1
  <1>11. from = [i \in S |-> Body(i, from)]
    <2> HIDE DEF S, Body
    <2> QED
      BY <1>2, <1>10
  <1>12. Splices(text, hit, jump, piece, from)
    <2>1. from = [i \in S |-> SpliceStep(text, hit, jump, piece, i, from)]
      <3> HIDE DEF hit, jump, piece, S, Body
      <3> QED
        BY <1>9, <1>11
    <2> HIDE DEF hit, jump, piece
    <2> QED
      BY <2>1, Zenon DEF Splices
  <1>13. hit = {i \in 1..Len(text) : Restores(text, i)}
    BY <1>0
  <1>14. ASSUME NEW i \in hit
         PROVE  /\ MatchAt(text, i) \in Matches(text) /\ MatchAt(text, i).start = i
                /\ Lookup(MatchAt(text, i).placeholder) # {}
                /\ jump[i] = MatchAt(text, i).end
                /\ piece[i] = Restored(Min(Lookup(MatchAt(text, i).placeholder)))
    <2>1. i \in 1..n /\ here(i) /\ jump[i] = at(i).end
          /\ piece[i] = Restored(Min(Lookup(at(i).placeholder)))
      BY <1>14
    <2>2. at(i) \in matches /\ at(i).start = i /\ Lookup(at(i).placeholder) # {}
      BY <1>5, <2>1
    <2> HIDE DEF hit, jump, piece
    <2> QED
      BY <1>0, <1>4, <2>1, <2>2
  <1> HIDE DEF hit, jump, piece
  <1>15. TolerantSplice(text, hit, jump, piece, from)
    BY <1>1, <1>7, <1>12, <1>13, <1>14 DEF TolerantSplice
  <1> QED
    BY <1>15

LEMMA TolerantReads ==
  ASSUME ConfigOK, NEW text, NEW a0, NEW c0, Reads(text, a0, c0)
  PROVE  Reads(apply_placeholder_regex(text), a0, c0)
  <1>1. text \in Seq(Byte)
    BY DEF Reads
  <1>2. PICK hit, jump, piece, from : TolerantSplice(text, hit, jump, piece, from)
    BY <1>1, TolerantSplices
  <1> QED
    BY <1>2, SpliceReads DEF TolerantSplice

\* What demask_chunk makes of a text splits no rune that the text did not split.
LEMMA DemaskedReads ==
  ASSUME ConfigOK, NEW text, NEW a, NEW c, Reads(text, a, c),
         NEW result \in Demasked(text)
  PROVE  Reads(result, a, c)
  <1>1. result = apply_placeholder_regex(apply_exact(text))
    BY DEF Demasked
  <1> QED
    BY <1>1, ExactReads, TolerantReads
-----------------------------------------------------------------------------
(* The hold-back.                                                          *)

\* Without a start in between, every byte brings the end of the rune nearer.
LEMMA Countdown ==
  ASSUME NEW s \in Seq(Byte), NEW left, Decodes(s, left),
         NEW j \in 0..Len(s), NEW k \in j..Len(s),
         \A i \in (j+1)..k : ~is_rune_start(s[i])
  PROVE  left[k] = left[j] - (k - j)
  <1> DEFINE S == 0..(k - j)
             Good == {d \in S : left[j + d] = left[j] - d}
             rank == [d \in S |-> d]
  <1>1. Len(s) \in Nat
    BY LenProperties
  <1>2. \A m \in 0..Len(s) : left[m] \in 0..(WidestRune - 1) /\ left[m] \in Int
    <2>1. WidestRune - 1 \in Int
      BY RuneFacts
    <2>2. left \in [0..Len(s) -> Left]
      BY DEF Decodes
    <2> QED
      BY <2>1, <2>2 DEF Left
  <1>3. j \in Nat /\ k \in Nat /\ k - j \in Nat /\ j <= k /\ k <= Len(s)
    BY <1>1
  <1>4. ASSUME NEW d \in S, \A e \in S : rank[e] < rank[d] => e \in Good
        PROVE  d \in Good
    <2>1. CASE d = 0
      <3>1. j + 0 = j /\ left[j] - 0 = left[j]
        BY <1>1, <1>2, <1>3
      <3> QED
        BY <2>1, <3>1
    <2>2. CASE d # 0
      <3>1. d - 1 \in S /\ rank[d-1] < rank[d] /\ d \in Nat
        BY <1>3, <2>2
      <3>2. left[j + (d - 1)] = left[j] - (d - 1)
        BY <1>4, <3>1
      <3>3. /\ j + d \in (j+1)..k /\ j + d \in 1..Len(s) /\ (j + d) - 1 = j + (d - 1)
        BY <1>1, <1>3, <2>2
      <3>4. left[j + d] = left[(j + d) - 1] - 1
        BY <3>3 DEF Decodes
      <3>5. left[j] \in Int
        BY <1>1, <1>2, <1>3
      <3>6. left[j + d] = left[j] - d
        BY <3>1, <3>2, <3>3, <3>4, <3>5
      <3> QED
        BY <3>6
    <2> QED
      BY <2>1, <2>2
  <1>5. rank \in [S -> Nat]
    BY <1>3
  <1>6. S \subseteq Good
    <2> HIDE DEF S, Good, rank
    <2> QED
      BY <1>4, <1>5, RankInduction
  <1>7. k - j \in S /\ j + (k - j) = k
    BY <1>3
  <1> QED
    BY <1>6, <1>7

\* What utf8_safe_prefix_end makes of an end before the last WidestRune bytes.
LEMMA SafePrefix ==
  ASSUME NEW text \in Seq(Byte), NEW left, Decodes(text, left),
         NEW end \in 1..Len(text), end + WidestRune <= Len(text)
  PROVE  LET e == utf8_safe_prefix_end(text, end)
         IN  /\ e \in 0..end /\ end - e < WidestRune
             /\ left[0] = 0 => left[e] = 0
  <1> DEFINE n == Len(text)
             starts == {i \in 1..end : is_rune_start(text[i])}
             e == utf8_safe_prefix_end(text, end)
  <1>1. n \in Nat /\ WidestRune \in 1..4
    BY LenProperties, RuneFacts
  <1>2. end \in Nat /\ end # 0 /\ end < n /\ ~(end >= n)
    BY <1>1
  <1>3. \A m \in 0..n : left[m] \in 0..(WidestRune - 1)
    BY DEF Decodes, Left
  <1>4. CASE starts = {}
    <2>1. e = 0
      BY <1>2, <1>4 DEF utf8_safe_prefix_end
    <2>2. left[end] = left[0] - (end - 0)
      <3>1. 0 \in 0..n /\ end \in 0..n
        BY <1>1, <1>2
      <3>2. \A i \in (0+1)..end : ~is_rune_start(text[i])
        BY <1>4
      <3> QED
        BY <1>2, <3>1, <3>2, Countdown
    <2>3. left[end] \in 0..(WidestRune - 1) /\ left[0] \in 0..(WidestRune - 1)
      BY <1>1, <1>2, <1>3
    <2>4. end < WidestRune
      BY <1>1, <1>2, <2>2, <2>3
    <2> QED
      BY <1>1, <1>2, <2>1, <2>4
  <1>5. CASE starts # {}
    <2> DEFINE i == Max(starts)
               R == RuneBytes[text[i]]
               l == rune_len_at(text, i)
    <2>1. i \in starts /\ \A k \in starts : k <= i
      <3>1. starts \subseteq Nat /\ \A k \in starts : k <= end
        BY <1>2
      <3> HIDE DEF starts
      <3> QED
        BY <1>2, <1>5, <3>1, MaxNat
    <2>2. e = IF i - 1 + l <= end THEN end ELSE i - 1
      BY <1>2, <1>5 DEF utf8_safe_prefix_end
    <2> HIDE DEF i
    <2>3. i \in 1..end /\ i \in 1..n /\ is_rune_start(text[i])
      BY <1>1, <1>2, <2>1
    <2>4. R \in 1..WidestRune
      <3>1. text[i] \in Byte
        BY <2>3, ElementOfSeq
      <3>2. R \in 0..WidestRune /\ R # 0
        BY <2>3, <3>1, RuneFacts DEF is_rune_start
      <3> QED
        BY <1>1, <3>2
    <2>5. left[i-1] = 0 /\ left[i] = R - 1
      BY <2>3 DEF Decodes
    <2> HIDE DEF R
    <2>6. ASSUME NEW k \in (i+1)..end PROVE ~is_rune_start(text[k])
      <3>1. k \in 1..end /\ ~(k <= i)
        BY <1>2, <2>3
      <3> HIDE DEF starts
      <3>2. k \notin starts
        BY <2>1, <3>1
      <3> QED
        BY <3>1, <3>2 DEF starts
    <2>7. left[end] = R - 1 - (end - i)
      <3>1. i \in 0..n /\ end \in i..n
        BY <1>1, <1>2, <2>3
      <3> QED
        BY <2>5, <2>6, <3>1, Countdown
    <2>8. \A k \in (i+1)..(i+R-1) : ~is_rune_start(text[k])
      <3> DEFINE K == {k \in (i+1)..(i+R-1) : is_rune_start(text[k])}
      <3> SUFFICES ASSUME K # {} PROVE FALSE
        OBVIOUS
      <3>1. PICK k \in K : \A m \in K : k <= m
        <4>1. K \subseteq Nat
          BY <1>1, <1>2, <2>3, <2>4
        <4> HIDE DEF K
        <4> QED
          BY <4>1, LeastNat
      <3>2. k \in (i+1)..(i+R-1) /\ is_rune_start(text[k])
        BY <3>1
      <3>3. ASSUME NEW m \in (i+1)..(k-1) PROVE ~is_rune_start(text[m])
        <4>1. m \in (i+1)..(i+R-1) /\ ~(k <= m)
          BY <1>1, <1>2, <2>3, <2>4, <3>2
        <4> HIDE DEF K
        <4>2. m \notin K
          BY <3>1, <4>1
        <4> QED
          BY <4>1, <4>2 DEF K
      <3> HIDE DEF K
      <3>4. k \in 1..n /\ i \in 0..n /\ k - 1 \in i..n /\ i < k
        BY <1>1, <1>2, <2>3, <2>4, <3>2
      <3>5. left[k-1] = R - 1 - ((k - 1) - i)
        BY <2>5, <3>3, <3>4, Countdown
      <3>6. left[k-1] = 0
        BY <3>2, <3>4 DEF Decodes
      <3> QED
        BY <1>2, <2>3, <2>4, <3>2, <3>4, <3>5, <3>6
    <2>9. l = R
      <3>1. i + R - 1 <= n
        BY <1>1, <1>2, <2>3, <2>4
      <3> QED
        BY <2>8, <3>1 DEF rune_len_at, R
    <2> HIDE DEF l, starts
    <2>10. CASE i - 1 + R <= end
      <3>1. e = end
        BY <2>2, <2>9, <2>10
      <3>2. left[end] \in 0..(WidestRune - 1)
        BY <1>1, <1>2, <1>3
      <3>3. left[end] = 0
        BY <1>1, <1>2, <2>3, <2>4, <2>7, <2>10, <3>2
      <3> QED
        BY <1>1, <1>2, <3>1, <3>3
    <2>11. CASE ~(i - 1 + R <= end)
      <3>1. e = i - 1
        BY <2>2, <2>9, <2>11
      <3>2. i - 1 \in 0..end /\ end - (i - 1) < WidestRune
        BY <1>1, <1>2, <2>3, <2>4, <2>11
      <3> QED
        BY <2>5, <3>1, <3>2
    <2> QED
      BY <2>10, <2>11
  <1> QED
    BY <1>4, <1>5
\* Both parts of a text that is cut where demask_chunk cuts it.
LEMMA HoldBack ==
  ASSUME ConfigOK, NEW text, NEW a, NEW c, Reads(text, a, c)
  PROVE  LET e == SafeEnd(text)
         IN  /\ e \in 0..Len(text)
             /\ Len(text) - e < cfg.max_pending + WidestRune
             /\ cfg.max_pending = 0 => e = Len(text)
             /\ \E b \in Left : /\ Reads(SubSeq(text, 1, e), a, b)
                                /\ Reads(SubSeq(text, e + 1, Len(text)), b, c)
                                /\ a = 0 /\ cfg.max_pending # 0 => b = 0
  <1> DEFINE n == Len(text)
             M == cfg.max_pending
             e == SafeEnd(text)
  <1>1. text \in Seq(Byte) /\ n \in Nat /\ WidestRune \in 1..4
    BY LenProperties, RuneFacts DEF Reads
  <1>2. M \in Nat /\ (M = 0 \/ M >= WidestRune)
    BY DEF ConfigOK
  <1>3. PICK left : Decodes(text, left) /\ left[0] = a /\ left[n] = c
    BY Zenon DEF Reads
  <1> HIDE DEF M
  <1>4. e \in 0..n /\ n - e < M + WidestRune /\ (M = 0 => e = n) /\ (a = 0 /\ M # 0 => left[e] = 0)
    <2>1. CASE n <= M
      <3>1. e = 0
        BY <2>1 DEF SafeEnd, M
      <3> QED
        BY <1>1, <1>2, <1>3, <2>1, <3>1
    <2>2. CASE ~(n <= M)
      <3>1. e = utf8_safe_prefix_end(text, n - M)
        BY <2>2 DEF SafeEnd, M
      <3>2. CASE M = 0
        <4>1. n - M = n /\ n # 0 /\ n >= n
          BY <1>1, <2>2, <3>2
        <4>2. e = n
          BY <3>1, <4>1 DEF utf8_safe_prefix_end
        <4> QED
          BY <1>1, <3>2, <4>2
      <3>3. CASE M # 0
        <4> DEFINE end == n - M
        <4>1. end \in 1..n /\ end + WidestRune <= n /\ n - end = M
          BY <1>1, <1>2, <2>2, <3>3
        <4> HIDE DEF end
        <4>2. /\ utf8_safe_prefix_end(text, end) \in 0..end
              /\ end - utf8_safe_prefix_end(text, end) < WidestRune
              /\ left[0] = 0 => left[utf8_safe_prefix_end(text, end)] = 0
          BY <1>1, <1>3, <4>1, SafePrefix
        <4>3. e = utf8_safe_prefix_end(text, end)
          BY <3>1 DEF end
        <4> HIDE DEF e
        <4>4. e \in 0..end /\ end - e < WidestRune /\ (left[0] = 0 => left[e] = 0)
          BY <4>2, <4>3
        <4> QED
          BY <1>1, <1>2, <1>3, <3>3, <4>1, <4>4
      <3> QED
        BY <3>2, <3>3
    <2> QED
      BY <2>1, <2>2
  <1> HIDE DEF e
  <1>5. /\ 1 \in 1..(n + 1) /\ e + 1 \in 1..(n + 1) /\ (e + 1) - 1 = e
        /\ 1 \in Int /\ e \in Int /\ e \in Nat /\ e <= n
    <2>1. n \in Nat /\ e \in Nat /\ e <= n
      BY <1>1, <1>4
    <2> HIDE DEF n
    <2>2. 1 \in 1..(n + 1) /\ e + 1 \in 1..(n + 1)
      BY ONLY <2>1
    <2>3. \A k \in Nat : (k + 1) - 1 = k /\ 1 \in Int /\ k \in Int
      OBVIOUS
    <2> QED
      BY ONLY <2>1, <2>2, <2>3, Zenon
  <1> DEFINE s == SubSeq(text, 1, e)
             t == SubSeq(text, e + 1, n)
  <1>6. s \in Seq(Byte) /\ t \in Seq(Byte) /\ text = s \o t
    <2>1. SubSeq(text, 1, n) = text
      BY <1>1, SubSeqFull
    <2>2. e + 1 \in 1..(n + 1)
      BY <1>5
    <2> DEFINE j == e + 1
    <2> HIDE DEF j
    <2>3. /\ SubSeq(text, 1, j - 1) \in Seq(Byte) /\ SubSeq(text, j, n) \in Seq(Byte)
          /\ SubSeq(text, 1, n) = SubSeq(text, 1, j - 1) \o SubSeq(text, j, n)
      <3>1. 1 \in 1..(Len(text) + 1) /\ j \in 1..(Len(text) + 1)
        BY <1>5, <2>2 DEF j
      <3> QED
        BY <1>1, <3>1, CutAt
    <2>4. j = e + 1 /\ j - 1 = e
      BY <1>5 DEF j
    <2> QED
      BY <2>1, <2>3, <2>4
  <1>7. Len(s) = e
    <2>1. \A i \in 1..n : text[i] \in Byte
      BY <1>1, ElementOfSeq
    <2>2. \A i \in 1..e : text[i] \in Byte
      BY <1>1, <1>5, <2>1
    <2>3. Len(s) = IF 1 <= e THEN e - 1 + 1 ELSE 0
      BY <1>5, <2>2, SubSeqProperties
    <2> QED
      BY <1>5, <2>3
  <1> HIDE DEF s, t
  <1>8. left[e] \in Left /\ Reads(s, left[0], left[e]) /\ Reads(t, left[e], left[n])
    <2>1. Decodes(s \o t, left) /\ Len(s \o t) = n
      BY <1>3, <1>6
    <2> QED
      BY <1>6, <1>7, <2>1, DecodesSplit
  <1>9. \E b \in Left : Reads(s, a, b) /\ Reads(t, b, c) /\ (a = 0 /\ M # 0 => b = 0)
    BY <1>3, <1>4, <1>8
  <1> QED
    BY <1>4, <1>9 DEF e, s, t, M
-----------------------------------------------------------------------------
(* make_config.                                                            *)

\* Every entry is one of the replacements and has a placeholder.
LEMMA Entries ==
  ASSUME NEW reps, reps \in Seq(Range(reps))
  PROVE  EntriesOf(reps) \in Seq({rep \in Range(reps) : rep.placeholder # <<>>})
  <1> DEFINE n == Len(reps)
             S == 0..n
             OK == {rep \in Range(reps) : rep.placeholder # <<>>}
             T == Seq(OK)
             skipped(es, rep) == \/ rep.placeholder = <<>>
                                 \/ \E k \in 1..Len(es) : es[k].placeholder = rep.placeholder
             Step(i, g) == IF i = 0 THEN <<>>
                           ELSE IF skipped(g[i-1], reps[i]) THEN g[i-1]
                           ELSE Append(g[i-1], reps[i])
             F == [g \in [S -> T] |-> [i \in S |-> Step(i, g)]]
             rank == [i \in S |-> i]
             upto[i \in 0..Len(reps)] ==
               IF i = 0 THEN <<>>
               ELSE IF skipped(upto[i-1], reps[i]) THEN upto[i-1]
               ELSE Append(upto[i-1], reps[i])
  <1>1. EntriesOf(reps) = upto[n]
    BY DEF EntriesOf
  <1>2. upto = CHOOSE h : h = [i \in S |-> Step(i, h)]
    OBVIOUS
  <1> HIDE DEF upto
  <1>3. n \in Nat
    BY LenProperties
  <1>4. T # {} /\ rank \in [S -> 0..n]
    <2>1. <<>> \in T
      BY EmptySeq
    <2> QED
      BY <2>1
  <1>5. ASSUME NEW i \in S, i # 0 PROVE i - 1 \in S /\ rank[i-1] < rank[i]
    BY <1>3, <1>5
  <1>6. ASSUME NEW i \in S, NEW g, i # 0 => g[i-1] \in T PROVE Step(i, g) \in T
    <2>1. CASE i = 0
      BY <2>1, EmptySeq
    <2>2. CASE i # 0 /\ skipped(g[i-1], reps[i])
      BY <1>6, <2>2
    <2>3. CASE i # 0 /\ ~skipped(g[i-1], reps[i])
      <3>1. i \in 1..n
        BY <1>3, <2>3
      <3>2. reps[i] \in Range(reps)
        BY <3>1, ElementOfSeq
      <3>3. reps[i] \in OK
        BY <2>3, <3>2
      <3> HIDE DEF OK
      <3>4. Append(g[i-1], reps[i]) \in T
        BY <1>6, <2>3, <3>3, AppendProperties
      <3> QED
        BY <2>3, <3>4
    <2> QED
      BY <2>1, <2>2, <2>3
  <1>7. F \in [[S -> T] -> [S -> T]]
    <2> SUFFICES ASSUME NEW g \in [S -> T], NEW i \in S PROVE Step(i, g) \in T
      OBVIOUS
    <2> HIDE DEF S, T, Step, rank
    <2> QED
      BY <1>5, <1>6
  <1>8. ASSUME NEW g \in [S -> T], NEW h \in [S -> T], NEW i \in S,
               \A y \in S : rank[y] < rank[i] => g[y] = h[y]
        PROVE  F[g][i] = F[h][i]
    <2>1. i # 0 => g[i-1] = h[i-1]
      <3> HIDE DEF S, T, rank
      <3> QED
        BY <1>5, <1>8
    <2>2. Step(i, g) = Step(i, h)
      BY <2>1
    <2> QED
      BY <2>2
  <1>9. Recursion(S, T, n, rank, F)
    <2> HIDE DEF S, T, F, rank
    <2> QED
      BY <1>3, <1>4, <1>7, <1>8 DEF Recursion
  <1>10. PICK g \in [S -> T] : g = F[g]
    <2> HIDE DEF S, T, F, rank
    <2> QED
      BY <1>9, RecursiveFunction
  <1>11. g = [i \in S |-> Step(i, g)]
    <2>1. F[g] = [i \in S |-> Step(i, g)]
      OBVIOUS
    <2> HIDE DEF F
    <2> QED
      BY <1>10, <2>1
  <1>12. upto = [i \in S |-> Step(i, upto)]
    <2> HIDE DEF S, Step
    <2> QED
      BY <1>2, <1>11
  <1>13. \A i \in S : upto[i] = Step(i, upto)
    <2> HIDE DEF S, Step
    <2> QED
      BY <1>12
  <1> DEFINE Good == {i \in S : upto[i] \in T}
  <1>14. ASSUME NEW i \in S, \A j \in S : rank[j] < rank[i] => j \in Good
         PROVE  i \in Good
    <2>1. i # 0 => upto[i-1] \in T
      <3> HIDE DEF S, T, rank
      <3> QED
        BY <1>5, <1>14
    <2>2. Step(i, upto) \in T
      BY <1>6, <2>1
    <2> HIDE DEF S, T, Step
    <2> QED
      BY <1>13, <2>2
  <1>15. rank \in [S -> Nat]
    BY <1>3
  <1>16. S \subseteq Good
    <2> HIDE DEF S, Good, rank
    <2> QED
      BY <1>14, <1>15, RankInduction
  <1>17. n \in S
    BY <1>3
  <1> QED
    BY <1>1, <1>16, <1>17

\* Finitely many numbers have a bound.
LEMMA Bounded ==
  ASSUME NEW n \in Nat, NEW h \in [1..n -> Nat]
  PROVE  \E N \in Nat : \A k \in 1..n : h[k] <= N
  <1> DEFINE S == 0..n
             Good == {i \in S : \E N \in Nat : \A k \in 1..i : h[k] <= N}
             rank == [i \in S |-> i]
  <1>1. ASSUME NEW i \in S, \A j \in S : rank[j] < rank[i] => j \in Good
        PROVE  i \in Good
    <2>1. CASE i = 0
      <3>1. \A k \in 1..i : h[k] <= 0
        BY <2>1
      <3> QED
        BY <3>1
    <2>2. CASE i # 0
      <3>1. i - 1 \in S /\ rank[i-1] < rank[i] /\ i \in 1..n
        BY <2>2
      <3>2. PICK N \in Nat : \A k \in 1..(i-1) : h[k] <= N
        BY <1>1, <3>1
      <3>3. h[i] \in Nat /\ \A k \in 1..i : h[k] \in Nat
        BY <3>1
      <3>4. N + h[i] \in Nat
        BY <3>3
      <3>5. ASSUME NEW k \in 1..i PROVE h[k] <= N + h[i]
        <4>1. CASE k = i
          BY <3>3, <4>1
        <4>2. CASE k # i
          <5>1. k \in 1..(i-1)
            BY <3>1, <4>2
          <5>2. h[k] <= N
            BY <3>2, <5>1
          <5> QED
            BY <3>3, <5>2
        <4> QED
          BY <4>1, <4>2
      <3> QED
        BY <3>4, <3>5
    <2> QED
      BY <2>1, <2>2
  <1>2. rank \in [S -> Nat]
    OBVIOUS
  <1>3. S \subseteq Good
    <2> HIDE DEF S, Good, rank
    <2> QED
      BY <1>1, <1>2, RankInduction
  <1>4. n \in S
    OBVIOUS
  <1> QED
    BY <1>3, <1>4

\* The hold-back bound is the length of the longest placeholder, or 0.
LEMMA BoundOf ==
  ASSUME NEW entries, NEW E, entries \in Seq(E),
         \A e \in E : Len(e.placeholder) \in Nat /\ Len(e.placeholder) >= WidestRune,
         NEW rules, rules \subseteq Known
  PROVE  /\ PendingBound(entries, rules) \in Nat
         /\ PendingBound(entries, rules) = 0 \/ PendingBound(entries, rules) >= WidestRune
         /\ \A k \in 1..Len(entries) : Len(entries[k].placeholder) <= PendingBound(entries, rules)
         /\ \A r \in rules : PlaceholderLen[r] <= PendingBound(entries, rules)
  <1> DEFINE lengths == {Len(e.placeholder) : e \in ToSet(entries)}
             forms == {PlaceholderLen[r] : r \in rules}
             T == {0} \cup lengths \cup forms
             n == Len(entries)
             h == [k \in 1..n |-> Len(entries[k].placeholder)]
  <1>1. n \in Nat /\ DOMAIN entries = 1..n /\ \A k \in 1..n : entries[k] \in E
    BY LenProperties, ElementOfSeq
  <1>2. ASSUME NEW x \in lengths
        PROVE  x \in Nat /\ x >= WidestRune /\ \E k \in 1..n : x = h[k]
    <2>1. PICK k \in 1..n : x = Len(entries[k].placeholder)
      BY <1>1 DEF ToSet
    <2>2. entries[k] \in E /\ h[k] = Len(entries[k].placeholder)
      BY <1>1
    <2> QED
      BY <2>1, <2>2
  <1>3. PICK B \in Nat : \A k \in 1..n : h[k] <= B
    <2>1. h \in [1..n -> Nat]
      BY <1>1
    <2> HIDE DEF h, n
    <2> QED
      BY <1>1, <2>1, Bounded
  <1>4. ASSUME NEW r \in Known
        PROVE  /\ PlaceholderLen[r] \in Nat
               /\ PlaceholderLen[r] = 0 \/ PlaceholderLen[r] >= WidestRune
    BY DemaskerAssumption
  <1>5. PICK C \in Nat : \A r \in Known : PlaceholderLen[r] <= C
    <2> DEFINE m == Cardinality(Known)
    <2>1. m \in Nat /\ ExistsBijection(1..m, Known)
      BY DemaskerAssumption, FS_CardinalityType
    <2> HIDE DEF m
    <2>2. PICK f \in [1..m -> Known] : \A r \in Known : \E k \in 1..m : f[k] = r
      BY <2>1 DEF ExistsBijection, Bijection, Surjection
    <2> DEFINE w == [k \in 1..m |-> PlaceholderLen[f[k]]]
    <2>3. w \in [1..m -> Nat]
      BY <1>4
    <2>4. PICK C \in Nat : \A k \in 1..m : w[k] <= C
      <3> HIDE DEF w
      <3> QED
        BY <2>1, <2>3, Bounded
    <2>5. ASSUME NEW r \in Known PROVE PlaceholderLen[r] <= C
      <3>1. PICK k \in 1..m : f[k] = r
        BY <2>2
      <3>2. w[k] = PlaceholderLen[r]
        BY <3>1
      <3> HIDE DEF w
      <3> QED
        BY <2>4, <3>2
    <2> QED
      BY <2>5
  <1>6. ASSUME NEW x \in forms PROVE x \in Nat /\ (x = 0 \/ x >= WidestRune) /\ x <= C
    BY <1>4, <1>5
  <1>7. Max(T) \in T /\ \A x \in T : x <= Max(T)
    <2>1. T \subseteq Nat /\ T # {}
      <3> HIDE DEF lengths, forms
      <3> QED
        BY <1>2, <1>6
    <2>2. \A x \in T : x <= B + C
      <3>1. \A x \in lengths : x \in Nat /\ x <= B
        <4> HIDE DEF lengths, h
        <4> QED
          BY <1>2, <1>3
      <3> HIDE DEF lengths, forms
      <3> QED
        BY <1>6, <3>1
    <2>3. B + C \in Nat
      OBVIOUS
    <2> HIDE DEF T
    <2> QED
      BY <2>1, <2>2, <2>3, MaxNat
  <1>8. PendingBound(entries, rules) = Max(T)
    BY Zenon DEF PendingBound
  <1>9. ASSUME NEW k \in 1..Len(entries) PROVE Len(entries[k].placeholder) <= Max(T)
    <2>1. Len(entries[k].placeholder) \in lengths
      BY <1>1 DEF ToSet
    <2> HIDE DEF lengths, forms
    <2> QED
      BY <1>7, <2>1
  <1>10. ASSUME NEW r \in rules PROVE PlaceholderLen[r] <= Max(T)
    <2>1. PlaceholderLen[r] \in forms
      OBVIOUS
    <2> HIDE DEF lengths, forms
    <2> QED
      BY <1>7, <2>1
  <1> HIDE DEF lengths, forms
  <1>11. Max(T) \in Nat /\ (Max(T) = 0 \/ Max(T) >= WidestRune)
    BY <1>2, <1>6, <1>7
  <1> HIDE DEF T
  <1> QED
    BY <1>8, <1>9, <1>10, <1>11

\* The entries come from the stream's replacements, and neither a placeholder nor the
\* bound of a recognizer is longer than what is held back.
ConfigFits(in) ==
  /\ cfg.rules = RulesOf(in)
  /\ \A k \in 1..Len(cfg.entries) :
       /\ cfg.entries[k] \in Range(in.replacements) /\ cfg.entries[k].placeholder # <<>>
       /\ Len(cfg.entries[k].placeholder) <= cfg.max_pending
  /\ \A r \in cfg.rules : PlaceholderLen[r] <= cfg.max_pending

LEMMA ConfigOfStream ==
  ASSUME NEW in \in Streams, cfg = make_config(in)
  PROVE  ConfigOK /\ ConfigFits(in)
  <1> DEFINE reps == in.replacements
             es == EntriesOf(reps)
             E == {rep \in Range(reps) : rep.placeholder # <<>>}
  <1>1. /\ in.pinned \in BOOLEAN /\ reps \in Seq(Range(reps))
        /\ \A rep \in Range(reps) :
             /\ Utf8(rep.original) /\ Utf8(JsonEscape(rep.original))
             /\ Utf8(rep.placeholder)
             /\ rep.placeholder # <<>> => Len(rep.placeholder) >= WidestRune
    BY DemaskerAssumption
  <1>2. /\ cfg.entries = es /\ cfg.rules = RulesOf(in)
        /\ cfg.max_pending = PendingBound(es, RulesOf(in))
    BY Zenon DEF make_config
  <1>3. es \in Seq(E)
    BY <1>1, Entries
  <1>4. \A e \in E : UsableEntry(e)
    BY <1>1 DEF UsableEntry
  <1>5. \A e \in E : Len(e.placeholder) \in Nat /\ Len(e.placeholder) >= WidestRune
    <2> SUFFICES ASSUME NEW e \in E
                 PROVE  Len(e.placeholder) \in Nat /\ Len(e.placeholder) >= WidestRune
      OBVIOUS
    <2>1. e.placeholder \in Seq(Byte) /\ Len(e.placeholder) >= WidestRune
      BY <1>4 DEF UsableEntry, Utf8
    <2> QED
      BY <2>1, LenProperties
  <1> HIDE DEF es, E
  <1>6. RulesOf(in) \subseteq Known
    BY <1>1 DEF RulesOf
  <1>7. /\ cfg.max_pending \in Nat
        /\ cfg.max_pending = 0 \/ cfg.max_pending >= WidestRune
        /\ \A k \in 1..Len(es) : Len(es[k].placeholder) <= cfg.max_pending
        /\ \A r \in cfg.rules : PlaceholderLen[r] <= cfg.max_pending
    BY <1>2, <1>3, <1>5, <1>6, BoundOf
  <1>8. Len(es) \in Nat /\ \A k \in 1..Len(es) : UsableEntry(es[k]) /\ es[k] \in E
    BY <1>3, <1>4, LenProperties, ElementOfSeq
  <1>9. ConfigOK
    BY <1>2, <1>6, <1>7, <1>8 DEF ConfigOK
  <1>10. \A e \in E : e \in Range(reps) /\ e.placeholder # <<>>
    BY DEF E
  <1>11. ConfigFits(in)
    BY <1>2, <1>7, <1>8, <1>10 DEF ConfigFits
  <1> QED
    BY <1>9, <1>11
-----------------------------------------------------------------------------
(* The inductive invariant.                                                *)

LEMMA FirstByte ==
  ASSUME NEW s, NEW b, s # <<>>, Reads(s, 0, b)
  PROVE  is_rune_start(Head(s))
  <1>1. s \in Seq(Byte) /\ Len(s) \in Nat /\ Len(s) # 0
    BY LenProperties, EmptySeq DEF Reads
  <1>2. 1 \in 1..Len(s) /\ 1 - 1 = 0
    BY <1>1
  <1>3. PICK left : Decodes(s, left) /\ left[0] = 0
    BY Zenon DEF Reads
  <1>4. ~is_rune_start(s[1]) => left[0] > 0
    BY <1>2, <1>3 DEF Decodes
  <1>5. is_rune_start(s[1])
    BY <1>3, <1>4
  <1> QED
    BY <1>1, <1>5

LEMMA LastByte ==
  ASSUME NEW s, NEW a, s # <<>>, Reads(s, a, 0), NEW t \in Seq(Byte)
  PROVE  RuneBytes[Last(t \o s)] <= 1
  <1> DEFINE n == Len(s)
  <1>1. s \in Seq(Byte) /\ n \in Nat /\ n # 0
    BY LenProperties, EmptySeq DEF Reads
  <1>2. n \in 1..n
    BY <1>1
  <1>3. PICK left : Decodes(s, left) /\ left[n] = 0
    BY Zenon DEF Reads
  <1>4. s[n] \in Byte /\ RuneBytes[s[n]] \in 0..WidestRune /\ WidestRune \in 1..4
    BY <1>1, <1>2, ElementOfSeq, RuneFacts
  <1>5. is_rune_start(s[n]) => 0 = RuneBytes[s[n]] - 1
    BY <1>2, <1>3 DEF Decodes
  <1>6. RuneBytes[s[n]] <= 1
    BY <1>4, <1>5 DEF is_rune_start
  <1>7. Last(t \o s) = s[n]
    <2> DEFINE m == Len(t)
               u == t \o s
    <2>1. m \in Nat
      BY LenProperties
    <2>2. Len(u) = m + n /\ \A i \in 1..(m + n) : u[i] = IF i <= m THEN t[i] ELSE s[i - m]
      BY <1>1, ConcatProperties
    <2> HIDE DEF u, m, n
    <2>3. m + n \in 1..(m + n) /\ ~(m + n <= m) /\ (m + n) - m = n
      BY <1>1, <2>1
    <2>4. u[Len(u)] = s[n]
      BY <2>2, <2>3
    <2> QED
      BY <2>4 DEF Last, u
  <1> QED
    BY <1>6, <1>7

\* The bytes of the response that were not handed over yet.
Rest == SubSeq(stream.bytes, sent + 1, Len(stream.bytes))

\* What is held back and what is still to come go on where the last rune ends.
\* While no call failed they start at a boundary, unless nothing is ever held
\* back.
Continues ==
  \E a, b \in Left :
    /\ Reads(pending, a, b) /\ Reads(Rest, b, 0)
    /\ ~faulted /\ cfg.max_pending # 0
         => a = 0 /\ (emitted # <<>> => RuneBytes[Last(emitted)] <= 1)

HInv ==
  /\ stream \in Streams /\ ConfigOK
  /\ sent \in 0..Len(stream.bytes) /\ emitted \in Seq(Byte)
  /\ ~closed => Continues
  /\ closed \/ cfg.max_pending = 0 => pending = <<>>
  /\ HoldBackBounded

LEMMA InitHInv == Init => HInv
  <1> SUFFICES ASSUME Init PROVE HInv
    OBVIOUS
  <1>1. /\ stream \in Streams /\ cfg = make_config(stream)
        /\ sent = 0 /\ pending = <<>> /\ emitted = <<>> /\ closed = FALSE
    BY DEF Init
  <1>2. ConfigOK
    BY <1>1, ConfigOfStream
  <1>3. Utf8(stream.bytes)
    BY <1>1, DemaskerAssumption
  <1>4. stream.bytes \in Seq(Byte) /\ Len(stream.bytes) \in Nat
    BY <1>3, LenProperties DEF Utf8
  <1>5. Rest = stream.bytes
    <2>1. sent + 1 = 1
      BY <1>1
    <2> QED
      BY <1>4, <2>1, SubSeqFull DEF Rest
  <1>6. 0 \in Left
    BY RuneFacts DEF Left
  <1>7. Reads(pending, 0, 0) /\ Reads(Rest, 0, 0)
    BY <1>1, <1>3, <1>5, <1>6, ReadsNothing, Utf8Reads
  <1>8. Continues
    BY <1>1, <1>6, <1>7 DEF Continues
  <1>9. HoldBackBounded
    <2>1. Len(pending) = 0
      BY <1>1, EmptySeq
    <2>2. cfg.max_pending \in Nat
      BY <1>2 DEF ConfigOK
    <2> QED
      BY <2>1, <2>2, RuneFacts DEF HoldBackBounded
  <1>10. emitted \in Seq(Byte)
    BY <1>1, EmptySeq
  <1>11. sent \in 0..Len(stream.bytes)
    BY <1>1, <1>4
  <1> QED
    BY <1>1, <1>2, <1>8, <1>9, <1>10, <1>11 DEF HInv

\* A chunk cuts what is still to come in two.
LEMMA NextChunk ==
  ASSUME stream \in Streams, sent \in 0..Len(stream.bytes), ConfigOK, Continues,
         NEW n \in 0..(Len(stream.bytes) - sent)
  PROVE  /\ sent + n \in 0..Len(stream.bytes)
         /\ \E a, c \in Left :
              /\ Reads(pending \o Take(n), a, c)
              /\ Reads(SubSeq(stream.bytes, sent + n + 1, Len(stream.bytes)), c, 0)
              /\ ~faulted /\ cfg.max_pending # 0
                   => a = 0 /\ (emitted # <<>> => RuneBytes[Last(emitted)] <= 1)
  <1> DEFINE s == stream.bytes
             i == sent + 1
             j == sent + n + 1
             t == SubSeq(s, j, Len(s))
  <1>1. s \in Seq(Byte) /\ Len(s) \in Nat
    <2>1. Utf8(s)
      BY DemaskerAssumption
    <2> QED
      BY <2>1, LenProperties DEF Utf8
  <1>2. /\ i \in 1..(Len(s) + 1) /\ j \in i..(Len(s) + 1) /\ j - 1 = sent + n
        /\ sent + n \in 0..Len(s)
    BY <1>1
  <1> HIDE DEF i, j, s
  <1>3. /\ SubSeq(s, i, j - 1) \in Seq(Byte) /\ t \in Seq(Byte)
        /\ SubSeq(s, i, Len(s)) = SubSeq(s, i, j - 1) \o t
    BY <1>1, <1>2, CutAt
  <1>4. Take(n) = SubSeq(s, i, j - 1) /\ Rest = SubSeq(s, i, Len(s))
    BY <1>2 DEF Take, Rest, i, s
  <1> HIDE DEF t
  <1>5. PICK a \in Left, b \in Left :
          /\ Reads(pending, a, b) /\ Reads(Rest, b, 0)
          /\ ~faulted /\ cfg.max_pending # 0
               => a = 0 /\ (emitted # <<>> => RuneBytes[Last(emitted)] <= 1)
    BY DEF Continues
  <1>6. PICK c \in Left : Reads(Take(n), b, c) /\ Reads(t, c, 0)
    BY <1>3, <1>4, <1>5, ReadsSplit
  <1>7. Reads(pending \o Take(n), a, c)
    BY <1>5, <1>6, ReadsConcat
  <1> QED
    BY <1>2, <1>5, <1>6, <1>7 DEF t, j, s

LEMMA ChunkSize ==
  ASSUME stream \in Streams, sent \in 0..Len(stream.bytes), NEW n \in Chunks
  PROVE  n \in 0..(Len(stream.bytes) - sent)
  <1> DEFINE left == Len(stream.bytes) - sent
             T == {MaxChunk, left}
  <1>1. left \in Nat /\ MaxChunk \in Nat
    <2>1. Utf8(stream.bytes) /\ MaxChunk \in Nat
      BY DemaskerAssumption
    <2>2. Len(stream.bytes) \in Nat
      BY <2>1, LenProperties DEF Utf8
    <2> QED
      BY <2>1, <2>2
  <1> HIDE DEF left
  <1>2. Min(T) \in T /\ \A y \in T : Min(T) <= y
    <2>1. T \subseteq Nat /\ T # {}
      BY <1>1
    <2> HIDE DEF T
    <2> QED
      BY <2>1, MinNat
  <1>3. Min(T) \in Nat /\ Min(T) <= left
    BY <1>1, <1>2
  <1>4. n \in 0..Min(T)
    BY DEF Chunks, left
  <1> HIDE DEF T
  <1>5. n \in 0..left
    BY <1>1, <1>3, <1>4
  <1> QED
    BY <1>5 DEF left

LEMMA ChunkStep ==
  ASSUME HInv, NEW n \in Chunks, DemaskChunk(n)
  PROVE  HInv'
  <1>1. /\ stream \in Streams /\ ConfigOK /\ sent \in 0..Len(stream.bytes)
        /\ emitted \in Seq(Byte) /\ ~closed /\ Continues
    BY DEF HInv, DemaskChunk
  <1>2. /\ stream' = stream /\ cfg' = cfg /\ faulted' = faulted /\ closed' = closed
        /\ sent' = sent + n
    BY DEF DemaskChunk
  <1> DEFINE M == cfg.max_pending
             t == SubSeq(stream.bytes, sent + n + 1, Len(stream.bytes))
  <1>3. n \in 0..(Len(stream.bytes) - sent)
    BY <1>1, ChunkSize
  <1>4. PICK a \in Left, c \in Left :
          /\ Reads(pending \o Take(n), a, c) /\ Reads(t, c, 0)
          /\ ~faulted /\ M # 0 => a = 0 /\ (emitted # <<>> => RuneBytes[Last(emitted)] <= 1)
    BY <1>1, <1>3, NextChunk
  <1>5. PICK text \in Demasked(pending \o Take(n)) :
          /\ emitted' = emitted \o SubSeq(text, 1, SafeEnd(text))
          /\ pending' = SubSeq(text, SafeEnd(text) + 1, Len(text))
    BY DEF DemaskChunk
  <1>6. Reads(text, a, c)
    BY <1>1, <1>4, <1>5, DemaskedReads
  <1> DEFINE e == SafeEnd(text)
             p == SubSeq(text, 1, e)
  <1>7. /\ e \in 0..Len(text) /\ Len(text) - e < M + WidestRune
        /\ M = 0 => e = Len(text)
        /\ \E b \in Left : /\ Reads(p, a, b) /\ Reads(pending', b, c)
                           /\ a = 0 /\ M # 0 => b = 0
    BY <1>1, <1>5, <1>6, HoldBack
  <1>8. PICK b \in Left : Reads(p, a, b) /\ Reads(pending', b, c) /\ (a = 0 /\ M # 0 => b = 0)
    BY <1>7
  <1>9. text \in Seq(Byte) /\ Len(text) \in Nat /\ p \in Seq(Byte)
    BY <1>6, <1>8, LenProperties DEF Reads
  <1>10. emitted' = emitted \o p /\ emitted' \in Seq(Byte)
    BY <1>1, <1>5, <1>9, ConcatProperties
  <1>11. /\ Len(pending') = Len(text) - e
         /\ M = 0 => pending' = <<>>
    <2> DEFINE k == Len(text)
    <2>1. k \in Nat /\ e \in 0..k
      BY <1>7, <1>9
    <2> HIDE DEF e, k
    <2>2. e + 1 \in Int /\ k \in Int /\ \A i \in (e+1)..k : i \in 1..k
      BY <2>1
    <2>3. \A i \in (e+1)..k : text[i] \in Byte
      BY <1>9, <2>2, ElementOfSeq DEF k
    <2>4. Len(SubSeq(text, e + 1, k)) = IF e + 1 <= k THEN k - (e + 1) + 1 ELSE 0
      BY <2>2, <2>3, SubSeqProperties
    <2>5. Len(SubSeq(text, e + 1, k)) = k - e
      BY <2>1, <2>4
    <2>6. M = 0 => SubSeq(text, e + 1, k) = <<>>
      <3> SUFFICES ASSUME M = 0 PROVE SubSeq(text, e + 1, k) = <<>>
        OBVIOUS
      <3>1. e = k
        BY <1>7 DEF k
      <3>2. k < e + 1
        BY <2>1, <3>1
      <3> QED
        BY <2>2, <3>2, SubSeqEmpty
    <2> QED
      BY <1>5, <2>5, <2>6 DEF e, k
  <1>12. (sent \in 0..Len(stream.bytes))'
    BY <1>1, <1>2, <1>3, NextChunk
  <1>13. Rest' = t
    BY <1>2 DEF Rest
  <1>14. HoldBackBounded'
    BY <1>2, <1>7, <1>11 DEF HoldBackBounded, WidestRune
  <1> HIDE DEF t, p, e
  <1>15. ASSUME ~faulted, M # 0
         PROVE  b = 0 /\ (emitted' # <<>> => RuneBytes[Last(emitted')] <= 1)
    <2>1. b = 0
      BY <1>4, <1>8, <1>15
    <2>2. CASE p = <<>>
      <3>1. emitted' = emitted
        BY <1>1, <1>10, <2>2, ConcatEmptySeq
      <3> QED
        BY <1>4, <1>15, <2>1, <3>1
    <2>3. CASE p # <<>>
      <3>1. RuneBytes[Last(emitted \o p)] <= 1
        BY <1>1, <1>8, <2>1, <2>3, LastByte
      <3> QED
        BY <1>10, <2>1, <3>1
    <2> QED
      BY <2>2, <2>3
  <1>16. Continues'
    <2>1. ~faulted' /\ cfg'.max_pending # 0
            => b = 0 /\ (emitted' # <<>> => RuneBytes[Last(emitted')] <= 1)
      BY <1>2, <1>15
    <2>2. Reads(Rest', c, 0)
      BY <1>4, <1>13
    <2> QED
      BY <1>8, <2>1, <2>2, Zenon DEF Continues
  <1>17. ConfigOK'
    BY <1>1, <1>2 DEF ConfigOK
  <1> QED
    BY <1>1, <1>2, <1>10, <1>11, <1>12, <1>14, <1>16, <1>17 DEF HInv

LEMMA ErrorStep ==
  ASSUME HInv, NEW n \in Chunks, DemaskError(n)
  PROVE  HInv'
  <1>1. /\ stream \in Streams /\ ConfigOK /\ sent \in 0..Len(stream.bytes)
        /\ emitted \in Seq(Byte) /\ ~closed /\ Continues
    BY DEF HInv, DemaskError
  <1>2. /\ stream' = stream /\ cfg' = cfg /\ faulted' = TRUE /\ closed' = closed
        /\ sent' = sent + n /\ pending' = <<>>
        /\ emitted' = emitted \o apply_exact(pending \o Take(n))
    BY DEF DemaskError
  <1> DEFINE t == SubSeq(stream.bytes, sent + n + 1, Len(stream.bytes))
  <1>3. n \in 0..(Len(stream.bytes) - sent)
    BY <1>1, ChunkSize
  <1>4. PICK a \in Left, c \in Left : Reads(pending \o Take(n), a, c) /\ Reads(t, c, 0)
    BY <1>1, <1>3, NextChunk
  <1>5. Reads(apply_exact(pending \o Take(n)), a, c)
    BY <1>1, <1>4, ExactReads
  <1>6. emitted' \in Seq(Byte)
    BY <1>1, <1>2, <1>5, ConcatProperties DEF Reads
  <1>7. Reads(<<>>, c, c)
    BY ReadsNothing
  <1>8. Rest' = t
    BY <1>2 DEF Rest
  <1>9. (sent \in 0..Len(stream.bytes))'
    BY <1>1, <1>2, <1>3, NextChunk
  <1>10. HoldBackBounded'
    <2>1. Len(pending') = 0 /\ cfg.max_pending \in Nat /\ WidestRune \in 1..4
      BY <1>1, <1>2, EmptySeq, RuneFacts DEF ConfigOK
    <2> QED
      BY <1>2, <2>1 DEF HoldBackBounded, WidestRune
  <1> HIDE DEF t
  <1>11. Continues'
    BY <1>2, <1>4, <1>7, <1>8 DEF Continues
  <1>12. ConfigOK'
    BY <1>1, <1>2 DEF ConfigOK
  <1> QED
    BY <1>1, <1>2, <1>6, <1>9, <1>10, <1>11, <1>12 DEF HInv

LEMMA FlushStep ==
  ASSUME HInv, Flush
  PROVE  HInv'
  <1>1. /\ stream \in Streams /\ ConfigOK /\ sent \in 0..Len(stream.bytes)
        /\ emitted \in Seq(Byte) /\ ~closed /\ Continues
    BY DEF HInv, Flush
  <1> DEFINE n == Len(stream.bytes) - sent
  <1>2. /\ stream' = stream /\ cfg' = cfg /\ closed' = TRUE
        /\ sent' = Len(stream.bytes) /\ pending' = <<>>
    BY DEF Flush
  <1>3. PICK text \in Demasked(pending \o Take(n)) : emitted' = emitted \o text
    BY DEF Flush
  <1>4. Len(stream.bytes) \in Nat
    <2>1. Utf8(stream.bytes)
      BY <1>1, DemaskerAssumption
    <2> QED
      BY <2>1, LenProperties DEF Utf8
  <1>5. n \in 0..(Len(stream.bytes) - sent)
    BY <1>1, <1>4
  <1> HIDE DEF n
  <1>6. PICK a \in Left, c \in Left : Reads(pending \o Take(n), a, c)
    BY <1>1, <1>5, NextChunk
  <1>7. Reads(text, a, c)
    BY <1>1, <1>3, <1>6, DemaskedReads
  <1>8. emitted' \in Seq(Byte)
    BY <1>1, <1>3, <1>7, ConcatProperties DEF Reads
  <1>9. HoldBackBounded'
    <2>1. Len(pending') = 0 /\ cfg.max_pending \in Nat /\ WidestRune \in 1..4
      BY <1>1, <1>2, EmptySeq, RuneFacts DEF ConfigOK
    <2> QED
      BY <1>2, <2>1 DEF HoldBackBounded, WidestRune
  <1>10. (sent \in 0..Len(stream.bytes))'
    BY <1>2, <1>4
  <1>11. ConfigOK'
    BY <1>1, <1>2 DEF ConfigOK
  <1> QED
    BY <1>1, <1>2, <1>8, <1>9, <1>10, <1>11 DEF HInv

LEMMA StepHInv == HInv /\ [Next]_vars => HInv'
  <1> SUFFICES ASSUME HInv, [Next]_vars PROVE HInv'
    OBVIOUS
  <1>1. ASSUME NEW n \in Chunks, DemaskChunk(n) PROVE HInv'
    BY <1>1, ChunkStep
  <1>2. ASSUME NEW n \in Chunks, DemaskError(n) PROVE HInv'
    BY <1>2, ErrorStep
  <1>3. CASE Flush
    BY <1>3, FlushStep
  <1>4. CASE UNCHANGED vars
    BY <1>4 DEF vars, HInv, ConfigOK, Continues, Rest, HoldBackBounded
  <1>5. CASE Closed
    BY <1>4, <1>5 DEF Closed
  <1> QED
    BY <1>1, <1>2, <1>3, <1>4, <1>5 DEF Next
-----------------------------------------------------------------------------
(* Rewriting a text word by word, in terms of its bytes.                   *)

\* Two texts in a row.
s \bullet t == s \o t

\* w stands in t from the i-th byte on.
StandsAt(t, i, w) ==
  /\ i \in 1..Len(t) /\ i + Len(w) - 1 <= Len(t)
  /\ \A k \in 1..Len(w) : t[i + k - 1] = w[k]

\* Words that are not empty, and what is written for each.
Glossary(W, V) == \A w \in W : w \in Seq(Byte) /\ w # <<>> /\ V[w] \in Seq(Byte)

\* g[i] is t from the i-th byte on, with the words replaced.
Rewrites(W, V, t, g) ==
  /\ t \in Seq(Byte) /\ \A i \in 1..(Len(t) + 1) : g[i] \in Seq(Byte)
  /\ g[Len(t) + 1] = <<>>
  /\ \A i \in 1..Len(t) :
       /\ \A w \in W : StandsAt(t, i, w) => g[i] = V[w] \bullet g[i + Len(w)]
       /\ (\A w \in W : ~StandsAt(t, i, w)) => g[i] = <<t[i]>> \bullet g[i + 1]

\* The bytes of a text.
LEMMA TextFacts ==
  ASSUME NEW s \in Seq(Byte)
  PROVE  /\ Len(s) \in Nat /\ \A i \in 1..Len(s) : s[i] \in Byte
         /\ s # <<>> <=> Len(s) >= 1
  BY LenProperties, ElementOfSeq, EmptySeq

\* The bytes of two texts in a row.
LEMMA ConcatFacts ==
  ASSUME NEW s \in Seq(Byte), NEW t \in Seq(Byte)
  PROVE  /\ s \bullet t \in Seq(Byte) /\ Len(s) \in Nat /\ Len(t) \in Nat
         /\ Len(s \bullet t) = Len(s) + Len(t)
         /\ \A i \in 1..Len(s) : (s \bullet t)[i] = s[i]
         /\ \A i \in 1..Len(t) : (s \bullet t)[Len(s) + i] = t[i]
  <1> DEFINE u == s \o t
             m == Len(s)
             n == Len(t)
  <1>1. m \in Nat /\ n \in Nat
    BY LenProperties
  <1>2. /\ u \in Seq(Byte) /\ Len(u) = m + n
        /\ \A i \in 1..(m + n) : u[i] = IF i <= m THEN s[i] ELSE t[i - m]
    BY ConcatProperties
  <1> HIDE DEF u, m, n
  <1>3. \A i \in 1..m : u[i] = s[i]
    BY <1>1, <1>2
  <1>4. \A i \in 1..n : u[m + i] = t[i]
    BY <1>1, <1>2
  <1> QED
    BY <1>1, <1>2, <1>3, <1>4 DEF u, m, n, \bullet

\* Two texts are equal when their bytes are.
LEMMA SameText ==
  ASSUME NEW s \in Seq(Byte), NEW t \in Seq(Byte), Len(s) = Len(t),
         \A i \in 1..Len(s) : s[i] = t[i]
  PROVE  s = t
  BY SeqEqual

\* A row of texts is one text, however it is grouped.
LEMMA Assoc ==
  ASSUME NEW s \in Seq(Byte), NEW t \in Seq(Byte), NEW u \in Seq(Byte)
  PROVE  (s \bullet t) \bullet u = s \bullet (t \bullet u)
  BY ConcatAssociative, SMTT(60) DEF \bullet

\* The empty text adds nothing.
LEMMA ConcatEmpty ==
  ASSUME NEW s \in Seq(Byte)
  PROVE  s \bullet <<>> = s /\ <<>> \bullet s = s
  BY ConcatEmptySeq DEF \bullet

\* A word that ends within the first of two texts stands in that text.
LEMMA StandsLeft ==
  ASSUME NEW s \in Seq(Byte), NEW t \in Seq(Byte), NEW w \in Seq(Byte), w # <<>>, NEW i
  PROVE  i + Len(w) - 1 <= Len(s) /\ i \in Nat =>
           (StandsAt(s \bullet t, i, w) <=> StandsAt(s, i, w))
  <1> DEFINE u == s \bullet t
  <1>1. /\ Len(s) \in Nat /\ Len(t) \in Nat /\ Len(u) = Len(s) + Len(t)
        /\ \A k \in 1..Len(s) : u[k] = s[k]
    BY ConcatFacts
  <1>2. Len(w) \in Nat /\ Len(w) >= 1
    BY TextFacts
  <1> HIDE DEF u
  <1> SUFFICES ASSUME i + Len(w) - 1 <= Len(s), i \in Nat
               PROVE  StandsAt(u, i, w) <=> StandsAt(s, i, w)
    BY DEF u
  <1>3. i >= 1 => \A k \in 1..Len(w) : i + k - 1 \in 1..Len(s)
    BY <1>1, <1>2
  <1>4. i \in 1..Len(u) /\ i + Len(w) - 1 <= Len(u) <=> i \in 1..Len(s)
    BY <1>1, <1>2
  <1>5. StandsAt(u, i, w) => StandsAt(s, i, w)
    <2> SUFFICES ASSUME StandsAt(u, i, w) PROVE StandsAt(s, i, w)
      OBVIOUS
    <2>1. i \in 1..Len(u) /\ \A k \in 1..Len(w) : u[i + k - 1] = w[k]
      BY DEF StandsAt
    <2>2. i >= 1
      BY <2>1
    <2> QED
      BY <1>1, <1>3, <1>4, <2>1, <2>2 DEF StandsAt
  <1>6. StandsAt(s, i, w) => StandsAt(u, i, w)
    <2> SUFFICES ASSUME StandsAt(s, i, w) PROVE StandsAt(u, i, w)
      OBVIOUS
    <2>1. i \in 1..Len(s) /\ \A k \in 1..Len(w) : s[i + k - 1] = w[k]
      BY DEF StandsAt
    <2>2. i >= 1
      BY <2>1
    <2>3. i + Len(w) - 1 <= Len(u)
      BY <1>1, <1>2
    <2> QED
      BY <1>1, <1>3, <1>4, <2>1, <2>2, <2>3 DEF StandsAt
  <1> QED
    BY <1>5, <1>6

\* A word that starts within the second of two texts stands in that text.
LEMMA StandsRight ==
  ASSUME NEW s \in Seq(Byte), NEW t \in Seq(Byte), NEW w \in Seq(Byte), w # <<>>,
         NEW i \in Nat, i >= 1
  PROVE  StandsAt(s \bullet t, Len(s) + i, w) <=> StandsAt(t, i, w)
  <1> DEFINE u == s \bullet t
             m == Len(s)
  <1>1. /\ m \in Nat /\ Len(t) \in Nat /\ Len(u) = m + Len(t)
        /\ \A k \in 1..Len(t) : u[m + k] = t[k]
    BY ConcatFacts
  <1>2. Len(w) \in Nat /\ Len(w) >= 1
    BY TextFacts
  <1> HIDE DEF u, m
  <1>3. m + i \in 1..Len(u) <=> i \in 1..Len(t)
    BY <1>1
  <1>4. (m + i) + Len(w) - 1 <= Len(u) <=> i + Len(w) - 1 <= Len(t)
    BY <1>1, <1>2
  <1>5. ASSUME i + Len(w) - 1 <= Len(t), NEW k \in 1..Len(w)
        PROVE  u[(m + i) + k - 1] = t[i + k - 1]
    <2>1. i + k - 1 \in 1..Len(t) /\ (m + i) + k - 1 = m + (i + k - 1)
      BY <1>1, <1>2, <1>5
    <2> QED
      BY <1>1, <2>1
  <1>6. StandsAt(u, m + i, w) <=> StandsAt(t, i, w)
    BY <1>3, <1>4, <1>5 DEF StandsAt
  <1> QED
    BY <1>6 DEF u, m

\* No word lies across the cut between s and t.
CleanCut(W, s, t) ==
  \A w \in W, i \in 1..Len(s) : StandsAt(s \bullet t, i, w) => i + Len(w) - 1 <= Len(s)

\* A text rewritten in two parts.
LEMMA RewriteParts ==
  ASSUME NEW W, NEW V, Glossary(W, V), NEW s \in Seq(Byte), NEW t \in Seq(Byte),
         NEW g, Rewrites(W, V, s \bullet t, g), NEW f, Rewrites(W, V, s, f),
         NEW h, Rewrites(W, V, t, h), CleanCut(W, s, t)
  PROVE  g[1] = f[1] \bullet h[1]
  <1> DEFINE u == s \bullet t
             m == Len(s)
             n == Len(t)
             T == 1..(n + 1)
             S == 1..(m + 1)
             after == [i \in T |-> n + 1 - i]
             before == [i \in S |-> m + 1 - i]
             GoodT == {i \in T : g[m + i] = h[i]}
             GoodS == {i \in S : g[i] = f[i] \bullet h[1]}
  <1>1. /\ u \in Seq(Byte) /\ m \in Nat /\ n \in Nat /\ Len(u) = m + n
        /\ \A i \in 1..m : u[i] = s[i]
        /\ \A i \in 1..n : u[m + i] = t[i]
    BY ConcatFacts
  <1>2. \A w \in W : /\ w \in Seq(Byte) /\ w # <<>> /\ Len(w) \in Nat /\ Len(w) >= 1
                     /\ V[w] \in Seq(Byte)
    BY TextFacts DEF Glossary
  <1>3. \A w \in W, i \in T : StandsAt(u, m + i, w) <=> StandsAt(t, i, w)
    <2> SUFFICES ASSUME NEW w \in W, NEW i \in T
                 PROVE  StandsAt(u, m + i, w) <=> StandsAt(t, i, w)
      OBVIOUS
    <2>1. i \in Nat /\ i >= 1
      BY <1>1
    <2> QED
      BY <1>2, <2>1, StandsRight
  <1>4. \A w \in W, i \in 1..m :
          StandsAt(u, i, w) <=> StandsAt(s, i, w)
    <2> SUFFICES ASSUME NEW w \in W, NEW i \in 1..m
                 PROVE  StandsAt(u, i, w) <=> StandsAt(s, i, w)
      OBVIOUS
    <2>1. StandsAt(s, i, w) => i + Len(w) - 1 <= m
      BY DEF StandsAt
    <2>2. StandsAt(u, i, w) => i + Len(w) - 1 <= m
      BY DEF CleanCut
    <2>3. i \in Nat
      BY <1>1
    <2> QED
      BY <1>2, <2>1, <2>2, <2>3, StandsLeft
  <1> HIDE DEF u, m, n
  <1>5. Rewrites(W, V, u, g) /\ Rewrites(W, V, s, f) /\ Rewrites(W, V, t, h)
    BY DEF u
  <1>6. ASSUME NEW i \in T, \A j \in T : after[j] < after[i] => j \in GoodT
        PROVE  i \in GoodT
    <2>1. CASE i = n + 1
      <3>1. m + i = Len(u) + 1
        BY <1>1, <2>1
      <3>2. g[m + i] = <<>> /\ h[i] = <<>>
        BY <1>5, <2>1, <3>1 DEF Rewrites, n
      <3> QED
        BY <3>2
    <2>2. CASE i # n + 1
      <3>1. i \in 1..n /\ m + i \in 1..Len(u) /\ u[m + i] = t[i] /\ (m + i) + 1 = m + (i + 1)
        BY <1>1, <2>2
      <3>2. \A j \in T : j > i => g[m + j] = h[j]
        <4> SUFFICES ASSUME NEW j \in T, j > i PROVE g[m + j] = h[j]
          OBVIOUS
        <4>1. after[j] < after[i]
          BY <1>1
        <4> QED
          BY <1>6, <4>1
      <3>3. CASE \A w \in W : ~StandsAt(t, i, w)
        <4>1. h[i] = <<t[i]>> \bullet h[i + 1]
          BY <1>5, <3>1, <3>3 DEF Rewrites, n
        <4>2. g[m + i] = <<u[m + i]>> \bullet g[(m + i) + 1]
          BY <1>3, <1>5, <3>1, <3>3 DEF Rewrites
        <4>3. i + 1 \in T /\ i + 1 > i
          BY <1>1, <3>1, SMTT(60)
        <4> QED
          BY <3>1, <3>2, <4>1, <4>2, <4>3
      <3>4. ASSUME NEW w \in W, StandsAt(t, i, w) PROVE i \in GoodT
        <4>1. h[i] = V[w] \bullet h[i + Len(w)]
          BY <1>5, <3>1, <3>4 DEF Rewrites, n
        <4>2. g[m + i] = V[w] \bullet g[(m + i) + Len(w)]
          BY <1>3, <1>5, <3>1, <3>4 DEF Rewrites
        <4>3. i + Len(w) - 1 <= n
          BY <3>4 DEF StandsAt, n
        <4>4. i + Len(w) \in T /\ i + Len(w) > i /\ (m + i) + Len(w) = m + (i + Len(w))
          BY <1>1, <1>2, <3>1, <4>3
        <4> QED
          BY <3>2, <4>1, <4>2, <4>4
      <3> QED
        BY <3>3, <3>4
    <2> QED
      BY <2>1, <2>2
  <1>7. T \subseteq GoodT
    <2>1. after \in [T -> Nat]
      BY <1>1
    <2> HIDE DEF T, GoodT, after
    <2> QED
      BY <1>6, <2>1, RankInduction
  <1>8. g[m + 1] = h[1]
    BY <1>1, <1>7
  <1>9. h[1] \in Seq(Byte)
    <2>1. 1 \in 1..(n + 1)
      BY <1>1
    <2> QED
      BY <1>5, <2>1 DEF Rewrites, n
  <1>10. ASSUME NEW i \in S, \A j \in S : before[j] < before[i] => j \in GoodS
         PROVE  i \in GoodS
    <2>1. CASE i = m + 1
      <3>1. f[i] = <<>>
        BY <1>5, <2>1 DEF Rewrites, m
      <3> QED
        BY <1>8, <1>9, <2>1, <3>1, ConcatEmpty
    <2>2. CASE i # m + 1
      <3>1. i \in 1..m /\ i \in 1..Len(u) /\ u[i] = s[i]
        BY <1>1, <2>2
      <3>2. \A j \in S : j > i => g[j] = f[j] \bullet h[1] /\ f[j] \in Seq(Byte)
        <4> SUFFICES ASSUME NEW j \in S, j > i PROVE g[j] = f[j] \bullet h[1] /\ f[j] \in Seq(Byte)
          OBVIOUS
        <4>1. before[j] < before[i]
          BY <1>1
        <4>2. f[j] \in Seq(Byte)
          BY <1>5 DEF Rewrites, m
        <4> QED
          BY <1>10, <4>1, <4>2
      <3>3. CASE \A w \in W : ~StandsAt(s, i, w)
        <4>1. f[i] = <<s[i]>> \bullet f[i + 1]
          BY <1>5, <3>1, <3>3 DEF Rewrites, m
        <4>2. g[i] = <<u[i]>> \bullet g[i + 1]
          BY <1>4, <1>5, <3>1, <3>3 DEF Rewrites
        <4>3. i + 1 \in S /\ i + 1 > i
          BY <1>1, <3>1, SMTT(60)
        <4>4. <<s[i]>> \in Seq(Byte)
          <5>1. s[i] \in Byte
            BY <3>1, TextFacts DEF m
          <5> QED
            BY <5>1
        <4>5. g[i + 1] = f[i + 1] \bullet h[1] /\ f[i + 1] \in Seq(Byte)
          BY <3>2, <4>3
        <4>6. (<<s[i]>> \bullet f[i + 1]) \bullet h[1] = <<s[i]>> \bullet (f[i + 1] \bullet h[1])
          <5> DEFINE a == <<s[i]>>
                     b == f[i + 1]
                     c == h[1]
          <5>1. a \in Seq(Byte) /\ b \in Seq(Byte) /\ c \in Seq(Byte)
            BY <1>9, <4>4, <4>5
          <5> HIDE DEF a, b, c
          <5>2. (a \bullet b) \bullet c = a \bullet (b \bullet c)
            BY <5>1, Assoc
          <5> QED
            BY <5>2 DEF a, b, c
        <4> QED
          BY <3>1, <4>1, <4>2, <4>5, <4>6
      <3>4. ASSUME NEW w \in W, StandsAt(s, i, w) PROVE i \in GoodS
        <4>1. f[i] = V[w] \bullet f[i + Len(w)]
          BY <1>5, <3>1, <3>4 DEF Rewrites, m
        <4>2. g[i] = V[w] \bullet g[i + Len(w)]
          BY <1>4, <1>5, <3>1, <3>4 DEF Rewrites
        <4>3. i + Len(w) - 1 <= m
          BY <3>4 DEF StandsAt, m
        <4>4. i + Len(w) \in S /\ i + Len(w) > i
          BY <1>1, <1>2, <3>1, <4>3, SMTT(60)
        <4> DEFINE j == i + Len(w)
        <4>5. g[j] = f[j] \bullet h[1] /\ f[j] \in Seq(Byte) /\ V[w] \in Seq(Byte)
          BY <1>2, <3>2, <4>4
        <4>6. (V[w] \bullet f[j]) \bullet h[1] = V[w] \bullet (f[j] \bullet h[1])
          BY <1>9, <4>5, Assoc
        <4> QED
          BY <4>1, <4>2, <4>5, <4>6
      <3> QED
        BY <3>3, <3>4
    <2> QED
      BY <2>1, <2>2
  <1>11. S \subseteq GoodS
    <2>1. before \in [S -> Nat]
      BY <1>1
    <2> HIDE DEF S, GoodS, before
    <2> QED
      BY <1>10, <2>1, RankInduction
  <1>12. 1 \in S
    BY <1>1
  <1> QED
    BY <1>11, <1>12
\* A pass that rewrites every text.
Rewriter(W, V, R) ==
  \A t \in Seq(Byte) : R[t] \in Seq(Byte) /\ \E g : Rewrites(W, V, t, g) /\ R[t] = g[1]

\* A slice of one byte.
LEMMA SubSeqOne ==
  ASSUME NEW t \in Seq(Byte), NEW i \in 1..Len(t)
  PROVE  SubSeq(t, i, i) = <<t[i]>>
  <1> DEFINE one == SubSeq(t, i, i)
             byte == <<t[i]>>
  <1>1. i \in Int /\ \A k \in i..i : t[k] \in Byte
    BY TextFacts
  <1>2. byte \in Seq(Byte) /\ Len(byte) = 1 /\ byte[1] = t[i]
    BY <1>1
  <1>3. /\ one \in Seq(Byte)
        /\ Len(one) = IF i <= i THEN i - i + 1 ELSE 0
        /\ \A k \in 1..(i - i + 1) : one[k] = t[i + k - 1]
    BY <1>1, SubSeqProperties
  <1> HIDE DEF one, byte
  <1>4. Len(one) = 1 /\ one[1] = t[i]
    BY <1>1, <1>3
  <1>5. \A k \in 1..Len(one) : k = 1
    BY <1>4
  <1>6. one = byte
    BY <1>2, <1>3, <1>4, <1>5, SameText
  <1> QED
    BY <1>6 DEF one, byte

\* A text in which no word stands is left as it is.
LEMMA RewriteNone ==
  ASSUME NEW W, NEW V, NEW R, Rewriter(W, V, R), NEW t \in Seq(Byte),
         \A w \in W, i \in 1..Len(t) : ~StandsAt(t, i, w)
  PROVE  R[t] = t
  <1> DEFINE n == Len(t)
             S == 1..(n + 1)
             rank == [i \in S |-> n + 1 - i]
  <1>1. PICK g : Rewrites(W, V, t, g) /\ R[t] = g[1]
    BY DEF Rewriter
  <1>2. n \in Nat /\ \A i \in 1..n : t[i] \in Byte
    BY TextFacts
  <1>3. g[n + 1] = <<>> /\ \A i \in 1..n : g[i] = <<t[i]>> \bullet g[i + 1]
    BY <1>1 DEF Rewrites
  <1>4. \A i \in S : SubSeq(t, i, n) \in Seq(Byte)
    <2> SUFFICES ASSUME NEW i \in S PROVE SubSeq(t, i, n) \in Seq(Byte)
      OBVIOUS
    <2>1. n + 1 \in i..(n + 1) /\ i \in 1..(n + 1) /\ (n + 1) - 1 = n
      BY <1>2
    <2> QED
      BY <2>1, CutAt
  <1> DEFINE Good == {i \in S : g[i] = SubSeq(t, i, n)}
  <1>5. ASSUME NEW i \in S, \A j \in S : rank[j] < rank[i] => j \in Good
        PROVE  i \in Good
    <2>1. CASE i = n + 1
      <3>1. n < i /\ i \in Int /\ n \in Int
        BY <1>2, <2>1
      <3>2. SubSeq(t, i, n) = <<>>
        BY <3>1, SubSeqEmpty
      <3> QED
        BY <1>3, <2>1, <3>2
    <2>2. CASE i # n + 1
      <3>1. i \in 1..n /\ i + 1 \in S /\ rank[i+1] < rank[i] /\ i \in Int
        BY <1>2, <2>2
      <3>2. g[i+1] = SubSeq(t, i + 1, n)
        BY <1>5, <3>1
      <3>3. g[i] = <<t[i]>> \bullet SubSeq(t, i + 1, n)
        BY <1>3, <3>1, <3>2
      <3>4. SubSeq(t, i, n) = SubSeq(t, i, i) \bullet SubSeq(t, i + 1, n)
        <4>1. i \in 1..(n + 1) /\ i + 1 \in i..(n + 1) /\ (i + 1) - 1 = i
          BY <1>2, <3>1
        <4> QED
          BY <4>1, CutAt DEF \bullet
      <3>5. SubSeq(t, i, i) = <<t[i]>>
        BY <3>1, SubSeqOne
      <3> QED
        BY <3>3, <3>4, <3>5
    <2> QED
      BY <2>1, <2>2
  <1>6. S \subseteq Good
    <2>1. rank \in [S -> Nat]
      BY <1>2
    <2> HIDE DEF S, Good, rank
    <2> QED
      BY <1>5, <2>1, RankInduction
  <1>7. 1 \in S /\ SubSeq(t, 1, n) = t
    BY <1>2, SubSeqFull
  <1> QED
    BY <1>1, <1>6, <1>7

\* A word stands in itself.
LEMMA StandsInItself ==
  ASSUME NEW w \in Seq(Byte), w # <<>>
  PROVE  StandsAt(w, 1, w)
  <1>1. Len(w) \in Nat /\ Len(w) >= 1
    BY TextFacts
  <1>2. 1 \in 1..Len(w) /\ 1 + Len(w) - 1 <= Len(w) /\ \A k \in 1..Len(w) : 1 + k - 1 = k
    BY <1>1
  <1> QED
    BY <1>2 DEF StandsAt

\* A word alone becomes what is written for it.
LEMMA RewriteWord ==
  ASSUME NEW W, NEW V, Glossary(W, V), NEW R, Rewriter(W, V, R), NEW w \in W
  PROVE  R[w] = V[w]
  <1>1. w \in Seq(Byte) /\ w # <<>> /\ V[w] \in Seq(Byte)
    BY DEF Glossary
  <1>2. PICK g : Rewrites(W, V, w, g) /\ R[w] = g[1]
    BY <1>1 DEF Rewriter
  <1>3. 1 \in 1..Len(w) /\ 1 + Len(w) = Len(w) + 1
    BY <1>1, TextFacts
  <1>4. g[1] = V[w] \bullet g[Len(w) + 1]
    BY <1>1, <1>2, <1>3, StandsInItself DEF Rewrites
  <1>5. g[Len(w) + 1] = <<>>
    BY <1>2 DEF Rewrites
  <1> QED
    BY <1>1, <1>2, <1>4, <1>5, ConcatEmpty

\* b can be laid over no word so that they agree where they meet, except over
\* itself.
Barrier(b, W) ==
  /\ b \in Seq(Byte) /\ b # <<>>
  /\ \A w \in W : \A i \in 1..Len(b), j \in 1..Len(w) :
       \/ i = j /\ w = b
       \/ \E k \in 1..Len(b), l \in 1..Len(w) : k + j = l + i /\ b[k] # w[l]

\* No word lies across the cut before a barrier.
LEMMA BarrierLeft ==
  ASSUME NEW W, NEW b, Barrier(b, W), NEW w \in W, w \in Seq(Byte),
         NEW s \in Seq(Byte), NEW t \in Seq(Byte),
         NEW i \in 1..Len(s), StandsAt(s \bullet (b \bullet t), i, w)
  PROVE  i + Len(w) - 1 <= Len(s)
  <1> DEFINE m == Len(s)
             c == b \bullet t
             u == s \bullet c
             j == m + 2 - i
  <1>1. b \in Seq(Byte) /\ Len(b) \in Nat /\ Len(b) >= 1 /\ Len(w) \in Nat /\ m \in Nat
    BY TextFacts DEF Barrier
  <1>2. c \in Seq(Byte) /\ Len(c) \in Nat /\ Len(c) >= Len(b) /\ \A k \in 1..Len(b) : c[k] = b[k]
    <2>1. /\ c \in Seq(Byte) /\ Len(t) \in Nat /\ Len(c) = Len(b) + Len(t)
          /\ \A k \in 1..Len(b) : c[k] = b[k]
      BY <1>1, ConcatFacts
    <2> QED
      BY <1>1, <2>1, SMTT(60)
  <1> HIDE DEF c
  <1>3. \A k \in 1..Len(c) : u[m + k] = c[k]
    BY <1>2, ConcatFacts
  <1>4. \A k \in 1..Len(b) : u[m + k] = b[k]
    BY <1>1, <1>2, <1>3
  <1>5. \A l \in 1..Len(w) : u[i + l - 1] = w[l]
    BY DEF StandsAt, c
  <1> HIDE DEF u, m
  <1> SUFFICES ASSUME i + Len(w) - 1 > m PROVE FALSE
    BY <1>1 DEF m
  <1>6. i \in 1..m
    BY DEF m
  <1>7. j \in 1..Len(w) /\ j # 1 /\ 1 \in 1..Len(b)
    BY <1>1, <1>6
  <1>8. PICK k \in 1..Len(b), l \in 1..Len(w) : k + j = l + 1 /\ b[k] # w[l]
    BY <1>7, SMTT(60) DEF Barrier
  <1>9. m + k = i + l - 1
    BY <1>1, <1>6, <1>8
  <1> QED
    BY <1>4, <1>5, <1>8, <1>9

\* No word lies across the cut after a barrier.
LEMMA BarrierRight ==
  ASSUME NEW W, NEW b, Barrier(b, W), NEW w \in W, w \in Seq(Byte),
         NEW t \in Seq(Byte), NEW i \in 1..Len(b), StandsAt(b \bullet t, i, w)
  PROVE  i + Len(w) - 1 <= Len(b)
  <1> DEFINE c == b \bullet t
  <1>1. b \in Seq(Byte) /\ Len(b) \in Nat /\ Len(w) \in Nat
    BY TextFacts DEF Barrier
  <1>2. \A k \in 1..Len(b) : c[k] = b[k]
    BY <1>1, ConcatFacts
  <1>3. \A l \in 1..Len(w) : c[i + l - 1] = w[l]
    BY DEF StandsAt
  <1> HIDE DEF c
  <1>4. CASE w = b /\ i = 1
    BY <1>1, <1>4
  <1>5. CASE ~(w = b /\ i = 1) /\ Len(w) >= 1
    <2>1. 1 \in 1..Len(w)
      BY <1>1, <1>5
    <2>2. PICK k \in 1..Len(b), l \in 1..Len(w) : k + 1 = l + i /\ b[k] # w[l]
      BY <1>5, <2>1 DEF Barrier
    <2>3. k \in Nat /\ l \in Nat /\ i \in Nat
      BY <1>1, <2>2
    <2>4. k = i + l - 1
      BY <2>2, <2>3
    <2> QED
      BY <1>2, <1>3, <2>2, <2>4
  <1>6. CASE Len(w) < 1
    BY <1>1, <1>6
  <1> QED
    BY <1>1, <1>4, <1>5, <1>6

\* Two texts are rewritten apart, when no word lies across the cut.
LEMMA RewriteCut ==
  ASSUME NEW W, NEW V, Glossary(W, V), NEW R, Rewriter(W, V, R),
         NEW s \in Seq(Byte), NEW t \in Seq(Byte),
         CleanCut(W, s, t)
  PROVE  R[s \bullet t] = R[s] \bullet R[t]
  <1>1. s \bullet t \in Seq(Byte)
    BY ConcatFacts
  <1>2. PICK g : Rewrites(W, V, s \bullet t, g) /\ R[s \bullet t] = g[1]
    BY <1>1 DEF Rewriter
  <1>3. PICK f : Rewrites(W, V, s, f) /\ R[s] = f[1]
    BY DEF Rewriter
  <1>4. PICK h : Rewrites(W, V, t, h) /\ R[t] = h[1]
    BY DEF Rewriter
  <1>5. g[1] = f[1] \bullet h[1]
    BY <1>2, <1>3, <1>4, RewriteParts
  <1> QED
    BY <1>2, <1>3, <1>4, <1>5

\* What stands before and after a barrier is rewritten apart.
LEMMA RewriteAround ==
  ASSUME NEW W, NEW V, Glossary(W, V), NEW R, Rewriter(W, V, R),
         NEW b, Barrier(b, W), NEW s \in Seq(Byte), NEW t \in Seq(Byte)
  PROVE  R[s \bullet (b \bullet t)] = R[s] \bullet (R[b] \bullet R[t])
  <1>1. b \in Seq(Byte) /\ b \bullet t \in Seq(Byte)
    BY ConcatFacts DEF Barrier
  <1>2. R[b \bullet t] = R[b] \bullet R[t]
    <2>1. CleanCut(W, b, t)
      <3> SUFFICES ASSUME NEW w \in W, NEW i \in 1..Len(b), StandsAt(b \bullet t, i, w)
                   PROVE  i + Len(w) - 1 <= Len(b)
        BY DEF CleanCut
      <3>1. w \in Seq(Byte)
        BY DEF Glossary
      <3> QED
        BY <3>1, BarrierRight
    <2> QED
      BY <1>1, <2>1, RewriteCut
  <1>3. R[s \bullet (b \bullet t)] = R[s] \bullet R[b \bullet t]
    <2>1. CleanCut(W, s, b \bullet t)
      <3> SUFFICES ASSUME NEW w \in W, NEW i \in 1..Len(s), StandsAt(s \bullet (b \bullet t), i, w)
                   PROVE  i + Len(w) - 1 <= Len(s)
        BY DEF CleanCut
      <3>1. w \in Seq(Byte)
        BY DEF Glossary
      <3> QED
        BY <3>1, BarrierLeft
    <2> QED
      BY <1>1, <2>1, RewriteCut
  <1> QED
    BY <1>2, <1>3

-----------------------------------------------------------------------------
(* What a rewritten text can still contain.                                *)

\* q from its d+1-st byte on stands in t at i.
TailAt(t, i, q, d) ==
  i + Len(q) - d - 1 <= Len(t) /\ \A k \in (d + 1)..Len(q) : t[i + k - d - 1] = q[k]

\* What is written never starts in the middle of q: a tail of q that is read at the
\* start of a rewritten text was there before.
LEMMA TailIsRaw ==
  ASSUME NEW W, NEW V, Glossary(W, V), NEW t, NEW g, Rewrites(W, V, t, g), NEW q \in Seq(Byte),
         \A w \in W : V[w] # <<>> /\ Apart(V[w], q)
  PROVE  \A i \in 1..(Len(t) + 1), d \in 0..Len(q) : TailAt(g[i], 1, q, d) => TailAt(t, i, q, d)
  <1> DEFINE n == Len(t)
             m == Len(q)
             S == 1..(n + 1)
             rank == [i \in S |-> n + 1 - i]
             Good == {i \in S : \A d \in 0..m : TailAt(g[i], 1, q, d) => TailAt(t, i, q, d)}
  <1>1. t \in Seq(Byte) /\ n \in Nat /\ m \in Nat /\ \A i \in 1..n : t[i] \in Byte
    <2>1. t \in Seq(Byte)
      BY DEF Rewrites
    <2> QED
      BY <2>1, TextFacts
  <1>2. \A w \in W : V[w] \in Seq(Byte) /\ Len(w) \in Nat /\ Len(V[w]) >= 1 /\ Len(V[w]) \in Nat
    BY TextFacts DEF Glossary
  <1>3. ASSUME NEW i \in S, \A j \in S : rank[j] < rank[i] => j \in Good
        PROVE  i \in Good
    <2> SUFFICES ASSUME NEW d \in 0..m, TailAt(g[i], 1, q, d)
                 PROVE  TailAt(t, i, q, d)
      OBVIOUS
    <2>0. g[i] \in Seq(Byte) /\ d \in Nat /\ i \in Nat /\ i >= 1
      BY <1>1 DEF Rewrites
    <2>1. 1 + m - d - 1 <= Len(g[i]) /\ \A k \in (d + 1)..m : g[i][1 + k - d - 1] = q[k]
      BY DEF TailAt
    <2>2. CASE d = m
      <3>1. i + m - d - 1 <= n /\ \A k \in (d + 1)..m : FALSE
        BY <1>1, <2>0, <2>2
      <3> QED
        BY <3>1 DEF TailAt
    <2>3. CASE d # m /\ i = n + 1
      <3>1. g[i] = <<>>
        BY <2>3 DEF Rewrites
      <3>2. Len(g[i]) = 0
        BY <3>1, EmptySeq
      <3> QED
        BY <1>1, <2>0, <2>1, <2>3, <3>2
    <2>4. CASE d # m /\ i # n + 1
      <3>1. i \in 1..n /\ i + 1 \in S /\ rank[i + 1] < rank[i] /\ d + 1 \in 0..m /\ d + 1 \in 1..m
        BY <1>1, <2>0, <2>4
      <3>2. ASSUME NEW w \in W, StandsAt(t, i, w) PROVE FALSE
        <4> DEFINE v == V[w]
        <4>1. g[i] = v \bullet g[i + Len(w)]
          BY <3>1, <3>2 DEF Rewrites
        <4>2. i + Len(w) \in S
          <5>1. i + Len(w) - 1 <= n
            BY <3>2 DEF StandsAt
          <5> QED
            BY <1>1, <1>2, <2>0, <5>1
        <4>3. g[i + Len(w)] \in Seq(Byte)
          BY <4>2 DEF Rewrites
        <4>4. v \in Seq(Byte) /\ Apart(v, q) /\ Len(v) \in Nat /\ 1 \in 1..Len(v)
          BY <1>2
        <4> HIDE DEF v
        <4>5. PICK k \in 1..Len(v), l \in 1..m : k + (d + 1) = l + 1 /\ v[k] # q[l]
          BY <3>1, <4>4 DEF Apart
        <4> DEFINE h == g[i + Len(w)]
        <4> HIDE DEF h
        <4>6. g[i][k] = v[k]
          <5>1. g[i] = v \bullet h /\ h \in Seq(Byte)
            BY <4>1, <4>3 DEF h
          <5> QED
            <6>1. (v \bullet h)[k] = v[k]
              BY <5>1, <4>4, ConcatFacts
            <6> QED
              BY <5>1, <6>1
        <4>7. l \in (d + 1)..m /\ 1 + l - d - 1 = k
          BY <1>1, <2>0, <4>4, <4>5
        <4> QED
          BY <2>1, <4>5, <4>6, <4>7
      <3>3. CASE \A w \in W : ~StandsAt(t, i, w)
        <4> DEFINE one == <<t[i]>>
                   h == g[i + 1]
        <4>1. g[i] = one \bullet h
          BY <3>1, <3>3 DEF Rewrites
        <4>2. one \in Seq(Byte) /\ Len(one) = 1 /\ one[1] = t[i]
          BY <1>1, <3>1
        <4>3. h \in Seq(Byte)
          BY <3>1 DEF Rewrites
        <4> HIDE DEF one, h
        <4>4. /\ Len(g[i]) = 1 + Len(h) /\ Len(h) \in Nat /\ g[i][1] = t[i]
              /\ \A k \in 1..Len(h) : g[i][1 + k] = h[k]
          <5>1. 1 \in 1..Len(one)
            BY <4>2
          <5>2. /\ Len(one \bullet h) = Len(one) + Len(h) /\ Len(h) \in Nat
                /\ \A k \in 1..Len(one) : (one \bullet h)[k] = one[k]
                /\ \A k \in 1..Len(h) : (one \bullet h)[Len(one) + k] = h[k]
            BY <4>2, <4>3, ConcatFacts
          <5> QED
            BY <4>1, <4>2, <5>1, <5>2
        <4>5. q[d + 1] = t[i]
          <5>1. d + 1 \in (d + 1)..m /\ 1 + (d + 1) - d - 1 = 1
            BY <1>1, <2>0, <3>1
          <5> QED
            BY <2>1, <4>4, <5>1
        <4>6. TailAt(h, 1, q, d + 1)
          <5>1. 1 + m - (d + 1) - 1 <= Len(h)
            BY <1>1, <2>0, <2>1, <4>4
          <5>2. ASSUME NEW k \in ((d + 1) + 1)..m PROVE h[1 + k - (d + 1) - 1] = q[k]
            <6>1. k \in (d + 1)..m /\ k - d - 1 \in 1..Len(h) /\ 1 + k - d - 1 = 1 + (k - d - 1)
                  /\ 1 + k - (d + 1) - 1 = k - d - 1
              BY <1>1, <2>0, <5>1, SMTT(60)
            <6> QED
              BY <2>1, <4>4, <6>1
          <5> QED
            BY <5>1, <5>2 DEF TailAt
        <4>7. TailAt(t, i + 1, q, d + 1)
          BY <1>3, <3>1, <4>6 DEF h
        <4>8. i + m - d - 1 <= n
          BY <1>1, <2>0, <4>7 DEF TailAt
        <4>9. ASSUME NEW k \in (d + 1)..m PROVE t[i + k - d - 1] = q[k]
          <5>1. CASE k = d + 1
            <6>1. i + k - d - 1 = i
              BY <2>0, <5>1
            <6> QED
              BY <4>5, <5>1, <6>1
          <5>2. CASE k # d + 1
            <6>1. k \in ((d + 1) + 1)..m /\ (i + 1) + k - (d + 1) - 1 = i + k - d - 1
              BY <1>1, <2>0, <5>2, SMTT(60)
            <6> QED
              BY <4>7, <6>1 DEF TailAt
          <5> QED
            BY <5>1, <5>2
        <4> QED
          BY <4>8, <4>9 DEF TailAt
      <3> QED
        BY <3>2, <3>3
    <2> QED
      BY <2>2, <2>3, <2>4
  <1>4. S \subseteq Good
    <2>1. rank \in [S -> Nat]
      BY <1>1
    <2> HIDE DEF S, Good, rank
    <2> QED
      BY <1>3, <2>1, RankInduction
  <1> QED
    BY <1>4

\* The whole of a word is its tail from the first byte on.
LEMMA TailStands ==
  ASSUME NEW q \in Seq(Byte), q # <<>>, NEW t \in Seq(Byte), NEW i \in Nat, i >= 1
  PROVE  TailAt(t, i, q, 0) <=> StandsAt(t, i, q)
  <1>1. Len(t) \in Nat /\ Len(q) \in Nat /\ Len(q) >= 1
    BY TextFacts
  <1>2. /\ i + Len(q) - 0 - 1 <= Len(t) <=> (i \in 1..Len(t) /\ i + Len(q) - 1 <= Len(t))
        /\ (0 + 1)..Len(q) = 1..Len(q)
        /\ \A k \in 1..Len(q) : i + k - 0 - 1 = i + k - 1
    BY <1>1
  <1> QED
    BY <1>2 DEF TailAt, StandsAt

\* What a pass writes brings no word about: one that is read afterwards stood in the
\* text before and is not one the pass replaces.
LEMMA RewriteClean ==
  ASSUME NEW W, NEW V, Glossary(W, V), NEW R, Rewriter(W, V, R), NEW t \in Seq(Byte),
         NEW q \in Seq(Byte), q # <<>>, \A w \in W : V[w] # <<>> /\ Apart(V[w], q),
         NEW p, StandsAt(R[t], p, q)
  PROVE  q \notin W /\ \E j : StandsAt(t, j, q)
  <1>1. PICK g : Rewrites(W, V, t, g) /\ R[t] = g[1]
    BY DEF Rewriter
  <1> DEFINE n == Len(t)
             S == 1..(n + 1)
             rank == [i \in S |-> n + 1 - i]
             Found == q \notin W /\ \E j : StandsAt(t, j, q)
             Good == {i \in S : \A x : StandsAt(g[i], x, q) => Found}
  <1>2. n \in Nat /\ (\A i \in 1..n : t[i] \in Byte) /\ Len(q) \in Nat /\ Len(q) >= 1
    BY TextFacts
  <1>3. \A w \in W : V[w] \in Seq(Byte) /\ Len(w) \in Nat /\ Len(V[w]) >= 1 /\ Len(V[w]) \in Nat
                     /\ Len(w) >= 1
    BY TextFacts DEF Glossary
  <1> HIDE DEF Found
  <1>4. ASSUME NEW i \in S, \A j \in S : rank[j] < rank[i] => j \in Good
        PROVE  i \in Good
    <2> SUFFICES ASSUME NEW x, StandsAt(g[i], x, q) PROVE Found
      OBVIOUS
    <2>1. /\ g[i] \in Seq(Byte) /\ x \in 1..Len(g[i]) /\ x + Len(q) - 1 <= Len(g[i])
          /\ \A k \in 1..Len(q) : g[i][x + k - 1] = q[k]
      BY <1>1 DEF Rewrites, StandsAt
    <2>2. Len(g[i]) \in Nat /\ x \in Nat /\ x >= 1 /\ i \in Nat /\ i >= 1
      BY <1>2, <2>1, TextFacts
    <2>3. CASE i = n + 1
      <3>1. Len(g[i]) = 0
        BY <1>1, <2>3, EmptySeq DEF Rewrites
      <3> QED
        BY <2>1, <3>1
    <2>4. CASE i # n + 1
      <3>1. i \in 1..n /\ i + 1 \in S /\ rank[i + 1] < rank[i]
        BY <1>2, <2>4
      <3>2. ASSUME NEW w \in W, StandsAt(t, i, w) PROVE Found
        <4> DEFINE v == V[w]
                   j == i + Len(w)
                   h == g[j]
        <4>1. g[i] = v \bullet h
          BY <1>1, <3>1, <3>2 DEF Rewrites
        <4>2. j \in S /\ rank[j] < rank[i]
          <5>1. i + Len(w) - 1 <= n
            BY <3>2 DEF StandsAt
          <5> QED
            BY <1>2, <1>3, <2>2, <5>1, SMTT(60)
        <4>3. h \in Seq(Byte)
          BY <1>1, <4>2 DEF Rewrites
        <4>4. v \in Seq(Byte) /\ Apart(v, q) /\ Len(v) \in Nat /\ Len(v) >= 1
          BY <1>3
        <4>5. j \in Good
          BY <1>4, <4>2
        <4>6. \A y : StandsAt(h, y, q) => Found
          BY <4>5
        <4> HIDE DEF v, h, j
        <4>7. CASE x <= Len(v)
          <5>1. x \in 1..Len(v) /\ 1 \in 1..Len(q)
            BY <1>2, <2>2, <4>4, <4>7
          <5>2. PICK k \in 1..Len(v), l \in 1..Len(q) : k + 1 = l + x /\ v[k] # q[l]
            BY <4>4, <5>1 DEF Apart
          <5>3. g[i][k] = v[k]
            BY <4>1, <4>3, <4>4, ConcatFacts
          <5>4. x + l - 1 = k
            BY <1>2, <2>2, <4>4, <5>2
          <5> QED
            BY <2>1, <5>2, <5>3, <5>4
        <4>8. CASE x > Len(v)
          <5>1. x - Len(v) \in Nat /\ x - Len(v) >= 1 /\ Len(v) + (x - Len(v)) = x
            BY <2>2, <4>4, <4>8
          <5>2. StandsAt(v \bullet h, Len(v) + (x - Len(v)), q)
            BY <4>1, <5>1
          <5>3. StandsAt(h, x - Len(v), q)
            BY <4>3, <4>4, <5>1, <5>2, StandsRight
          <5> QED
            BY <4>6, <5>3
        <4> QED
          BY <2>2, <4>4, <4>7, <4>8
      <3>3. CASE \A w \in W : ~StandsAt(t, i, w)
        <4> DEFINE one == <<t[i]>>
                   h == g[i + 1]
        <4>1. g[i] = one \bullet h
          BY <1>1, <3>1, <3>3 DEF Rewrites
        <4>2. one \in Seq(Byte) /\ Len(one) = 1
          BY <1>2, <3>1
        <4>3. h \in Seq(Byte)
          BY <1>1, <3>1 DEF Rewrites
        <4>4. i + 1 \in Good
          BY <1>4, <3>1
        <4>5. \A y : StandsAt(h, y, q) => Found
          BY <4>4
        <4> HIDE DEF one, h
        <4>6. CASE x > 1
          <5>1. x - 1 \in Nat /\ x - 1 >= 1 /\ Len(one) + (x - 1) = x
            BY <2>2, <4>2, <4>6
          <5>2. StandsAt(one \bullet h, Len(one) + (x - 1), q)
            BY <4>1, <5>1
          <5>3. StandsAt(h, x - 1, q)
            BY <4>2, <4>3, <5>1, <5>2, StandsRight
          <5> QED
            BY <4>5, <5>3
        <4>7. CASE x = 1
          <5>1. TailAt(g[i], 1, q, 0)
            BY <2>1, <4>7, TailStands
          <5>2. 0 \in 0..Len(q)
            BY <1>2
          <5>3. TailAt(t, i, q, 0)
            BY <1>1, <5>1, <5>2, TailIsRaw
          <5>4. StandsAt(t, i, q)
            BY <2>2, <5>3, TailStands
          <5> QED
            BY <3>3, <5>4 DEF Found
        <4> QED
          BY <2>2, <4>6, <4>7
      <3> QED
        BY <3>2, <3>3
    <2> QED
      BY <2>3, <2>4
  <1>5. S \subseteq Good
    <2>1. rank \in [S -> Nat]
      BY <1>2
    <2> HIDE DEF S, Good, rank
    <2> QED
      BY <1>4, <2>1, RankInduction
  <1>6. 1 \in S
    BY <1>2
  <1> QED
    BY <1>1, <1>5, <1>6 DEF Found

-----------------------------------------------------------------------------
(* Delimited words, and texts apart from them, keep what surrounds them apart. *)

\* A delimited text is a barrier to delimited words.
LEMMA BracketsBar ==
  ASSUME NEW b \in Seq(Byte), Bracketed(b), NEW W,
         \A w \in W : w \in Seq(Byte) /\ Bracketed(w)
  PROVE  Barrier(b, W)
  <1>1. /\ Len(b) \in Nat /\ Len(b) >= 2 /\ b # <<>> /\ b[1] = "<" /\ b[Len(b)] = ">"
        /\ \A i \in 2..(Len(b) - 1) : b[i] # "<" /\ b[i] # ">"
    BY TextFacts DEF Bracketed
  <1> SUFFICES ASSUME NEW w \in W, NEW i \in 1..Len(b), NEW j \in 1..Len(w)
               PROVE  \/ i = j /\ w = b
                      \/ \E k \in 1..Len(b), l \in 1..Len(w) : k + j = l + i /\ b[k] # w[l]
    BY <1>1 DEF Barrier
  <1>2. /\ w \in Seq(Byte) /\ Len(w) \in Nat /\ Len(w) >= 2 /\ w[1] = "<" /\ w[Len(w)] = ">"
        /\ \A k \in 2..(Len(w) - 1) : w[k] # "<" /\ w[k] # ">"
    BY TextFacts DEF Bracketed
  <1>3. i \in Nat /\ j \in Nat
    BY <1>1, <1>2
  <1>4. CASE i < j
    <2>1. 1 \in 1..Len(b) /\ 1 + j - i \in 2..Len(w) /\ 1 + j = (1 + j - i) + i
      BY <1>1, <1>2, <1>3, <1>4
    <2>2. w[1 + j - i] # "<"
      <3>1. CASE 1 + j - i = Len(w)
        BY <1>2, <3>1
      <3>2. CASE 1 + j - i # Len(w)
        <4>1. 1 + j - i \in 2..(Len(w) - 1)
          BY <1>2, <1>3, <2>1, <3>2
        <4> QED
          BY <1>2, <4>1
      <3> QED
        BY <3>1, <3>2
    <2>3. 1 + j - i \in 1..Len(w)
      BY <1>2, <1>3, <2>1
    <2> QED
      BY <1>1, <2>1, <2>2, <2>3
  <1>5. CASE j < i
    <2>1. 1 \in 1..Len(w) /\ 1 + i - j \in 2..Len(b) /\ (1 + i - j) + j = 1 + i
      BY <1>1, <1>2, <1>3, <1>5
    <2>2. b[1 + i - j] # "<"
      <3>1. CASE 1 + i - j = Len(b)
        BY <1>1, <3>1
      <3>2. CASE 1 + i - j # Len(b)
        <4>1. 1 + i - j \in 2..(Len(b) - 1)
          BY <1>1, <1>3, <2>1, <3>2
        <4> QED
          BY <1>1, <4>1
      <3> QED
        BY <3>1, <3>2
    <2>3. 1 + i - j \in 1..Len(b)
      BY <1>1, <1>3, <2>1
    <2> QED
      BY <1>2, <2>1, <2>2, <2>3
  <1>6. CASE i = j
    <2> SUFFICES ASSUME \A k \in 1..Len(b), l \in 1..Len(w) : k = l => b[k] = w[l]
                 PROVE  w = b
      <3>1. \A k \in 1..Len(b), l \in 1..Len(w) : k = l => k + j = l + i
        BY <1>6
      <3> QED
        BY <1>6, <3>1
    <2>1. Len(b) = Len(w)
      <3>1. CASE Len(b) < Len(w)
        <4>1. Len(b) \in 1..Len(b) /\ Len(b) \in 1..Len(w) /\ Len(b) \in 2..(Len(w) - 1)
          BY <1>1, <1>2, <3>1
        <4> QED
          BY <1>1, <1>2, <4>1
      <3>2. CASE Len(w) < Len(b)
        <4>1. Len(w) \in 1..Len(b) /\ Len(w) \in 1..Len(w) /\ Len(w) \in 2..(Len(b) - 1)
          BY <1>1, <1>2, <3>2
        <4> QED
          BY <1>1, <1>2, <4>1
      <3> QED
        BY <1>1, <1>2, <3>1, <3>2
    <2>2. \A k \in 1..Len(b) : b[k] = w[k]
      BY <2>1
    <2> QED
      BY <1>2, <2>1, <2>2, SameText
  <1> QED
    BY <1>3, <1>4, <1>5, <1>6

\* A text apart from the words is a barrier and none of them.
LEMMA ApartBars ==
  ASSUME NEW v \in Seq(Byte), v # <<>>, NEW W, \A w \in W : Apart(v, w)
  PROVE  Barrier(v, W) /\ v \notin W
  <1>1. Barrier(v, W)
    BY DEF Barrier, Apart
  <1>2. ASSUME v \in W PROVE FALSE
    <2>1. 1 \in 1..Len(v)
      BY TextFacts
    <2>2. PICK k \in 1..Len(v), l \in 1..Len(v) : k + 1 = l + 1 /\ v[k] # v[l]
      BY <1>2, <2>1 DEF Apart
    <2> QED
      BY <2>2
  <1> QED
    BY <1>1, <1>2

\* No word stands in a barrier that is none itself.
LEMMA NoneInBarrier ==
  ASSUME NEW W, NEW b, Barrier(b, W), b \notin W, NEW w \in W, w \in Seq(Byte), w # <<>>, NEW p
  PROVE  ~StandsAt(b, p, w)
  <1> SUFFICES ASSUME StandsAt(b, p, w) PROVE FALSE
    OBVIOUS
  <1>1. p \in 1..Len(b) /\ \A l \in 1..Len(w) : b[p + l - 1] = w[l]
    BY DEF StandsAt
  <1>2. Len(w) \in Nat /\ 1 \in 1..Len(w) /\ Len(b) \in Nat
    BY TextFacts DEF Barrier
  <1>3. PICK k \in 1..Len(b), l \in 1..Len(w) : k + 1 = l + p /\ b[k] # w[l]
    BY <1>1, <1>2 DEF Barrier
  <1>4. k = p + l - 1
    BY <1>1, <1>2, <1>3
  <1> QED
    BY <1>1, <1>3, <1>4

\* A barrier that is no word is left as it is, and what surrounds it is rewritten apart.
LEMMA RewriteKeeps ==
  ASSUME NEW W, NEW V, Glossary(W, V), NEW R, Rewriter(W, V, R), NEW b, Barrier(b, W),
         b \notin W, NEW s \in Seq(Byte), NEW t \in Seq(Byte)
  PROVE  R[s \bullet (b \bullet t)] = R[s] \bullet (b \bullet R[t])
  <1>1. b \in Seq(Byte)
    BY DEF Barrier
  <1>2. \A w \in W : w \in Seq(Byte) /\ w # <<>>
    BY DEF Glossary
  <1>3. \A w \in W, i \in 1..Len(b) : ~StandsAt(b, i, w)
    BY <1>2, NoneInBarrier
  <1>4. R[b] = b
    BY <1>1, <1>3, RewriteNone
  <1>5. R[s \bullet (b \bullet t)] = R[s] \bullet (R[b] \bullet R[t])
    BY RewriteAround
  <1> QED
    BY <1>4, <1>5

\* A word among other text is replaced, and what surrounds it is rewritten apart.
LEMMA RewriteReplaces ==
  ASSUME NEW W, NEW V, Glossary(W, V), NEW R, Rewriter(W, V, R), NEW w \in W, Barrier(w, W),
         NEW s \in Seq(Byte), NEW t \in Seq(Byte)
  PROVE  R[s \bullet (w \bullet t)] = R[s] \bullet (V[w] \bullet R[t])
  <1>1. R[w] = V[w]
    BY RewriteWord
  <1>2. R[s \bullet (w \bullet t)] = R[s] \bullet (R[w] \bullet R[t])
    BY RewriteAround
  <1> QED
    BY <1>1, <1>2

\* A map that reads a word as what is written for it reads a rewritten text as the
\* text itself, wherever it stands.
LEMMA Absorbed ==
  ASSUME NEW W, NEW V, Glossary(W, V), NEW R, Rewriter(W, V, R), NEW D, NEW u \in Seq(Byte),
         \A w \in W : \A i : StandsAt(u, i, w) =>
           \A s, t \in Seq(Byte) : D[s \bullet (V[w] \bullet t)] = D[s \bullet (w \bullet t)],
         NEW x \in Seq(Byte), NEW y \in Seq(Byte)
  PROVE  D[x \bullet (R[u] \bullet y)] = D[x \bullet (u \bullet y)]
  <1>1. PICK g : Rewrites(W, V, u, g) /\ R[u] = g[1]
    BY DEF Rewriter
  <1> DEFINE n == Len(u)
             S == 1..(n + 1)
             rank == [i \in S |-> n + 1 - i]
             rest(i) == SubSeq(u, i, n)
             Same(i) == \A s \in Seq(Byte) :
                          D[s \bullet (g[i] \bullet y)] = D[s \bullet (rest(i) \bullet y)]
             Good == {i \in S : Same(i)}
  <1>2. n \in Nat /\ \A i \in 1..n : u[i] \in Byte
    BY TextFacts
  <1>3. \A i \in S, j \in S : i <= j =>
          /\ rest(i) \in Seq(Byte) /\ SubSeq(u, i, j - 1) \in Seq(Byte)
          /\ rest(i) = SubSeq(u, i, j - 1) \bullet rest(j)
    <2> SUFFICES ASSUME NEW i \in S, NEW j \in S, i <= j
                 PROVE  /\ rest(i) \in Seq(Byte) /\ SubSeq(u, i, j - 1) \in Seq(Byte)
                        /\ rest(i) = SubSeq(u, i, j - 1) \bullet rest(j)
      OBVIOUS
    <2>1. j \in i..(n + 1) /\ n + 1 \in i..(n + 1) /\ (n + 1) - 1 = n
      BY <1>2
    <2> QED
      BY <2>1, CutAt DEF \bullet
  <1>4. \A i \in S : g[i] \in Seq(Byte)
    BY <1>1 DEF Rewrites
  <1> HIDE DEF rest
  <1>5. ASSUME NEW i \in S, \A j \in S : rank[j] < rank[i] => j \in Good
        PROVE  i \in Good
    <2>1. CASE i = n + 1
      <3>1. g[i] = <<>>
        BY <1>1, <2>1 DEF Rewrites
      <3>2. rest(i) = <<>>
        <4>1. n < i /\ i \in Int /\ n \in Int
          BY <1>2, <2>1
        <4> QED
          BY <4>1, SubSeqEmpty DEF rest
      <3> QED
        BY <3>1, <3>2
    <2>2. CASE i # n + 1
      <3>1. i \in 1..n /\ i \in Nat
        BY <1>2, <2>2
      <3>2. ASSUME NEW a \in Seq(Byte), NEW b \in Seq(Byte), NEW j \in S, j > i,
                   g[i] = b \bullet g[j], rest(i) = a \bullet rest(j),
                   \A s, t \in Seq(Byte) : D[s \bullet (b \bullet t)] = D[s \bullet (a \bullet t)]
            PROVE  i \in Good
        <4>1. rank[j] < rank[i]
          BY <1>2, <3>1, <3>2
        <4>2. Same(j)
          BY <1>5, <4>1
        <4> DEFINE p == g[j]
                   q == rest(j)
        <4>3. p \in Seq(Byte) /\ q \in Seq(Byte)
          BY <1>2, <1>3, <1>4
        <4>4. g[i] = b \bullet p /\ rest(i) = a \bullet q
          BY <3>2
        <4>5. \A s \in Seq(Byte) : D[s \bullet (p \bullet y)] = D[s \bullet (q \bullet y)]
          BY <4>2
        <4> HIDE DEF p, q
        <4>6. ASSUME NEW s \in Seq(Byte)
              PROVE  D[s \bullet (g[i] \bullet y)] = D[s \bullet (rest(i) \bullet y)]
          <5>1. (b \bullet p) \bullet y = b \bullet (p \bullet y) /\ p \bullet y \in Seq(Byte)
            BY <4>3, Assoc, ConcatFacts, SMTT(60)
          <5>2. D[s \bullet (b \bullet (p \bullet y))] = D[s \bullet (a \bullet (p \bullet y))]
            BY <3>2, <5>1
          <5>3. /\ s \bullet a \in Seq(Byte)
                /\ s \bullet (a \bullet (p \bullet y)) = (s \bullet a) \bullet (p \bullet y)
            BY <5>1, Assoc, ConcatFacts
          <5>4. D[(s \bullet a) \bullet (p \bullet y)] = D[(s \bullet a) \bullet (q \bullet y)]
            BY <4>5, <5>3
          <5>5. q \bullet y \in Seq(Byte)
            BY <4>3, ConcatFacts
          <5>6. (s \bullet a) \bullet (q \bullet y) = s \bullet (a \bullet (q \bullet y))
            BY <5>5, Assoc
          <5>7. a \bullet (q \bullet y) = (a \bullet q) \bullet y
            BY <4>3, Assoc
          <5> QED
            BY <4>4, <5>1, <5>2, <5>3, <5>4, <5>6, <5>7
        <4> QED
          BY <4>6
      <3>3. ASSUME NEW w \in W, StandsAt(u, i, w) PROVE i \in Good
        <4>1. w \in Seq(Byte) /\ V[w] \in Seq(Byte) /\ w # <<>>
          BY DEF Glossary
        <4>2. Len(w) \in Nat /\ Len(w) >= 1 /\ i + Len(w) - 1 <= n
          BY <3>3, <4>1, TextFacts DEF StandsAt
        <4> DEFINE j == i + Len(w)
        <4>3. g[i] = V[w] \bullet g[j]
          BY <1>1, <3>1, <3>3 DEF Rewrites
        <4>4. j \in S /\ j > i /\ i <= j /\ j - 1 = i + Len(w) - 1
          BY <1>2, <3>1, <4>2
        <4>5. SubSeq(u, i, j - 1) = w
          <5> DEFINE c == SubSeq(u, i, j - 1)
          <5>1. c \in Seq(Byte)
            BY <1>3, <4>4
          <5>2. Len(c) = Len(w) /\ \A k \in 1..Len(w) : c[k] = u[i + k - 1]
            <6>1. \A k \in i..(j - 1) : u[k] \in Byte
              BY <1>2, <3>1, <4>4
            <6>2. i \in Int /\ j - 1 \in Int /\ i <= j - 1 /\ (j - 1) - i + 1 = Len(w)
              BY <3>1, <4>2, <4>4
            <6>3. /\ Len(c) = IF i <= j - 1 THEN (j - 1) - i + 1 ELSE 0
                  /\ \A k \in 1..((j - 1) - i + 1) : c[k] = u[i + k - 1]
              BY <6>1, <6>2, SubSeqProperties
            <6> QED
              BY <6>2, <6>3
          <5>3. \A k \in 1..Len(w) : u[i + k - 1] = w[k]
            BY <3>3 DEF StandsAt
          <5> HIDE DEF c
          <5>4. c = w
            BY <4>1, <5>1, <5>2, <5>3, SameText
          <5> QED
            BY <5>4 DEF c
        <4>6. rest(i) = w \bullet rest(j)
          BY <1>3, <4>4, <4>5
        <4>7. \A s, t \in Seq(Byte) : D[s \bullet (V[w] \bullet t)] = D[s \bullet (w \bullet t)]
          BY <3>3
        <4> HIDE DEF j
        <4> QED
          BY <3>2, <4>1, <4>3, <4>4, <4>6, <4>7
      <3>4. CASE \A w \in W : ~StandsAt(u, i, w)
        <4> DEFINE one == <<u[i]>>
        <4>1. g[i] = one \bullet g[i + 1]
          BY <1>1, <3>1, <3>4 DEF Rewrites
        <4>2. i + 1 \in S /\ i + 1 > i /\ i <= i + 1 /\ (i + 1) - 1 = i
          BY <1>2, <3>1
        <4>3. one \in Seq(Byte)
          BY <1>2, <3>1
        <4>4. SubSeq(u, i, i) = one
          BY <1>2, <3>1, SubSeqOne
        <4>5. rest(i) = one \bullet rest(i + 1)
          BY <1>3, <4>2, <4>4
        <4> HIDE DEF one
        <4> QED
          BY <3>2, <4>1, <4>2, <4>3, <4>5
      <3> QED
        BY <3>3, <3>4
    <2> QED
      BY <2>1, <2>2
  <1>6. S \subseteq Good
    <2>1. rank \in [S -> Nat]
      BY <1>2
    <2> HIDE DEF S, Good, rank
    <2> QED
      BY <1>5, <2>1, RankInduction, SMTT(60)
  <1>7. 1 \in S /\ rest(1) = u
    BY <1>2, SubSeqFull DEF rest
  <1>8. Same(1)
    BY <1>6, <1>7
  <1> QED
    BY <1>1, <1>7, <1>8

-----------------------------------------------------------------------------
(* Two passes in a row, and a text that is cut.                            *)

\* Two passes, the second over what the first writes.  What they look for is delimited,
\* and what they write is apart from it.
TwoPasses(W1, V1, R1, W2, V2, R2, D) ==
  /\ Glossary(W1, V1) /\ Rewriter(W1, V1, R1) /\ Glossary(W2, V2) /\ Rewriter(W2, V2, R2)
  /\ \A q \in W1 \cup W2 : q \in Seq(Byte) /\ q # <<>> /\ Bracketed(q)
  /\ \A w \in W1 : V1[w] # <<>> /\ \A q \in W1 \cup W2 : Apart(V1[w], q)
  /\ \A w \in W2 : V2[w] # <<>> /\ \A q \in W1 \cup W2 : Apart(V2[w], q)
  /\ \A t \in Seq(Byte) : D[t] = R2[R1[t]]

\* A word of the first pass reads as what is written for it.
LEMMA FirstPassWord ==
  ASSUME NEW W1, NEW V1, NEW R1, NEW W2, NEW V2, NEW R2, NEW D,
         TwoPasses(W1, V1, R1, W2, V2, R2, D), NEW w \in W1,
         NEW x \in Seq(Byte), NEW y \in Seq(Byte)
  PROVE  D[x \bullet (V1[w] \bullet y)] = D[x \bullet (w \bullet y)]
  <1> DEFINE v == V1[w]
  <1>1. /\ Glossary(W1, V1) /\ Rewriter(W1, V1, R1) /\ w \in Seq(Byte) /\ v \in Seq(Byte)
        /\ v # <<>> /\ (\A q \in W1 : Apart(v, q)) /\ \A q \in W1 : q \in Seq(Byte) /\ Bracketed(q)
    BY DEF TwoPasses, Glossary
  <1> HIDE DEF v
  <1>2. Barrier(w, W1) /\ Barrier(v, W1) /\ v \notin W1
    BY <1>1, BracketsBar, ApartBars
  <1>3. R1[x \bullet (v \bullet y)] = R1[x] \bullet (v \bullet R1[y])
    BY <1>1, <1>2, RewriteKeeps
  <1>4. R1[x \bullet (w \bullet y)] = R1[x] \bullet (v \bullet R1[y])
    BY <1>1, <1>2, RewriteReplaces DEF v
  <1>5. x \bullet (v \bullet y) \in Seq(Byte) /\ x \bullet (w \bullet y) \in Seq(Byte)
    <2>1. v \bullet y \in Seq(Byte) /\ w \bullet y \in Seq(Byte)
      BY <1>1, ConcatFacts
    <2> QED
      BY <2>1, ConcatFacts
  <1>6. D[x \bullet (v \bullet y)] = D[x \bullet (w \bullet y)]
    BY <1>3, <1>4, <1>5 DEF TwoPasses
  <1> QED
    BY <1>6 DEF v

\* So does a word of the second pass, unless the first one replaces it.
LEMMA SecondPassWord ==
  ASSUME NEW W1, NEW V1, NEW R1, NEW W2, NEW V2, NEW R2, NEW D,
         TwoPasses(W1, V1, R1, W2, V2, R2, D), NEW w \in W2, w \notin W1,
         NEW x \in Seq(Byte), NEW y \in Seq(Byte)
  PROVE  D[x \bullet (V2[w] \bullet y)] = D[x \bullet (w \bullet y)]
  <1> DEFINE v == V2[w]
  <1>1. /\ Glossary(W1, V1) /\ Rewriter(W1, V1, R1) /\ w \in Seq(Byte) /\ v \in Seq(Byte)
        /\ Glossary(W2, V2) /\ Rewriter(W2, V2, R2) /\ w # <<>> /\ Bracketed(w)
        /\ v # <<>> /\ (\A q \in W1 : Apart(v, q))
        /\ (\A q \in W1 : q \in Seq(Byte) /\ Bracketed(q))
        /\ (\A q \in W2 : Apart(v, q)) /\ (\A q \in W2 : q \in Seq(Byte) /\ Bracketed(q))
    BY DEF TwoPasses, Glossary
  <1> HIDE DEF v
  <1>2. Barrier(w, W1) /\ Barrier(v, W1) /\ v \notin W1
    BY <1>1, BracketsBar, ApartBars
  <1>3. Barrier(w, W2) /\ Barrier(v, W2) /\ v \notin W2
    BY <1>1, BracketsBar, ApartBars
  <1>4. R1[x] \in Seq(Byte) /\ R1[y] \in Seq(Byte)
    BY <1>1 DEF Rewriter
  <1> DEFINE p == R1[x]
             q == R1[y]
  <1>5. R1[x \bullet (v \bullet y)] = p \bullet (v \bullet q)
    BY <1>1, <1>2, RewriteKeeps
  <1>6. R1[x \bullet (w \bullet y)] = p \bullet (w \bullet q)
    BY <1>1, <1>2, RewriteKeeps
  <1>7. p \in Seq(Byte) /\ q \in Seq(Byte)
    BY <1>4
  <1> HIDE DEF p, q
  <1>8. R2[p \bullet (v \bullet q)] = R2[p] \bullet (v \bullet R2[q])
    BY <1>1, <1>3, <1>7, RewriteKeeps
  <1>9. R2[p \bullet (w \bullet q)] = R2[p] \bullet (v \bullet R2[q])
    BY <1>1, <1>3, <1>7, RewriteReplaces DEF v
  <1>10. x \bullet (v \bullet y) \in Seq(Byte) /\ x \bullet (w \bullet y) \in Seq(Byte)
    <2>1. v \bullet y \in Seq(Byte) /\ w \bullet y \in Seq(Byte)
      BY <1>1, ConcatFacts
    <2> QED
      BY <2>1, ConcatFacts
  <1>11. D[x \bullet (v \bullet y)] = D[x \bullet (w \bullet y)]
    BY <1>5, <1>6, <1>8, <1>9, <1>10 DEF TwoPasses
  <1> QED
    BY <1>11 DEF v

\* What the first pass leaves has none of its words, and brings none about.
LEMMA AfterFirstPass ==
  ASSUME NEW W1, NEW V1, NEW R1, NEW W2, NEW V2, NEW R2, NEW D,
         TwoPasses(W1, V1, R1, W2, V2, R2, D), NEW t \in Seq(Byte),
         NEW q \in W1 \cup W2, NEW p, StandsAt(R1[t], p, q)
  PROVE  q \notin W1 /\ \E j : StandsAt(t, j, q)
  <1>1. /\ Glossary(W1, V1) /\ Rewriter(W1, V1, R1) /\ q \in Seq(Byte) /\ q # <<>>
        /\ \A w \in W1 : V1[w] # <<>> /\ Apart(V1[w], q)
    BY DEF TwoPasses
  <1> QED
    BY <1>1, RewriteClean, SMTT(60)

\* No word is left by the two passes.
LEMMA WordFree ==
  ASSUME NEW W1, NEW V1, NEW R1, NEW W2, NEW V2, NEW R2, NEW D,
         TwoPasses(W1, V1, R1, W2, V2, R2, D), NEW t \in Seq(Byte),
         NEW q \in W1 \cup W2, NEW p
  PROVE  ~StandsAt(D[t], p, q)
  <1> SUFFICES ASSUME StandsAt(D[t], p, q) PROVE FALSE
    OBVIOUS
  <1> DEFINE r == R1[t]
  <1>1. r \in Seq(Byte)
    BY DEF TwoPasses, Rewriter
  <1>2. StandsAt(R2[r], p, q)
    BY DEF TwoPasses
  <1> HIDE DEF r
  <1>3. q \notin W2 /\ \E j : StandsAt(r, j, q)
    <2>1. /\ Glossary(W2, V2) /\ Rewriter(W2, V2, R2) /\ q \in Seq(Byte) /\ q # <<>>
          /\ \A w \in W2 : V2[w] # <<>> /\ Apart(V2[w], q)
      BY DEF TwoPasses
    <2> QED
      BY <1>1, <1>2, <2>1, RewriteClean, SMTT(60)
  <1>4. q \notin W1
    BY <1>3, AfterFirstPass DEF r
  <1> QED
    BY <1>3, <1>4

\* Part of a text may be rewritten ahead of the rest.
LEMMA FirstPassAhead ==
  ASSUME NEW W1, NEW V1, NEW R1, NEW W2, NEW V2, NEW R2, NEW D,
         TwoPasses(W1, V1, R1, W2, V2, R2, D), NEW u \in Seq(Byte),
         NEW x \in Seq(Byte), NEW y \in Seq(Byte)
  PROVE  D[x \bullet (R1[u] \bullet y)] = D[x \bullet (u \bullet y)]
  <1>1. Glossary(W1, V1) /\ Rewriter(W1, V1, R1)
    BY DEF TwoPasses
  <1>2. \A w \in W1 : \A i : StandsAt(u, i, w) =>
          \A s, t \in Seq(Byte) : D[s \bullet (V1[w] \bullet t)] = D[s \bullet (w \bullet t)]
    BY FirstPassWord
  <1> QED
    BY <1>1, <1>2, Absorbed

\* So may it be by both passes.
LEMMA PassesAhead ==
  ASSUME NEW W1, NEW V1, NEW R1, NEW W2, NEW V2, NEW R2, NEW D,
         TwoPasses(W1, V1, R1, W2, V2, R2, D), NEW u \in Seq(Byte),
         NEW x \in Seq(Byte), NEW y \in Seq(Byte)
  PROVE  D[x \bullet (D[u] \bullet y)] = D[x \bullet (u \bullet y)]
  <1> DEFINE v == R1[u]
  <1>1. Glossary(W2, V2) /\ Rewriter(W2, V2, R2) /\ v \in Seq(Byte) /\ D[u] = R2[v]
    BY DEF TwoPasses, Rewriter
  <1>2. \A w \in W2 : \A i : StandsAt(v, i, w) => w \notin W1
    BY AfterFirstPass
  <1>3. D[x \bullet (v \bullet y)] = D[x \bullet (u \bullet y)]
    BY FirstPassAhead
  <1> HIDE DEF v
  <1>4. \A w \in W2 : \A i : StandsAt(v, i, w) =>
          \A s, t \in Seq(Byte) : D[s \bullet (V2[w] \bullet t)] = D[s \bullet (w \bullet t)]
    BY <1>2, SecondPassWord
  <1>5. D[x \bullet (R2[v] \bullet y)] = D[x \bullet (v \bullet y)]
    BY <1>1, <1>4, Absorbed, SMTT(60)
  <1> QED
    BY <1>1, <1>3, <1>5

\* No word of Q is longer than b.
Fit(Q, b) == \A q \in Q : Len(q) <= Len(b)

\* What the passes have made may be let go but for as much as the longest word: nothing
\* that follows changes it.
LEMMA LetGo ==
  ASSUME NEW W1, NEW V1, NEW R1, NEW W2, NEW V2, NEW R2, NEW D,
         TwoPasses(W1, V1, R1, W2, V2, R2, D), NEW u \in Seq(Byte),
         NEW a \in Seq(Byte), NEW b \in Seq(Byte), D[u] = a \bullet b,
         Fit(W1, b), Fit(W2, b), NEW x \in Seq(Byte)
  PROVE  D[a \bullet (b \bullet x)] = a \bullet D[b \bullet x]
  <1> DEFINE c == b \bullet x
             h == R1[c]
             m == Len(a)
  <1>1. /\ Glossary(W1, V1) /\ Rewriter(W1, V1, R1) /\ Glossary(W2, V2) /\ Rewriter(W2, V2, R2)
        /\ \A q \in W1 \cup W2 : q \in Seq(Byte) /\ q # <<>> /\ Len(q) \in Nat /\ Len(q) >= 1
    BY TextFacts DEF TwoPasses
  <1>2. c \in Seq(Byte) /\ m \in Nat /\ Len(b) \in Nat /\ a \bullet b \in Seq(Byte)
        /\ Len(a \bullet b) = m + Len(b) /\ a \bullet c \in Seq(Byte) /\ Len(c) \in Nat
        /\ (a \bullet b) \bullet x = a \bullet c
    <2>1. c \in Seq(Byte) /\ Len(b) \in Nat
      BY ConcatFacts
    <2>2. a \bullet b \in Seq(Byte) /\ Len(a \bullet b) = m + Len(b) /\ m \in Nat
      BY ConcatFacts
    <2>3. a \bullet c \in Seq(Byte) /\ Len(c) \in Nat
      BY <2>1, ConcatFacts
    <2>4. (a \bullet b) \bullet x = a \bullet c
      BY Assoc
    <2> QED
      BY <2>1, <2>2, <2>3, <2>4
  <1>3. h \in Seq(Byte)
    BY <1>1, <1>2 DEF Rewriter
  <1>4. PICK g : Rewrites(W1, V1, c, g) /\ h = g[1]
    BY <1>1, <1>2 DEF Rewriter
  <1>5. ASSUME NEW q \in W1 \cup W2, NEW i PROVE ~StandsAt(a \bullet b, i, q)
    <2>1. ~StandsAt(D[u], i, q)
      BY WordFree
    <2> QED
      BY <2>1
  <1>6. ASSUME NEW q \in W1 \cup W2, NEW i \in 1..m PROVE ~StandsAt(a \bullet c, i, q)
    <2>1. Len(q) <= Len(b) /\ Len(q) \in Nat /\ i \in Nat
      BY <1>1 DEF Fit
    <2>2. i + Len(q) - 1 <= Len(a \bullet b)
      BY <1>2, <2>1
    <2>3. q \in Seq(Byte) /\ q # <<>> /\ a \bullet b \in Seq(Byte)
      BY <1>1, <1>2
    <2>4. StandsAt((a \bullet b) \bullet x, i, q) <=> StandsAt(a \bullet b, i, q)
      BY <2>1, <2>2, <2>3, StandsLeft
    <2> QED
      BY <1>2, <1>5, <2>4
  <1>7. \A q \in W1 \cup W2, i \in 1..m : ~StandsAt(a, i, q)
    <2> SUFFICES ASSUME NEW q \in W1 \cup W2, NEW i \in 1..m, StandsAt(a, i, q) PROVE FALSE
      OBVIOUS
    <2>1. i + Len(q) - 1 <= Len(a) /\ i \in Nat /\ q \in Seq(Byte) /\ q # <<>>
      BY <1>1, <1>2 DEF StandsAt
    <2>2. StandsAt(a \bullet b, i, q)
      BY <2>1, StandsLeft
    <2> QED
      BY <1>5, <2>2
  <1>8. R1[a] = a /\ R2[a] = a
    BY <1>1, <1>7, RewriteNone
  <1>9. R1[a \bullet c] = a \bullet h
    <2>1. CleanCut(W1, a, c)
      BY <1>6 DEF CleanCut
    <2>2. R1[a \bullet c] = R1[a] \bullet R1[c]
      BY <1>1, <1>2, <2>1, RewriteCut
    <2> QED
      BY <1>8, <2>2
  <1> HIDE DEF c, h, m
  <1>10. CleanCut(W2, a, h)
    <2> SUFFICES ASSUME NEW q \in W2, NEW i \in 1..m, StandsAt(a \bullet h, i, q),
                        i + Len(q) - 1 > m
                 PROVE  FALSE
      <3>1. \A q \in W2, i \in 1..m : i + Len(q) - 1 <= m \/ i + Len(q) - 1 > m
        BY <1>1, <1>2
      <3> QED
        BY <3>1 DEF CleanCut, m
    <2> DEFINE d == m - i + 1
               z == a \bullet h
               y == a \bullet c
    <2>1. /\ Len(q) \in Nat /\ Len(q) >= 1 /\ i \in Nat /\ i >= 1 /\ i <= m /\ m \in Nat
          /\ d \in Nat /\ d >= 1 /\ d <= Len(q)
      BY <1>1, <1>2
    <2>2. /\ Len(h) \in Nat /\ Len(z) = m + Len(h)
          /\ \A k \in 1..m : z[k] = a[k]
          /\ \A k \in 1..Len(h) : z[m + k] = h[k]
      <3>1. /\ Len(h) \in Nat /\ Len(a \bullet h) = Len(a) + Len(h)
            /\ \A k \in 1..Len(a) : (a \bullet h)[k] = a[k]
            /\ \A k \in 1..Len(h) : (a \bullet h)[Len(a) + k] = h[k]
        BY <1>3, ConcatFacts
      <3> QED
        BY <3>1 DEF m
    <2>3. /\ Len(c) \in Nat /\ Len(y) = m + Len(c)
          /\ \A k \in 1..m : y[k] = a[k]
          /\ \A k \in 1..Len(c) : y[m + k] = c[k]
      <3>1. /\ Len(c) \in Nat /\ Len(a \bullet c) = Len(a) + Len(c)
            /\ \A k \in 1..Len(a) : (a \bullet c)[k] = a[k]
            /\ \A k \in 1..Len(c) : (a \bullet c)[Len(a) + k] = c[k]
        BY <1>2, ConcatFacts
      <3> QED
        BY <3>1 DEF m
    <2>4. i + Len(q) - 1 <= Len(z) /\ \A k \in 1..Len(q) : z[i + k - 1] = q[k]
      BY DEF StandsAt
    <2> HIDE DEF z, y
    <2>5. TailAt(h, 1, q, d)
      <3>1. 1 + Len(q) - d - 1 <= Len(h)
        BY <2>1, <2>2, <2>4
      <3>2. ASSUME NEW k \in (d + 1)..Len(q) PROVE h[1 + k - d - 1] = q[k]
        <4>1. /\ k \in 1..Len(q) /\ k - d \in 1..Len(h)
              /\ i + k - 1 = m + (k - d) /\ 1 + k - d - 1 = k - d
          BY <2>1, <2>2, <3>1
        <4> QED
          BY <2>2, <2>4, <4>1
      <3> QED
        BY <3>1, <3>2 DEF TailAt
    <2>6. TailAt(c, 1, q, d)
      <3>1. q \in Seq(Byte) /\ \A w \in W1 : V1[w] # <<>> /\ Apart(V1[w], q)
        BY DEF TwoPasses
      <3>2. 1 \in 1..(Len(c) + 1) /\ d \in 0..Len(q)
        BY <2>1, <2>3
      <3>3. TailAt(g[1], 1, q, d)
        BY <1>4, <2>5
      <3> HIDE DEF d
      <3> QED
        BY <1>1, <1>4, <3>1, <3>2, <3>3, TailIsRaw
    <2>7. StandsAt(y, i, q)
      <3>1. 1 + Len(q) - d - 1 <= Len(c) /\ \A k \in (d + 1)..Len(q) : c[1 + k - d - 1] = q[k]
        BY <2>6 DEF TailAt
      <3>2. i \in 1..Len(y) /\ i + Len(q) - 1 <= Len(y)
        BY <2>1, <2>3, <3>1, SMTT(60)
      <3>3. ASSUME NEW k \in 1..Len(q) PROVE y[i + k - 1] = q[k]
        <4>1. CASE k <= d
          <5>1. i + k - 1 \in 1..m
            BY <2>1, <4>1
          <5> QED
            BY <2>2, <2>3, <2>4, <5>1
        <4>2. CASE k > d
          <5>1. k \in (d + 1)..Len(q) /\ k - d \in 1..Len(c) /\ i + k - 1 = m + (k - d)
                /\ 1 + k - d - 1 = k - d
            BY <2>1, <2>3, <3>1, <4>2, SMTT(60)
          <5> QED
            BY <2>3, <3>1, <5>1
        <4> QED
          BY <2>1, <4>1, <4>2
      <3> QED
        BY <3>2, <3>3 DEF StandsAt
    <2> QED
      BY <1>6, <2>7 DEF y
  <1>11. R2[a \bullet h] = a \bullet R2[h]
    <2>1. R2[a \bullet h] = R2[a] \bullet R2[h]
      BY <1>1, <1>3, <1>10, RewriteCut
    <2> QED
      BY <1>8, <2>1
  <1>12. D[a \bullet c] = R2[a \bullet h] /\ D[c] = R2[h]
    BY <1>2, <1>9 DEF TwoPasses, h
  <1> QED
    BY <1>11, <1>12 DEF c

-----------------------------------------------------------------------------
(* The exact pass rewrites the literals.                                   *)

\* A word that stands in a text is a slice of it.
LEMMA StandsSlice ==
  ASSUME NEW t \in Seq(Byte), NEW w \in Seq(Byte), w # <<>>, NEW i \in 1..Len(t)
  PROVE  StandsAt(t, i, w) <=> i + Len(w) - 1 <= Len(t) /\ SubSeq(t, i, i + Len(w) - 1) = w
  <1> DEFINE j == i + Len(w) - 1
             s == SubSeq(t, i, j)
  <1>1. /\ Len(t) \in Nat /\ (\A k \in 1..Len(t) : t[k] \in Byte)
        /\ Len(w) \in Nat /\ Len(w) >= 1 /\ i \in Nat
    BY TextFacts
  <1> SUFFICES ASSUME j <= Len(t) PROVE (\A k \in 1..Len(w) : t[i + k - 1] = w[k]) <=> s = w
    BY DEF StandsAt
  <1>2. i \in Int /\ j \in Int /\ i <= j /\ j - i + 1 = Len(w) /\ \A k \in i..j : t[k] \in Byte
    BY <1>1
  <1>3. /\ s \in Seq(Byte) /\ Len(s) = IF i <= j THEN j - i + 1 ELSE 0
        /\ \A k \in 1..(j - i + 1) : s[k] = t[i + k - 1]
    BY <1>2, SubSeqProperties
  <1>4. Len(s) = Len(w) /\ \A k \in 1..Len(w) : s[k] = t[i + k - 1]
    BY <1>2, <1>3
  <1> HIDE DEF s, j
  <1>5. s = w => \A k \in 1..Len(w) : t[i + k - 1] = w[k]
    BY <1>4
  <1>6. (\A k \in 1..Len(w) : t[i + k - 1] = w[k]) => s = w
    BY <1>3, <1>4, SameText
  <1> QED
    BY <1>5, <1>6

\* Delimited words that start together are the same, and others do not meet.
LEMMA OneWordAt ==
  ASSUME NEW v \in Seq(Byte), NEW w \in Seq(Byte), Bracketed(v), Bracketed(w),
         NEW t, NEW i, StandsAt(t, i, v), StandsAt(t, i, w)
  PROVE  v = w
  <1> DEFINE W == {w}
  <1>1. Barrier(v, W)
    BY BracketsBar
  <1>2. 1 \in 1..Len(v) /\ 1 \in 1..Len(w)
    BY TextFacts DEF Bracketed
  <1>3. ASSUME NEW k \in 1..Len(v), NEW l \in 1..Len(w), k + 1 = l + 1, v[k] # w[l] PROVE FALSE
    <2>1. k = l
      BY <1>3, TextFacts
    <2> QED
      BY <1>3, <2>1 DEF StandsAt
  <1> QED
    BY <1>1, <1>2, <1>3 DEF Barrier

\* A delimited word starts in no other one.
LEMMA WordsDisjoint ==
  ASSUME NEW v \in Seq(Byte), NEW w \in Seq(Byte), Bracketed(v), Bracketed(w), NEW t \in Seq(Byte),
         NEW i, NEW j, StandsAt(t, i, v), StandsAt(t, j, w), i < j
  PROVE  i + Len(v) <= j
  <1> DEFINE W == {w}
  <1>1. Barrier(v, W)
    BY BracketsBar
  <1>2. /\ Len(v) \in Nat /\ Len(w) \in Nat /\ 1 \in 1..Len(w) /\ Len(t) \in Nat
    BY TextFacts DEF Bracketed
  <1>3. /\ i \in 1..Len(t) /\ j \in 1..Len(t)
        /\ \A k \in 1..Len(v) : t[i + k - 1] = v[k]
        /\ \A k \in 1..Len(w) : t[j + k - 1] = w[k]
    BY DEF StandsAt
  <1>4. i \in Nat /\ j \in Nat
    BY <1>2, <1>3
  <1> SUFFICES ASSUME i + Len(v) > j PROVE FALSE
    BY <1>2, <1>4
  <1>5. j - i + 1 \in 1..Len(v) /\ j - i + 1 # 1
    BY <1>2, <1>4
  <1>6. PICK k \in 1..Len(v), l \in 1..Len(w) : k + 1 = l + (j - i + 1) /\ v[k] # w[l]
    BY <1>1, <1>2, <1>5 DEF Barrier
  <1>7. i + k - 1 = j + l - 1
    BY <1>2, <1>4, <1>6
  <1> QED
    BY <1>3, <1>6, <1>7

\* What a splice makes of a text, byte by byte.
LEMMA SpliceBytes ==
  ASSUME NEW text, NEW hit, NEW jump, NEW piece, Spliceable(text, hit, jump, piece),
         NEW g, Splices(text, hit, jump, piece, g)
  PROVE  /\ \A i \in 1..(Len(text) + 1) : g[i] \in Seq(Byte)
         /\ g[Len(text) + 1] = <<>>
         /\ \A i \in 1..Len(text) :
              g[i] = IF i \in hit THEN piece[i] \bullet g[jump[i]] ELSE <<text[i]>> \bullet g[i+1]
  <1> DEFINE n == Len(text)
             S == 1..(n + 1)
             rank == [i \in S |-> n + 1 - i]
             Good == {i \in S : g[i] \in Seq(Byte)}
  <1>1. n \in Nat /\ \A k \in 1..n : text[k] \in Byte
    BY TextFacts DEF Spliceable
  <1>2. \A i \in hit : jump[i] \in (i+1)..(n + 1) /\ piece[i] \in Seq(Byte)
    BY DEF Spliceable, Utf8
  <1>3. \A i \in S : g[i] = IF i > n THEN <<>>
                            ELSE IF i \in hit THEN piece[i] \bullet g[jump[i]]
                            ELSE <<text[i]>> \bullet g[i+1]
    BY DEF Splices, SpliceStep, \bullet
  <1> HIDE DEF n
  <1>4. ASSUME NEW i \in S, \A j \in S : rank[j] < rank[i] => j \in Good
        PROVE  i \in Good
    <2>1. CASE i > n
      <3>1. g[i] = <<>>
        BY <1>3, <2>1
      <3> QED
        BY <3>1, EmptySeq
    <2>2. CASE ~(i > n) /\ i \in hit
      <3>1. jump[i] \in S /\ jump[i] > i /\ i \in Nat
        BY <1>1, <1>2, <2>2
      <3>2. rank[jump[i]] < rank[i]
        BY <1>1, <3>1
      <3>3. g[jump[i]] \in Seq(Byte)
        BY <1>4, <3>1, <3>2
      <3>4. g[i] = piece[i] \bullet g[jump[i]] /\ piece[i] \in Seq(Byte)
        BY <1>2, <1>3, <2>2
      <3> QED
        BY <3>3, <3>4, ConcatFacts
    <2>3. CASE ~(i > n) /\ i \notin hit
      <3>1. i + 1 \in S /\ rank[i + 1] < rank[i] /\ i \in 1..n
        BY <1>1, <2>3
      <3>2. g[i + 1] \in Seq(Byte) /\ <<text[i]>> \in Seq(Byte)
        BY <1>1, <1>4, <3>1
      <3>3. g[i] = <<text[i]>> \bullet g[i + 1]
        BY <1>3, <2>3
      <3> QED
        BY <3>2, <3>3, ConcatFacts
    <2> QED
      BY <2>1, <2>2, <2>3
  <1>5. S \subseteq Good
    <2>1. rank \in [S -> Nat]
      BY <1>1
    <2> HIDE DEF S, Good, rank
    <2> QED
      BY <1>4, <2>1, RankInduction
  <1>6. n + 1 \in S /\ n + 1 > n /\ \A i \in 1..n : i \in S /\ ~(i > n)
    BY <1>1
  <1>7. \A i \in S : g[i] \in Seq(Byte)
    BY <1>5
  <1>8. g[n + 1] = <<>>
    BY <1>3, <1>6
  <1>9. \A i \in 1..n :
          g[i] = IF i \in hit THEN piece[i] \bullet g[jump[i]] ELSE <<text[i]>> \bullet g[i+1]
    BY <1>3, <1>6
  <1> QED
    BY <1>7, <1>8, <1>9 DEF n

\* What the exact pass looks for, and what it writes.
Literals  == {cfg.entries[k].placeholder : k \in 1..Len(cfg.entries)}
ByLiteral == [w \in Literals |-> Restored(Min(Lookup(w)))]
Exact     == [t \in Seq(Byte) |-> apply_exact(t)]

\* apply_exact rewrites the literals.
LEMMA ExactIsPass ==
  ASSUME ConfigOK, \A w \in Literals : Bracketed(w)
  PROVE  Glossary(Literals, ByLiteral) /\ Rewriter(Literals, ByLiteral, Exact)
  <1>1. \A k \in 1..Len(cfg.entries) :
          cfg.entries[k].placeholder \in Seq(Byte) /\ cfg.entries[k].placeholder # <<>>
    BY DEF ConfigOK, UsableEntry, Utf8
  <1>2. ASSUME NEW w \in Literals
        PROVE  /\ w \in Seq(Byte) /\ w # <<>> /\ Lookup(w) # {} /\ Min(Lookup(w)) \in Lookup(w)
               /\ ByLiteral[w] = Restored(Min(Lookup(w))) /\ ByLiteral[w] \in Seq(Byte)
    <2>1. w \in Seq(Byte) /\ w # <<>> /\ Lookup(w) # {} /\ Lookup(w) \subseteq 1..Len(cfg.entries)
      BY <1>1 DEF Literals, Lookup
    <2>2. Min(Lookup(w)) \in Lookup(w) /\ Utf8(Restored(Min(Lookup(w))))
      BY <2>1, FirstEntry
    <2> QED
      BY <2>1, <2>2 DEF ByLiteral, Utf8
  <1>3. Glossary(Literals, ByLiteral)
    BY <1>2 DEF Glossary
  <1>4. ASSUME NEW t \in Seq(Byte)
        PROVE  /\ Exact[t] \in Seq(Byte)
               /\ \E g : Rewrites(Literals, ByLiteral, t, g) /\ Exact[t] = g[1]
    <2> DEFINE n == Len(t)
    <2>1. PICK hit, jump, piece, g : ExactSplice(t, hit, jump, piece, g)
      BY ExactSplices
    <2>2. /\ \A i \in 1..(n + 1) : g[i] \in Seq(Byte)
          /\ g[n + 1] = <<>>
          /\ \A i \in 1..n :
               g[i] = IF i \in hit THEN piece[i] \bullet g[jump[i]] ELSE <<t[i]>> \bullet g[i+1]
      BY <2>1, SpliceBytes DEF ExactSplice
    <2>3. Exact[t] = g[1]
      BY <2>1 DEF ExactSplice, Exact
    <2>4. n \in Nat
      BY TextFacts
    <2>5. ASSUME NEW i \in 1..n, NEW k \in 1..Len(cfg.entries)
          PROVE  k \in HitsAt(t, i) <=> StandsAt(t, i, cfg.entries[k].placeholder)
      <3> DEFINE p == cfg.entries[k].placeholder
      <3>1. p \in Seq(Byte) /\ p # <<>>
        BY <1>1
      <3>2. k \in HitsAt(t, i) <=> i + Len(p) - 1 <= n /\ SubSeq(t, i, i + Len(p) - 1) = p
        BY DEF HitsAt, StartsAt
      <3> HIDE DEF p
      <3>3. k \in HitsAt(t, i) <=> StandsAt(t, i, p)
        BY <3>1, <3>2, StandsSlice
      <3> QED
        BY <3>3 DEF p
    <2>6. ASSUME NEW i \in 1..n, NEW w \in Literals, StandsAt(t, i, w)
          PROVE  g[i] = ByLiteral[w] \bullet g[i + Len(w)]
      <3>1. HitsAt(t, i) = Lookup(w)
        <4>1. ASSUME NEW k \in 1..Len(cfg.entries)
              PROVE  k \in HitsAt(t, i) <=> cfg.entries[k].placeholder = w
          <5>1. cfg.entries[k].placeholder \in Literals
            BY DEF Literals
          <5>2. StandsAt(t, i, cfg.entries[k].placeholder) => cfg.entries[k].placeholder = w
            BY <1>2, <2>6, <5>1, OneWordAt
          <5> QED
            BY <2>5, <2>6, <5>2
        <4> QED
          BY <4>1 DEF HitsAt, Lookup
      <3>2. i \in hit
        BY <1>2, <2>1, <3>1 DEF ExactSplice
      <3>3. /\ jump[i] = i + Len(cfg.entries[Min(Lookup(w))].placeholder)
            /\ piece[i] = Restored(Min(Lookup(w)))
        BY <2>1, <3>1, <3>2 DEF ExactSplice
      <3>4. cfg.entries[Min(Lookup(w))].placeholder = w
        BY <1>2 DEF Lookup
      <3>5. jump[i] = i + Len(w) /\ piece[i] = ByLiteral[w]
        BY <1>2, <3>3, <3>4
      <3> QED
        BY <2>2, <3>2, <3>5
    <2>7. ASSUME NEW i \in 1..n, \A w \in Literals : ~StandsAt(t, i, w)
          PROVE  g[i] = <<t[i]>> \bullet g[i+1]
      <3>1. HitsAt(t, i) = {}
        <4>1. \A k \in 1..Len(cfg.entries) : k \notin HitsAt(t, i)
          BY <2>5, <2>7 DEF Literals
        <4> QED
          BY <4>1 DEF HitsAt
      <3>2. i \notin hit
        BY <2>1, <3>1 DEF ExactSplice
      <3> QED
        BY <2>2, <3>2
    <2>8. Rewrites(Literals, ByLiteral, t, g)
      BY <2>2, <2>6, <2>7 DEF Rewrites
    <2>9. 1 \in 1..(n + 1)
      BY <2>4
    <2> QED
      BY <2>2, <2>3, <2>8, <2>9
  <1>5. Rewriter(Literals, ByLiteral, Exact)
    BY <1>4 DEF Rewriter
  <1> QED
    BY <1>3, <1>5

-----------------------------------------------------------------------------
(* The tolerant pass rewrites the forms whose placeholder has an entry.    *)

\* A slice of a text stands where it was cut.
LEMMA SliceStands ==
  ASSUME NEW t \in Seq(Byte), NEW i \in 1..Len(t), NEW j \in i..Len(t)
  PROVE  LET v == SubSeq(t, i, j)
         IN  v \in Seq(Byte) /\ v # <<>> /\ Len(v) = j - i + 1 /\ StandsAt(t, i, v)
  <1> DEFINE v == SubSeq(t, i, j)
  <1>1. /\ i \in Int /\ j \in Int /\ i <= j /\ j <= Len(t) /\ Len(t) \in Nat
        /\ \A k \in i..j : t[k] \in Byte
    BY TextFacts
  <1>2. /\ v \in Seq(Byte) /\ Len(v) = IF i <= j THEN j - i + 1 ELSE 0
    BY <1>1, SubSeqProperties
  <1> HIDE DEF v
  <1>3. Len(v) = j - i + 1 /\ v # <<>>
    BY <1>1, <1>2, EmptySeq
  <1>4. i + Len(v) - 1 = j
    BY <1>1, <1>3
  <1>5. StandsAt(t, i, v)
    BY <1>1, <1>2, <1>3, <1>4, StandsSlice DEF v
  <1> QED
    BY <1>2, <1>3, <1>5 DEF v

\* The scan of a rule with delimited forms finds each that stands in the text.
LEMMA ScanFinds ==
  ASSUME NEW t \in Seq(Byte), NEW r \in Known, \A v \in DOMAIN Recognize[r] : Bracketed(v),
         NEW w \in DOMAIN Recognize[r], Recognize[r][w] # 0, NEW i, StandsAt(t, i, w)
  PROVE  [rule |-> r, start |-> i, end |-> i + Len(w),
          placeholder |-> Canonical[r][Recognize[r][w]]] \in scan_rule(t, r)
  <1> DEFINE n == Len(t)
             j == i + Len(w) - 1
             m == [rule |-> r, start |-> i, end |-> i + Len(w),
                   placeholder |-> Canonical[r][Recognize[r][w]]]
  <1>1. PICK found, next, from : Scans(t, r, found, next, from)
    BY ScanPass
  <1>2. \A v \in DOMAIN Recognize[r] : v \in Seq(Byte) /\ Bracketed(v)
    BY DemaskerAssumption DEF Utf8
  <1>3. /\ w \in Seq(Byte) /\ w # <<>> /\ Len(w) \in Nat /\ Len(w) >= 2
        /\ w[1] = "<" /\ w[Len(w)] = ">" /\ Len(t) \in Nat
    BY <1>2, TextFacts DEF Bracketed
  <1>4. /\ i \in 1..n /\ i \in Nat /\ j <= n /\ j \in i..n /\ n \in Nat
        /\ t[i] = "<" /\ t[j] = ">" /\ SubSeq(t, i, j) = w
    <2>1. /\ i \in 1..Len(t) /\ i + Len(w) - 1 <= Len(t)
          /\ \A k \in 1..Len(w) : t[i + k - 1] = w[k]
      BY DEF StandsAt
    <2>2. 1 \in 1..Len(w) /\ Len(w) \in 1..Len(w) /\ i + 1 - 1 = i /\ i \in Nat
      BY <1>3, <2>1
    <2>3. t[i] = "<" /\ t[j] = ">"
      BY <1>3, <2>1, <2>2
    <2>4. SubSeq(t, i, j) = w
      BY <1>3, <2>1, StandsSlice
    <2>5. j \in i..n
      BY <1>3, <2>1, <2>2
    <2> QED
      BY <1>3, <2>1, <2>2, <2>3, <2>4, <2>5
  <1>5. ASSUME NEW p \in 1..n, NEW e \in EndsOf(t, r, p)
        PROVE  /\ e \in p..n /\ SubSeq(t, p, e) \in Seq(Byte) /\ Bracketed(SubSeq(t, p, e))
               /\ Len(SubSeq(t, p, e)) = e - p + 1 /\ StandsAt(t, p, SubSeq(t, p, e))
    <2>1. e \in p..n /\ SubSeq(t, p, e) \in DOMAIN Recognize[r]
      BY DEF EndsOf
    <2> QED
      BY <1>2, <2>1, SliceStands
  <1>6. EndsOf(t, r, i) = {j}
    <2>1. j \in EndsOf(t, r, i)
      BY <1>4 DEF EndsOf
    <2>2. ASSUME NEW e \in EndsOf(t, r, i) PROVE e = j
      <3> DEFINE v == SubSeq(t, i, e)
      <3>1. e \in i..n /\ v \in Seq(Byte) /\ Bracketed(v) /\ Len(v) = e - i + 1 /\ StandsAt(t, i, v)
        BY <1>4, <1>5
      <3> HIDE DEF v
      <3>2. v = w
        BY <1>2, <1>3, <3>1, OneWordAt
      <3> QED
        BY <1>3, <1>4, <3>1, <3>2
    <2> QED
      BY <2>1, <2>2
  <1>7. m \in found[i]
    <2>1. found[i] = FoundAt(t, r, i, Min(EndsOf(t, r, i))) /\ Min(EndsOf(t, r, i)) = j
      BY <1>1, <1>4, <1>6 DEF Scans
    <2>2. j + 1 = i + Len(w)
      BY <1>3, <1>4
    <2>3. m \in FoundAt(t, r, i, j)
      BY <1>4, <2>2 DEF FoundAt
    <2> QED
      BY <2>1, <2>3
  <1>8. ASSUME NEW p \in 1..n, p < i PROVE next[p] \in (p + 1)..i
    <2>1. p \in Nat /\ next[p] \in (p + 1)..(n + 1)
      BY <1>1, <1>4 DEF Scans
    <2>2. CASE EndsOf(t, r, p) = {}
      <3>1. next[p] = p + 1
        BY <1>1, <2>2 DEF Scans
      <3> QED
        BY <1>4, <1>8, <2>1, <3>1
    <2>3. CASE EndsOf(t, r, p) # {}
      <3> DEFINE e == Min(EndsOf(t, r, p))
                 v == SubSeq(t, p, e)
      <3>1. e \in EndsOf(t, r, p) /\ next[p] = e + 1
        BY <1>1, <2>3 DEF Scans
      <3>2. e \in p..n /\ v \in Seq(Byte) /\ Bracketed(v) /\ Len(v) = e - p + 1 /\ StandsAt(t, p, v)
        BY <1>5, <3>1
      <3> HIDE DEF v, e
      <3>3. p + Len(v) <= i
        BY <1>2, <1>3, <1>8, <3>2, WordsDisjoint
      <3>4. next[p] <= i
        BY <1>4, <2>1, <3>1, <3>2, <3>3
      <3> QED
        BY <1>4, <2>1, <3>4, SMTT(60)
    <2> QED
      BY <2>2, <2>3
  <1> DEFINE S == 1..i
             rank == [p \in S |-> i - p]
             Good == {p \in S : m \in from[p]}
  <1>9. \A p \in 1..n : from[p] = found[p] \cup from[next[p]]
    <2>1. /\ \A p \in 1..(n + 1) : from[p] = IF p > n THEN {} ELSE found[p] \cup from[next[p]]
      BY <1>1 DEF Scans, Collects
    <2>2. \A p \in 1..n : p \in 1..(n + 1) /\ ~(p > n)
      BY <1>4, SMTT(60)
    <2> QED
      BY <2>1, <2>2
  <1> HIDE DEF m, n, j
  <1>10. ASSUME NEW p \in S, \A q \in S : rank[q] < rank[p] => q \in Good
         PROVE  p \in Good
    <2>1. p \in 1..n /\ p \in Nat /\ p <= i
      BY <1>4
    <2>2. CASE p = i
      BY <1>7, <1>9, <2>1, <2>2
    <2>3. CASE p # i
      <3>1. next[p] \in (p + 1)..i
        BY <1>4, <1>8, <2>1, <2>3
      <3>2. next[p] \in S /\ rank[next[p]] < rank[p]
        BY <1>4, <2>1, <3>1, SMTT(60)
      <3>3. m \in from[next[p]]
        BY <1>10, <3>2
      <3> QED
        BY <1>9, <2>1, <3>3
    <2> QED
      BY <2>2, <2>3
  <1>11. S \subseteq Good
    <2>1. rank \in [S -> Nat]
      BY <1>4
    <2> HIDE DEF S, Good, rank
    <2> QED
      BY <1>10, <2>1, RankInduction
  <1>12. 1 \in S
    BY <1>4
  <1>13. scan_rule(t, r) = from[1]
    BY <1>1 DEF Scans
  <1> QED
    BY <1>11, <1>12, <1>13 DEF m

\* The rules that take a form, the placeholder it stands for, and what the tolerant pass
\* writes for it.
Forms          == UNION {DOMAIN Recognize[r] : r \in cfg.rules}
Recognizers(w) == {r \in cfg.rules : w \in DOMAIN Recognize[r] /\ Recognize[r][w] # 0}
Minted(w)      == Canonical[Min(Recognizers(w))][Recognize[Min(Recognizers(w))][w]]
Paraphrases    == {w \in Forms : Recognizers(w) # {} /\ Lookup(Minted(w)) # {}}
ByForm         == [w \in Paraphrases |-> Restored(Min(Lookup(Minted(w))))]
Tolerant       == [t \in Seq(Byte) |-> apply_placeholder_regex(t)]

\* What the tolerant pass matches stands in the text, and a form that stands in it is
\* matched by the first of its rules.
LEMMA MatchStands ==
  ASSUME ConfigOK, \A w \in Forms : Bracketed(w), NEW t \in Seq(Byte), NEW m \in AllMatches(t)
  PROVE  LET v == SubSeq(t, m.start, m.end - 1)
         IN  /\ v \in Forms /\ v \in Seq(Byte) /\ v # <<>> /\ StandsAt(t, m.start, v)
             /\ m.rule \in Recognizers(v) /\ m.end = m.start + Len(v)
             /\ m = [rule |-> m.rule, start |-> m.start, end |-> m.end,
                     placeholder |-> Canonical[m.rule][Recognize[m.rule][v]]]
  <1>1. PICK r \in cfg.rules : m \in scan_rule(t, r)
    BY DEF AllMatches
  <1>2. r \in Known
    BY DEF ConfigOK
  <1>3. Reported(t, r, m)
    BY <1>1, <1>2, ScanReports
  <1> DEFINE v == SubSeq(t, m.start, m.end - 1)
  <1>4. /\ m.rule = r /\ m.start \in 1..Len(t) /\ m.end \in (m.start + 1)..(Len(t) + 1)
        /\ v \in DOMAIN Recognize[r] /\ Recognize[r][v] # 0
        /\ m = [rule |-> r, start |-> m.start, end |-> m.end,
                placeholder |-> Canonical[r][Recognize[r][v]]]
    BY <1>3 DEF Reported
  <1>5. v \in Forms /\ m.rule \in Recognizers(v)
    BY <1>4 DEF Forms, Recognizers
  <1>6. Len(t) \in Nat
    BY TextFacts
  <1>7. m.end - 1 \in m.start..Len(t) /\ (m.end - 1) - m.start + 1 = m.end - m.start
    BY <1>4, <1>6
  <1>8. v \in Seq(Byte) /\ v # <<>> /\ Len(v) = m.end - m.start /\ StandsAt(t, m.start, v)
    BY <1>4, <1>7, SliceStands
  <1> HIDE DEF v
  <1>9. m.end = m.start + Len(v)
    BY <1>4, <1>6, <1>8
  <1> QED
    BY <1>4, <1>5, <1>8, <1>9 DEF v

\* A form that stands in the text is matched.
LEMMA FormMatched ==
  ASSUME ConfigOK, \A w \in Forms : Bracketed(w), NEW t \in Seq(Byte),
         NEW w \in Forms, Recognizers(w) # {}, NEW i, StandsAt(t, i, w)
  PROVE  [rule |-> Min(Recognizers(w)), start |-> i, end |-> i + Len(w),
          placeholder |-> Minted(w)] \in Matches(t)
  <1> DEFINE r == Min(Recognizers(w))
             m == [rule |-> r, start |-> i, end |-> i + Len(w), placeholder |-> Minted(w)]
             all == AllMatches(t)
  <1>1. r \in Recognizers(w) /\ \A q \in Recognizers(w) : q \in Nat /\ r <= q
    <2>1. Recognizers(w) \subseteq Nat
      BY DemaskerAssumption DEF Recognizers, ConfigOK
    <2> QED
      BY <2>1, MinNat
  <1>2. r \in cfg.rules /\ r \in Known /\ w \in DOMAIN Recognize[r] /\ Recognize[r][w] # 0
        /\ r \in Nat /\ \A v \in DOMAIN Recognize[r] : v \in Forms
    BY <1>1 DEF Recognizers, ConfigOK, Forms
  <1>3. m \in scan_rule(t, r)
    <2>1. [rule |-> r, start |-> i, end |-> i + Len(w),
           placeholder |-> Canonical[r][Recognize[r][w]]] \in scan_rule(t, r)
      <3> HIDE DEF r
      <3> QED
        BY <1>2, ScanFinds
    <2> QED
      BY <2>1 DEF Minted
  <1>4. m \in all
    BY <1>2, <1>3 DEF AllMatches
  <1>5. \A o \in all : Form(t, o)
    BY MatchesFacts
  <1>6. w \in Seq(Byte) /\ Bracketed(w) /\ Len(w) \in Nat /\ i \in Nat
    <2>1. w \in Seq(Byte)
      BY <1>2, DemaskerAssumption DEF Utf8
    <2>2. i \in 1..Len(t) /\ Len(t) \in Nat
      BY TextFacts DEF StandsAt
    <2> QED
      BY <2>1, <2>2, TextFacts
  <1>7. m.rule = r /\ m.start = i /\ m.end = i + Len(w)
    OBVIOUS
  <1> HIDE DEF r
  <1>8. ASSUME NEW o \in all, o # m
        PROVE  IF o.start < m.start THEN o.end <= m.start ELSE MatchBefore(m, o)
    <2> DEFINE v == SubSeq(t, o.start, o.end - 1)
    <2>1. /\ v \in Forms /\ v \in Seq(Byte) /\ StandsAt(t, o.start, v)
          /\ o.rule \in Recognizers(v) /\ o.end = o.start + Len(v)
          /\ o = [rule |-> o.rule, start |-> o.start, end |-> o.end,
                  placeholder |-> Canonical[o.rule][Recognize[o.rule][v]]]
      BY <1>8, MatchStands
    <2> HIDE DEF v
    <2>2. Bracketed(v) /\ o.start \in Nat
      <3>1. o.start \in 1..Len(t) /\ Len(t) \in Nat
        BY <2>1, TextFacts DEF StandsAt
      <3> QED
        BY <2>1, <3>1
    <2>3. CASE o.start < i
      <3>1. o.start + Len(v) <= i
        BY <1>6, <2>1, <2>2, <2>3, WordsDisjoint
      <3> QED
        BY <1>7, <2>1, <2>3, <3>1
    <2>4. CASE i < o.start
      BY <1>6, <1>7, <2>2, <2>4 DEF MatchBefore
    <2>5. CASE o.start = i
      <3>1. v = w
        BY <1>6, <2>1, <2>2, <2>5, OneWordAt
      <3>2. o.end = m.end /\ o.rule \in Nat /\ r <= o.rule
        BY <1>1, <1>7, <2>1, <2>5, <3>1
      <3>3. o.rule # r
        <4> SUFFICES ASSUME o.rule = r PROVE FALSE
          OBVIOUS
        <4>1. o = [rule |-> r, start |-> i, end |-> i + Len(w),
                   placeholder |-> Canonical[r][Recognize[r][w]]]
          BY <1>7, <2>1, <2>5, <3>1, <3>2
        <4>2. o = m
          BY <4>1 DEF Minted, r
        <4> QED
          BY <1>8, <4>2
      <3>4. r < o.rule
        BY <1>2, <3>2, <3>3
      <3> QED
        BY <1>6, <1>7, <2>5, <3>2, <3>4 DEF MatchBefore
    <2> QED
      BY <1>6, <2>2, <2>3, <2>4, <2>5
  <1> HIDE DEF m, all
  <1>9. m \in resolve_conflicts(all)
    BY <1>4, <1>5, <1>8, ResolvedKeeps
  <1> QED
    BY <1>9 DEF m, all, r, Matches

\* apply_placeholder_regex rewrites the forms whose placeholder has an entry.
LEMMA TolerantIsPass ==
  ASSUME ConfigOK, \A w \in Forms : Bracketed(w)
  PROVE  Glossary(Paraphrases, ByForm) /\ Rewriter(Paraphrases, ByForm, Tolerant)
  <1>1. ASSUME NEW w \in Forms PROVE w \in Seq(Byte) /\ w # <<>> /\ Bracketed(w)
    <2>1. PICK r \in cfg.rules : w \in DOMAIN Recognize[r]
      BY DEF Forms
    <2>2. r \in Known
      BY DEF ConfigOK
    <2>3. w \in Seq(Byte) /\ Bracketed(w)
      BY <2>1, <2>2, DemaskerAssumption DEF Utf8
    <2> QED
      BY <2>3, TextFacts DEF Bracketed
  <1>2. ASSUME NEW w \in Paraphrases
        PROVE  ByForm[w] = Restored(Min(Lookup(Minted(w)))) /\ ByForm[w] \in Seq(Byte)
    <2>1. Lookup(Minted(w)) # {} /\ Lookup(Minted(w)) \subseteq 1..Len(cfg.entries)
      BY DEF Paraphrases, Lookup
    <2>2. Utf8(Restored(Min(Lookup(Minted(w)))))
      BY <2>1, FirstEntry
    <2> QED
      BY <2>2 DEF ByForm, Utf8
  <1>3. \A w \in Paraphrases : w \in Forms /\ Recognizers(w) # {} /\ Lookup(Minted(w)) # {}
    BY DEF Paraphrases
  <1>4. Glossary(Paraphrases, ByForm)
    BY <1>1, <1>2, <1>3 DEF Glossary
  <1>5. ASSUME NEW t \in Seq(Byte)
        PROVE  /\ Tolerant[t] \in Seq(Byte)
               /\ \E g : Rewrites(Paraphrases, ByForm, t, g) /\ Tolerant[t] = g[1]
    <2> DEFINE n == Len(t)
    <2>1. PICK hit, jump, piece, g : TolerantSplice(t, hit, jump, piece, g)
      BY TolerantSplices
    <2>2. /\ \A i \in 1..(n + 1) : g[i] \in Seq(Byte)
          /\ g[n + 1] = <<>>
          /\ \A i \in 1..n :
               g[i] = IF i \in hit THEN piece[i] \bullet g[jump[i]] ELSE <<t[i]>> \bullet g[i+1]
      BY <2>1, SpliceBytes DEF TolerantSplice
    <2>3. Tolerant[t] = g[1]
      BY <2>1 DEF TolerantSplice, Tolerant
    <2>4. n \in Nat
      BY TextFacts
    <2>5. /\ Matches(t) \subseteq AllMatches(t)
          /\ \A x, y \in Matches(t) : x.start = y.start => x = y
      BY MatchesFacts
    <2>6. ASSUME NEW i \in 1..n, NEW w \in Paraphrases, StandsAt(t, i, w)
          PROVE  g[i] = ByForm[w] \bullet g[i + Len(w)]
      <3> DEFINE m == [rule |-> Min(Recognizers(w)), start |-> i, end |-> i + Len(w),
                       placeholder |-> Minted(w)]
      <3>1. m \in Matches(t)
        BY <1>3, <2>6, FormMatched
      <3>2. m.start = i /\ m.end = i + Len(w) /\ m.placeholder = Minted(w)
        OBVIOUS
      <3> HIDE DEF m
      <3>3. t[i] = "<"
        <4>1. w[1] = "<" /\ Len(w) >= 2 /\ Len(w) \in Nat
          BY <1>1, <1>3, TextFacts DEF Bracketed
        <4>2. 1 \in 1..Len(w) /\ i + 1 - 1 = i
          BY <2>4, <4>1
        <4>3. t[i + 1 - 1] = w[1]
          BY <2>6, <4>2 DEF StandsAt
        <4> QED
          BY <4>1, <4>2, <4>3
      <3>4. Restores(t, i)
        BY <1>3, <3>1, <3>2, <3>3 DEF Restores
      <3>5. i \in hit
        BY <2>1, <3>4 DEF TolerantSplice
      <3>6. /\ MatchAt(t, i) \in Matches(t) /\ MatchAt(t, i).start = i
            /\ jump[i] = MatchAt(t, i).end
            /\ piece[i] = Restored(Min(Lookup(MatchAt(t, i).placeholder)))
        BY <2>1, <3>5 DEF TolerantSplice
      <3>7. MatchAt(t, i) = m
        BY <2>5, <3>1, <3>2, <3>6
      <3>8. jump[i] = i + Len(w) /\ piece[i] = ByForm[w]
        BY <1>2, <3>2, <3>6, <3>7
      <3> QED
        BY <2>2, <3>5, <3>8
    <2>7. ASSUME NEW i \in 1..n, \A w \in Paraphrases : ~StandsAt(t, i, w)
          PROVE  g[i] = <<t[i]>> \bullet g[i+1]
      <3>1. ASSUME i \in hit PROVE FALSE
        <4> DEFINE o == MatchAt(t, i)
                   w == SubSeq(t, o.start, o.end - 1)
                   m == [rule |-> Min(Recognizers(w)), start |-> i, end |-> i + Len(w),
                         placeholder |-> Minted(w)]
        <4>1. o \in Matches(t) /\ o.start = i /\ Lookup(o.placeholder) # {}
          BY <2>1, <3>1 DEF TolerantSplice
        <4> HIDE DEF o
        <4>2. w \in Forms /\ StandsAt(t, i, w) /\ Recognizers(w) # {}
          BY <2>5, <4>1, MatchStands
        <4> HIDE DEF w
        <4>3. m \in Matches(t)
          BY <4>2, FormMatched
        <4>4. m.start = i /\ m.placeholder = Minted(w)
          OBVIOUS
        <4> HIDE DEF m
        <4>5. o = m
          BY <2>5, <4>1, <4>3, <4>4
        <4>6. w \in Paraphrases
          BY <4>1, <4>2, <4>4, <4>5 DEF Paraphrases
        <4> QED
          BY <2>7, <4>2, <4>6
      <3> QED
        BY <2>2, <3>1
    <2>8. Rewrites(Paraphrases, ByForm, t, g)
      BY <2>2, <2>6, <2>7 DEF Rewrites
    <2>9. 1 \in 1..(n + 1)
      BY <2>4
    <2> QED
      BY <2>2, <2>3, <2>8, <2>9
  <1>6. Rewriter(Paraphrases, ByForm, Tolerant)
    BY <1>5 DEF Rewriter
  <1> QED
    BY <1>4, <1>6

-----------------------------------------------------------------------------
(* demask_chunk is two such passes.                                        *)

\* demask_chunk's two passes.
Both == [t \in Seq(Byte) |-> Tolerant[Exact[t]]]

\* They are two passes as above, when the table is apart.
LEMMA DemaskIsTwoPasses ==
  ASSUME stream \in Streams, ConfigOK, ConfigFits(stream), TableApart(stream)
  PROVE  TwoPasses(Literals, ByLiteral, Exact, Paraphrases, ByForm, Tolerant, Both)
  <1> DEFINE Q == Literals \cup Paraphrases
  <1>1. \A k \in 1..Len(cfg.entries) :
          cfg.entries[k] \in Range(stream.replacements) /\ cfg.entries[k].placeholder # <<>>
    BY DEF ConfigFits
  <1>2. Literals \subseteq Tokens(stream) /\ Forms \subseteq Tokens(stream)
    <2>1. Literals \subseteq Tokens(stream)
      BY <1>1 DEF Literals, Tokens
    <2>2. Forms \subseteq Tokens(stream)
      BY DEF Forms, Tokens, ConfigFits
    <2> QED
      BY <2>1, <2>2
  <1>3. \A w \in Tokens(stream) : Bracketed(w)
    BY DEF TableApart
  <1>4. \A k \in 1..Len(cfg.entries) :
          Restored(k) # <<>> /\ \A w \in Tokens(stream) : Apart(Restored(k), w)
    <2> SUFFICES ASSUME NEW k \in 1..Len(cfg.entries)
                 PROVE  Restored(k) # <<>> /\ \A w \in Tokens(stream) : Apart(Restored(k), w)
      OBVIOUS
    <2> DEFINE o == cfg.entries[k].original
               v == Restored(k)
    <2>1. v \in {o, JsonEscape(o)}
      BY DEF Restored
    <2> HIDE DEF v
    <2>2. v # <<>> /\ \A w \in Tokens(stream) : Apart(v, w)
      BY <1>1, <2>1 DEF TableApart
    <2> QED
      BY <2>2 DEF v
  <1>5. Glossary(Literals, ByLiteral) /\ Rewriter(Literals, ByLiteral, Exact)
    BY <1>2, <1>3, ExactIsPass
  <1>6. Glossary(Paraphrases, ByForm) /\ Rewriter(Paraphrases, ByForm, Tolerant)
    BY <1>2, <1>3, TolerantIsPass
  <1>7. Q \subseteq Tokens(stream)
    BY <1>2 DEF Paraphrases
  <1>8. \A q \in Q : q \in Seq(Byte) /\ q # <<>> /\ Bracketed(q)
    BY <1>3, <1>5, <1>6, <1>7 DEF Glossary
  <1>9. ASSUME NEW ks, ks \subseteq 1..Len(cfg.entries), ks # {}
        PROVE  Restored(Min(ks)) # <<>> /\ \A q \in Q : Apart(Restored(Min(ks)), q)
    <2>1. Min(ks) \in 1..Len(cfg.entries)
      BY <1>9, FirstEntry
    <2> QED
      BY <1>4, <1>7, <2>1
  <1>10. ASSUME NEW w \in Literals PROVE ByLiteral[w] # <<>> /\ \A q \in Q : Apart(ByLiteral[w], q)
    <2>1. Lookup(w) \subseteq 1..Len(cfg.entries) /\ Lookup(w) # {}
      BY DEF Literals, Lookup
    <2>2. ByLiteral[w] = Restored(Min(Lookup(w)))
      BY DEF ByLiteral
    <2> QED
      BY <1>9, <2>1, <2>2
  <1>11. ASSUME NEW w \in Paraphrases PROVE ByForm[w] # <<>> /\ \A q \in Q : Apart(ByForm[w], q)
    <2>1. Lookup(Minted(w)) \subseteq 1..Len(cfg.entries) /\ Lookup(Minted(w)) # {}
      BY DEF Paraphrases, Lookup
    <2>2. ByForm[w] = Restored(Min(Lookup(Minted(w))))
      BY DEF ByForm
    <2> QED
      BY <1>9, <2>1, <2>2
  <1>12. \A t \in Seq(Byte) : Both[t] = Tolerant[Exact[t]]
    BY DEF Both
  <1> HIDE DEF Q
  <1> QED
    BY <1>5, <1>6, <1>8, <1>10, <1>11, <1>12 DEF TwoPasses, Q

\* What demask_chunk makes of a text.
LEMMA DemaskedIsBoth ==
  ASSUME TwoPasses(Literals, ByLiteral, Exact, Paraphrases, ByForm, Tolerant, Both),
         NEW t \in Seq(Byte)
  PROVE  Demasked(t) = {Both[t]} /\ Both[t] \in Seq(Byte) /\ apply_exact(t) = Exact[t]
         /\ Exact[t] \in Seq(Byte)
  <1>1. apply_exact(t) = Exact[t]
    BY DEF Exact
  <1>2. Exact[t] \in Seq(Byte)
    BY DEF TwoPasses, Rewriter
  <1>3. Tolerant[Exact[t]] = apply_placeholder_regex(Exact[t])
    BY <1>2 DEF Tolerant
  <1>4. Tolerant[Exact[t]] \in Seq(Byte)
    BY <1>2 DEF TwoPasses, Rewriter
  <1>5. Both[t] = Tolerant[Exact[t]]
    BY DEF Both
  <1>6. Demasked(t) = {apply_placeholder_regex(apply_exact(t))}
    BY DEF Demasked
  <1> QED
    BY <1>1, <1>2, <1>3, <1>4, <1>5, <1>6

\* Nothing of it changes along a behaviour.
LEMMA SameBoth ==
  ASSUME stream' = stream, cfg' = cfg, json_ctx' = json_ctx
  PROVE  /\ Both' = Both /\ TableApart(stream)' = TableApart(stream)
         /\ FormsFit(stream)' = FormsFit(stream) /\ ConfigFits(stream)' = ConfigFits(stream)
  <1>1. \A t : apply_exact(t)' = apply_exact(t)
    BY DEF apply_exact, StartsAt, Restored
  <1>2. \A t : apply_placeholder_regex(t)' = apply_placeholder_regex(t)
    BY DEF apply_placeholder_regex, Lookup, Restored
  <1>3. Exact' = Exact
    BY <1>1 DEF Exact
  <1>4. Tolerant' = Tolerant
    BY <1>2 DEF Tolerant
  <1>5. Both' = Both
    BY <1>3, <1>4 DEF Both
  <1>6. TableApart(stream)' = TableApart(stream)
    OBVIOUS
  <1>7. FormsFit(stream)' = FormsFit(stream)
    OBVIOUS
  <1>8. ConfigFits(stream)' = ConfigFits(stream)
    BY DEF ConfigFits
  <1> QED
    BY <1>5, <1>6, <1>7, <1>8

-----------------------------------------------------------------------------
(* The hold-back covers every word.                                        *)

\* What may be emitted is part of the text, and unless it is nothing, the longest that can
\* be looked for fits into the rest.
LEMMA SafeBound ==
  ASSUME ConfigOK, NEW text \in Seq(Byte)
  PROVE  /\ SafeEnd(text) \in 0..Len(text)
         /\ SafeEnd(text) = 0 \/ Len(text) - SafeEnd(text) >= cfg.max_pending
  <1> DEFINE n == Len(text)
             M == cfg.max_pending
             e == SafeEnd(text)
  <1>1. n \in Nat /\ M \in Nat
    BY LenProperties DEF ConfigOK
  <1>2. CASE n <= M
    <2>1. e = 0
      BY <1>2 DEF SafeEnd
    <2> QED
      BY <1>1, <2>1
  <1>3. CASE ~(n <= M) /\ M = 0
    <2>1. e = utf8_safe_prefix_end(text, n)
      BY <1>1, <1>3 DEF SafeEnd
    <2>2. e = n
      BY <1>1, <1>3, <2>1 DEF utf8_safe_prefix_end
    <2> QED
      BY <1>1, <1>3, <2>2
  <1>4. CASE ~(n <= M) /\ M # 0
    <2> DEFINE end == n - M
               starts == {i \in 1..end : is_rune_start(text[i])}
    <2>1. e = utf8_safe_prefix_end(text, end)
      BY <1>4 DEF SafeEnd
    <2>2. end \in Nat /\ end # 0 /\ ~(end >= n) /\ end <= n /\ n - end = M
      BY <1>1, <1>4
    <2> HIDE DEF end
    <2>3. CASE starts = {}
      <3>1. e = 0
        BY <2>1, <2>2, <2>3 DEF utf8_safe_prefix_end
      <3> QED
        BY <1>1, <3>1
    <2>4. CASE starts # {}
      <3> DEFINE i == Max(starts)
      <3>1. i \in starts
        <4>1. starts \subseteq Nat /\ \A k \in starts : k <= end
          BY <2>2
        <4> HIDE DEF starts
        <4> QED
          BY <2>2, <2>4, <4>1, MaxNat
      <3>2. e = IF i - 1 + rune_len_at(text, i) <= end THEN end ELSE i - 1
        BY <2>1, <2>2, <2>4 DEF utf8_safe_prefix_end
      <3> HIDE DEF i
      <3>3. i \in 1..end
        BY <3>1
      <3>4. e \in {end, i - 1}
        BY <3>2
      <3>5. e \in 0..end
        BY <2>2, <3>3, <3>4
      <3> HIDE DEF e
      <3>6. n - e >= M
        BY <1>1, <2>2, <3>5
      <3> QED
        BY <1>1, <2>2, <3>5, <3>6 DEF e
    <2> QED
      BY <2>3, <2>4
  <1> QED
    BY <1>2, <1>3, <1>4

\* The end of a chunk cuts what the passes make of it in two.
LEMMA ChunkCut ==
  ASSUME ConfigOK, NEW text \in Seq(Byte)
  PROVE  LET a == SubSeq(text, 1, SafeEnd(text))
             b == SubSeq(text, SafeEnd(text) + 1, Len(text))
         IN  /\ a \in Seq(Byte) /\ b \in Seq(Byte) /\ text = a \bullet b
             /\ a = <<>> \/ Len(b) >= cfg.max_pending
  <1> DEFINE n == Len(text)
             e == SafeEnd(text)
             a == SubSeq(text, 1, e)
             b == SubSeq(text, e + 1, n)
  <1>1. n \in Nat /\ e \in 0..n /\ (e = 0 \/ n - e >= cfg.max_pending)
    BY LenProperties, SafeBound
  <1> HIDE DEF e
  <1> DEFINE j == e + 1
  <1>2. 1 \in 1..(n + 1) /\ j \in 1..(n + 1) /\ j - 1 = e /\ e \in Nat
    BY <1>1
  <1> HIDE DEF j
  <1>3. /\ SubSeq(text, 1, j - 1) \in Seq(Byte) /\ SubSeq(text, j, n) \in Seq(Byte)
        /\ SubSeq(text, 1, n) = SubSeq(text, 1, j - 1) \o SubSeq(text, j, n)
    BY <1>2, CutAt
  <1>4. a \in Seq(Byte) /\ b \in Seq(Byte) /\ SubSeq(text, 1, n) = a \o b
    BY <1>2, <1>3 DEF j
  <1>5. SubSeq(text, 1, n) = text
    BY SubSeqFull
  <1>6. text = a \bullet b
    BY <1>4, <1>5 DEF \bullet
  <1>7. Len(a) = e
    <2>1. \A i \in 1..e : i \in 1..n
      BY <1>1, <1>2
    <2>2. \A i \in 1..e : text[i] \in Byte
      BY <2>1, ElementOfSeq
    <2>3. Len(a) = IF 1 <= e THEN e - 1 + 1 ELSE 0
      BY <1>2, <2>2, SubSeqProperties
    <2> QED
      BY <1>2, <2>3
  <1> HIDE DEF a, b, n
  <1>8. Len(a) \in Nat /\ Len(b) \in Nat /\ Len(text) = Len(a) + Len(b)
    BY <1>4, <1>6, ConcatFacts
  <1>9. Len(b) = n - e
    BY <1>2, <1>7, <1>8 DEF n
  <1>10. a = <<>> \/ Len(b) >= cfg.max_pending
    <2>1. e = 0 => a = <<>>
      BY <1>4, <1>7, TextFacts
    <2> QED
      BY <1>1, <1>9, <2>1
  <1> QED
    BY <1>4, <1>6, <1>10 DEF a, b, n, e

\* Nothing that is looked for is longer than what is held back.
LEMMA WordsFit ==
  ASSUME stream \in Streams, ConfigOK, ConfigFits(stream), FormsFit(stream),
         \A w \in Literals \cup Paraphrases : w \in Seq(Byte),
         NEW w \in Literals \cup Paraphrases
  PROVE  Len(w) <= cfg.max_pending
  <1>1. Len(w) \in Nat /\ cfg.max_pending \in Nat
    BY TextFacts DEF ConfigOK
  <1>2. CASE w \in Literals
    BY <1>2 DEF Literals, ConfigFits
  <1>3. CASE w \in Paraphrases
    <2>1. PICK r \in cfg.rules : w \in DOMAIN Recognize[r]
      BY <1>3 DEF Paraphrases, Forms
    <2>2. r \in RulesOf(stream) /\ r \in Known /\ PlaceholderLen[r] <= cfg.max_pending
      BY <2>1 DEF ConfigFits, ConfigOK
    <2>3. Len(w) <= PlaceholderLen[r] /\ PlaceholderLen[r] \in Nat
      BY <2>1, <2>2, DemaskerAssumption DEF FormsFit
    <2> QED
      BY <1>1, <2>2, <2>3
  <1> QED
    BY <1>2, <1>3

-----------------------------------------------------------------------------
(* A stream that is cut reads as one that is not.                          *)

\* Whatever follows, s reads as r.
ReadAlike(D, s, r) == \A x \in Seq(Byte) : D[s \bullet x] = D[r \bullet x]

\* Whatever follows p, it does not change e.
Final(D, e, p) == \A x \in Seq(Byte) : D[(e \bullet p) \bullet x] = e \bullet D[p \bullet x]

\* If what was emitted and held back reads as what was received, so it does when the
\* passes have gone over it and the next chunk.
LEMMA ReadsAsReceived ==
  ASSUME NEW D, NEW e \in Seq(Byte), NEW p \in Seq(Byte), NEW c \in Seq(Byte),
         NEW r \in Seq(Byte), ReadAlike(D, e \bullet p, r),
         NEW z \in Seq(Byte),
         \A s, t \in Seq(Byte) : D[s \bullet (z \bullet t)] = D[s \bullet ((p \bullet c) \bullet t)]
  PROVE  ReadAlike(D, e \bullet z, r \bullet c)
  <1> SUFFICES ASSUME NEW x \in Seq(Byte)
               PROVE  D[(e \bullet z) \bullet x] = D[(r \bullet c) \bullet x]
    BY DEF ReadAlike
  <1> DEFINE u == p \bullet c
             y == c \bullet x
  <1>1. u \in Seq(Byte) /\ y \in Seq(Byte)
    BY ConcatFacts
  <1>2. (e \bullet z) \bullet x = e \bullet (z \bullet x)
    BY Assoc
  <1>3. D[e \bullet (z \bullet x)] = D[e \bullet (u \bullet x)]
    OBVIOUS
  <1>4. u \bullet x = p \bullet y
    BY Assoc
  <1>5. (r \bullet c) \bullet x = r \bullet y
    BY Assoc
  <1> HIDE DEF u, y
  <1>6. (e \bullet p) \bullet y = e \bullet (p \bullet y)
    BY <1>1, Assoc
  <1>7. D[(e \bullet p) \bullet y] = D[r \bullet y]
    BY <1>1 DEF ReadAlike
  <1> QED
    BY <1>2, <1>3, <1>4, <1>5, <1>6, <1>7

\* If only what is held back was still open, so it is when some of it and of the next
\* chunk has been let go.
LEMMA EmittedForGood ==
  ASSUME NEW W1, NEW V1, NEW R1, NEW W2, NEW V2, NEW R2, NEW D,
         TwoPasses(W1, V1, R1, W2, V2, R2, D),
         NEW e \in Seq(Byte), NEW p \in Seq(Byte), NEW c \in Seq(Byte),
         Final(D, e, p),
         NEW a \in Seq(Byte), NEW b \in Seq(Byte), D[p \bullet c] = a \bullet b,
         a = <<>> \/ (Fit(W1, b) /\ Fit(W2, b))
  PROVE  Final(D, e \bullet a, b)
  <1> SUFFICES ASSUME NEW x \in Seq(Byte)
               PROVE  D[((e \bullet a) \bullet b) \bullet x] = (e \bullet a) \bullet D[b \bullet x]
    BY DEF Final
  <1> DEFINE u == p \bullet c
             y == c \bullet x
             w == b \bullet x
             d == D[u]
  <1>1. u \in Seq(Byte) /\ y \in Seq(Byte) /\ w \in Seq(Byte) /\ e \bullet a \in Seq(Byte)
    BY ConcatFacts
  <1>2. \A t \in Seq(Byte) : D[t] \in Seq(Byte)
    BY DEF TwoPasses, Rewriter
  <1>3. u \bullet x = p \bullet y
    BY Assoc
  <1>4. ((e \bullet a) \bullet b) \bullet x = (e \bullet a) \bullet w
    BY <1>1, Assoc
  <1>5. d = a \bullet b /\ d \bullet x = a \bullet w
    BY Assoc
  <1> HIDE DEF u, y, w
  <1>6. D[u] \in Seq(Byte) /\ D[w] \in Seq(Byte)
    BY <1>1, <1>2
  <1>7. D[e \bullet (d \bullet x)] = D[e \bullet (u \bullet x)]
    BY <1>1, PassesAhead
  <1>8. \A z \in Seq(Byte) : D[z \bullet (d \bullet x)] = D[z \bullet (u \bullet x)]
    BY <1>1, PassesAhead
  <1> HIDE DEF d
  <1>9. d \bullet x \in Seq(Byte) /\ u \bullet x \in Seq(Byte)
    BY <1>1, <1>6, ConcatFacts DEF d
  <1>10. D[d \bullet x] = D[u \bullet x]
    <2>1. <<>> \in Seq(Byte)
      BY EmptySeq
    <2>2. D[<<>> \bullet (d \bullet x)] = D[<<>> \bullet (u \bullet x)]
      BY <1>8, <2>1
    <2> QED
      BY <1>9, <2>2, ConcatEmpty
  <1>11. D[a \bullet w] = a \bullet D[w]
    <2>1. CASE a = <<>>
      BY <1>1, <1>6, <2>1, ConcatEmpty
    <2>2. CASE Fit(W1, b) /\ Fit(W2, b)
      <3>1. D[u] = a \bullet b
        BY <1>5 DEF d
      <3>2. D[a \bullet (b \bullet x)] = a \bullet D[b \bullet x]
        BY <1>1, <2>2, <3>1, LetGo
      <3> QED
        BY <3>2 DEF w
    <2> QED
      BY <2>1, <2>2
  <1>12. (e \bullet a) \bullet w = e \bullet (a \bullet w)
    BY <1>1, Assoc
  <1>13. (e \bullet p) \bullet y = e \bullet (p \bullet y)
    BY <1>1, Assoc
  <1>14. D[(e \bullet p) \bullet y] = e \bullet D[p \bullet y]
    BY <1>1 DEF Final
  <1>15. (e \bullet a) \bullet D[w] = e \bullet (a \bullet D[w])
    BY <1>6, Assoc
  <1>16. D[(e \bullet a) \bullet w] = (e \bullet a) \bullet D[w]
    BY <1>3, <1>5, <1>7, <1>10, <1>11, <1>12, <1>13, <1>14, <1>15
  <1> QED
    BY <1>4, <1>16 DEF w

\* A chunk adds to what was received.
LEMMA ReceivedGrows ==
  ASSUME stream \in Streams, sent \in 0..Len(stream.bytes),
         NEW n \in 0..(Len(stream.bytes) - sent)
  PROVE  /\ Received \in Seq(Byte) /\ Take(n) \in Seq(Byte)
         /\ SubSeq(stream.bytes, 1, sent + n) = Received \bullet Take(n)
  <1> DEFINE s == SubSeq(stream.bytes, 1, sent + n)
             i == sent + 1
  <1>1. stream.bytes \in Seq(Byte) /\ Len(stream.bytes) \in Nat
    <2>1. Utf8(stream.bytes)
      BY DemaskerAssumption
    <2> QED
      BY <2>1, LenProperties DEF Utf8
  <1>2. \A k \in 1..Len(stream.bytes) : stream.bytes[k] \in Byte
    BY <1>1, ElementOfSeq
  <1>3. \A k \in 1..(sent + n) : stream.bytes[k] \in Byte
    BY <1>1, <1>2
  <1>4. \A k \in 1..sent : stream.bytes[k] \in Byte
    BY <1>1, <1>2
  <1>5. \A k \in i..(sent + n) : stream.bytes[k] \in Byte
    BY <1>1, <1>2
  <1>6. sent \in Nat /\ n \in Nat /\ i \in Int /\ sent + n \in Int /\ sent \in 0..(sent + n)
    BY <1>1
  <1>7. Received \in Seq(Byte)
    BY <1>4, <1>6, SubSeqProperties DEF Received
  <1>8. Take(n) \in Seq(Byte)
    BY <1>5, <1>6, SubSeqProperties DEF Take
  <1>9. SubSeq(stream.bytes, 1, sent) \o SubSeq(stream.bytes, sent + 1, sent + n) = s
    <2>1. 1 \in Int /\ sent \in (1 - 1)..(sent + n)
      BY <1>6
    <2> QED
      BY <1>3, <1>6, <2>1, ConcatAdjacentSubSeq
  <1> QED
    BY <1>7, <1>8, <1>9 DEF Received, Take, \bullet

-----------------------------------------------------------------------------
(* The invariant of a stream whose table is apart.                         *)

\* The passes of this stream.
ThePasses == TwoPasses(Literals, ByLiteral, Exact, Paraphrases, ByForm, Tolerant, Both)

\* What was emitted and is held back reads as what was received, and only what is held
\* back is still open.
PassesInv ==
  /\ HInv /\ ConfigFits(stream) /\ pending \in Seq(Byte)
  /\ TableApart(stream) => ReadAlike(Both, emitted \bullet pending, Received)

WholeInv ==
  /\ PassesInv
  /\ TableApart(stream) /\ FormsFit(stream) /\ ~faulted =>
       /\ ~closed => Final(Both, emitted, pending)
       /\ closed => emitted = Both[stream.bytes]

\* It holds when the stream starts, with nothing received.
LEMMA InitWhole == Init => WholeInv
  <1> SUFFICES ASSUME Init PROVE WholeInv
    OBVIOUS
  <1>1. /\ stream \in Streams /\ cfg = make_config(stream) /\ sent = 0
        /\ pending = <<>> /\ emitted = <<>> /\ closed = FALSE
    BY DEF Init
  <1>2. HInv /\ ConfigOK /\ ConfigFits(stream)
    BY <1>1, InitHInv, ConfigOfStream
  <1>3. pending \in Seq(Byte) /\ emitted \in Seq(Byte) /\ emitted \bullet pending = <<>>
    BY <1>1, EmptySeq, ConcatEmpty
  <1>4. Received = <<>>
    BY <1>1, SubSeqEmpty DEF Received
  <1>5. ReadAlike(Both, emitted \bullet pending, Received)
    BY <1>3, <1>4 DEF ReadAlike
  <1>6. ASSUME TableApart(stream) PROVE Final(Both, emitted, pending)
    <2>1. \A x \in Seq(Byte) : Both[x] \in Seq(Byte)
      BY <1>1, <1>2, <1>6, DemaskIsTwoPasses, DemaskedIsBoth
    <2> SUFFICES ASSUME NEW x \in Seq(Byte)
                 PROVE  Both[(emitted \bullet pending) \bullet x]
                          = emitted \bullet Both[pending \bullet x]
      BY DEF Final
    <2>2. <<>> \bullet x = x /\ <<>> \bullet Both[x] = Both[x]
      BY <2>1, ConcatEmpty
    <2> QED
      BY <1>1, <1>3, <2>2
  <1> QED
    BY <1>1, <1>2, <1>3, <1>5, <1>6 DEF WholeInv, PassesInv

\* Before a call nothing was closed: there is a text to go on with.
LEMMA BeforeCall ==
  ASSUME PassesInv, ~closed
  PROVE  /\ stream \in Streams /\ ConfigOK /\ ConfigFits(stream)
         /\ sent \in 0..Len(stream.bytes) /\ emitted \in Seq(Byte) /\ pending \in Seq(Byte)
         /\ TableApart(stream) => ThePasses /\ ReadAlike(Both, emitted \bullet pending, Received)
  BY DemaskIsTwoPasses DEF PassesInv, HInv, ThePasses

\* A chunk may be demasked ahead of what follows, and its safe prefix let go.
LEMMA ChunkWhole ==
  ASSUME WholeInv, NEW n \in Chunks, DemaskChunk(n)
  PROVE  WholeInv'
  <1> DEFINE u == pending \bullet Take(n)
             t == Both[u]
             a == SubSeq(t, 1, SafeEnd(t))
             b == SubSeq(t, SafeEnd(t) + 1, Len(t))
  <1>1. /\ stream' = stream /\ cfg' = cfg /\ json_ctx' = json_ctx /\ faulted' = faulted
        /\ ~closed /\ closed' = closed /\ sent' = sent + n
    BY DEF DemaskChunk
  <1>2. PassesInv /\ HInv'
    BY ChunkStep DEF WholeInv, PassesInv
  <1>3. /\ stream \in Streams /\ ConfigOK /\ ConfigFits(stream)
        /\ sent \in 0..Len(stream.bytes) /\ emitted \in Seq(Byte) /\ pending \in Seq(Byte)
        /\ TableApart(stream) => ThePasses /\ ReadAlike(Both, emitted \bullet pending, Received)
    BY <1>1, <1>2, BeforeCall
  <1>4. n \in 0..(Len(stream.bytes) - sent)
    BY <1>3, ChunkSize
  <1>5. /\ Received \in Seq(Byte) /\ Take(n) \in Seq(Byte)
        /\ Received' = Received \bullet Take(n)
    BY <1>1, <1>3, <1>4, ReceivedGrows DEF Received
  <1>6. pending' \in Seq(Byte)
    <2>1. Continues'
      BY <1>1, <1>2 DEF HInv
    <2> QED
      BY <2>1 DEF Continues, Reads
  <1>7. ConfigFits(stream)'
    BY <1>1, <1>3, SameBoth
  <1>8. ASSUME TableApart(stream)
        PROVE  /\ ReadAlike(Both, emitted \bullet pending, Received)'
               /\ FormsFit(stream) /\ Final(Both, emitted, pending)
                    => Final(Both, emitted, pending)'
    <2>1. ThePasses /\ ReadAlike(Both, emitted \bullet pending, Received)
      BY <1>3, <1>8
    <2>2. u \in Seq(Byte)
      BY <1>3, <1>5, ConcatFacts
    <2> HIDE DEF u
    <2>3. Demasked(u) = {t} /\ t \in Seq(Byte)
      BY <2>1, <2>2, DemaskedIsBoth DEF ThePasses
    <2>4. emitted' = emitted \bullet a /\ pending' = b
      <3>1. pending \o Take(n) = u
        BY DEF u, \bullet
      <3>2. PICK text \in Demasked(u) : \E end \in {SafeEnd(text)} :
              /\ emitted' = emitted \o SubSeq(text, 1, end)
              /\ pending' = SubSeq(text, end + 1, Len(text))
        BY <3>1, Zenon DEF DemaskChunk
      <3>3. text = t
        BY <2>3, <3>2
      <3> HIDE DEF t
      <3> QED
        BY <3>2, <3>3 DEF \bullet
    <2> HIDE DEF t
    <2>5. /\ a \in Seq(Byte) /\ b \in Seq(Byte) /\ t = a \bullet b
          /\ a = <<>> \/ Len(b) >= cfg.max_pending
      BY <1>3, <2>3, ChunkCut
    <2> HIDE DEF a, b
    <2>6. emitted' \bullet pending' = emitted \bullet t
      BY <1>3, <2>4, <2>5, Assoc
    <2>7. \A x, y \in Seq(Byte) : Both[x \bullet (t \bullet y)] = Both[x \bullet (u \bullet y)]
      BY <2>1, <2>2, PassesAhead DEF ThePasses, t
    <2>8. ReadAlike(Both, emitted \bullet t, Received \bullet Take(n))
      BY <1>3, <1>5, <2>1, <2>3, <2>7, ReadsAsReceived DEF u
    <2>9. Both' = Both
      BY <1>1, SameBoth
    <2>10. ReadAlike(Both, emitted \bullet pending, Received)'
      BY <1>5, <2>6, <2>8, <2>9 DEF ReadAlike
    <2>11. ASSUME FormsFit(stream) PROVE a = <<>> \/ (Fit(Literals, b) /\ Fit(Paraphrases, b))
      <3>1. \A w \in Literals \cup Paraphrases : w \in Seq(Byte)
        BY <2>1 DEF ThePasses, TwoPasses
      <3>2. \A w \in Literals \cup Paraphrases : Len(w) <= cfg.max_pending /\ Len(w) \in Nat
        BY <1>3, <2>11, <3>1, WordsFit, TextFacts
      <3>3. cfg.max_pending \in Nat /\ Len(b) \in Nat
        BY <1>3, <2>5, TextFacts DEF ConfigOK
      <3> QED
        BY <2>5, <3>2, <3>3 DEF Fit
    <2>12. ASSUME FormsFit(stream), Final(Both, emitted, pending)
           PROVE  Final(Both, emitted', pending')
      <3>1. Both[pending \bullet Take(n)] = a \bullet b
        BY <2>5 DEF t, u
      <3>2. a = <<>> \/ (Fit(Literals, b) /\ Fit(Paraphrases, b))
        BY <2>11, <2>12
      <3> QED
        BY <1>3, <1>5, <2>1, <2>4, <2>5, <2>12, <3>1, <3>2, EmittedForGood DEF ThePasses
    <2> QED
      BY <2>9, <2>10, <2>12 DEF Final
  <1>9. TableApart(stream)' = TableApart(stream) /\ FormsFit(stream)' = FormsFit(stream)
    BY <1>1, SameBoth
  <1>10. PassesInv'
    BY <1>2, <1>6, <1>7, <1>8, <1>9 DEF PassesInv
  <1> QED
    BY <1>1, <1>8, <1>9, <1>10 DEF WholeInv

\* What the caller emits after a DemaskError reads as what was received.
LEMMA ErrorWhole ==
  ASSUME WholeInv, NEW n \in Chunks, DemaskError(n)
  PROVE  WholeInv'
  <1> DEFINE u == pending \bullet Take(n)
             t == Exact[u]
  <1>1. /\ stream' = stream /\ cfg' = cfg /\ json_ctx' = json_ctx /\ faulted' = TRUE
        /\ ~closed /\ sent' = sent + n /\ pending' = <<>>
    BY DEF DemaskError
  <1>2. PassesInv /\ HInv'
    BY ErrorStep DEF WholeInv, PassesInv
  <1>3. /\ stream \in Streams /\ ConfigOK /\ ConfigFits(stream)
        /\ sent \in 0..Len(stream.bytes) /\ emitted \in Seq(Byte) /\ pending \in Seq(Byte)
        /\ TableApart(stream) => ThePasses /\ ReadAlike(Both, emitted \bullet pending, Received)
    BY <1>1, <1>2, BeforeCall
  <1>4. n \in 0..(Len(stream.bytes) - sent)
    BY <1>3, ChunkSize
  <1>5. /\ Received \in Seq(Byte) /\ Take(n) \in Seq(Byte)
        /\ Received' = Received \bullet Take(n)
    BY <1>1, <1>3, <1>4, ReceivedGrows DEF Received
  <1>6. pending' \in Seq(Byte)
    BY <1>1, EmptySeq
  <1>7. ConfigFits(stream)'
    BY <1>1, <1>3, SameBoth
  <1>8. ASSUME TableApart(stream)
        PROVE  ReadAlike(Both, emitted \bullet pending, Received)'
    <2>1. ThePasses /\ ReadAlike(Both, emitted \bullet pending, Received)
      BY <1>3, <1>8
    <2>2. u \in Seq(Byte) /\ u = pending \o Take(n)
      BY <1>3, <1>5, ConcatFacts DEF \bullet
    <2> HIDE DEF u
    <2>3. apply_exact(u) = t /\ t \in Seq(Byte)
      BY <2>1, <2>2, DemaskedIsBoth DEF ThePasses
    <2> HIDE DEF t
    <2>4. emitted' = emitted \bullet t
      BY <2>2, <2>3 DEF DemaskError, \bullet
    <2>5. emitted' \bullet pending' = emitted \bullet t
      <3>1. emitted \bullet t \in Seq(Byte)
        BY <1>3, <2>3, ConcatFacts
      <3> QED
        BY <1>1, <2>4, <3>1, ConcatEmpty
    <2>6. \A x, y \in Seq(Byte) : Both[x \bullet (t \bullet y)] = Both[x \bullet (u \bullet y)]
      <3>1. u \in Seq(Byte)
        BY <2>2
      <3>2. \A x, y \in Seq(Byte) :
              Both[x \bullet (Exact[u] \bullet y)] = Both[x \bullet (u \bullet y)]
        BY <2>1, <3>1, FirstPassAhead DEF ThePasses
      <3> QED
        BY <3>2 DEF t
    <2>7. ReadAlike(Both, emitted \bullet t, Received \bullet Take(n))
      BY <1>3, <1>5, <2>1, <2>3, <2>6, ReadsAsReceived DEF u
    <2>8. Both' = Both
      BY <1>1, SameBoth
    <2> QED
      BY <1>5, <2>5, <2>7, <2>8 DEF ReadAlike
  <1>9. TableApart(stream)' = TableApart(stream)
    BY <1>1, SameBoth
  <1>10. PassesInv'
    BY <1>2, <1>6, <1>7, <1>8, <1>9 DEF PassesInv
  <1> QED
    BY <1>1, <1>10 DEF WholeInv

\* The last call restores what was still open.
LEMMA FlushWhole ==
  ASSUME WholeInv, Flush
  PROVE  WholeInv'
  <1> DEFINE n == Len(stream.bytes) - sent
             u == pending \bullet Take(n)
             t == Both[u]
  <1>1. /\ stream' = stream /\ cfg' = cfg /\ json_ctx' = json_ctx /\ faulted' = faulted
        /\ ~closed /\ closed' = TRUE /\ sent' = Len(stream.bytes) /\ pending' = <<>>
    BY DEF Flush
  <1>2. PassesInv /\ HInv'
    BY FlushStep DEF WholeInv, PassesInv
  <1>3. /\ stream \in Streams /\ ConfigOK /\ ConfigFits(stream)
        /\ sent \in 0..Len(stream.bytes) /\ emitted \in Seq(Byte) /\ pending \in Seq(Byte)
        /\ TableApart(stream) => ThePasses /\ ReadAlike(Both, emitted \bullet pending, Received)
    BY <1>1, <1>2, BeforeCall
  <1>4. stream.bytes \in Seq(Byte) /\ Len(stream.bytes) \in Nat
    <2>1. Utf8(stream.bytes)
      BY <1>3, DemaskerAssumption
    <2> QED
      BY <2>1, LenProperties DEF Utf8
  <1>5. n \in 0..(Len(stream.bytes) - sent) /\ sent + n = Len(stream.bytes)
    BY <1>3, <1>4
  <1>6. /\ Received \in Seq(Byte) /\ Take(n) \in Seq(Byte)
        /\ Received' = Received \bullet Take(n) /\ Received' = stream.bytes
    <2>1. Received' = SubSeq(stream.bytes, 1, sent + n)
      BY <1>1, <1>5 DEF Received
    <2>2. Received' = stream.bytes
      BY <1>4, <1>5, <2>1, SubSeqFull
    <2> HIDE DEF n
    <2> QED
      BY <1>3, <1>5, <2>1, <2>2, ReceivedGrows
  <1>7. pending' \in Seq(Byte)
    BY <1>1, EmptySeq
  <1>8. ConfigFits(stream)'
    BY <1>1, <1>3, SameBoth
  <1>9. ASSUME TableApart(stream)
        PROVE  /\ ReadAlike(Both, emitted \bullet pending, Received)'
               /\ Final(Both, emitted, pending) => (emitted = Both[stream.bytes])'
    <2>1. ThePasses /\ ReadAlike(Both, emitted \bullet pending, Received)
      BY <1>3, <1>9
    <2> DEFINE c == Take(n)
    <2>2. u \in Seq(Byte) /\ u = pending \o c /\ c \in Seq(Byte)
      BY <1>3, <1>6, ConcatFacts DEF \bullet
    <2> HIDE DEF u
    <2>3. Demasked(u) = {t} /\ t \in Seq(Byte)
      BY <2>1, <2>2, DemaskedIsBoth DEF ThePasses
    <2>4. emitted' = emitted \bullet t
      <3>1. PICK text \in Demasked(u) : emitted' = emitted \o text
        BY <2>2, Zenon DEF Flush
      <3> HIDE DEF t
      <3> QED
        BY <2>3, <3>1 DEF \bullet
    <2> HIDE DEF t
    <2>5. emitted' \bullet pending' = emitted \bullet t
      <3>1. emitted \bullet t \in Seq(Byte)
        BY <1>3, <2>3, ConcatFacts
      <3> QED
        BY <1>1, <2>4, <3>1, ConcatEmpty
    <2>6. \A x, y \in Seq(Byte) : Both[x \bullet (t \bullet y)] = Both[x \bullet (u \bullet y)]
      <3>1. u \in Seq(Byte)
        BY <2>2
      <3>2. \A x, y \in Seq(Byte) :
              Both[x \bullet (Both[u] \bullet y)] = Both[x \bullet (u \bullet y)]
        BY <2>1, <3>1, PassesAhead DEF ThePasses
      <3> QED
        BY <3>2 DEF t
    <2> HIDE DEF c
    <2>7. ReadAlike(Both, emitted \bullet t, Received \bullet c)
      BY <1>3, <1>6, <2>1, <2>2, <2>3, <2>6, ReadsAsReceived DEF u, c
    <2>8. Both' = Both
      BY <1>1, SameBoth
    <2>9. ReadAlike(Both, emitted \bullet pending, Received)'
      BY <1>6, <2>5, <2>7, <2>8 DEF ReadAlike, c
    <2>10. ASSUME Final(Both, emitted, pending) PROVE emitted' = Both[stream.bytes]
      <3>1. Both[(emitted \bullet pending) \bullet c] = emitted \bullet t
        BY <2>2, <2>10 DEF Final, t, u, c
      <3>2. Both[(emitted \bullet pending) \bullet c] = Both[Received \bullet c]
        BY <2>1, <2>2 DEF ReadAlike
      <3> QED
        BY <1>6, <2>4, <3>1, <3>2 DEF c
    <2> QED
      BY <1>1, <2>8, <2>9, <2>10
  <1>10. TableApart(stream)' = TableApart(stream)
    BY <1>1, SameBoth
  <1>11. PassesInv'
    BY <1>2, <1>7, <1>8, <1>9, <1>10 DEF PassesInv
  <1>12. FormsFit(stream)' = FormsFit(stream)
    BY <1>1, SameBoth
  <1> QED
    BY <1>1, <1>9, <1>10, <1>11, <1>12 DEF WholeInv

\* Every step keeps it.
LEMMA StepWhole == WholeInv /\ [Next]_vars => WholeInv'
  <1> SUFFICES ASSUME WholeInv, [Next]_vars PROVE WholeInv'
    OBVIOUS
  <1>1. ASSUME NEW n \in Chunks, DemaskChunk(n) PROVE WholeInv'
    BY <1>1, ChunkWhole
  <1>2. ASSUME NEW n \in Chunks, DemaskError(n) PROVE WholeInv'
    BY <1>2, ErrorWhole
  <1>3. CASE Flush
    BY <1>3, FlushWhole
  <1>4. CASE UNCHANGED vars
    <2>1. /\ stream' = stream /\ cfg' = cfg /\ json_ctx' = json_ctx /\ pending' = pending
          /\ emitted' = emitted /\ faulted' = faulted /\ closed' = closed /\ sent' = sent
      BY <1>4 DEF vars
    <2>2. /\ Both' = Both /\ TableApart(stream)' = TableApart(stream)
          /\ FormsFit(stream)' = FormsFit(stream) /\ ConfigFits(stream)' = ConfigFits(stream)
      BY <2>1, SameBoth
    <2>3. HInv' /\ Received' = Received
      BY <1>4, <2>1, StepHInv DEF WholeInv, PassesInv, Received
    <2> QED
      BY <2>1, <2>2, <2>3 DEF WholeInv, PassesInv, ReadAlike, Final
  <1>5. CASE Closed
    BY <1>4, <1>5 DEF Closed
  <1> QED
    BY <1>1, <1>2, <1>3, <1>4, <1>5 DEF Next
-----------------------------------------------------------------------------
(* The theorems.                                                           *)

\* The hold-back of demask_chunk splits no rune, wherever the response is cut.
THEOREM RunesKeptWhole == Spec => []RunesWhole
  <1>1. HInv => RunesWhole
    <2> SUFFICES ASSUME HInv, emitted # <<>>, pending # <<>>, ~faulted
                 PROVE  is_rune_start(Head(pending)) /\ RuneBytes[Last(emitted)] <= 1
      BY DEF RunesWhole
    <2>1. ~closed /\ cfg.max_pending # 0 /\ Continues
      BY DEF HInv
    <2>2. PICK b : Reads(pending, 0, b) /\ RuneBytes[Last(emitted)] <= 1
      BY <2>1 DEF Continues
    <2> QED
      BY <2>2, FirstByte
  <1> QED
    BY InitHInv, StepHInv, <1>1, PTL DEF Spec

\* However long the response, demask_chunk holds back less than the longest
\* placeholder and one rune.
THEOREM BufferBounded == Spec => []HoldBackBounded
  <1>1. HInv => HoldBackBounded
    BY DEF HInv
  <1> QED
    BY InitHInv, StepHInv, <1>1, PTL DEF Spec

\* utf8_safe_prefix_end trims what demask_chunk emits to whole runes, and by less than one.
THEOREM CutAtTheBound == Spec => []HoldBackExact
  <1>1. RunesWhole /\ HoldBackBounded <=> HoldBackExact
    BY DEF HoldBackExact
  <1> QED
    BY RunesKeptWhole, BufferBounded, <1>1, PTL

\* However the response was cut and wherever the tolerant pass failed, no byte is lost,
\* duplicated or moved by demask_chunk or by its caller's fallback.
THEOREM NothingLost == Spec => [](TableApart(stream) => Lossless)
  <1>1. WholeInv => (TableApart(stream) => Lossless)
    <2> SUFFICES ASSUME WholeInv, TableApart(stream) PROVE Lossless
      OBVIOUS
    <2>1. /\ PassesInv /\ stream \in Streams /\ ConfigOK /\ ConfigFits(stream)
          /\ sent \in 0..Len(stream.bytes) /\ emitted \in Seq(Byte) /\ pending \in Seq(Byte)
          /\ ReadAlike(Both, emitted \bullet pending, Received)
      BY DEF WholeInv, PassesInv, HInv
    <2>2. ThePasses
      BY <2>1, DemaskIsTwoPasses DEF ThePasses
    <2> DEFINE s == emitted \bullet pending
               r == Received
    <2>3. s \in Seq(Byte) /\ s = emitted \o pending
      BY <2>1, ConcatFacts DEF \bullet
    <2>4. r \in Seq(Byte)
      <3>1. Len(stream.bytes) \in Nat
        <4>1. Utf8(stream.bytes)
          BY <2>1, DemaskerAssumption
        <4> QED
          BY <4>1, LenProperties DEF Utf8
      <3>2. 0 \in 0..(Len(stream.bytes) - sent)
        BY <2>1, <3>1
      <3> QED
        BY <2>1, <3>2, ReceivedGrows
    <2>5. ReadAlike(Both, s, r)
      BY <2>1
    <2> HIDE DEF s, r
    <2>6. Both[s] = Both[r]
      <3>1. Both[s \bullet <<>>] = Both[r \bullet <<>>]
        BY <2>5, EmptySeq DEF ReadAlike
      <3> QED
        BY <2>3, <2>4, <3>1, ConcatEmpty
    <2>7. Demasked(s) = {Both[s]} /\ Demasked(r) = {Both[r]}
      BY <2>2, <2>3, <2>4, DemaskedIsBoth DEF ThePasses
    <2>8. UNION {Demasked(text) : text \in {s, r}} = {Both[r]}
      BY <2>6, <2>7
    <2> QED
      BY <2>3, <2>8 DEF Lossless, r
  <1> QED
    BY InitWhole, StepWhole, <1>1, PTL DEF Spec

\* However the response was cut, the client reads what demask_chunk makes of it in one
\* piece: max_pending holds back enough.
THEOREM CutUnseen == Spec => [](TableApart(stream) /\ FormsFit(stream) => AsOnePiece)
  <1>1. WholeInv => (TableApart(stream) /\ FormsFit(stream) => AsOnePiece)
    <2> SUFFICES ASSUME WholeInv, TableApart(stream), FormsFit(stream), closed, ~faulted
                 PROVE  {emitted} = Demasked(stream.bytes)
      BY DEF AsOnePiece
    <2>1. /\ stream \in Streams /\ ConfigOK /\ ConfigFits(stream) /\ emitted = Both[stream.bytes]
      BY DEF WholeInv, PassesInv, HInv
    <2>2. stream.bytes \in Seq(Byte)
      BY <2>1, DemaskerAssumption DEF Utf8
    <2>3. Demasked(stream.bytes) = {Both[stream.bytes]}
      BY <2>1, <2>2, DemaskIsTwoPasses, DemaskedIsBoth
    <2> QED
      BY <2>1, <2>3
  <1> QED
    BY InitWhole, StepWhole, <1>1, PTL DEF Spec
=============================================================================
