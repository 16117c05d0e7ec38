------------------------------ MODULE TaskProofs ------------------------------
(***************************************************************************)
(* Proofs about single tasks: what a call of process makes of one image    *)
(* (TaskProcess, under InputsAssumption), and what an object holds and     *)
(* returns through its life (TaskObject).                                  *)
(*                                                                         *)
(* The loops of the tasks are functions defined by recursion over their    *)
(* turns.  For each of them the proof shows that the function exists       *)
(* (RecursionExists), takes its two equations, and carries an invariant of *)
(* the loop through all turns (RecursionKeeps, InductionUpTo).             *)
(***************************************************************************)
EXTENDS TaskProcess, TaskObject, InductionLemmas, FiniteSetTheorems, TLAPS

-----------------------------------------------------------------------------
(* The planes of combine-test. *)

\* After i rounds of the loop.
PlanesInv(mem, s, i) ==
    /\ Len(s.out) = i + 1
    /\ s.tmp1 = T!and_op(mem, i, i + 1)
    /\ s.out[1] = T!and_op(mem, 0, 1)
    /\ \A k \in 1 .. i :
          s.out[k + 1] = T!or_op(T!and_op(mem, k - 1, k), T!and_op(mem, k, k + 1))

\* The loop over the planes leaves in each the planes around it.
LEMMA PlanesCombined ==
    ASSUME NEW planes \in Nat \ {0, 1}, NEW mem
    PROVE  T!CombineExact(mem, planes, T!Combined(mem, planes))
<1> DEFINE N == planes - 2
           X == [T!Pixels -> BOOLEAN]
           V == [out : Seq(X), tmp1 : X]
           a == [out |-> <<T!and_op(mem, 0, 1)>>, tmp1 |-> T!and_op(mem, 0, 1)]
           Step1(i, s) == T!CombinePlane(mem, s, i)
           K(f) == [i \in 0 .. N |-> IF i = 0 THEN a ELSE Step1(i, f[i - 1])]
           g == [p \in (1 .. N) \X V |-> Step1(p[1], p[2])]
           Loop == CHOOSE f : f = K(f)
<1>1. T!Combined(mem, planes) = Append(Loop[N].out, Loop[N].tmp1)
  BY DEF T!Combined
<1>2. N \in Nat /\ planes = N + 2
  OBVIOUS
<1>3. \A i, k : T!and_op(mem, i, k) \in X
  BY DEF T!and_op
<1>4. a \in V
  BY <1>3
<1>5. ASSUME NEW i \in 1 .. N, NEW s \in V PROVE Step1(i, s) \in V
  <2>1. T!or_op(s.tmp1, T!and_op(mem, i, i + 1)) \in X
    BY DEF T!or_op
  <2> HIDE DEF X
  <2>2. QED
    BY <1>3, <2>1 DEF T!CombinePlane
<1>6. g \in [(1 .. N) \X V -> V] /\ \A i \in 1 .. N, s \in V : g[<<i, s>>] = Step1(i, s)
  BY <1>5
<1> HIDE DEF g, Step1, N, V, a
<1>7. PICK f \in [0 .. N -> V] : Recursive(f, N, a, g)
  BY <1>2, <1>4, <1>6, RecursionExists
<1>8. f = K(f)
  <2>1. ASSUME NEW i \in 0 .. N PROVE f[i] = K(f)[i]
    <3>1. CASE i = 0
      BY <1>7, <3>1 DEF Recursive
    <3>2. CASE i # 0
      <4>1. i \in 1 .. N /\ f[i - 1] \in V
        BY <1>2, <3>2
      <4>2. f[i] = Step1(i, f[i - 1])
        BY <1>6, <1>7, <4>1 DEF Recursive
      <4>3. QED
        BY <3>2, <4>2
    <3>3. QED
      BY <3>1, <3>2
  <2>2. QED
    BY <2>1
<1>9. ASSUME NEW h PROVE K(h)[0] = a /\ \A i \in 1 .. N : K(h)[i] = Step1(i, h[i - 1])
  BY <1>2
<1> HIDE DEF K
<1>10. Loop = K(Loop)
  BY <1>8
<1> HIDE DEF Loop
<1>11. Loop[0] = a /\ \A i \in 1 .. N : Loop[i] = Step1(i, Loop[i - 1])
  BY <1>9, <1>10
<1>12. \A i \in 0 .. N : Loop[i] \in V
  <2>1. Loop[0] \in V /\ \A i \in 1 .. N : Loop[i - 1] \in V => Loop[i] \in V
    BY <1>4, <1>5, <1>11
  <2>2. QED
    BY <1>2, <2>1, RecursionKeeps
<1> DEFINE Good == {i \in 0 .. N : PlanesInv(mem, Loop[i], i)}
<1>13. 0 \in Good
  <2>1. Loop[0] = a /\ 0 \in 0 .. N
    BY <1>2, <1>11
  <2>2. PlanesInv(mem, a, 0)
    BY DEF PlanesInv, a
  <2>3. QED
    BY <2>1, <2>2
<1>14. ASSUME NEW i \in 0 .. N - 1, i \in Good PROVE i + 1 \in Good
  <2> DEFINE s == Loop[i]
             t == Loop[i + 1]
             both == T!or_op(T!and_op(mem, i, i + 1), T!and_op(mem, i + 1, (i + 1) + 1))
  <2>1. i + 1 \in 1 .. N /\ i + 1 \in 0 .. N /\ i \in 0 .. N /\ (i + 1) - 1 = i
    BY <1>2
  <2>2. s \in V /\ t = Step1(i + 1, s) /\ PlanesInv(mem, s, i)
    BY <1>11, <1>12, <1>14, <2>1
  <2> HIDE DEF s, t
  <2>3. s.out \in Seq(X) /\ Len(s.out) = i + 1 /\ s.tmp1 = T!and_op(mem, i, i + 1)
    BY <2>2 DEF PlanesInv, V
  <2>4. t.out = Append(s.out, both) /\ t.tmp1 = T!and_op(mem, i + 1, (i + 1) + 1)
    BY <2>2, <2>3 DEF Step1, T!CombinePlane
  <2> HIDE DEF X, both
  <2>5. /\ Len(t.out) = (i + 1) + 1 /\ t.out[(i + 1) + 1] = both
        /\ \A k \in 1 .. i + 1 : t.out[k] = s.out[k]
    BY <2>1, <2>3, <2>4
  <2>6. t.out[1] = T!and_op(mem, 0, 1)
    BY <2>1, <2>2, <2>5 DEF PlanesInv
  <2>7. ASSUME NEW k \in 1 .. i + 1
        PROVE  t.out[k + 1] = T!or_op(T!and_op(mem, k - 1, k), T!and_op(mem, k, k + 1))
    <3>1. CASE k = i + 1
      <4>1. k - 1 = i
        BY <2>1, <3>1
      <4>2. QED
        BY <2>5, <3>1, <4>1 DEF both
    <3>2. CASE k # i + 1
      <4>1. k \in 1 .. i /\ k + 1 \in 1 .. i + 1
        BY <2>1, <3>2
      <4>2. QED
        BY <2>2, <2>5, <4>1 DEF PlanesInv
    <3>3. QED
      BY <3>1, <3>2
  <2>8. PlanesInv(mem, t, i + 1)
    BY <2>4, <2>5, <2>6, <2>7 DEF PlanesInv
  <2>9. QED
    BY <2>1, <2>8 DEF t
<1> HIDE DEF Good
<1>15. N \in Good
  <2>1. N \in Nat /\ N \in 0 .. N
    BY <1>2
  <2>2. \A i \in 0 .. N : i \in Good
    BY <1>13, <1>14, <2>1, InductionUpTo
  <2>3. QED
    BY <2>1, <2>2
<1> DEFINE out == T!Combined(mem, planes)
           w == Loop[N].out
           z == Loop[N].tmp1
<1>16. PlanesInv(mem, Loop[N], N) /\ w \in Seq(X) /\ out = Append(w, z)
  BY <1>1, <1>2, <1>12, <1>15 DEF Good, V
<1>17. /\ Len(out) = planes /\ out[planes] = T!and_op(mem, planes - 2, planes - 1)
       /\ \A k \in 1 .. planes - 1 : out[k] = w[k]
  <2>1. Len(w) = N + 1 /\ z = T!and_op(mem, N, N + 1) /\ N + 1 = planes - 1
    BY <1>2, <1>16 DEF PlanesInv
  <2> HIDE DEF out, w, z, X
  <2>2. Len(out) = N + 2 /\ out[N + 2] = z /\ \A k \in 1 .. N + 1 : out[k] = w[k]
    BY <1>2, <1>16, <2>1
  <2>3. QED
    BY <1>2, <2>1, <2>2 DEF N
<1> HIDE DEF out
<1>39. ASSUME NEW i, NEW k, NEW p \in T!Pixels
      PROVE  T!and_op(mem, i, k)[p] <=> mem[i * PlaneSize + p] /\ mem[k * PlaneSize + p]
  BY DEF T!and_op
<1>59. ASSUME NEW u, NEW v, NEW p \in T!Pixels PROVE T!or_op(u, v)[p] <=> u[p] \/ v[p]
  BY DEF T!or_op
<1>18. ASSUME NEW i \in 0 .. planes - 1, NEW p \in T!Pixels
       PROVE  out[i + 1][p] <=>
                 /\ mem[i * PlaneSize + p]
                 /\ \/ i > 0 /\ mem[(i - 1) * PlaneSize + p]
                    \/ i < planes - 1 /\ mem[(i + 1) * PlaneSize + p]
  <2>1. CASE i = 0
    <3>1. out[i + 1] = T!and_op(mem, 0, 1) /\ i < planes - 1
      BY <1>2, <1>16, <1>17, <2>1 DEF PlanesInv
    <3>2. out[i + 1][p] <=> mem[0 * PlaneSize + p] /\ mem[1 * PlaneSize + p]
      BY <1>39, <3>1
    <3>3. QED
      BY <2>1, <3>1, <3>2
  <2>2. CASE i = planes - 1
    <3>1. out[i + 1] = T!and_op(mem, i - 1, i) /\ i > 0
      BY <1>2, <1>17, <2>2
    <3>2. out[i + 1][p] <=> mem[(i - 1) * PlaneSize + p] /\ mem[i * PlaneSize + p]
      BY <1>39, <3>1
    <3>3. ~ (i < planes - 1)
      BY <1>2, <2>2
    <3>4. QED
      BY <3>1, <3>2, <3>3
  <2>3. CASE i # 0 /\ i # planes - 1
    <3>1. i \in 1 .. N /\ i + 1 \in 1 .. planes - 1 /\ i > 0 /\ i < planes - 1
      BY <1>2, <2>3
    <3>2. out[i + 1] = T!or_op(T!and_op(mem, i - 1, i), T!and_op(mem, i, i + 1))
      BY <1>16, <1>17, <3>1 DEF PlanesInv
    <3>3. out[i + 1][p] <=> \/ mem[(i - 1) * PlaneSize + p] /\ mem[i * PlaneSize + p]
                            \/ mem[i * PlaneSize + p] /\ mem[(i + 1) * PlaneSize + p]
      BY <1>39, <1>59, <3>2
    <3>4. QED
      BY <3>1, <3>3
  <2>4. QED
    BY <2>1, <2>2, <2>3
<1>19. QED
  BY <1>17, <1>18 DEF T!CombineExact, out

-----------------------------------------------------------------------------
(* The rings of azimuthal-test and multi-search. *)

\* Squares grow.
LEMMA Squares ==
    ASSUME NEW u \in Nat, NEW v \in Nat, u <= v
    PROVE  u * u <= v * v /\ u * u \in Nat /\ v * v \in Nat
<1>1. \A k, l, m \in Nat : k <= l => m * k <= m * l
  OBVIOUS
<1>2. u * u <= u * v /\ v * u <= v * v
  BY <1>1
<1>3. u * v = v * u /\ u * v \in Nat /\ u * u \in Nat /\ v * v \in Nat
  OBVIOUS
<1>4. QED
  BY <1>2, <1>3

\* The root of d rounds to r.
RoundsTo(d, r) == r * r - r < d /\ d <= r * r + r

\* Every distance rounds to some radius.
LEMMA RootExists ==
    ASSUME NEW d \in Nat \ {0}
    PROVE  \E r \in 1 .. d : RoundsTo(d, r)
<1> DEFINE above == {r \in 1 .. d : d <= r * r + r}
<1>1. d \in above
  <2>1. d * d \in Nat
    OBVIOUS
  <2>2. QED
    BY <2>1
<1>2. PICK r \in above : \A s \in above : r <= s
  <2>1. above \subseteq Nat /\ above # {}
    BY <1>1
  <2> HIDE DEF above
  <2>2. QED
    BY <2>1, LeastNumber
<1>3. r \in 1 .. d /\ d <= r * r + r
  OBVIOUS
<1>4. r * r - r < d
  <2>1. CASE r = 1
    BY <2>1
  <2>2. CASE r # 1
    <3>1. r - 1 \in 1 .. d /\ r - 1 \notin above
      BY <1>2, <1>3, <2>2
    <3>2. ~ (d <= (r - 1) * (r - 1) + (r - 1))
      BY <3>1
    <3>3. (r - 1) * (r - 1) + (r - 1) = r * r - r
      BY <1>3
    <3>4. r * r \in Int
      BY <1>3
    <3>5. QED
      BY <1>3, <3>2, <3>3, <3>4
  <2>3. QED
    BY <2>1, <2>2
<1>5. QED
  BY <1>3, <1>4 DEF RoundsTo

\* Two radii do not share a distance.
LEMMA RootUnique ==
    ASSUME NEW d \in Nat, NEW r \in Nat, NEW s \in Nat, r < s, RoundsTo(d, r)
    PROVE  ~ RoundsTo(d, s)
<1>1. (r + 1) * (r + 1) = r * r + 2 * r + 1 /\ r * r \in Nat /\ s * s \in Nat
  OBVIOUS
<1>2. PICK k \in Nat : s = r + 1 + k
  <2>1. s - (r + 1) \in Nat /\ s = r + 1 + (s - (r + 1))
    OBVIOUS
  <2>2. QED
    BY <2>1
<1>3. s * s - s = (r + 1) * (r + 1) + 2 * (r + 1) * k + k * k - (r + 1) - k
  BY <1>2
<1>4. 2 * (r + 1) * k >= k /\ k * k \in Nat /\ 2 * (r + 1) * k \in Nat
  <2>1. 2 * (r + 1) * k = k + (2 * r + 1) * k /\ (2 * r + 1) * k \in Nat
    OBVIOUS
  <2>2. QED
    BY <2>1
<1> DEFINE x == 2 * (r + 1) * k
           y == k * k
           z == s * s
           w == r * r
<1>5. z - s = w + 2 * r + 1 + x + y - (r + 1) - k /\ x >= k /\ x \in Nat /\ y \in Nat /\ z \in Nat /\ w \in Nat
  BY <1>1, <1>3, <1>4
<1>6. d <= w + r
  BY DEF RoundsTo
<1>7. SUFFICES ~ (z - s < d)
  BY DEF RoundsTo
<1> HIDE DEF x, y, z, w
<1>8. QED
  BY <1>5, <1>6

\* rint (sqrt (d)) is the radius it rounds to.
LEMMA RootIs ==
    ASSUME NEW d \in Nat, NEW r \in Nat \ {0}
    PROVE  R!RoundedRoot(d) = r <=> RoundsTo(d, r)
<1>1. CASE d = 0
  <2>1. R!RoundedRoot(d) = 0
    BY <1>1 DEF R!RoundedRoot
  <2>2. r * r >= r
    BY Squares
  <2>3. ~ RoundsTo(d, r)
    <3>1. r * r \in Nat
      OBVIOUS
    <3>2. QED
      BY <1>1, <2>2, <3>1 DEF RoundsTo
  <2>4. QED
    BY <2>1, <2>3
<1>2. CASE d # 0
  <2>1. R!RoundedRoot(d) = CHOOSE s \in 1 .. d : RoundsTo(d, s)
    BY <1>2 DEF R!RoundedRoot, RoundsTo
  <2>2. PICK s \in 1 .. d : s = R!RoundedRoot(d) /\ RoundsTo(d, s)
    BY <1>2, <2>1, RootExists
  <2>3. s \in Nat /\ (r < s \/ s < r \/ r = s)
    OBVIOUS
  <2>4. QED
    BY <2>2, <2>3, RootUnique
<1>3. QED
  BY <1>1, <1>2

\* fabs (sqrt (d) - r) < 0.5, in squares.
LEMMA NearIsRoot ==
    ASSUME NEW d \in Nat, NEW r \in Nat \ {0}
    PROVE  4 * d > (2 * r - 1) * (2 * r - 1) /\ 4 * d < (2 * r + 1) * (2 * r + 1) <=> RoundsTo(d, r)
<1> DEFINE w == r * r
<1>1. /\ (2 * r - 1) * (2 * r - 1) = 4 * w - 4 * r + 1
      /\ (2 * r + 1) * (2 * r + 1) = 4 * w + 4 * r + 1
      /\ w \in Int
  OBVIOUS
<1>2. RoundsTo(d, r) <=> w - r < d /\ d <= w + r
  BY DEF RoundsTo
<1> HIDE DEF w
<1>3. QED
  BY <1>1, <1>2

\* A pixel that far from the centre is in the square of that side.
LEMMA SideInside ==
    ASSUME NEW x \in Int, NEW e \in Nat, NEW r \in Nat, x * x + e <= r * r + r
    PROVE  - r <= x /\ x <= r
<1>1. ASSUME NEW k \in Nat, k * k + e <= r * r + r PROVE k <= r
  <2> SUFFICES ASSUME r + 1 <= k PROVE FALSE
    OBVIOUS
  <2>1. (r + 1) * (r + 1) <= k * k
    BY Squares
  <2>2. (r + 1) * (r + 1) = r * r + 2 * r + 1 /\ r * r \in Nat /\ k * k \in Nat
    OBVIOUS
  <2>3. QED
    BY <1>1, <2>1, <2>2
<1>2. CASE x >= 0
  <2>1. x \in Nat
    BY <1>2
  <2>2. QED
    BY <1>1, <2>1
<1>3. CASE x < 0
  <2>1. - x \in Nat /\ (- x) * (- x) = x * x
    BY <1>3
  <2>2. - x <= r
    BY <1>1, <2>1
  <2>3. QED
    BY <1>3, <2>2
<1>4. QED
  BY <1>2, <1>3

\* The square that is passed over reaches the smallest ring in its corners only.
LEMMA CornersOnly ==
    ASSUME NEW u \in Nat, NEW v \in Nat, NEW m \in Nat \ {0}, NEW r \in Nat, m <= r,
           10 * u < 7 * m, 10 * v < 7 * m, r * r - r < u * u + v * v
    PROVE  r = m /\ u = v
<1> DEFINE q == m * m
<1>1. 7 * m - 1 \in Nat /\ (7 * m - 1) * (7 * m - 1) = 49 * q - 14 * m + 1 /\ q \in Nat /\ m <= q
  BY Squares
<1>2. ASSUME NEW k \in Nat, 10 * k < 7 * m
      PROVE  100 * (k * k) <= 49 * q - 14 * m + 1 /\ k * k \in Nat
  <2>1. 10 * k \in Nat /\ 10 * k <= 7 * m - 1 /\ (10 * k) * (10 * k) = 100 * (k * k) /\ k * k \in Nat
    BY <1>2
  <2>2. (10 * k) * (10 * k) <= (7 * m - 1) * (7 * m - 1)
    BY <1>1, <2>1, Squares
  <2>3. QED
    BY <1>1, <2>1, <2>2
<1>3. ASSUME NEW k \in Nat, NEW l \in Nat, 10 * k < 7 * m, 10 * l < 7 * m, k < l
      PROVE  100 * (k * k + l * l) < 100 * q - 100 * m
  <2>1. 7 * m - 11 \in Nat /\ m >= 2 /\ 10 * k <= 7 * m - 11 /\ 10 * k \in Nat
    BY <1>3
  <2>2. (10 * k) * (10 * k) <= (7 * m - 11) * (7 * m - 11)
    BY <2>1, Squares
  <2>3. (10 * k) * (10 * k) = 100 * (k * k) /\ (7 * m - 11) * (7 * m - 11) = 49 * q - 154 * m + 121
    OBVIOUS
  <2>4. 100 * (l * l) <= 49 * q - 14 * m + 1 /\ k * k \in Nat /\ l * l \in Nat
    BY <1>2, <1>3
  <2>5. 2 * m <= q
    <3>1. m * (m - 2) \in Nat /\ m * (m - 2) = q - 2 * m
      BY <2>1
    <3>2. QED
      BY <1>1, <3>1
  <2> HIDE DEF q
  <2>6. QED
    BY <1>1, <2>1, <2>2, <2>3, <2>4, <2>5
<1>4. r = m
  <2> SUFFICES ASSUME m + 1 <= r PROVE FALSE
    OBVIOUS
  <2>1. r * r - r = r * (r - 1) /\ r * (r - 1) \in Nat
    OBVIOUS
  <2>2. q <= (r - 1) * (r - 1) /\ (r - 1) * (r - 1) = r * r - 2 * r + 1 /\ r * r \in Nat
    BY Squares
  <2>3. 100 * (u * u) <= 49 * q - 14 * m + 1 /\ 100 * (v * v) <= 49 * q - 14 * m + 1
        /\ u * u \in Nat /\ v * v \in Nat
    BY <1>2
  <2> HIDE DEF q
  <2>4. QED
    BY <1>1, <2>2, <2>3
<1>5. u * u \in Nat /\ v * v \in Nat /\ q - m < u * u + v * v
  BY <1>4
<1> HIDE DEF q
<1>6. ~ (u < v) /\ ~ (v < u)
  BY <1>1, <1>3, <1>5
<1>7. QED
  BY <1>4, <1>6

\* The walk over the square around a centre meets each pixel of a ring once.
LEMMA RingsFollowDistance ==
    ASSUME NEW c \in Int \X Int, NEW min_r \in Nat \ {0}, NEW more \in Nat,
           ImageWidth \in Nat, ImageHeight \in Nat
    PROVE  R!RingsExact(c, min_r, min_r + more, R!compute_histogram(c, min_r, min_r + more))
<1> DEFINE max_r == min_r + more
           b == R!Box(c, max_r)
           bins == R!compute_histogram(c, min_r, max_r)
           D(p) == R!DistanceSq(p, c)
           counted == {p \in (b.left .. b.right - 1) \X (b.top .. b.bot - 1) : ~ R!Skipped(p, c, min_r)}
<1>1. ASSUME NEW p \in Int \X Int PROVE D(p) \in Nat
  <2> DEFINE x == p[1] - c[1]
             y == p[2] - c[2]
  <2>1. x \in Int /\ y \in Int
    OBVIOUS
  <2> HIDE DEF x, y
  <2>2. x * x + y * y \in Nat
    BY <2>1
  <2>3. QED
    BY <2>2 DEF R!DistanceSq, x, y
<1>2. ASSUME NEW rad \in Nat
      PROVE  LET q == R!Box(c, rad) IN
             /\ q.left \in Int /\ q.right \in Int /\ q.top \in Int /\ q.bot \in Int
             /\ \A p \in Int \X Int :
                   p \in (q.left .. q.right) \X (q.top .. q.bot) <=>
                      /\ - rad <= p[1] - c[1] /\ p[1] - c[1] <= rad
                      /\ - rad <= p[2] - c[2] /\ p[2] - c[2] <= rad
                      /\ 0 <= p[1] /\ p[1] < ImageWidth /\ 0 <= p[2] /\ p[2] < ImageHeight
  BY DEF R!Box, R!Most, R!Least
<1>3. ASSUME NEW r \in min_r .. max_r
      PROVE  bins[r] = {p \in counted : RoundsTo(D(p), r)}
  <2>1. \A p \in counted : R!RoundedRoot(D(p)) = r <=> RoundsTo(D(p), r)
    <3> TAKE p \in counted
    <3>1. p \in Int \X Int
      BY <1>2
    <3>2. QED
      BY <1>1, <3>1, RootIs
  <2>2. bins[r] = {p \in counted : R!RoundedRoot(D(p)) = r}
    BY DEF R!compute_histogram
  <2> HIDE DEF bins, counted, D
  <2>3. QED
    BY <2>1, <2>2
<1>4. ASSUME NEW r \in min_r .. max_r
      PROVE  R!compute_intensity(c, r) =
                {p \in (R!Box(c, r).left .. R!Box(c, r).right) \X (R!Box(c, r).top .. R!Box(c, r).bot) :
                    RoundsTo(D(p), r)}
  <2> DEFINE area == (R!Box(c, r).left .. R!Box(c, r).right) \X (R!Box(c, r).top .. R!Box(c, r).bot)
  <2>1. \A p \in area : 4 * D(p) > (2 * r - 1) * (2 * r - 1) /\ 4 * D(p) < (2 * r + 1) * (2 * r + 1)
                           <=> RoundsTo(D(p), r)
    <3> TAKE p \in area
    <3>1. p \in Int \X Int
      BY <1>2
    <3>2. QED
      BY <1>1, <3>1, NearIsRoot
  <2>2. R!compute_intensity(c, r) = {p \in area : 4 * D(p) > (2 * r - 1) * (2 * r - 1)
                                                  /\ 4 * D(p) < (2 * r + 1) * (2 * r + 1)}
    BY DEF R!compute_intensity
  <2> HIDE DEF area, D
  <2>3. QED
    BY <2>1, <2>2 DEF area
<1>5. ASSUME NEW r \in min_r .. max_r, NEW p \in Int \X Int, RoundsTo(D(p), r)
      PROVE  - r <= p[1] - c[1] /\ p[1] - c[1] <= r /\ - r <= p[2] - c[2] /\ p[2] - c[2] <= r
  <2> DEFINE x == p[1] - c[1]
             y == p[2] - c[2]
  <2>1. x \in Int /\ y \in Int /\ x * x \in Nat /\ y * y \in Nat /\ D(p) = x * x + y * y
    BY DEF R!DistanceSq
  <2>2. D(p) <= r * r + r
    BY <1>5 DEF RoundsTo
  <2> HIDE DEF x, y, D
  <2>3. x * x + y * y <= r * r + r /\ y * y + x * x <= r * r + r
    BY <2>1, <2>2
  <2>4. r \in Nat /\ x * x \in Nat /\ y * y \in Nat
    BY <2>1
  <2>5. - r <= x /\ x <= r /\ - r <= y /\ y <= r
    BY <2>1, <2>3, <2>4, SideInside
  <2>6. QED
    BY <2>5 DEF x, y
<1>6. \A p \in counted : p \in Int \X Int /\ p[1] < b.right /\ p[2] < b.bot
  BY <1>2
<1> SUFFICES ASSUME NEW r \in min_r .. max_r
             PROVE  LET inside == {p \in R!compute_intensity(c, r) : p[1] < b.right /\ p[2] < b.bot}
                    IN  /\ bins[r] \subseteq inside
                        /\ \A p \in inside \ bins[r] : r = min_r /\ R!OnDiagonal(p, c)
                        /\ \A q \in min_r .. r - 1 : bins[q] \cap bins[r] = {}
  BY DEF R!RingsExact
<1> DEFINE inside == {p \in R!compute_intensity(c, r) : p[1] < b.right /\ p[2] < b.bot}
<1>7. ASSUME NEW p \in bins[r] PROVE p \in inside
  <2>1. p \in counted /\ RoundsTo(D(p), r)
    BY <1>3
  <2>2. p \in Int \X Int /\ p[1] < b.right /\ p[2] < b.bot
    BY <1>6, <2>1
  <2>3. p \in (b.left .. b.right) \X (b.top .. b.bot)
    BY <1>2, <2>1
  <2>4. p \in (R!Box(c, r).left .. R!Box(c, r).right) \X (R!Box(c, r).top .. R!Box(c, r).bot)
    BY <1>2, <1>5, <2>1, <2>2, <2>3
  <2> HIDE DEF b, bins, D, counted
  <2>5. QED
    BY <1>4, <2>1, <2>2, <2>4
<1>8. ASSUME NEW p \in inside, p \notin bins[r] PROVE r = min_r /\ R!OnDiagonal(p, c)
  <2>1. /\ p \in (R!Box(c, r).left .. R!Box(c, r).right) \X (R!Box(c, r).top .. R!Box(c, r).bot)
        /\ RoundsTo(D(p), r) /\ p[1] < b.right /\ p[2] < b.bot
    BY <1>4
  <2>2. p \in Int \X Int
    BY <1>2, <2>1
  <2>3. p \in (b.left .. b.right) \X (b.top .. b.bot)
    BY <1>2, <2>1, <2>2
  <2>4. p \in (b.left .. b.right - 1) \X (b.top .. b.bot - 1)
    BY <1>2, <2>1, <2>2, <2>3
  <2>5. R!Skipped(p, c, min_r)
    BY <1>3, <1>8, <2>1, <2>4
  <2> DEFINE x == p[1] - c[1]
             y == p[2] - c[2]
  <2>6. x \in Int /\ y \in Int /\ D(p) = x * x + y * y
    BY <2>2 DEF R!DistanceSq
  <2>7. 10 * x < 7 * min_r /\ 10 * (- x) < 7 * min_r /\ 10 * y < 7 * min_r /\ 10 * (- y) < 7 * min_r
    BY <2>2, <2>5 DEF R!Skipped
  <2>8. R!OnDiagonal(p, c) <=> x = y \/ x = - y
    BY <2>2 DEF R!OnDiagonal
  <2>9. r * r - r < x * x + y * y
    BY <2>1, <2>6 DEF RoundsTo
  <2> HIDE DEF x, y, D, bins
  <2>10. PICK u \in Nat : (u = x \/ u = - x) /\ u * u = x * x
    <3>1. CASE x >= 0
      BY <2>6, <3>1
    <3>2. CASE x < 0
      <4>1. - x \in Nat /\ (- x) * (- x) = x * x
        BY <2>6, <3>2
      <4>2. QED
        BY <4>1
    <3>3. QED
      BY <2>6, <3>1, <3>2
  <2>11. PICK v \in Nat : (v = y \/ v = - y) /\ v * v = y * y
    <3>1. CASE y >= 0
      BY <2>6, <3>1
    <3>2. CASE y < 0
      <4>1. - y \in Nat /\ (- y) * (- y) = y * y
        BY <2>6, <3>2
      <4>2. QED
        BY <4>1
    <3>3. QED
      BY <2>6, <3>1, <3>2
  <2>12. 10 * u < 7 * min_r /\ 10 * v < 7 * min_r /\ r * r - r < u * u + v * v /\ r \in Nat /\ min_r <= r
    BY <2>7, <2>9, <2>10, <2>11
  <2>13. r = min_r /\ u = v
    BY <2>12, CornersOnly
  <2>14. QED
    BY <2>6, <2>8, <2>10, <2>11, <2>13
<1>9. ASSUME NEW q \in min_r .. r - 1 PROVE bins[q] \cap bins[r] = {}
  <2> SUFFICES ASSUME NEW p \in bins[q], p \in bins[r] PROVE FALSE
    OBVIOUS
  <2>1. q \in min_r .. max_r /\ q \in Nat /\ r \in Nat /\ q < r
    OBVIOUS
  <2>2. p \in counted /\ RoundsTo(D(p), q) /\ RoundsTo(D(p), r)
    BY <1>3, <2>1
  <2>3. D(p) \in Nat
    BY <1>1, <1>6, <2>2
  <2> HIDE DEF D
  <2>4. QED
    BY <2>1, <2>2, <2>3, RootUnique
<1> HIDE DEF bins, inside, b
<1>10. QED
  BY <1>7, <1>8, <1>9 DEF inside

-----------------------------------------------------------------------------
(* The peaks of azimuthal-test. *)

Tent(data, p) ==
    /\ data[p - 2] # 0 /\ data[p + 2] # 0
    /\ data[p - 2] < data[p - 1] /\ data[p - 1] < data[p]
    /\ data[p] > data[p + 1] /\ data[p + 1] > data[p + 2]

\* Both inner loops stop where they must for a bin that is a peak.
LEMMA LoopsFindTent ==
    ASSUME NEW data \in [0 .. HistLen - 1 -> Nat], HistLen \in Nat, NEW i \in 0 .. HistLen - 7
    PROVE  Tent(data, i + 2) <=>
              /\ R!RiseEnd(data, i, 5) = i + 2 /\ R!FallEnd(data, i, 5) = i + 4
              /\ data[i + 4] # 0 /\ data[i] # 0
<1>1. /\ i \in Nat /\ data[i] \in Nat /\ data[i + 1] \in Nat /\ data[i + 2] \in Nat
      /\ data[i + 3] \in Nat /\ data[i + 4] \in Nat
      /\ (i + 2) - 2 = i /\ (i + 2) - 1 = i + 1 /\ (i + 2) + 1 = i + 3 /\ (i + 2) + 2 = i + 4
  OBVIOUS
<1> DEFINE rise == R!RiseEnd(data, i, 5)
           fall == R!FallEnd(data, i, 5)
           flat == {j \in Nat : data[j] >= data[j + 1]}
           low == {j \in Nat : data[j] <= data[j + 1]}
           a == i
           b == i + 5 - 1
<1>2. rise \in i .. i + 4 /\ (rise # i + 4 => rise \in flat) /\ \A k \in i .. rise - 1 : k \notin flat
  <2>1. a \in Nat /\ b \in Nat /\ a <= b /\ b = i + 4
    BY <1>1
  <2>2. \A j \in Nat : j \in flat <=> data[j] >= data[j + 1]
    OBVIOUS
  <2> DEFINE P(j) == data[j] >= data[j + 1]
             S == {j \in a .. b - 1 : P(j)}
             first == CHOOSE j \in a .. b - 1 : P(j) /\ \A k \in a .. j - 1 : ~ P(k)
  <2>3. rise = IF \E j \in a .. b - 1 : P(j) THEN first ELSE b
    BY DEF R!RiseEnd, R!FirstFrom
  <2> HIDE DEF flat, rise, a, b
  <2>4. S # {} => first \in a .. b - 1 /\ P(first) /\ \A k \in a .. first - 1 : ~ P(k)
    <3> SUFFICES ASSUME S # {}
                 PROVE  first \in a .. b - 1 /\ P(first) /\ \A k \in a .. first - 1 : ~ P(k)
      OBVIOUS
    <3>1. PICK n \in S : \A m \in S : n <= m
      <4>1. S \subseteq Nat
        BY <2>1
      <4> HIDE DEF S
      <4>2. QED
        BY <4>1, LeastNumber
    <3>2. n \in a .. b - 1 /\ P(n) /\ \A k \in a .. n - 1 : ~ P(k)
      BY <2>1, <3>1
    <3> HIDE DEF P
    <3>3. QED
      BY <3>2
  <2> HIDE DEF first
  <2>5. rise \in a .. b /\ (rise # b => P(rise)) /\ \A k \in a .. rise - 1 : ~ P(k)
    <3> HIDE DEF P
    <3>1. QED
      BY <2>1, <2>3, <2>4
  <2>6. rise \in a .. b /\ (rise # b => rise \in flat) /\ \A k \in a .. rise - 1 : k \notin flat
    BY <2>1, <2>2, <2>5
  <2>7. QED
    BY <2>1, <2>6 DEF a
<1>3. /\ fall \in rise .. i + 4 /\ (fall # i + 4 => fall \in low)
      /\ \A k \in rise .. fall - 1 : k \notin low
  <2>1. rise \in Nat /\ b \in Nat /\ rise <= b /\ b = i + 4
    BY <1>1, <1>2
  <2>2. \A j \in Nat : j \in low <=> data[j] <= data[j + 1]
    OBVIOUS
  <2> DEFINE P(j) == data[j] <= data[j + 1]
             S == {j \in rise .. b - 1 : P(j)}
             first == CHOOSE j \in rise .. b - 1 : P(j) /\ \A k \in rise .. j - 1 : ~ P(k)
  <2>3. fall = IF \E j \in rise .. b - 1 : P(j) THEN first ELSE b
    BY DEF R!FallEnd, R!FirstFrom
  <2> HIDE DEF low, rise, fall, b
  <2>4. S # {} => first \in rise .. b - 1 /\ P(first) /\ \A k \in rise .. first - 1 : ~ P(k)
    <3> SUFFICES ASSUME S # {}
                 PROVE  first \in rise .. b - 1 /\ P(first) /\ \A k \in rise .. first - 1 : ~ P(k)
      OBVIOUS
    <3>1. PICK n \in S : \A m \in S : n <= m
      <4>1. S \subseteq Nat
        BY <2>1
      <4> HIDE DEF S
      <4>2. QED
        BY <4>1, LeastNumber
    <3>2. n \in rise .. b - 1 /\ P(n) /\ \A k \in rise .. n - 1 : ~ P(k)
      BY <2>1, <3>1
    <3> HIDE DEF P
    <3>3. QED
      BY <3>2
  <2> HIDE DEF first
  <2>5. fall \in rise .. b /\ (fall # b => P(fall)) /\ \A k \in rise .. fall - 1 : ~ P(k)
    <3> HIDE DEF P
    <3>1. QED
      BY <2>1, <2>3, <2>4
  <2>6. fall \in rise .. b /\ (fall # b => fall \in low) /\ \A k \in rise .. fall - 1 : k \notin low
    BY <2>1, <2>2, <2>5
  <2>7. QED
    BY <2>1, <2>6
<1>4. \A j \in Nat : (j \in flat <=> data[j] >= data[j + 1]) /\ (j \in low <=> data[j] <= data[j + 1])
  OBVIOUS
<1>5. Tent(data, i + 2) <=>
         /\ data[i] # 0 /\ data[i + 4] # 0
         /\ data[i] < data[i + 1] /\ data[i + 1] < data[i + 2]
         /\ data[i + 2] > data[i + 3] /\ data[i + 3] > data[i + 4]
  BY <1>1 DEF Tent
<1>6. /\ i \in flat <=> data[i] >= data[i + 1]
      /\ i + 1 \in flat <=> data[i + 1] >= data[i + 2]
      /\ i + 2 \in flat <=> data[i + 2] >= data[i + 3]
      /\ i + 2 \in low <=> data[i + 2] <= data[i + 3]
      /\ i + 3 \in low <=> data[i + 3] <= data[i + 4]
  <2>1. /\ i \in Nat /\ i + 1 \in Nat /\ i + 2 \in Nat /\ i + 3 \in Nat
        /\ (i + 1) + 1 = i + 2 /\ (i + 2) + 1 = i + 3 /\ (i + 3) + 1 = i + 4
    BY <1>1
  <2>2. (i \in flat <=> data[i] >= data[i + 1])
    BY <1>4, <2>1
  <2>3. (i + 1 \in flat <=> data[i + 1] >= data[(i + 1) + 1])
    BY <1>4, <2>1
  <2>4. (i + 2 \in flat <=> data[i + 2] >= data[(i + 2) + 1])
    BY <1>4, <2>1
  <2>5. (i + 2 \in low <=> data[i + 2] <= data[(i + 2) + 1])
    BY <1>4, <2>1
  <2>6. (i + 3 \in low <=> data[i + 3] <= data[(i + 3) + 1])
    BY <1>4, <2>1
  <2> HIDE DEF flat, low
  <2>7. QED
    BY <2>1, <2>2, <2>3, <2>4, <2>5, <2>6
<1> HIDE DEF rise, fall, flat, low
<1>7. rise = i + 2 <=> i \notin flat /\ i + 1 \notin flat /\ i + 2 \in flat
  <2>1. rise \in {i, i + 1, i + 2, i + 3, i + 4}
    BY <1>1, <1>2
  <2>2. rise > i => i \notin flat
    BY <1>1, <1>2
  <2>3. rise > i + 1 => i + 1 \notin flat
    BY <1>1, <1>2
  <2>4. rise > i + 2 => i + 2 \notin flat
    BY <1>1, <1>2
  <2>5. QED
    BY <1>1, <1>2, <2>1, <2>2, <2>3, <2>4
<1>8. rise = i + 2 => (fall = i + 4 <=> i + 2 \notin low /\ i + 3 \notin low)
  <2> SUFFICES ASSUME rise = i + 2 PROVE fall = i + 4 <=> i + 2 \notin low /\ i + 3 \notin low
    OBVIOUS
  <2>1. fall \in {i + 2, i + 3, i + 4}
    BY <1>1, <1>3
  <2>2. fall > i + 2 => i + 2 \notin low
    BY <1>1, <1>3
  <2>3. fall > i + 3 => i + 3 \notin low
    BY <1>1, <1>3
  <2>4. QED
    BY <1>1, <1>3, <2>1, <2>2, <2>3
<1>9. Tent(data, i + 2) <=> rise = i + 2 /\ fall = i + 4 /\ data[i + 4] # 0 /\ data[i] # 0
  BY <1>1, <1>5, <1>6, <1>7, <1>8
<1>10. QED
  BY <1>9 DEF rise, fall

\* What a longer sequence is.
LEMMA Appended ==
    ASSUME NEW W, NEW s \in Seq(W), NEW e \in W
    PROVE  LET t == Append(s, e) IN
           /\ t \in Seq(W) /\ Len(t) = Len(s) + 1 /\ Len(s) \in Nat
           /\ t[Len(s) + 1] = e /\ \A k \in 1 .. Len(s) : t[k] = s[k]
OBVIOUS

\* search_peaks lists the peaks, each once, from left to right.
LEMMA PeaksListed ==
    ASSUME NEW data \in [0 .. HistLen - 1 -> Nat], HistLen \in Nat, HistLen > 5
    PROVE  LET ps == R!search_peaks(data, 5) IN
           /\ ps \in Seq(2 .. HistLen - 5)
           /\ \A k \in 1 .. Len(ps) : Tent(data, ps[k])
           /\ \A p \in 2 .. HistLen - 5 : Tent(data, p) => \E k \in 1 .. Len(ps) : ps[k] = p
           /\ \A k, l \in 1 .. Len(ps) : k < l => ps[k] < ps[l]
<1> DEFINE N0 == HistLen - 5 - 1
           W == 2 .. HistLen - 5
           V == Seq(W)
           Found(i) == /\ R!RiseEnd(data, i, 5) = i + 5 \div 2
                       /\ R!FallEnd(data, i, 5) = i + 5 - 1
                       /\ data[i + 5 - 1] # 0 /\ data[i] # 0
           Next0(i, s) == IF Found(i - 1) THEN Append(s, i - 1 + 5 \div 2) ELSE s
           K(f) == [i \in 0 .. N0 |-> IF i = 0 THEN <<>> ELSE Next0(i, f[i - 1])]
           g == [p \in (1 .. N0) \X V |-> Next0(p[1], p[2])]
           Peaks == CHOOSE f : f = K(f)
           Good(s, n) == /\ s \in V
                         /\ \A k \in 1 .. Len(s) : s[k] < n + 2 /\ Tent(data, s[k])
                         /\ \A p \in 2 .. n + 1 : Tent(data, p) => \E k \in 1 .. Len(s) : s[k] = p
                         /\ \A k, l \in 1 .. Len(s) : k < l => s[k] < s[l]
<1>1. R!search_peaks(data, 5) = Peaks[N0]
  BY DEF R!search_peaks
<1>2. N0 \in Nat /\ N0 = HistLen - 6
  OBVIOUS
<1>3. ASSUME NEW i \in 1 .. N0
      PROVE  /\ i + 1 \in 2 .. HistLen - 5
             /\ \A s : Next0(i, s) = IF Tent(data, i + 1) THEN Append(s, i + 1) ELSE s
  <2>1. i - 1 \in 0 .. HistLen - 7 /\ (i - 1) + 2 = i + 1 /\ (i - 1) + 5 - 1 = (i - 1) + 4
        /\ i + 1 \in 2 .. HistLen - 5
    BY <1>2
  <2>2. Tent(data, (i - 1) + 2) <=>
              /\ R!RiseEnd(data, i - 1, 5) = (i - 1) + 2 /\ R!FallEnd(data, i - 1, 5) = (i - 1) + 4
              /\ data[(i - 1) + 4] # 0 /\ data[i - 1] # 0
    BY <2>1, LoopsFindTent
  <2>3. 5 \div 2 = 2
    OBVIOUS
  <2>4. Tent(data, i + 1) <=> Found(i - 1)
    BY <2>1, <2>2, <2>3
  <2>5. i - 1 + 5 \div 2 = i + 1
    BY <2>3
  <2> HIDE DEF Found
  <2>6. \A s : Next0(i, s) = IF Tent(data, i + 1) THEN Append(s, i + 1) ELSE s
    BY <2>4, <2>5
  <2>7. QED
    BY <2>1, <2>6
<1>4. ASSUME NEW i \in 1 .. N0, NEW s \in V PROVE Next0(i, s) \in V
  <2>1. i + 1 \in W /\ Next0(i, s) = IF Tent(data, i + 1) THEN Append(s, i + 1) ELSE s
    BY <1>3
  <2> HIDE DEF Next0, W
  <2>2. s \in Seq(W)
    OBVIOUS
  <2>3. Append(s, i + 1) \in Seq(W)
    BY <2>1, <2>2, Appended
  <2>4. QED
    BY <2>1, <2>2, <2>3
<1>5. <<>> \in V
  OBVIOUS
<1>6. g \in [(1 .. N0) \X V -> V] /\ \A i \in 1 .. N0, s \in V : g[<<i, s>>] = Next0(i, s)
  BY <1>4
<1> HIDE DEF g, Next0, N0, V
<1>7. PICK f \in [0 .. N0 -> V] : Recursive(f, N0, <<>>, g)
  BY <1>2, <1>5, <1>6, RecursionExists
<1>8. f = K(f)
  <2>1. ASSUME NEW i \in 0 .. N0 PROVE f[i] = K(f)[i]
    <3>1. CASE i = 0
      BY <1>7, <3>1 DEF Recursive
    <3>2. CASE i # 0
      <4>1. i \in 1 .. N0 /\ f[i - 1] \in V
        BY <1>2, <3>2
      <4>2. f[i] = Next0(i, f[i - 1])
        BY <1>6, <1>7, <4>1 DEF Recursive
      <4>3. QED
        BY <3>2, <4>2
    <3>3. QED
      BY <3>1, <3>2
  <2>2. QED
    BY <2>1
<1>9. ASSUME NEW h PROVE K(h)[0] = <<>> /\ \A i \in 1 .. N0 : K(h)[i] = Next0(i, h[i - 1])
  BY <1>2
<1> HIDE DEF K
<1>10. Peaks = K(Peaks)
  BY <1>8
<1> HIDE DEF Peaks
<1>11. Peaks[0] = <<>> /\ \A i \in 1 .. N0 : Peaks[i] = Next0(i, Peaks[i - 1])
  BY <1>9, <1>10
<1> DEFINE G == {n \in 0 .. N0 : Good(Peaks[n], n)}
<1>12. 0 \in G
  <2>1. Good(<<>>, 0)
    BY <1>5
  <2>2. QED
    BY <1>2, <1>11, <2>1
<1>13. ASSUME NEW n \in 0 .. N0 - 1, n \in G PROVE n + 1 \in G
  <2> DEFINE s == Peaks[n]
             t == Peaks[n + 1]
             q == n + 2
  <2>1. n + 1 \in 1 .. N0 /\ n + 1 \in 0 .. N0 /\ (n + 1) - 1 = n /\ (n + 1) + 1 = n + 2 /\ n \in Nat
    BY <1>2
  <2>2. Good(s, n)
    BY <1>13
  <2>3. t = (IF Tent(data, q) THEN Append(s, q) ELSE s) /\ q \in 2 .. HistLen - 5
    BY <1>3, <1>11, <2>1
  <2> SUFFICES Good(t, n + 1)
    BY <2>1
  <2> HIDE DEF s, t, q
  <2>27. q = n + 2
    BY DEF q
  <2>4. CASE ~ Tent(data, q)
    <3>1. t = s
      BY <2>3, <2>4
    <3>2. \A p \in 2 .. (n + 1) + 1 : Tent(data, p) => p \in 2 .. n + 1
      BY <2>1, <2>4, <2>27
    <3>3. \A k \in 1 .. Len(s) : s[k] < (n + 1) + 2
      <4>1. \A k \in 1 .. Len(s) : s[k] \in Int
        BY <2>2 DEF V
      <4>2. QED
        BY <2>1, <2>2, <4>1
    <3>4. QED
      BY <2>2, <3>1, <3>2, <3>3
  <2>5. CASE Tent(data, q)
    <3>1. t = Append(s, q) /\ s \in Seq(W) /\ q \in W
      BY <2>2, <2>3, <2>5 DEF V
    <3> HIDE DEF W
    <3>2. /\ t \in Seq(W) /\ Len(t) = Len(s) + 1 /\ Len(s) \in Nat
          /\ t[Len(s) + 1] = q /\ \A k \in 1 .. Len(s) : t[k] = s[k]
      BY <3>1, Appended
    <3>3. \A k \in 1 .. Len(t) : k = Len(s) + 1 \/ k \in 1 .. Len(s)
      BY <3>2
    <3>4. \A k \in 1 .. Len(s) : s[k] \in Int /\ s[k] < q /\ Tent(data, s[k])
      <4>1. \A k \in 1 .. Len(s) : s[k] \in W
        BY <3>1
      <4>2. QED
        BY <2>2, <2>27, <4>1 DEF W
    <3>5. \A k \in 1 .. Len(t) : t[k] < (n + 1) + 2 /\ Tent(data, t[k])
      <4> TAKE k \in 1 .. Len(t)
      <4>1. CASE k = Len(s) + 1
        <5>1. t[k] = q /\ q \in Int
          BY <2>1, <2>27, <3>2, <4>1
        <5>2. QED
          BY <2>1, <2>5, <2>27, <5>1
      <4>2. CASE k \in 1 .. Len(s)
        <5>1. t[k] = s[k]
          BY <3>2, <4>2
        <5>2. QED
          BY <2>1, <2>27, <3>4, <4>2, <5>1
      <4>3. QED
        BY <3>3, <4>1, <4>2
    <3>6. ASSUME NEW p \in 2 .. (n + 1) + 1, Tent(data, p) PROVE \E k \in 1 .. Len(t) : t[k] = p
      <4>1. p = q \/ p \in 2 .. n + 1
        BY <2>1, <2>27
      <4>2. CASE p = q
        BY <3>2, <4>2
      <4>3. CASE p \in 2 .. n + 1
        <5>1. PICK k \in 1 .. Len(s) : s[k] = p
          BY <2>2, <3>6, <4>3
        <5>2. k \in 1 .. Len(t) /\ t[k] = p
          BY <3>2, <5>1
        <5>3. QED
          BY <5>2
      <4>4. QED
        BY <4>1, <4>2, <4>3
    <3>7. ASSUME NEW k \in 1 .. Len(t), NEW l \in 1 .. Len(t), k < l PROVE t[k] < t[l]
      <4>1. k \in 1 .. Len(s)
        BY <3>2, <3>7
      <4>2. CASE l = Len(s) + 1
        BY <3>2, <3>4, <4>1, <4>2
      <4>3. CASE l \in 1 .. Len(s)
        BY <2>2, <3>2, <3>7, <4>1, <4>3
      <4>4. QED
        BY <3>3, <4>2, <4>3
    <3>8. QED
      BY <3>2, <3>5, <3>6, <3>7 DEF V
  <2>6. QED
    BY <2>4, <2>5
<1> HIDE DEF G
<1>14. N0 \in G
  <2>1. N0 \in Nat /\ N0 \in 0 .. N0
    BY <1>2
  <2>2. \A i \in 0 .. N0 : i \in G
    BY <1>12, <1>13, <2>1, InductionUpTo
  <2>3. QED
    BY <2>1, <2>2
<1>15. Good(Peaks[N0], N0)
  BY <1>14 DEF G
<1>16. N0 + 1 = HistLen - 5
  BY <1>2
<1>17. QED
  BY <1>1, <1>15, <1>16 DEF V

\* The choice among the peaks, which lie from left to right.
LEMMA HighestIsFirst ==
    ASSUME NEW data \in [0 .. HistLen - 1 -> Nat], HistLen \in Nat,
           NEW ps \in Seq(2 .. HistLen - 5),
           \A k, l \in 1 .. Len(ps) : k < l => ps[k] < ps[l]
    PROVE  LET best == R!Highest(data, ps) IN
           IF Len(ps) = 0 THEN best = 0
           ELSE \E k \in 1 .. Len(ps) :
                   /\ best = ps[k]
                   /\ \A l \in 1 .. Len(ps) :
                         data[ps[l]] < data[best] \/ (data[ps[l]] = data[best] /\ best <= ps[l])
<1> DEFINE len == Len(ps)
           V == [p : Int, r : Nat]
           none == [p |-> -1, r |-> 0]
           At(q) == [p |-> data[q], r |-> q]
           Next0(k, b) == IF data[ps[k]] > b.p THEN At(ps[k]) ELSE b
           K(f) == [k \in 0 .. len |-> IF k = 0 THEN none ELSE Next0(k, f[k - 1])]
           g == [p \in (1 .. len) \X V |-> Next0(p[1], p[2])]
           Best == CHOOSE f : f = K(f)
           Over(b, l) == data[ps[l]] < data[b] \/ (data[ps[l]] = data[b] /\ b <= ps[l])
           Good(b, n) == IF n = 0 THEN b = none
                         ELSE \E k \in 1 .. n : b = At(ps[k]) /\ \A l \in 1 .. n : Over(ps[k], l)
<1>1. R!Highest(data, ps) = Best[len].r
  <2>1. R!Highest(data, ps) =
          (CHOOSE f : f = [k \in 0 .. len |->
               IF k = 0 THEN [p |-> -1, r |-> 0]
               ELSE IF data[ps[k]] > f[k - 1].p THEN [p |-> data[ps[k]], r |-> ps[k]]
                    ELSE f[k - 1]])[len].r
    BY DEF R!Highest
  <2>2. QED
    BY <2>1
<1>2. len \in Nat
  OBVIOUS
<1>3. \A k \in 1 .. len : ps[k] \in 0 .. HistLen - 1 /\ ps[k] \in Nat /\ ps[k] # 0 /\ data[ps[k]] \in Nat
  <2>1. \A k \in 1 .. len : ps[k] \in 2 .. HistLen - 5
    OBVIOUS
  <2>2. QED
    BY <2>1
<1>4. ASSUME NEW k \in 1 .. len, NEW b \in V PROVE Next0(k, b) \in V
  <2>1. At(ps[k]) \in V
    <3>1. data[ps[k]] \in Int /\ ps[k] \in Nat
      BY <1>3
    <3>2. QED
      BY <3>1
  <2> HIDE DEF V, At
  <2>2. QED
    BY <2>1
<1>5. none \in V
  OBVIOUS
<1>6. g \in [(1 .. len) \X V -> V] /\ \A k \in 1 .. len, b \in V : g[<<k, b>>] = Next0(k, b)
  BY <1>4
<1>36. \A n \in Nat : \A b : (Good(b, 0) <=> b = none) /\
         (n # 0 => (Good(b, n) <=> \E k \in 1 .. n : b = At(ps[k]) /\ \A l \in 1 .. n : Over(ps[k], l)))
  OBVIOUS
<1>37. none.p = -1 /\ none.r = 0 /\ \A q : At(q).p = data[q] /\ At(q).r = q
  OBVIOUS
<1> HIDE DEF g, Next0, len, V, none, At
<1>7. PICK f \in [0 .. len -> V] : Recursive(f, len, none, g)
  BY <1>2, <1>5, <1>6, RecursionExists
<1>8. f = K(f)
  <2>1. ASSUME NEW i \in 0 .. len PROVE f[i] = K(f)[i]
    <3>1. CASE i = 0
      BY <1>7, <3>1 DEF Recursive
    <3>2. CASE i # 0
      <4>1. i \in 1 .. len /\ f[i - 1] \in V
        BY <1>2, <3>2
      <4>2. f[i] = Next0(i, f[i - 1])
        BY <1>6, <1>7, <4>1 DEF Recursive
      <4>3. QED
        BY <3>2, <4>2
    <3>3. QED
      BY <3>1, <3>2
  <2>2. QED
    BY <2>1
<1>9. ASSUME NEW h PROVE K(h)[0] = none /\ \A i \in 1 .. len : K(h)[i] = Next0(i, h[i - 1])
  BY <1>2
<1> HIDE DEF K
<1>10. Best = K(Best)
  BY <1>8
<1> HIDE DEF Best
<1>11. Best[0] = none /\ \A i \in 1 .. len : Best[i] = Next0(i, Best[i - 1])
  BY <1>9, <1>10
<1> DEFINE G == {n \in 0 .. len : Good(Best[n], n)}
<1>12. 0 \in G
  BY <1>2, <1>11
<1>13. ASSUME NEW n \in 0 .. len - 1, n \in G PROVE n + 1 \in G
  <2> DEFINE b == Best[n].r
             e == Best[n + 1].r
             q == n + 1
  <2>1. q \in 1 .. len /\ q \in 0 .. len /\ q - 1 = n /\ n \in Nat /\ q # 0 /\ q = n + 1
    BY <1>2
  <2>2. Good(Best[n], n)
    BY <1>13
  <2>3. Best[q] = IF data[ps[q]] > Best[n].p THEN At(ps[q]) ELSE Best[n]
    BY <1>11, <2>1 DEF Next0
  <2>4. SUFFICES \E k \in 1 .. q : Best[q] = At(ps[k]) /\ \A l \in 1 .. q : Over(ps[k], l)
    BY <1>36, <2>1
  <2>40. data[ps[q]] \in Nat
    BY <1>3, <2>1
  <2>41. n = 0 => Best[q] = At(ps[q])
    <3>1. n = 0 => Best[n].p = -1
      BY <1>36, <1>37, <2>2
    <3>2. QED
      BY <2>3, <2>40, <3>1
  <2> HIDE DEF b, e, q, G, Good
  <2>5. \A l \in 1 .. q : l = q \/ l \in 1 .. n
    BY <2>1
  <2>6. CASE n = 0
    <3>1. Best[q] = At(ps[q]) /\ q = 1
      BY <2>1, <2>41, <2>6
    <3>2. Over(ps[q], q)
      BY <1>3, <2>1
    <3> HIDE DEF Over
    <3>3. QED
      BY <2>1, <2>5, <2>6, <3>1, <3>2
  <2>7. CASE n # 0
    <3>0. PICK k \in 1 .. n : Best[n] = At(ps[k]) /\ \A l \in 1 .. n : Over(ps[k], l)
      <4> DEFINE c == Best[n]
      <4>1. Good(c, n)
        BY <2>2
      <4> HIDE DEF c, Over
      <4>2. n \in Nat /\ n # 0
        BY <2>1, <2>7
      <4>3. \E k \in 1 .. n : c = At(ps[k]) /\ \A l \in 1 .. n : Over(ps[k], l)
        BY <1>36, <4>1, <4>2
      <4>4. QED
        BY <4>3 DEF c
    <3>1. b = ps[k] /\ (\A l \in 1 .. n : Over(b, l)) /\ Best[n].p = data[b] /\ Best[n] = At(b)
      BY <1>37, <3>0 DEF b
    <3>2. k \in 1 .. len /\ k \in 1 .. q /\ k < q /\ b # 0 /\ b \in Nat /\ data[b] \in Nat /\ ps[k] < ps[q]
      <4>1. k \in 1 .. len /\ k \in 1 .. q /\ k < q
        BY <1>2, <2>1
      <4>2. ps[k] < ps[q]
        BY <2>1, <4>1 DEF len
      <4>3. QED
        BY <1>3, <3>1, <4>1, <4>2
    <3>3. \A l \in 1 .. n : l \in 1 .. len /\ ps[l] \in Nat /\ data[ps[l]] \in Nat
      <4>1. \A l \in 1 .. n : l \in 1 .. len
        BY <1>2, <2>1
      <4>2. QED
        BY <1>3, <4>1
    <3>4. ps[q] \in Nat /\ data[ps[q]] \in Nat
      BY <1>3, <2>1
    <3>5. CASE data[ps[q]] > data[b]
      <4>0. Best[q] = At(ps[q])
        BY <2>3, <3>1, <3>5
      <4>1. e = ps[q]
        BY <1>37, <4>0 DEF e, q
      <4>2. Over(e, q)
        BY <3>4, <4>1
      <4>3. ASSUME NEW l \in 1 .. n PROVE Over(e, l)
        <5>1. Over(b, l)
          BY <3>1
        <5>25. data[b] \in Nat /\ data[ps[l]] \in Nat
          BY <3>2, <3>3
        <5>45. data[ps[l]] < data[b] \/ data[ps[l]] = data[b]
          BY <5>1
        <5>2. data[ps[l]] <= data[b]
          BY <5>25, <5>45
        <5> DEFINE x == data[ps[l]]
                   y == data[b]
                   z == data[e]
        <5>3. x \in Nat /\ y \in Nat /\ z \in Nat /\ x <= y /\ z > y
          BY <3>2, <3>3, <3>4, <3>5, <4>1, <5>2
        <5> HIDE DEF x, y, z
        <5>4. x < z
          BY <5>3
        <5>5. QED
          BY <5>4 DEF x, z
      <4> HIDE DEF Over
      <4>4. QED
        BY <2>1, <2>5, <4>0, <4>1, <4>2, <4>3
    <3>6. CASE ~ (data[ps[q]] > data[b])
      <4>0. Best[q] = At(b)
        BY <2>3, <3>1, <3>6
      <4>1. e = b
        BY <1>37, <4>0 DEF e, q
      <4>2. Over(e, q)
        <5> DEFINE x == data[ps[q]]
                   y == data[b]
        <5>1. x \in Nat /\ y \in Nat /\ ~ (x > y) /\ b <= ps[q]
          <6>1. b < ps[q] /\ b \in Nat
            BY <3>1, <3>2
          <6>2. b <= ps[q]
            BY <3>4, <6>1
          <6>3. QED
            BY <3>2, <3>4, <3>6, <6>2
        <5> HIDE DEF x, y
        <5>2. x < y \/ (x = y /\ b <= ps[q])
          BY <5>1
        <5>3. QED
          BY <4>1, <5>2 DEF x, y
      <4> HIDE DEF Over
      <4>4. QED
        BY <2>1, <2>5, <3>1, <3>2, <4>0, <4>1, <4>2
    <3>7. QED
      BY <3>5, <3>6
  <2>8. QED
    BY <2>6, <2>7
<1> HIDE DEF G
<1>14. len \in G
  <2>1. len \in Nat /\ len \in 0 .. len
    BY <1>2
  <2>2. \A i \in 0 .. len : i \in G
    BY <1>12, <1>13, <2>1, InductionUpTo
  <2>3. QED
    BY <2>1, <2>2
<1>15. Good(Best[len], len)
  BY <1>14 DEF G
<1>16. QED
  <2>1. CASE len = 0
    BY <1>1, <1>15, <1>36, <1>37, <2>1 DEF len
  <2>2. CASE len # 0
    <3>1. PICK k \in 1 .. len : Best[len] = At(ps[k]) /\ \A l \in 1 .. len : Over(ps[k], l)
      BY <1>2, <1>15, <1>36, <2>2
    <3>2. R!Highest(data, ps) = ps[k]
      BY <1>1, <1>37, <3>1
    <3>3. QED
      BY <2>2, <3>1, <3>2 DEF len
  <2>3. QED
    BY <2>1, <2>2

\* search_peaks lists the peaks of a profile, and the highest is one of them.
LEMMA BestPeakFound ==
    ASSUME NEW data \in [0 .. HistLen - 1 -> Nat], HistLen \in Nat, HistLen > FitSize, FitSize = 5
    PROVE  R!PeaksFound(data, R!Highest(data, R!search_peaks(data, FitSize)))
<1> DEFINE ps == R!search_peaks(data, 5)
           best == R!Highest(data, ps)
           tents == {p \in 2 .. HistLen - 5 : Tent(data, p)}
<1>1. /\ ps \in Seq(2 .. HistLen - 5)
      /\ \A k \in 1 .. Len(ps) : Tent(data, ps[k])
      /\ \A p \in 2 .. HistLen - 5 : Tent(data, p) => \E k \in 1 .. Len(ps) : ps[k] = p
      /\ \A k, l \in 1 .. Len(ps) : k < l => ps[k] < ps[l]
  BY PeaksListed
<1> HIDE DEF ps
<1>2. IF Len(ps) = 0 THEN best = 0
      ELSE \E k \in 1 .. Len(ps) :
              /\ best = ps[k]
              /\ \A l \in 1 .. Len(ps) :
                    data[ps[l]] < data[best] \/ (data[ps[l]] = data[best] /\ best <= ps[l])
  BY <1>1, HighestIsFirst
<1>3. Len(ps) \in Nat /\ \A k \in 1 .. Len(ps) : ps[k] \in 2 .. HistLen - 5 /\ ps[k] \in tents
  BY <1>1
<1>4. \A p \in tents : \E k \in 1 .. Len(ps) : ps[k] = p
  BY <1>1
<1> HIDE DEF best, tents
<1>5. CASE best = 0
  <2>1. Len(ps) = 0
    BY <1>2, <1>3, <1>5
  <2>2. tents = {}
    BY <1>4, <2>1
  <2>3. QED
    BY <1>5, <2>2 DEF R!PeaksFound, tents, Tent, ps, best
<1>6. CASE best # 0
  <2>1. best \in tents /\ best \in 2 .. HistLen - 5
    BY <1>2, <1>3, <1>6
  <2>2. \A p \in tents : data[p] < data[best] \/ (data[p] = data[best] /\ best <= p)
    BY <1>2, <1>4, <1>6
  <2>3. R!ScoreBins(best) \subseteq 0 .. HistLen - 1
    BY <2>1 DEF R!ScoreBins
  <2>4. QED
    BY <1>6, <2>1, <2>2, <2>3 DEF R!PeaksFound, tents, Tent, ps, best
<1>7. QED
  BY <1>5, <1>6

-----------------------------------------------------------------------------
(* The background of piv-contrast. *)

\* total[k] is the sum of f over the members of S below k.
PartialSums(total, f, S) ==
    /\ total[0] = 0
    /\ \A k \in 1 .. Levels : total[k] = total[k - 1] + (IF k - 1 \in S THEN f[k - 1] ELSE 0)

\* The partial sums of Added.
LEMMA AddedSteps ==
    ASSUME Levels \in Nat, NEW f \in [0 .. Levels - 1 -> Int], NEW S
    PROVE  \E total \in [0 .. Levels -> Int] :
              B!Added(f, S) = total[Levels] /\ PartialSums(total, f, S)
<1> DEFINE Next0(k, x) == x + (IF k - 1 \in S THEN f[k - 1] ELSE 0)
           K(h) == [k \in 0 .. Levels |-> IF k = 0 THEN 0 ELSE Next0(k, h[k - 1])]
           g == [p \in (1 .. Levels) \X Int |-> Next0(p[1], p[2])]
           Total == CHOOSE h : h = K(h)
<1>1. B!Added(f, S) = Total[Levels]
  BY DEF B!Added
<1>2. ASSUME NEW k \in 1 .. Levels, NEW x \in Int PROVE Next0(k, x) \in Int
  <2>1. k - 1 \in 0 .. Levels - 1
    OBVIOUS
  <2>2. f[k - 1] \in Int
    BY <2>1
  <2>3. QED
    BY <2>2
<1>3. g \in [(1 .. Levels) \X Int -> Int] /\ \A k \in 1 .. Levels, x \in Int : g[<<k, x>>] = Next0(k, x)
  BY <1>2
<1>4. \A k, x : Next0(k, x) = x + (IF k - 1 \in S THEN f[k - 1] ELSE 0)
  OBVIOUS
<1> HIDE DEF g, Next0
<1>5. PICK h \in [0 .. Levels -> Int] : Recursive(h, Levels, 0, g)
  <2>1. 0 \in Int
    OBVIOUS
  <2>2. QED
    BY <1>3, <2>1, RecursionExists
<1>6. h = K(h)
  <2>1. ASSUME NEW i \in 0 .. Levels PROVE h[i] = K(h)[i]
    <3>1. CASE i = 0
      BY <1>5, <3>1 DEF Recursive
    <3>2. CASE i # 0
      <4>1. i \in 1 .. Levels /\ h[i - 1] \in Int
        BY <3>2
      <4>2. h[i] = Next0(i, h[i - 1])
        BY <1>3, <1>5, <4>1 DEF Recursive
      <4>3. QED
        BY <3>2, <4>2
    <3>3. QED
      BY <3>1, <3>2
  <2>2. QED
    BY <2>1
<1>7. ASSUME NEW e
      PROVE  /\ K(e)[0] = 0 /\ \A k \in 1 .. Levels : K(e)[k] = Next0(k, e[k - 1])
             /\ K(e) = [k \in DOMAIN K(e) |-> K(e)[k]] /\ DOMAIN K(e) = 0 .. Levels
  OBVIOUS
<1> HIDE DEF K
<1>8. Total = K(Total)
  BY <1>6
<1> HIDE DEF Total
<1>9. Total[0] = 0 /\ \A k \in 1 .. Levels : Total[k] = Next0(k, Total[k - 1])
  BY <1>7, <1>8
<1>10. \A k \in 0 .. Levels : Total[k] \in Int
  <2>1. Total[0] \in Int
    BY <1>9
  <2>2. \A k \in 1 .. Levels : Total[k - 1] \in Int => Total[k] \in Int
    <3> TAKE k \in 1 .. Levels
    <3>1. Total[k] = Next0(k, Total[k - 1])
      BY <1>9
    <3>2. QED
      BY <1>2, <3>1
  <2>3. QED
    BY <2>1, <2>2, RecursionKeeps
<1>11. Total \in [0 .. Levels -> Int]
  <2>1. Total = [k \in 0 .. Levels |-> Total[k]]
    BY <1>7, <1>8
  <2>2. QED
    BY <1>10, <2>1
<1>12. PartialSums(Total, f, S)
  BY <1>4, <1>9 DEF PartialSums
<1>13. QED
  BY <1>1, <1>11, <1>12

\* The weighted squares of the distances from t / m, in terms of the three sums:
\* at least bound for every pixel if no value is nearer, and at least the square
\* of each value.
LEMMA SquaresAddUp ==
    ASSUME Levels \in Nat, NEW counts \in [0 .. Levels - 1 -> Nat],
           NEW S, \A v \in S : v \in 0 .. Levels - 1 /\ counts[v] > 0,
           NEW m \in Int, NEW t \in Int, NEW bound \in Int,
           \A v \in S : bound <= (m * v - t) * (m * v - t)
    PROVE  LET n == B!N(counts, S)
               s == B!Sum(counts, S)
               q == B!Sq(counts, S)
               squares == m * m * q - 2 * m * t * s + t * t * n
           IN  /\ n \in Nat /\ s \in Int /\ q \in Int
               /\ bound * n <= squares /\ 0 <= squares
               /\ \A v \in S : (m * v - t) * (m * v - t) <= squares /\ 0 < n
<1> DEFINE fn == counts
           fs == [v \in 0 .. Levels - 1 |-> v * counts[v]]
           fq == [v \in 0 .. Levels - 1 |-> v * v * counts[v]]
<1>0. fn \in [0 .. Levels - 1 -> Int] /\ fs \in [0 .. Levels - 1 -> Int] /\ fq \in [0 .. Levels - 1 -> Int]
  <2>1. \A v \in 0 .. Levels - 1 : counts[v] \in Int /\ v * counts[v] \in Int /\ v * v * counts[v] \in Int
    OBVIOUS
  <2>2. QED
    BY <2>1
<1>29. \A v \in 0 .. Levels - 1 : fn[v] = counts[v] /\ fs[v] = v * counts[v] /\ fq[v] = v * v * counts[v]
  OBVIOUS
<1>49. B!N(counts, S) = B!Added(fn, S) /\ B!Sum(counts, S) = B!Added(fs, S) /\ B!Sq(counts, S) = B!Added(fq, S)
  BY DEF B!N, B!Sum, B!Sq
<1> HIDE DEF fn, fs, fq
<1>1. PICK n \in [0 .. Levels -> Int] :
         /\ B!N(counts, S) = n[Levels] /\ n[0] = 0
         /\ \A k \in 1 .. Levels : n[k] = n[k - 1] + (IF k - 1 \in S THEN fn[k - 1] ELSE 0)
  <2>1. \E x \in [0 .. Levels -> Int] : B!Added(fn, S) = x[Levels] /\ PartialSums(x, fn, S)
    BY <1>0, AddedSteps
  <2>2. PICK x \in [0 .. Levels -> Int] : B!Added(fn, S) = x[Levels] /\ PartialSums(x, fn, S)
    BY <2>1
  <2>3. QED
    BY <1>49, <2>2 DEF PartialSums
<1>2. PICK s \in [0 .. Levels -> Int] :
         /\ B!Sum(counts, S) = s[Levels] /\ s[0] = 0
         /\ \A k \in 1 .. Levels : s[k] = s[k - 1] + (IF k - 1 \in S THEN fs[k - 1] ELSE 0)
  <2>1. \E x \in [0 .. Levels -> Int] : B!Added(fs, S) = x[Levels] /\ PartialSums(x, fs, S)
    BY <1>0, AddedSteps
  <2>2. PICK x \in [0 .. Levels -> Int] : B!Added(fs, S) = x[Levels] /\ PartialSums(x, fs, S)
    BY <2>1
  <2>3. QED
    BY <1>49, <2>2 DEF PartialSums
<1>3. PICK q \in [0 .. Levels -> Int] :
         /\ B!Sq(counts, S) = q[Levels] /\ q[0] = 0
         /\ \A k \in 1 .. Levels : q[k] = q[k - 1] + (IF k - 1 \in S THEN fq[k - 1] ELSE 0)
  <2>1. \E x \in [0 .. Levels -> Int] : B!Added(fq, S) = x[Levels] /\ PartialSums(x, fq, S)
    BY <1>0, AddedSteps
  <2>2. PICK x \in [0 .. Levels -> Int] : B!Added(fq, S) = x[Levels] /\ PartialSums(x, fq, S)
    BY <2>1
  <2>3. QED
    BY <1>49, <2>2 DEF PartialSums
<1> DEFINE E0(k) == m * m * q[k] - 2 * m * t * s[k] + t * t * n[k]
           Far(v) == (m * v - t) * (m * v - t)
           Good(k) == /\ n[k] >= 0 /\ bound * n[k] <= E0(k) /\ 0 <= E0(k)
                      /\ \A v \in S : v < k => Far(v) <= E0(k) /\ 0 < n[k]
           G == {k \in 0 .. Levels : Good(k)}
<1>4. 0 \in G
  <2>1. 0 \in 0 .. Levels /\ n[0] = 0 /\ s[0] = 0 /\ q[0] = 0
    BY <1>1, <1>2, <1>3
  <2>2. E0(0) = 0 /\ bound * n[0] = 0
    BY <2>1
  <2>3. \A v \in S : ~ (v < 0)
    OBVIOUS
  <2> HIDE DEF E0, Far
  <2>4. QED
    BY <2>1, <2>2, <2>3
<1>5. ASSUME NEW k \in 0 .. Levels - 1, k \in G PROVE k + 1 \in G
  <2>1. k + 1 \in 1 .. Levels /\ k + 1 \in 0 .. Levels /\ (k + 1) - 1 = k /\ k \in 0 .. Levels /\ k \in Int
    OBVIOUS
  <2>2. Good(k)
    BY <1>5
  <2>3. n[k] \in Int /\ s[k] \in Int /\ q[k] \in Int /\ n[k + 1] \in Int /\ s[k + 1] \in Int /\ q[k + 1] \in Int
    BY <2>1
  <2>4. CASE k \notin S
    <3>1. n[k + 1] = n[k] /\ s[k + 1] = s[k] /\ q[k + 1] = q[k]
      BY <1>1, <1>2, <1>3, <2>1, <2>3, <2>4
    <3>2. E0(k + 1) = E0(k)
      BY <3>1
    <3>3. \A v \in S : v < k + 1 => v < k
      BY <2>1, <2>4
    <3> HIDE DEF E0, Far
    <3>4. QED
      BY <2>1, <2>2, <3>1, <3>2, <3>3
  <2>5. CASE k \in S
    <3>1. PICK c \in Nat : c = counts[k] /\ c > 0
      BY <2>5
    <3>2. PICK d \in Nat : d = Far(k)
      <4> DEFINE e == m * k - t
      <4>1. e \in Int /\ Far(k) = e * e
        BY <2>1
      <4> HIDE DEF e
      <4>2. e * e \in Nat
        BY <4>1
      <4>3. QED
        BY <4>1, <4>2
    <3>3. n[k + 1] = n[k] + c /\ s[k + 1] = s[k] + k * c /\ q[k + 1] = q[k] + k * k * c
      BY <1>1, <1>2, <1>3, <1>29, <2>1, <2>5, <3>1
    <3>4. E0(k + 1) = E0(k) + c * d
      <4>1. PICK nk \in Int, sk \in Int, qk \in Int : nk = n[k] /\ sk = s[k] /\ qk = q[k]
        BY <2>3
      <4>2. c * d = m * m * (k * k * c) - 2 * m * t * (k * c) + t * t * c
        BY <2>1, <3>2
      <4>3. PICK x \in Int, y \in Int : x = k * c /\ y = k * k * c
        BY <2>1
      <4>4. /\ m * m * (qk + y) = m * m * qk + m * m * y
            /\ 2 * m * t * (sk + x) = 2 * m * t * sk + 2 * m * t * x
            /\ t * t * (nk + c) = t * t * nk + t * t * c
        OBVIOUS
      <4>5. E0(k + 1) = m * m * (qk + y) - 2 * m * t * (sk + x) + t * t * (nk + c)
        BY <3>3, <4>1, <4>3
      <4>6. E0(k) = m * m * qk - 2 * m * t * sk + t * t * nk
        BY <4>1
      <4>7. c * d = m * m * y - 2 * m * t * x + t * t * c
        BY <4>2, <4>3
      <4> HIDE DEF E0
      <4>8. PICK a1 \in Int, a2 \in Int, a3 \in Int, b1 \in Int, b2 \in Int, b3 \in Int :
               /\ a1 = m * m * qk /\ a2 = 2 * m * t * sk /\ a3 = t * t * nk
               /\ b1 = m * m * y /\ b2 = 2 * m * t * x /\ b3 = t * t * c
        OBVIOUS
      <4>9. E0(k + 1) = (a1 + b1) - (a2 + b2) + (a3 + b3) /\ E0(k) = a1 - a2 + a3 /\ c * d = b1 - b2 + b3
        BY <4>4, <4>5, <4>6, <4>7, <4>8
      <4>10. (a1 + b1) - (a2 + b2) + (a3 + b3) = (a1 - a2 + a3) + (b1 - b2 + b3)
        OBVIOUS
      <4>11. QED
        BY <4>9, <4>10
    <3>5. bound * n[k + 1] = bound * n[k] + bound * c
      BY <2>3, <3>3
    <3>6. bound <= d
      BY <2>5, <3>2
    <3>7. bound * c <= c * d /\ d <= c * d /\ c * d \in Nat
      <4>1. PICK x \in Nat : d = bound + x
        <5>1. d - bound \in Nat /\ d = bound + (d - bound)
          BY <3>6
        <5>2. QED
          BY <5>1
      <4>2. c * d = bound * c + c * x /\ c * x \in Nat /\ bound * c \in Int
        BY <4>1
      <4>3. PICK y \in Nat : c = 1 + y
        <5>1. c - 1 \in Nat /\ c = 1 + (c - 1)
          BY <3>1
        <5>2. QED
          BY <5>1
      <4>4. c * d = d + y * d /\ y * d \in Nat
        BY <4>3
      <4>5. QED
        BY <4>2, <4>4
    <3>8. E0(k) \in Int /\ bound * n[k] \in Int /\ bound * c \in Int
      <4>1. PICK nk \in Int, sk \in Int, qk \in Int : nk = n[k] /\ sk = s[k] /\ qk = q[k]
        BY <2>3
      <4>2. m * m * qk - 2 * m * t * sk + t * t * nk \in Int /\ bound * nk \in Int
        OBVIOUS
      <4>3. QED
        BY <4>1, <4>2
    <3>9. \A v \in S : v < k + 1 => v = k \/ v < k
      BY <2>1
    <3>10. \A v \in S : Far(v) \in Int
      OBVIOUS
    <3> DEFINE x == E0(k)
               y == E0(k + 1)
               z == c * d
               bc == bound * c
               bn == bound * n[k]
               bm == bound * n[k + 1]
    <3>11. x \in Int /\ bn \in Int /\ bc \in Int /\ z \in Nat /\ y = x + z /\ bm = bn + bc
           /\ bc <= z /\ d <= z /\ bn <= x /\ 0 <= x /\ n[k] >= 0
      BY <2>2, <3>4, <3>5, <3>7, <3>8
    <3> HIDE DEF x, y, z, bc, bn, bm, Far
    <3>12. bm <= y /\ 0 <= y /\ d <= y /\ x <= y /\ y \in Int
      BY <3>11
    <3>13. n[k + 1] > 0 /\ n[k + 1] >= 0
      <4>1. PICK nk \in Int : nk = n[k] /\ nk >= 0
        BY <2>3, <3>11
      <4>2. nk + c > 0 /\ nk + c >= 0
        BY <3>1, <4>1
      <4>3. QED
        BY <3>3, <4>1, <4>2
    <3>14. ASSUME NEW v \in S, v < k + 1 PROVE Far(v) <= y
      <4>1. CASE v = k
        BY <3>2, <3>12, <4>1
      <4>2. CASE v < k
        <5>1. Far(v) <= x /\ Far(v) \in Int
          BY <2>2, <3>10, <4>2 DEF x
        <5>2. QED
          BY <3>11, <3>12, <5>1
      <4>3. QED
        BY <3>9, <3>14, <4>1, <4>2
    <3>15. Good(k + 1)
      <4> HIDE DEF E0
      <4>1. QED
        BY <3>12, <3>13, <3>14 DEF y, bm
    <3>16. QED
      BY <2>1, <3>15
  <2>6. QED
    BY <2>4, <2>5
<1> HIDE DEF G
<1>6. Levels \in G
  <2>1. Levels \in 0 .. Levels
    OBVIOUS
  <2>2. \A k \in 0 .. Levels : k \in G
    BY <1>4, <1>5, InductionUpTo
  <2>3. QED
    BY <2>1, <2>2
<1>7. Good(Levels) /\ n[Levels] \in Int /\ s[Levels] \in Int /\ q[Levels] \in Int
  BY <1>6 DEF G
<1>8. \A v \in S : v < Levels
  OBVIOUS
<1>9. QED
  BY <1>1, <1>2, <1>3, <1>7, <1>8

\* A round leaves some pixel unless all it took had one value.
LEMMA SomePixelKept ==
    ASSUME Levels \in Nat, NEW counts \in [0 .. Levels - 1 -> Nat],
           NEW S \in SUBSET B!Present(counts)
    PROVE  /\ B!N(counts, S) \in Nat /\ B!Var(counts, S) \in Int
           /\ B!N(counts, S) = 0 => S = {}
           /\ B!Kept(counts, S) \in SUBSET B!Present(counts)
           /\ B!Kept(counts, S) = {} => \A u, v \in S : u = v
<1> DEFINE n == B!N(counts, S)
           s == B!Sum(counts, S)
           q == B!Sq(counts, S)
           V == n * q - s * s
<1>1. \A v \in S : v \in 0 .. Levels - 1 /\ counts[v] > 0
  BY DEF B!Present
<1>2. B!Var(counts, S) = V
  BY DEF B!Var
<1>3. B!Kept(counts, S) = {v \in S : (n * v - s) * (n * v - s) < 4 * V}
  BY <1>2 DEF B!Kept
<1> HIDE DEF n, s, q
<1>4. n \in Nat /\ s \in Int /\ q \in Int /\ \A v \in S : 0 < n
  <2>1. \A v \in S : 0 <= (0 * v - 0) * (0 * v - 0)
    BY <1>1
  <2>2. 0 \in Int
    OBVIOUS
  <2>3. QED
    BY <1>1, <2>1, <2>2, SquaresAddUp DEF n, s, q
<1>5. V \in Int
  BY <1>4
<1>6. B!Kept(counts, S) \in SUBSET B!Present(counts)
  BY <1>3
<1>7. ASSUME B!Kept(counts, S) = {}, NEW u \in S, NEW v \in S PROVE u = v
  <2>1. \A w \in S : w \in Int
    BY <1>1
  <2>2. \A w \in S : 4 * V <= (n * w - s) * (n * w - s)
    <3> SUFFICES ASSUME NEW w \in S PROVE 4 * V <= (n * w - s) * (n * w - s)
      OBVIOUS
    <3>1. ~ ((n * w - s) * (n * w - s) < 4 * V)
      BY <1>3, <1>7
    <3> DEFINE x == (n * w - s) * (n * w - s)
               y == 4 * V
    <3>2. x \in Int /\ y \in Int /\ ~ (x < y)
      BY <1>4, <1>5, <2>1, <3>1
    <3> HIDE DEF x, y
    <3>3. y <= x
      BY <3>2
    <3>4. QED
      BY <3>3 DEF x, y
  <2> DEFINE squares == n * n * q - 2 * n * s * s + s * s * n
  <2>3. /\ (4 * V) * n <= squares /\ 0 <= squares
        /\ \A w \in S : (n * w - s) * (n * w - s) <= squares
    <3>1. n \in Int /\ s \in Int /\ 4 * V \in Int
      BY <1>4, <1>5
    <3>2. QED
      BY <1>1, <2>2, <3>1, SquaresAddUp DEF n, s, q
  <2>4. squares = n * V
    BY <1>4
  <2>5. PICK p \in Int : p = n * V
    BY <1>4, <1>5
  <2>6. (4 * V) * n = 4 * (n * V)
    BY <1>4, <1>5
  <2>7. p = 0
    BY <2>3, <2>4, <2>5, <2>6
  <2>8. ASSUME NEW w \in S PROVE n * w = s
    <3> DEFINE e == n * w - s
    <3>2. n * w \in Int
      BY <1>4, <2>1
    <3>5. e \in Int
      BY <1>4, <3>2
    <3>6. squares = 0
      BY <2>4, <2>5, <2>7
    <3>1. e \in Int /\ e * e <= 0
      <4> HIDE DEF squares
      <4>1. e * e <= squares
        BY <2>3
      <4>2. QED
        BY <3>5, <3>6, <4>1
    <3> HIDE DEF e
    <3>3. e = 0
      BY <3>1
    <3>4. QED
      BY <1>4, <3>2, <3>3 DEF e
  <2>9. n * u = n * v /\ n > 0 /\ u \in Int /\ v \in Int
    BY <1>4, <2>1, <2>8
  <2>10. n * (u - v) = 0 /\ n \in Nat
    BY <1>4, <2>9
  <2>11. QED
    BY <2>9, <2>10
<1>8. QED
  BY <1>2, <1>4, <1>5, <1>6, <1>7 DEF n

\* approx_bg ends with a level.
LEMMA BackgroundFound ==
    ASSUME Levels \in Nat, Rounds \in Nat, NEW counts \in [0 .. Levels - 1 -> Nat]
    PROVE  B!BackgroundDefined(counts, B!approx_bg(counts))
<1> DEFINE P == B!Present(counts)
           V == [between : SUBSET P, old : [var : Int, n : Int], settled : BOOLEAN,
                 defined : BOOLEAN, used : Seq(SUBSET P)]
           a == [between |-> B!Inner(counts), old |-> [var |-> 0, n |-> 1],
                 settled |-> FALSE, defined |-> TRUE, used |-> <<>>]
           Next0(k, s) == B!Round(counts, s)
           K(f) == [k \in 0 .. Rounds |-> IF k = 0 THEN a ELSE Next0(k, f[k - 1])]
           g == [p \in (1 .. Rounds) \X V |-> Next0(p[1], p[2])]
           After == CHOOSE f : f = K(f)
           Flat(s) == \/ B!Inner(counts) = {}
                      \/ \E k \in 1 .. Len(s.used) : \E v \in 0 .. Levels - 1 : s.used[k] = {v}
           Good(s) == s \in V /\ (s.between = {} => Flat(s)) /\ (~ s.defined => Flat(s))
<1>1. B!approx_bg(counts) = After[Rounds]
  BY DEF B!approx_bg
<1>2. a \in V /\ Good(a)
  <2>1. B!Inner(counts) \in SUBSET P
    BY DEF B!Inner
  <2> HIDE DEF P
  <2>2. a \in V
    BY <2>1
  <2>3. QED
    BY <2>2
<1>3. ASSUME NEW s \in V PROVE B!Round(counts, s) \in V /\ (Good(s) => Good(B!Round(counts, s)))
  <2> DEFINE t == B!Round(counts, s)
             S == s.between
  <2>1. /\ B!N(counts, S) \in Nat /\ B!Var(counts, S) \in Int
        /\ B!N(counts, S) = 0 => S = {}
        /\ B!Kept(counts, S) \in SUBSET P
        /\ B!Kept(counts, S) = {} => \A u, v \in S : u = v
    BY SomePixelKept
  <2>2. B!Settled(counts, S, s.old) \in BOOLEAN
    BY DEF B!Settled
  <2> HIDE DEF P
  <2>3. CASE s.settled
    <3>1. t = s
      BY <2>3 DEF B!Round
    <3>2. QED
      BY <3>1
  <2>4. CASE ~ s.settled /\ B!N(counts, S) = 0
    <3>1. t = [s EXCEPT !.defined = FALSE]
      BY <2>4 DEF B!Round
    <3>2. t \in V /\ t.between = S /\ t.used = s.used
      BY <3>1
    <3>3. S = {}
      BY <2>1, <2>4
    <3>4. QED
      BY <3>2, <3>3
  <2>5. CASE ~ s.settled /\ B!N(counts, S) # 0
    <3> DEFINE kept == B!Kept(counts, S)
               new == [var |-> B!Var(counts, S), n |-> B!N(counts, S)]
               settled == B!Settled(counts, S, s.old)
    <3>1. t = [between |-> kept, old |-> new, settled |-> settled, defined |-> TRUE,
               used |-> Append(s.used, S)]
      BY <2>5 DEF B!Round
    <3>2. S \in SUBSET P /\ s.used \in Seq(SUBSET P) /\ new \in [var : Int, n : Int]
      BY <2>1
    <3> DEFINE Q == SUBSET P
               longer == Append(s.used, S)
    <3>3. /\ longer \in Seq(Q) /\ Len(longer) = Len(s.used) + 1 /\ Len(s.used) \in Nat
          /\ longer[Len(s.used) + 1] = S /\ \A k \in 1 .. Len(s.used) : longer[k] = s.used[k]
      <4> HIDE DEF Q
      <4>1. s.used \in Seq(Q) /\ S \in Q
        BY <3>2 DEF Q
      <4>2. QED
        BY <4>1, Appended
    <3> HIDE DEF kept, new, settled, longer
    <3>4. t \in V
      BY <2>1, <2>2, <3>1, <3>2, <3>3 DEF kept, settled, longer
    <3>5. t.between = kept /\ t.used = longer /\ t.defined
      BY <3>1 DEF longer
    <3>6. ASSUME Good(s), kept = {} PROVE Flat(t)
      <4>1. CASE S = {}
        <5>1. Flat(s)
          BY <3>6, <4>1
        <5>2. CASE B!Inner(counts) = {}
          BY <5>2
        <5>3. CASE \E k \in 1 .. Len(s.used) : \E v \in 0 .. Levels - 1 : s.used[k] = {v}
          <6>1. PICK k \in 1 .. Len(s.used) : \E v \in 0 .. Levels - 1 : s.used[k] = {v}
            BY <5>3
          <6>2. k \in 1 .. Len(longer) /\ longer[k] = s.used[k]
            BY <3>3, <6>1
          <6>3. QED
            BY <3>5, <6>1, <6>2
        <5>4. QED
          BY <5>1, <5>2, <5>3
      <4>2. CASE S # {}
        <5>1. PICK v \in S : TRUE
          BY <4>2
        <5>2. S = {v}
          BY <2>1, <3>6, <5>1 DEF kept
        <5>3. v \in 0 .. Levels - 1
          BY <5>1 DEF P, B!Present
        <5>4. Len(s.used) + 1 \in 1 .. Len(longer) /\ longer[Len(s.used) + 1] = {v}
          BY <3>3, <5>2
        <5>5. QED
          BY <3>5, <5>3, <5>4
      <4>3. QED
        BY <4>1, <4>2
    <3>7. QED
      BY <3>4, <3>5, <3>6
  <2>6. QED
    BY <2>3, <2>4, <2>5
<1>4. g \in [(1 .. Rounds) \X V -> V] /\ \A i \in 1 .. Rounds, s \in V : g[<<i, s>>] = Next0(i, s)
  BY <1>3
<1> HIDE DEF g, V, a
<1>5. PICK f \in [0 .. Rounds -> V] : Recursive(f, Rounds, a, g)
  BY <1>2, <1>4, RecursionExists
<1>35. \A k, s : Next0(k, s) = B!Round(counts, s)
  OBVIOUS
<1> HIDE DEF Next0
<1>6. f = K(f)
  <2>1. ASSUME NEW i \in 0 .. Rounds PROVE f[i] = K(f)[i]
    <3>1. CASE i = 0
      BY <1>5, <3>1 DEF Recursive
    <3>2. CASE i # 0
      <4>1. i \in 1 .. Rounds /\ f[i - 1] \in V
        BY <3>2
      <4>2. f[i] = Next0(i, f[i - 1])
        BY <1>4, <1>5, <4>1 DEF Recursive
      <4>3. QED
        BY <3>2, <4>2
    <3>3. QED
      BY <3>1, <3>2
  <2>2. QED
    BY <2>1
<1>7. ASSUME NEW h PROVE K(h)[0] = a /\ \A i \in 1 .. Rounds : K(h)[i] = Next0(i, h[i - 1])
  OBVIOUS
<1> HIDE DEF K
<1>8. After = K(After)
  BY <1>6
<1> HIDE DEF After
<1>9. After[0] = a /\ \A i \in 1 .. Rounds : After[i] = Next0(i, After[i - 1])
  BY <1>7, <1>8
<1> DEFINE T0 == {s \in V : Good(s)}
<1>10. After[0] \in T0 /\ \A i \in 1 .. Rounds : After[i - 1] \in T0 => After[i] \in T0
  <2>1. After[0] \in T0
    BY <1>2, <1>9
  <2>2. ASSUME NEW i \in 1 .. Rounds, After[i - 1] \in T0 PROVE After[i] \in T0
    <3>1. After[i] = B!Round(counts, After[i - 1])
      BY <1>9, <1>35
    <3>2. After[i - 1] \in V /\ Good(After[i - 1])
      BY <2>2
    <3> HIDE DEF Good
    <3>3. QED
      BY <1>3, <3>1, <3>2
  <2>3. QED
    BY <2>1, <2>2
<1> HIDE DEF T0
<1>11. After[Rounds] \in T0
  <2>1. \A i \in 0 .. Rounds : After[i] \in T0
    BY <1>10, RecursionKeeps
  <2>2. Rounds \in 0 .. Rounds
    OBVIOUS
  <2>3. QED
    BY <2>1, <2>2
<1>12. Good(After[Rounds])
  BY <1>11 DEF T0
<1> DEFINE r == After[Rounds]
<1>13. ~ r.defined => \/ B!Inner(counts) = {}
                      \/ \E k \in 1 .. Len(r.used) : \E v \in 0 .. Levels - 1 : r.used[k] = {v}
  BY <1>12
<1> HIDE DEF r
<1>14. B!BackgroundDefined(counts, r)
  BY <1>13 DEF B!BackgroundDefined
<1>15. QED
  BY <1>1, <1>14 DEF r

-----------------------------------------------------------------------------
(* The list of localmaxima. *)

Image(img) ==
    /\ img.w \in Nat \ {0, 1} /\ img.h \in Nat \ {0, 1}
    /\ img.val \in [(0 .. img.w - 1) \X (0 .. img.h - 1) -> Nat]

\* The places of the output buffer are places.
Buffers(places) == [count : Nat, at : [places -> Nat \X Nat]]

\* The loops meet each pixel off the border, once.
LEMMA RasterMeetsOnce ==
    ASSUME NEW img, Image(img)
    PROVE  LET pixels == M!Raster(img)
               n == (img.w - 2) * (img.h - 2)
           IN  /\ n \in Nat /\ Len(pixels) = n
               /\ \A k \in 1 .. n : pixels[k] \in (1 .. img.w - 2) \X (1 .. img.h - 2)
               /\ \A k, l \in 1 .. n : pixels[k] = pixels[l] => k = l
<1> DEFINE W == img.w - 2
           H == img.h - 2
           n == W * H
           pixels == M!Raster(img)
<1>1. W \in Nat /\ H \in Nat /\ n \in Nat
  BY DEF Image
<1>2. pixels = [k \in 1 .. n |-> <<1 + ((k - 1) % W), 1 + ((k - 1) \div W)>>]
  BY DEF M!Raster
<1> HIDE DEF W, H, pixels
<1>3. Len(pixels) = n
  BY <1>1, <1>2
<1>4. ASSUME NEW k \in 1 .. n
      PROVE  /\ (k - 1) % W \in 0 .. W - 1 /\ (k - 1) \div W \in 0 .. H - 1
             /\ k - 1 = W * ((k - 1) \div W) + ((k - 1) % W)
  <2>1. W # 0
    BY <1>1
  <2> DEFINE a == k - 1
             y == a \div W
             x == a % W
  <2>2. a \in Nat /\ W \in Nat \ {0} /\ a < W * H
    BY <1>1, <2>1
  <2> HIDE DEF a
  <2>3. x \in 0 .. W - 1 /\ y \in Nat /\ a = W * y + x
    BY <2>2
  <2> HIDE DEF x, y
  <2>4. y < H
    <3> SUFFICES ASSUME y >= H PROVE FALSE
      BY <1>1, <2>3
    <3>1. PICK z \in Nat : y = H + z
      <4>1. y - H \in Nat /\ y = H + (y - H)
        BY <1>1, <2>3
      <4>2. QED
        BY <4>1
    <3>2. W * y = W * H + W * z /\ W * z \in Nat /\ W * H \in Nat
      BY <1>1, <3>1
    <3>3. QED
      BY <2>2, <2>3, <3>2
  <2>5. x \in 0 .. W - 1 /\ y \in 0 .. H - 1 /\ a = W * y + x
    BY <1>1, <2>3, <2>4
  <2>6. QED
    BY <2>5 DEF a, x, y
<1>5. ASSUME NEW k \in 1 .. n PROVE pixels[k] \in (1 .. W) \X (1 .. H)
  <2>1. pixels[k] = <<1 + ((k - 1) % W), 1 + ((k - 1) \div W)>>
    BY <1>2
  <2>2. QED
    BY <1>1, <1>4, <2>1
<1>6. ASSUME NEW k \in 1 .. n, NEW l \in 1 .. n, pixels[k] = pixels[l] PROVE k = l
  <2> DEFINE x(i) == (i - 1) % W
             y(i) == (i - 1) \div W
  <2>1. pixels[k] = <<1 + x(k), 1 + y(k)>> /\ pixels[l] = <<1 + x(l), 1 + y(l)>>
    BY <1>2
  <2> HIDE DEF x, y
  <2>2. 1 + x(k) = 1 + x(l) /\ 1 + y(k) = 1 + y(l)
    <3>1. <<1 + x(k), 1 + y(k)>>[1] = <<1 + x(l), 1 + y(l)>>[1]
      BY <1>6, <2>1, Zenon
    <3>2. <<1 + x(k), 1 + y(k)>>[2] = <<1 + x(l), 1 + y(l)>>[2]
      BY <1>6, <2>1, Zenon
    <3>3. QED
      BY <3>1, <3>2
  <2>3. /\ (k - 1) % W \in Int /\ (l - 1) % W \in Int
        /\ (k - 1) \div W \in Int /\ (l - 1) \div W \in Int
    BY <1>4
  <2>4. (k - 1) % W = (l - 1) % W /\ (k - 1) \div W = (l - 1) \div W
    BY <2>2, <2>3 DEF x, y
  <2>5. k - 1 = l - 1
    BY <1>4, <2>4
  <2>6. k \in Int /\ l \in Int
    BY <1>1
  <2>7. QED
    BY <2>5, <2>6
<1>7. QED
  BY <1>1, <1>3, <1>5, <1>6 DEF W, H, pixels

\* Of two pixels side by side only one is a strict maximum.
LEMMA MaximaApart ==
    ASSUME NEW img, Image(img),
           NEW p \in (1 .. img.w - 2) \X (1 .. img.h - 2), M!IsMaximum(img, p),
           NEW q \in (1 .. img.w - 2) \X (1 .. img.h - 2), M!IsMaximum(img, q),
           q \in M!Neighbours(p)
    PROVE  FALSE
<1>1. ASSUME NEW r \in (1 .. img.w - 2) \X (1 .. img.h - 2), NEW o \in M!Neighbours(r),
             M!IsMaximum(img, r)
      PROVE  img.val[o] \in Nat /\ img.val[r] > img.val[o]
  <2> DEFINE At(d, e) == img.val[<<r[1] + d, r[2] + e>>]
             vals == {img.val[m] : m \in M!Neighbours(r)}
  <2>1. \A d, e \in -1 .. 1 : At(d, e) \in Nat
    BY DEF Image
  <2>2. \A v \in vals : \E d, e \in -1 .. 1 : v = At(d, e)
    BY DEF M!Neighbours
  <2>3. \A d \in -1 .. 1 : d = -1 \/ d = 0 \/ d = 1
    OBVIOUS
  <2>4. img.val[o] \in vals
    OBVIOUS
  <2>5. -1 \in -1 .. 1 /\ 0 \in -1 .. 1 /\ 1 \in -1 .. 1
    OBVIOUS
  <2> HIDE DEF At, vals
  <2>6. PICK b \in Nat : \A v \in vals : v \in Nat /\ v <= b
    <3> DEFINE c == (At(-1, -1) + At(-1, 0) + At(-1, 1)) + (At(0, -1) + At(0, 0) + At(0, 1))
                       + (At(1, -1) + At(1, 0) + At(1, 1))
    <3>1. c \in Nat /\ \A d, e \in -1 .. 1 : At(d, e) <= c
      BY <2>1, <2>3, <2>5
    <3> HIDE DEF c
    <3>2. QED
      BY <2>1, <2>2, <3>1
  <2>7. PICK v \in vals : \A u \in vals : u <= v
    <3>1. vals \subseteq Nat /\ vals # {}
      BY <2>4, <2>6
    <3>2. QED
      BY <2>6, <3>1, GreatestNumber
  <2>8. M!Maximum(vals) \in vals /\ \A u \in vals : u <= M!Maximum(vals)
    BY <2>7 DEF M!Maximum
  <2>9. img.val[r] > M!Maximum(vals)
    BY <1>1 DEF M!IsMaximum, vals
  <2>10. img.val[r] \in Nat
    BY DEF Image
  <2>11. QED
    BY <2>4, <2>6, <2>8, <2>9, <2>10
<1>2. p \in M!Neighbours(q)
  <2>1. PICK d \in -1 .. 1, e \in -1 .. 1 : q = <<p[1] + d, p[2] + e>>
    BY DEF M!Neighbours
  <2>2. - d \in -1 .. 1 /\ - e \in -1 .. 1 /\ p = <<q[1] + (- d), q[2] + (- e)>> /\ p # q
    BY <2>1 DEF M!Neighbours
  <2>3. QED
    BY <2>2 DEF M!Neighbours
<1>3. img.val[q] \in Nat /\ img.val[p] > img.val[q] /\ img.val[p] \in Nat /\ img.val[q] > img.val[p]
  BY <1>1, <1>2
<1>4. QED
  BY <1>3

\* After k pixels: the clear maxima among them are in the first ct3 places.
ScanInv(img, pixels, s, k) ==
    LET Met(i) == pixels[i] \in img.clear /\ M!IsMaximum(img, pixels[i])
    IN  /\ s.ct3 <= k
        /\ \A i \in 1 .. k : Met(i) => \E j \in 1 .. s.ct3 : s.out.at[j] = pixels[i]
        /\ \A j \in 1 .. s.ct3 : \E i \in 1 .. k : Met(i) /\ s.out.at[j] = pixels[i]
        /\ \A j, l \in 1 .. s.ct3 : s.out.at[j] = s.out.at[l] => j = l
        /\ (\E i \in 1 .. k : M!IsMaximum(img, pixels[i])) => s.out.count = s.ct3

\* One pixel of the scan: listed behind the others if it is a maximum.
LEMMA ScanStep ==
    ASSUME NEW img, NEW pixels, NEW n \in Nat, NEW places, 1 .. n \subseteq places,
           \A k, l \in 1 .. n : pixels[k] = pixels[l] => k = l,
           \A k \in 1 .. n : pixels[k] \in Nat \X Nat,
           NEW s \in [ct3 : Nat, out : Buffers(places)],
           NEW k \in 0 .. n - 1, ScanInv(img, pixels, s, k)
    PROVE  LET p == pixels[k + 1]
               t == IF M!IsMaximum(img, p) THEN M!Store(img, s, p) ELSE s
           IN  t \in [ct3 : Nat, out : Buffers(places)] /\ ScanInv(img, pixels, t, k + 1)
<1> DEFINE p == pixels[k + 1]
           t == IF M!IsMaximum(img, p) THEN M!Store(img, s, p) ELSE s
           Met(i) == pixels[i] \in img.clear /\ M!IsMaximum(img, pixels[i])
<1>1. /\ s.ct3 \in Nat /\ s.ct3 <= k /\ k \in Nat /\ k + 1 \in 1 .. n
      /\ \A i \in 1 .. k : Met(i) => \E j \in 1 .. s.ct3 : s.out.at[j] = pixels[i]
      /\ \A j \in 1 .. s.ct3 : \E i \in 1 .. k : Met(i) /\ s.out.at[j] = pixels[i]
      /\ \A j, l \in 1 .. s.ct3 : s.out.at[j] = s.out.at[l] => j = l
      /\ (\E i \in 1 .. k : M!IsMaximum(img, pixels[i])) => s.out.count = s.ct3
  BY DEF ScanInv
<1>2. \A i \in 1 .. k + 1 : i = k + 1 \/ i \in 1 .. k
  BY <1>1
<1>3. \A i \in 1 .. k : i \in 1 .. k + 1 /\ i \in 1 .. n /\ i # k + 1
  BY <1>1
<1>4. s.out \in Buffers(places) /\ s.out.at \in [places -> Nat \X Nat] /\ s.out.count \in Nat /\ p \in Nat \X Nat
  BY <1>1 DEF Buffers
<1> HIDE DEF p
<1>5. CASE ~ M!IsMaximum(img, p)
  <2>1. t = s /\ ~ Met(k + 1)
    BY <1>5 DEF p
  <2>2. (\E i \in 1 .. k + 1 : M!IsMaximum(img, pixels[i])) => \E i \in 1 .. k : M!IsMaximum(img, pixels[i])
    BY <1>2, <1>5 DEF p
  <2>3. t.ct3 <= k + 1
    BY <1>1, <2>1
  <2> HIDE DEF t, Met
  <2>4. \A i \in 1 .. k + 1 : Met(i) => \E j \in 1 .. t.ct3 : t.out.at[j] = pixels[i]
    BY <1>1, <1>2, <2>1
  <2>5. \A j \in 1 .. t.ct3 : \E i \in 1 .. k + 1 : Met(i) /\ t.out.at[j] = pixels[i]
    BY <1>1, <1>3, <2>1
  <2>6. QED
    BY <1>1, <2>1, <2>2, <2>3, <2>4, <2>5 DEF ScanInv, Met, t, p
<1>6. CASE M!IsMaximum(img, p) /\ p \notin img.clear
  <2>1. t = [ct3 |-> s.ct3, out |-> [s.out EXCEPT !.count = s.ct3]] /\ ~ Met(k + 1)
    BY <1>6 DEF M!Store, p
  <2> HIDE DEF t, Met
  <2>2. t.ct3 = s.ct3 /\ t.out.at = s.out.at /\ t.out.count = s.ct3 /\ t.out \in Buffers(places)
    BY <1>1, <1>4, <2>1 DEF Buffers
  <2>3. t.ct3 <= k + 1 /\ t \in [ct3 : Nat, out : Buffers(places)]
    BY <1>1, <2>1, <2>2
  <2>4. \A i \in 1 .. k + 1 : Met(i) => \E j \in 1 .. t.ct3 : t.out.at[j] = pixels[i]
    BY <1>1, <1>2, <2>1, <2>2
  <2>5. \A j \in 1 .. t.ct3 : \E i \in 1 .. k + 1 : Met(i) /\ t.out.at[j] = pixels[i]
    BY <1>1, <1>3, <2>2
  <2>6. QED
    BY <1>1, <2>2, <2>3, <2>4, <2>5 DEF ScanInv, Met, t, p
<1>7. CASE M!IsMaximum(img, p) /\ p \in img.clear
  <2> DEFINE c == s.ct3 + 1
  <2>1. t = [ct3 |-> c, out |-> [count |-> c, at |-> [s.out.at EXCEPT ![c] = p]]] /\ Met(k + 1)
    BY <1>7 DEF M!Store, p
  <2> HIDE DEF t, Met
  <2>2. /\ c \in Nat /\ c \in places /\ c = s.ct3 + 1 /\ c \in 1 .. c /\ c <= k + 1
        /\ \A j \in 1 .. s.ct3 : j \in 1 .. c /\ j # c
        /\ \A j \in 1 .. c : j = c \/ j \in 1 .. s.ct3
    <3>1. c \in 1 .. n
      BY <1>1
    <3>2. QED
      BY <1>1, <3>1
  <2> HIDE DEF c
  <2>3. /\ t.ct3 = c /\ t.out.count = c /\ t.out.at[c] = p
        /\ \A j \in 1 .. s.ct3 : t.out.at[j] = s.out.at[j]
    BY <1>4, <2>1, <2>2
  <2>4. t \in [ct3 : Nat, out : Buffers(places)]
    <3>1. [s.out.at EXCEPT ![c] = p] \in [places -> Nat \X Nat]
      BY <1>4
    <3>2. QED
      BY <2>1, <2>2, <3>1 DEF Buffers
  <2>5. ASSUME NEW i \in 1 .. k + 1, Met(i) PROVE \E j \in 1 .. t.ct3 : t.out.at[j] = pixels[i]
    <3>1. CASE i = k + 1
      BY <2>2, <2>3, <3>1 DEF p
    <3>2. CASE i \in 1 .. k
      <4>1. PICK j \in 1 .. s.ct3 : s.out.at[j] = pixels[i]
        BY <1>1, <2>5, <3>2
      <4>2. j \in 1 .. t.ct3 /\ t.out.at[j] = pixels[i]
        BY <2>2, <2>3, <4>1
      <4>3. QED
        BY <4>2
    <3>3. QED
      BY <1>2, <3>1, <3>2
  <2>6. ASSUME NEW j \in 1 .. t.ct3 PROVE \E i \in 1 .. k + 1 : Met(i) /\ t.out.at[j] = pixels[i]
    <3>1. CASE j = c
      <4>1. k + 1 \in 1 .. k + 1
        BY <1>1
      <4>2. QED
        BY <2>1, <2>3, <3>1, <4>1 DEF p
    <3>2. CASE j \in 1 .. s.ct3
      <4>1. PICK i \in 1 .. k : Met(i) /\ s.out.at[j] = pixels[i]
        BY <1>1, <3>2
      <4>2. i \in 1 .. k + 1 /\ t.out.at[j] = pixels[i]
        BY <1>3, <2>3, <3>2, <4>1
      <4>3. QED
        BY <4>1, <4>2
    <3>3. QED
      BY <2>2, <2>3, <3>1, <3>2
  <2>7. ASSUME NEW j \in 1 .. s.ct3 PROVE t.out.at[j] # p
    <3>1. PICK i \in 1 .. k : s.out.at[j] = pixels[i]
      BY <1>1
    <3>2. pixels[i] # p
      BY <1>1, <1>3 DEF p
    <3>3. QED
      BY <2>3, <3>1, <3>2
  <2>8. ASSUME NEW j \in 1 .. t.ct3, NEW l \in 1 .. t.ct3, t.out.at[j] = t.out.at[l] PROVE j = l
    <3>1. (j = c \/ j \in 1 .. s.ct3) /\ (l = c \/ l \in 1 .. s.ct3)
      BY <2>2, <2>3
    <3>2. CASE j \in 1 .. s.ct3 /\ l \in 1 .. s.ct3
      <4>1. s.out.at[j] = s.out.at[l]
        BY <2>3, <2>8, <3>2
      <4>2. QED
        BY <1>1, <3>2, <4>1
    <3>3. CASE j = c /\ l \in 1 .. s.ct3
      BY <2>3, <2>7, <2>8, <3>3
    <3>4. CASE l = c /\ j \in 1 .. s.ct3
      BY <2>3, <2>7, <2>8, <3>4
    <3>5. QED
      BY <3>1, <3>2, <3>3, <3>4
  <2>9. ScanInv(img, pixels, t, k + 1)
    BY <2>2, <2>3, <2>5, <2>6, <2>8 DEF ScanInv, Met
  <2>10. QED
    BY <2>4, <2>9 DEF t, p
<1>8. QED
  BY <1>5, <1>6, <1>7

\* After the scan the buffer lists the maxima of this image and nothing else.
LEMMA MaximaListed ==
    ASSUME NEW img, Image(img), NEW places, 1 .. (img.w - 2) * (img.h - 2) \subseteq places,
           NEW buffer \in Buffers(places)
    PROVE  /\ M!Listed(img, buffer) \in Buffers(places)
           /\ M!MaximaOfThisImage(img, M!Listed(img, buffer))
<1> DEFINE pixels == M!Raster(img)
           n == (img.w - 2) * (img.h - 2)
           len == Len(pixels)
           V == [ct3 : Nat, out : Buffers(places)]
           a == [ct3 |-> 0, out |-> buffer]
           Next0(k, s) == IF M!IsMaximum(img, pixels[k]) THEN M!Store(img, s, pixels[k]) ELSE s
           K(f) == [k \in 0 .. len |-> IF k = 0 THEN a ELSE Next0(k, f[k - 1])]
           g == [p \in (1 .. len) \X V |-> Next0(p[1], p[2])]
           Scan == CHOOSE f : f = K(f)
<1>1. M!Listed(img, buffer) = Scan[len].out
  <2>1. M!Listed(img, buffer) =
          (CHOOSE f : f = [k \in 0 .. len |->
                              IF k = 0 THEN a
                              ELSE IF M!IsMaximum(img, pixels[k]) THEN M!Store(img, f[k - 1], pixels[k])
                              ELSE f[k - 1]])[len].out
    BY DEF M!Listed
  <2>2. QED
    BY <2>1
<1> HIDE DEF pixels
<1>2. /\ n \in Nat /\ len = n
      /\ \A k \in 1 .. n : pixels[k] \in (1 .. img.w - 2) \X (1 .. img.h - 2)
      /\ \A k, l \in 1 .. n : pixels[k] = pixels[l] => k = l
  BY RasterMeetsOnce DEF pixels
<1> HIDE DEF n, len
<1>3. len \in Nat /\ 1 .. len \subseteq places /\ \A k \in 1 .. len : pixels[k] \in Nat \X Nat
  <2>1. \A k \in 1 .. len : pixels[k] \in Nat \X Nat
    BY <1>2
  <2>2. QED
    BY <1>2, <2>1 DEF n
<1>4. a \in V
  OBVIOUS
<1>5. ASSUME NEW k \in 1 .. len, NEW s \in V PROVE Next0(k, s) \in V
  <2> DEFINE p == pixels[k]
  <2>1. /\ p \in Nat \X Nat /\ s.ct3 \in Nat /\ s.out \in Buffers(places)
        /\ s.out.at \in [places -> Nat \X Nat] /\ s.out.count \in Nat
    BY <1>3 DEF Buffers
  <2> HIDE DEF p
  <2>2. M!Store(img, s, p) \in V
    <3>1. [s.out.at EXCEPT ![s.ct3 + 1] = p] \in [places -> Nat \X Nat] /\ s.ct3 + 1 \in Nat
      <4> DEFINE c == s.ct3 + 1
                 old == s.out.at
                 X == Nat \X Nat
      <4>1. c \in Nat /\ old \in [places -> X] /\ p \in X
        BY <2>1
      <4> HIDE DEF c, old, X
      <4>2. [old EXCEPT ![c] = p] \in [places -> X]
        BY <4>1
      <4>3. QED
        BY <4>1, <4>2 DEF c, old, X
    <3>2. [s.out EXCEPT !.count = s.ct3] \in Buffers(places)
      BY <2>1 DEF Buffers
    <3>3. [count |-> s.ct3 + 1, at |-> [s.out.at EXCEPT ![s.ct3 + 1] = p]] \in Buffers(places)
      BY <3>1 DEF Buffers
    <3>4. QED
      BY <2>1, <3>1, <3>2, <3>3 DEF M!Store
  <2>3. QED
    BY <2>2 DEF p
<1>6. g \in [(1 .. len) \X V -> V] /\ \A k \in 1 .. len, s \in V : g[<<k, s>>] = Next0(k, s)
  BY <1>5
<1>39. \A k, s : Next0(k, s) = IF M!IsMaximum(img, pixels[k]) THEN M!Store(img, s, pixels[k]) ELSE s
  OBVIOUS
<1> HIDE DEF g, V, Next0
<1>7. PICK f \in [0 .. len -> V] : Recursive(f, len, a, g)
  <2> HIDE DEF a
  <2>1. QED
    BY <1>3, <1>4, <1>6, RecursionExists
<1>8. f = K(f)
  <2>1. ASSUME NEW i \in 0 .. len PROVE f[i] = K(f)[i]
    <3>1. CASE i = 0
      BY <1>7, <3>1 DEF Recursive
    <3>2. CASE i # 0
      <4>1. i \in 1 .. len /\ f[i - 1] \in V
        BY <1>3, <3>2
      <4>2. f[i] = Next0(i, f[i - 1])
        BY <1>6, <1>7, <4>1 DEF Recursive
      <4>3. QED
        BY <3>2, <4>2
    <3>3. QED
      BY <3>1, <3>2
  <2>2. QED
    BY <2>1
<1>9. ASSUME NEW h PROVE K(h)[0] = a /\ \A i \in 1 .. len : K(h)[i] = Next0(i, h[i - 1])
  BY <1>3
<1> HIDE DEF K
<1>10. Scan = K(Scan)
  BY <1>8
<1> HIDE DEF Scan
<1>11. Scan[0] = a /\ \A i \in 1 .. len : Scan[i] = Next0(i, Scan[i - 1])
  BY <1>9, <1>10
<1> DEFINE G == {k \in 0 .. len : Scan[k] \in V /\ ScanInv(img, pixels, Scan[k], k)}
<1>12. 0 \in G
  <2>1. ScanInv(img, pixels, a, 0)
    BY DEF ScanInv
  <2>2. QED
    BY <1>3, <1>4, <1>11, <2>1
<1>13. ASSUME NEW k \in 0 .. len - 1, k \in G PROVE k + 1 \in G
  <2>1. k + 1 \in 1 .. len /\ k + 1 \in 0 .. len /\ (k + 1) - 1 = k
    BY <1>3
  <2> DEFINE s == Scan[k]
             p == pixels[k + 1]
             t == IF M!IsMaximum(img, p) THEN M!Store(img, s, p) ELSE s
  <2>2. s \in [ct3 : Nat, out : Buffers(places)] /\ ScanInv(img, pixels, s, k)
    BY <1>13 DEF V
  <2>3. Scan[k + 1] = t
    BY <1>11, <1>39, <2>1
  <2> HIDE DEF s, G
  <2>4. t \in [ct3 : Nat, out : Buffers(places)] /\ ScanInv(img, pixels, t, k + 1)
    BY <1>2, <1>3, <2>2, ScanStep
  <2> HIDE DEF t
  <2>5. QED
    BY <2>1, <2>3, <2>4 DEF G, V
<1> HIDE DEF G
<1>14. len \in G
  <2>1. len \in 0 .. len
    BY <1>3
  <2>2. \A k \in 0 .. len : k \in G
    BY <1>3, <1>12, <1>13, InductionUpTo
  <2>3. QED
    BY <2>1, <2>2
<1> DEFINE s == Scan[len]
           out == s.out
           inner == {pixels[k] : k \in 1 .. len}
<1>15. s \in V /\ ScanInv(img, pixels, s, len)
  BY <1>14 DEF G
<1>16. out \in Buffers(places)
  BY <1>15 DEF V
<1> HIDE DEF s
<1>17. ASSUME NEW p \in inner, M!IsMaximum(img, p)
       PROVE  /\ {out.at[k] : k \in 1 .. out.count} = {q \in img.clear \cap inner : M!IsMaximum(img, q)}
              /\ \A k, l \in 1 .. out.count :
                    k # l => out.at[k] \notin M!Neighbours(out.at[l]) \cup {out.at[l]}
  <2>1. out.count = s.ct3
    BY <1>15, <1>17 DEF ScanInv
  <2>2. \A j \in 1 .. out.count : \E i \in 1 .. len :
           /\ pixels[i] \in img.clear /\ M!IsMaximum(img, pixels[i]) /\ out.at[j] = pixels[i]
    BY <1>15, <2>1 DEF ScanInv
  <2>3. \A i \in 1 .. len : pixels[i] \in img.clear /\ M!IsMaximum(img, pixels[i])
                               => \E j \in 1 .. out.count : out.at[j] = pixels[i]
    BY <1>15, <2>1 DEF ScanInv
  <2>4. \A j, l \in 1 .. out.count : out.at[j] = out.at[l] => j = l
    BY <1>15, <2>1 DEF ScanInv
  <2> HIDE DEF out
  <2>5. {out.at[k] : k \in 1 .. out.count} = {q \in img.clear \cap inner : M!IsMaximum(img, q)}
    <3> DEFINE listed == {out.at[k] : k \in 1 .. out.count}
               clear == {q \in img.clear \cap inner : M!IsMaximum(img, q)}
    <3>1. ASSUME NEW q \in listed PROVE q \in clear
      <4>1. PICK j \in 1 .. out.count : q = out.at[j]
        OBVIOUS
      <4>2. PICK i \in 1 .. len :
               pixels[i] \in img.clear /\ M!IsMaximum(img, pixels[i]) /\ out.at[j] = pixels[i]
        BY <2>2
      <4>3. QED
        BY <4>1, <4>2
    <3>2. ASSUME NEW q \in clear PROVE q \in listed
      <4>1. PICK i \in 1 .. len : q = pixels[i]
        OBVIOUS
      <4>2. PICK j \in 1 .. out.count : out.at[j] = pixels[i]
        BY <2>3, <4>1
      <4>3. QED
        BY <4>1, <4>2
    <3> HIDE DEF listed, clear
    <3>3. listed = clear
      BY <3>1, <3>2
    <3>4. QED
      BY <3>3 DEF listed, clear
  <2>6. ASSUME NEW k \in 1 .. out.count, NEW l \in 1 .. out.count, k # l,
               out.at[k] \in M!Neighbours(out.at[l])
        PROVE  FALSE
    <3>1. /\ out.at[k] \in (1 .. img.w - 2) \X (1 .. img.h - 2) /\ M!IsMaximum(img, out.at[k])
          /\ out.at[l] \in (1 .. img.w - 2) \X (1 .. img.h - 2) /\ M!IsMaximum(img, out.at[l])
      BY <1>2, <2>2
    <3>2. QED
      BY <2>6, <3>1, MaximaApart
  <2>7. QED
    BY <2>4, <2>5, <2>6
<1>18. M!MaximaOfThisImage(img, out)
  <2>1. inner = {M!Raster(img)[k] : k \in 1 .. Len(M!Raster(img))}
    BY DEF pixels, len
  <2> HIDE DEF inner, out
  <2>2. QED
    BY <1>17, <2>1 DEF M!MaximaOfThisImage
<1>19. QED
  BY <1>1, <1>16, <1>18 DEF s

-----------------------------------------------------------------------------
(* Pixels that hang together: near[q] are the pixels beside q.              *)

\* The pixels of S and those beside them.
Spread(on, near, S) == S \cup (on \cap UNION {near[q] : q \in S})

\* Nothing of on is beside S.
Whole(on, near, S) == \A q \in S : near[q] \cap on \subseteq S

\* C is the least whole set with p.
Component(on, near, p, C) ==
    /\ p \in C /\ C \subseteq on /\ Whole(on, near, C)
    /\ \A S : p \in S /\ Whole(on, near, S) => C \subseteq S

\* f[k] are the pixels at most k steps from p.
Steps(on, near, p, n, f) ==
    f[0] = {p} /\ \A k \in 1 .. n : f[k] = Spread(on, near, f[k - 1])

\* The pixels at most k steps away, for as many steps as there are pixels.
LEMMA StepsExist ==
    ASSUME NEW on, IsFiniteSet(on), NEW near, NEW p \in on, NEW n, n = Cardinality(on)
    PROVE  \E f \in [0 .. n -> SUBSET on] : Steps(on, near, p, n, f)
<1> DEFINE V == SUBSET on
           g == [x \in (1 .. n) \X V |-> Spread(on, near, x[2])]
<1>1. n \in Nat /\ {p} \in V
  BY FS_CardinalityType
<1>2. g \in [(1 .. n) \X V -> V] /\ \A k \in 1 .. n, S \in V : g[<<k, S>>] = Spread(on, near, S)
  BY DEF Spread
<1> HIDE DEF g, V
<1>3. PICK f \in [0 .. n -> V] : Recursive(f, n, {p}, g)
  BY <1>1, <1>2, RecursionExists
<1>4. f[0] = {p}
  BY <1>3 DEF Recursive
<1>5. ASSUME NEW k \in 1 .. n PROVE f[k] = Spread(on, near, f[k - 1])
  <2>1. k - 1 \in 0 .. n
    BY <1>1
  <2>2. f[k - 1] \in V
    BY <1>3, <2>1
  <2>3. QED
    BY <1>2, <1>3, <2>2 DEF Recursive
<1>6. QED
  BY <1>3, <1>4, <1>5 DEF V, Steps

\* After as many steps as there are pixels all have been reached that can be.
LEMMA StepsReachAll ==
    ASSUME NEW on, IsFiniteSet(on), NEW near, NEW p \in on, NEW f,
           f[0] = {p}, \A k \in 1 .. Cardinality(on) : f[k] = Spread(on, near, f[k - 1])
    PROVE  Component(on, near, p, f[Cardinality(on)])
<1> DEFINE n == Cardinality(on)
           V == {S \in SUBSET on : p \in S}
           T0 == {k \in 0 .. n : Cardinality(f[k]) >= k + 1 \/ Whole(on, near, f[k])}
<1>1. n \in Nat
  BY FS_CardinalityType
<1> HIDE DEF n
<1>2. \A k \in 0 .. n : f[k] \in V
  <2>1. f[0] \in V
    OBVIOUS
  <2>2. ASSUME NEW k \in 1 .. n, f[k - 1] \in V PROVE f[k] \in V
    BY <2>2 DEF Spread, n
  <2> HIDE DEF V
  <2>3. QED
    BY <1>1, <2>1, <2>2, RecursionKeeps
<1>3. 0 \in T0
  <2>1. Cardinality(f[0]) = 1
    BY FS_Singleton
  <2>2. Cardinality(f[0]) >= 0 + 1
    BY <2>1
  <2>3. QED
    BY <1>1, <2>2
<1>4. ASSUME NEW k \in 0 .. n - 1, k \in T0 PROVE k + 1 \in T0
  <2>1. k + 1 \in 1 .. n /\ (k + 1) - 1 = k /\ k \in 0 .. n /\ k + 1 \in 0 .. n
    BY <1>1
  <2>2. f[k + 1] = Spread(on, near, f[k])
    BY <2>1 DEF n
  <2>3. CASE Whole(on, near, f[k])
    <3>1. f[k + 1] = f[k]
      BY <2>2, <2>3 DEF Spread, Whole
    <3>2. QED
      BY <2>1, <2>3, <3>1
  <2>4. CASE ~ Whole(on, near, f[k])
    <3>1. Cardinality(f[k]) >= k + 1
      BY <1>4, <2>4
    <3>10. PICK q \in f[k] : \E r \in near[q] \cap on : r \notin f[k]
      BY <2>4 DEF Whole
    <3>2. PICK r \in near[q] \cap on : r \notin f[k]
      BY <3>10
    <3>3. f[k] \cup {r} \subseteq f[k + 1] /\ f[k + 1] \subseteq on /\ f[k] \subseteq on
      BY <1>2, <2>1, <2>2, <3>2 DEF Spread
    <3>4. IsFiniteSet(f[k]) /\ IsFiniteSet(f[k + 1])
      BY <3>3, FS_Subset
    <3>5. Cardinality(f[k] \cup {r}) = Cardinality(f[k]) + 1
      BY <3>2, <3>4, FS_AddElement
    <3>6. Cardinality(f[k] \cup {r}) <= Cardinality(f[k + 1])
      BY <3>3, <3>4, FS_Subset
    <3>7. Cardinality(f[k]) \in Nat /\ Cardinality(f[k + 1]) \in Nat
      BY <3>4, FS_CardinalityType
    <3>8. Cardinality(f[k + 1]) >= (k + 1) + 1
      BY <2>1, <3>1, <3>5, <3>6, <3>7
    <3>9. QED
      BY <2>1, <3>8
  <2>5. QED
    BY <2>3, <2>4
<1>5. n \in T0
  <2> HIDE DEF T0
  <2>1. \A k \in 0 .. n : k \in T0
    BY <1>1, <1>3, <1>4, InductionUpTo
  <2>2. QED
    BY <1>1, <2>1
<1>6. f[n] \subseteq on /\ p \in f[n]
  BY <1>1, <1>2
<1>7. Whole(on, near, f[n])
  <2>1. Cardinality(f[n]) <= n /\ Cardinality(f[n]) \in Nat
    BY <1>6, FS_Subset, FS_CardinalityType DEF n
  <2>2. QED
    BY <1>1, <1>5, <2>1
<1>8. ASSUME NEW S, p \in S, Whole(on, near, S) PROVE f[n] \subseteq S
  <2> DEFINE U == SUBSET S
  <2>1. f[0] \in U
    BY <1>8
  <2>2. ASSUME NEW k \in 1 .. n, f[k - 1] \in U PROVE f[k] \in U
    BY <1>8, <2>2 DEF Spread, Whole, n
  <2> HIDE DEF U
  <2>3. \A k \in 0 .. n : f[k] \in U
    BY <1>1, <2>1, <2>2, RecursionKeeps
  <2>4. QED
    BY <1>1, <2>3 DEF U
<1>9. QED
  BY <1>6, <1>7, <1>8 DEF Component, n

\* The components part the pixels.
LEMMA ComponentsPart ==
    ASSUME NEW on, NEW near, \A q, r \in on : r \in near[q] => q \in near[r],
           NEW p \in on, NEW C, Component(on, near, p, C),
           NEW q \in on, NEW D, Component(on, near, q, D), C \cap D # {}
    PROVE  C = D
<1>1. ASSUME NEW a, NEW A, Component(on, near, a, A), NEW b, NEW B0, Component(on, near, b, B0), A \cap B0 # {}
      PROVE  A \subseteq B0
  <2> DEFINE S == A \ B0
  <2>1. Whole(on, near, S)
    BY <1>1 DEF Component, Whole
  <2>2. a \in B0
    <3>1. a \in S => A \subseteq S
      BY <1>1, <2>1 DEF Component
    <3>2. QED
      BY <1>1, <3>1 DEF Component
  <2>3. QED
    BY <1>1, <2>2 DEF Component
<1>2. C \subseteq D
  BY <1>1
<1>3. D \subseteq C
  <2>1. D \cap C # {}
    OBVIOUS
  <2>2. QED
    BY <1>1, <2>1
<1>4. QED
  BY <1>2, <1>3

-----------------------------------------------------------------------------
(* The clusters of label-cluster. *)

\* The instances count as everybody does.
LEMMA SameCardinality ==
    /\ \A S : L!Cardinality(S) = Cardinality(S)
    /\ \A S : F!Cardinality(S) = Cardinality(S)
<1>1. ASSUME NEW S PROVE L!Cardinality(S) = Cardinality(S)
  BY DEF L!Cardinality, Cardinality
<1>2. ASSUME NEW S PROVE F!Cardinality(S) = Cardinality(S)
  BY DEF F!Cardinality, Cardinality
<1>3. QED
  BY <1>1, <1>2

ClusterImage(img) ==
    /\ img.w \in Nat \ {0} /\ img.h \in Nat
    /\ img.on \subseteq (0 .. img.w - 1) \X (0 .. img.h - 1)

\* The pixels explore turns to from each.
Near4 == [q \in Int \X Int |-> L!Next4(q)]

\* There are finitely many, and each turns back to those it is reached from.
LEMMA ClusterPixels ==
    ASSUME NEW img, ClusterImage(img)
    PROVE  /\ IsFiniteSet(img.on) /\ img.on \subseteq Int \X Int
           /\ \A q, r \in img.on : r \in Near4[q] => q \in Near4[r]
<1>1. IsFiniteSet(0 .. img.w - 1) /\ IsFiniteSet(0 .. img.h - 1)
  <2>1. 0 \in Int /\ img.w - 1 \in Int /\ img.h - 1 \in Int
    BY DEF ClusterImage
  <2>2. QED
    BY <2>1, FS_Interval
<1>2. IsFiniteSet((0 .. img.w - 1) \X (0 .. img.h - 1))
  BY <1>1, FS_Product
<1>3. IsFiniteSet(img.on)
  BY <1>2, FS_Subset DEF ClusterImage
<1>4. img.on \subseteq Int \X Int
  BY DEF ClusterImage
<1>5. ASSUME NEW q \in Int \X Int, NEW r \in Int \X Int, r \in Near4[q] PROVE q \in Near4[r]
  <2>1. r \in L!Next4(q)
    BY <1>5 DEF Near4
  <2>2. PICK a \in Int, b \in Int : q = <<a, b>>
    OBVIOUS
  <2>3. PICK c \in Int, d \in Int : r = <<c, d>>
    OBVIOUS
  <2>4. \/ c = a + 1 /\ d = b
        \/ c = a - 1 /\ d = b
        \/ c = a /\ d = b - 1
        \/ c = a /\ d = b + 1
    BY <2>1, <2>2, <2>3 DEF L!Next4, L!East, L!West, L!Above, L!Below
  <2>5. \/ a = c + 1 /\ b = d
        \/ a = c - 1 /\ b = d
        \/ a = c /\ b = d - 1
        \/ a = c /\ b = d + 1
    BY <2>4
  <2>6. q \in L!Next4(r)
    BY <2>2, <2>3, <2>5 DEF L!Next4, L!East, L!West, L!Above, L!Below
  <2>7. QED
    BY <2>6 DEF Near4
<1>6. QED
  BY <1>3, <1>4, <1>5

\* The reference is the component of a pixel.
LEMMA ClusterIsComponent ==
    ASSUME NEW img, ClusterImage(img), NEW p \in img.on
    PROVE  Component(img.on, Near4, p, L!Cluster(p, img))
<1> DEFINE on == img.on
           n == Cardinality(on)
           Further(S) == S \cup (on \cap UNION {L!Next4(q) : q \in S})
           K(h) == [k \in 0 .. n |-> IF k = 0 THEN {p} ELSE Further(h[k - 1])]
           Reach == CHOOSE h : h = K(h)
           V == SUBSET on
<1>1. L!Cluster(p, img) = Reach[n]
  <2>1. L!Cardinality(img.on) = n
    BY SameCardinality
  <2>2. QED
    BY <2>1 DEF L!Cluster
<1>2. IsFiniteSet(on) /\ on \subseteq Int \X Int /\ n \in Nat
  BY ClusterPixels, FS_CardinalityType
<1>3. ASSUME NEW S \in V PROVE Spread(on, Near4, S) = Further(S) /\ Further(S) \in V
  <2>1. \A q \in S : Near4[q] = L!Next4(q)
    BY <1>2 DEF Near4
  <2>2. {Near4[q] : q \in S} = {L!Next4(q) : q \in S}
    BY <2>1
  <2>3. QED
    BY <2>2 DEF Spread
<1> HIDE DEF Further
<1>13. p \in on /\ IsFiniteSet(on)
  BY <1>2
<1> HIDE DEF on
<1>14. \E f \in [0 .. n -> V] : Steps(on, Near4, p, n, f)
  <2>1. n = Cardinality(on)
    OBVIOUS
  <2> HIDE DEF n, K, Reach
  <2>2. QED
    BY <1>13, <2>1, StepsExist
<1> HIDE DEF n
<1>4. PICK f \in [0 .. n -> V] :
         f[0] = {p} /\ \A k \in 1 .. n : f[k] = Spread(on, Near4, f[k - 1])
  BY <1>14 DEF Steps
<1> HIDE DEF V
<1> USE DEF on
<1>5. f = K(f)
  <2>1. ASSUME NEW k \in 0 .. n PROVE f[k] = K(f)[k]
    <3>1. CASE k = 0
      BY <1>4, <3>1
    <3>2. CASE k # 0
      <4>1. k \in 1 .. n /\ k - 1 \in 0 .. n
        BY <1>2, <3>2
      <4>2. f[k] = Further(f[k - 1])
        BY <1>3, <1>4, <4>1
      <4>3. QED
        BY <3>2, <4>2
    <3>3. QED
      BY <3>1, <3>2
  <2>2. QED
    BY <1>4, <2>1
<1>6. ASSUME NEW h PROVE K(h)[0] = {p} /\ \A k \in 1 .. n : K(h)[k] = Further(h[k - 1])
  BY <1>2
<1> HIDE DEF K
<1>7. Reach = K(Reach)
  BY <1>5
<1> HIDE DEF Reach
<1>8. Reach[0] = {p} /\ \A k \in 1 .. n : Reach[k] = Further(Reach[k - 1])
  BY <1>6, <1>7
<1>9. \A k \in 0 .. n : Reach[k] \in V
  <2>1. Reach[0] \in V
    BY <1>8 DEF V
  <2>2. QED
    BY <1>2, <1>3, <1>8, <2>1, RecursionKeeps
<1>10. \A k \in 1 .. n : Reach[k] = Spread(on, Near4, Reach[k - 1])
  <2>1. ASSUME NEW k \in 1 .. n PROVE Reach[k] = Spread(on, Near4, Reach[k - 1])
    <3>1. k - 1 \in 0 .. n
      BY <1>2
    <3>2. QED
      BY <1>3, <1>8, <1>9, <3>1
  <2>2. QED
    BY <2>1
<1>11. Component(on, Near4, p, Reach[n])
  BY <1>2, <1>8, <1>10, StepsReachAll DEF n
<1>12. QED
  BY <1>1, <1>11

\* The arguments of a call of explore.
Fills(img) == L!Fills(img) \X (Int \X Int)

\* One call of explore, the calls it makes being c's.
OneCall(c, s, q, label) ==
    LET east  == c[<<L!Filled(s, q, label), L!East(q)>>]
        west  == c[<<east, L!West(q)>>]
        above == c[<<west, L!Above(q)>>]
    IN  c[<<above, L!Below(q)>>]

\* call[k] is explore with room for k calls one inside the other.
Calls(call, label, img) ==
    \A k \in 0 .. MaxDepth + 1, s \in L!Fills(img), q \in Int \X Int :
        call[k][<<s, q>>] = IF k = 0 \/ ~ L!Enters(s, q, label, img) THEN s
                            ELSE OneCall(call[k - 1], s, q, label)

\* A pixel of the image keeps the state a state.
LEMMA FillKept ==
    ASSUME NEW img, ClusterImage(img), NEW label \in Int, NEW s \in L!Fills(img),
           NEW q \in Int \X Int, q \in img.on
    PROVE  L!Filled(s, q, label) \in L!Fills(img)
<1>1. q[1] \in Int /\ q[2] \in Int
  OBVIOUS
<1>2. \A a, b \in Int : L!Least(a, b) \in Int /\ L!Most(a, b) \in Int
  BY DEF L!Least, L!Most
<1>3. s.minx \in Int /\ s.maxx \in Int /\ s.miny \in Int /\ s.maxy \in Int /\ s.depth \in Nat
      /\ s.out \in [L!PixelsOf(img) -> Int]
  BY DEF L!Fills
<1>4. [s.out EXCEPT ![q] = label] \in [L!PixelsOf(img) -> Int]
  BY <1>3
<1>5. s.depth + 1 \in Nat
  BY <1>3
<1>6. QED
  BY <1>1, <1>2, <1>3, <1>4, <1>5 DEF L!Filled, L!Fills

\* The recursion of explore is one over the room for calls.
LEMMA CallsExist ==
    ASSUME NEW img, ClusterImage(img), NEW label \in Int
    PROVE  \E call \in [0 .. MaxDepth + 1 -> [Fills(img) -> L!Fills(img)]] :
              /\ Calls(call, label, img)
              /\ \A s, q : L!explore(s, q, label, img) = call[MaxDepth + 1][<<s, q>>]
<1> DEFINE A == L!Fills(img)
           P == Int \X Int
           N == MaxDepth + 1
           AP == A \X P
           V == [AP -> A]
           One(c, k, x) ==
               LET s == x[1]
                   q == x[2]
                   east  == c[<<L!Filled(s, q, label), L!East(q)>>]
                   west  == c[<<east, L!West(q)>>]
                   above == c[<<west, L!Above(q)>>]
               IN  IF k = 0 \/ ~ L!Enters(s, q, label, img) THEN s
                   ELSE c[<<above, L!Below(q)>>]
           K(h) == [k \in 0 .. N |-> [x \in AP |-> One(h[k - 1], k, x)]]
           Call == CHOOSE h : h = K(h)
           a == [x \in AP |-> x[1]]
           Deeper(k, c) == [x \in AP |-> One(c, k, x)]
           g == [y \in (1 .. N) \X V |-> Deeper(y[1], y[2])]
<1>1. \A s, q : L!explore(s, q, label, img) = Call[N][<<s, q>>]
  BY DEF L!explore
<1>2. N \in Nat
  BY InputsAssumption
<1>3. ASSUME NEW c \in V, NEW k \in 1 .. N, NEW x \in AP PROVE One(c, k, x) \in A
  <2> DEFINE s == x[1]
             q == x[2]
  <2>0. s \in A /\ q \in P
    OBVIOUS
  <2>1. CASE ~ L!Enters(s, q, label, img)
    BY <2>1
  <2>2. CASE L!Enters(s, q, label, img)
    <3> DEFINE e == L!Filled(s, q, label)
    <3>1. e \in A
      <4> HIDE DEF s, q
      <4>1. q \in img.on
        BY <2>2 DEF L!Enters
      <4>2. QED
        BY <2>0, <4>1, FillKept
    <3>2. L!East(q) \in P /\ L!West(q) \in P /\ L!Above(q) \in P /\ L!Below(q) \in P
      BY <2>0 DEF L!East, L!West, L!Above, L!Below
    <3>3. \A f \in A, r \in P : c[<<f, r>>] \in A
      OBVIOUS
    <3> DEFINE b1 == c[<<e, L!East(q)>>]
               b2 == c[<<b1, L!West(q)>>]
               b3 == c[<<b2, L!Above(q)>>]
               b4 == c[<<b3, L!Below(q)>>]
    <3>8. One(c, k, x) = b4
      BY <2>2
    <3> HIDE DEF A, P, e, q
    <3>4. b1 \in A
      BY <3>1, <3>2, <3>3
    <3> HIDE DEF b1
    <3>5. b2 \in A
      BY <3>2, <3>3, <3>4
    <3> HIDE DEF b2
    <3>6. b3 \in A
      BY <3>2, <3>3, <3>5
    <3> HIDE DEF b3
    <3>7. b4 \in A
      BY <3>2, <3>3, <3>6
    <3>9. QED
      BY <3>7, <3>8
  <2>3. QED
    BY <2>1, <2>2
<1>16. ASSUME NEW h, \A k \in 0 .. N, x \in AP : h[k][x] = One(h[k - 1], k, x)
       PROVE  Calls(h, label, img)
  <2> SUFFICES ASSUME NEW k \in 0 .. N, NEW s \in A, NEW q \in P
               PROVE  h[k][<<s, q>>] = IF k = 0 \/ ~ L!Enters(s, q, label, img) THEN s
                                       ELSE OneCall(h[k - 1], s, q, label)
    BY DEF Calls
  <2> DEFINE x == <<s, q>>
  <2>1. x \in AP /\ x[1] = s /\ x[2] = q
    OBVIOUS
  <2>2. h[k][x] = One(h[k - 1], k, x)
    BY <1>16, <2>1
  <2> HIDE DEF x
  <2>3. h[k][x] = IF k = 0 \/ ~ L!Enters(s, q, label, img) THEN s
                  ELSE OneCall(h[k - 1], s, q, label)
    BY <2>1, <2>2 DEF OneCall
  <2>4. QED
    BY <2>3 DEF x
<1>17. \A h, x : One(h, 0, x) = x[1]
  OBVIOUS
<1> HIDE DEF A, P, N, One
<1>4. a \in V
  <2>1. \A x \in AP : x[1] \in A
    OBVIOUS
  <2> HIDE DEF AP
  <2>2. QED
    BY <2>1
<1> HIDE DEF AP
<1>5. \A k \in 1 .. N, c \in V : Deeper(k, c) \in V
  BY <1>3
<1>10. \A h : [x \in AP |-> One(h, 0, x)] = a
  BY <1>17
<1> HIDE DEF Deeper, a
<1>6. g \in [(1 .. N) \X V -> V]
  <2> HIDE DEF V
  <2>1. QED
    BY <1>5
<1>7. ASSUME NEW k \in 1 .. N, NEW c \in V PROVE g[<<k, c>>] = Deeper(k, c)
  <2> HIDE DEF V
  <2>1. QED
    OBVIOUS
<1> HIDE DEF g, V
<1>8. PICK f \in [0 .. N -> V] : Recursive(f, N, a, g)
  BY <1>2, <1>4, <1>6, RecursionExists
<1>9. \A k \in 0 .. N : f[k] = IF k = 0 THEN a ELSE Deeper(k, f[k - 1])
  <2>1. ASSUME NEW k \in 1 .. N PROVE f[k] = Deeper(k, f[k - 1])
    <3>1. k - 1 \in 0 .. N
      BY <1>2
    <3>2. f[k] = g[<<k, f[k - 1]>>]
      BY <1>8 DEF Recursive
    <3>3. QED
      BY <1>7, <1>8, <3>1, <3>2
  <2>2. QED
    BY <1>2, <1>8, <2>1 DEF Recursive
<1>11. f = K(f)
  <2>1. ASSUME NEW k \in 0 .. N PROVE f[k] = K(f)[k]
    <3>1. CASE k = 0
      BY <1>9, <1>10, <3>1
    <3>2. CASE k # 0
      BY <1>9, <3>2 DEF Deeper
    <3>3. QED
      BY <3>1, <3>2
  <2>2. QED
    BY <1>8, <2>1
<1>12. \A h : /\ \A k \in 0 .. N, x \in AP : K(h)[k][x] = One(h[k - 1], k, x)
              /\ DOMAIN K(h) = 0 .. N /\ K(h) = [k \in 0 .. N |-> K(h)[k]]
              /\ K(h)[0] = a /\ \A k \in 1 .. N : K(h)[k] = Deeper(k, h[k - 1])
  BY <1>2, <1>10 DEF Deeper
<1> HIDE DEF K
<1>13. Call = K(Call)
  BY <1>11
<1> HIDE DEF Call
<1>14. Call[0] \in V /\ \A k \in 1 .. N : Call[k - 1] \in V => Call[k] \in V
  BY <1>4, <1>5, <1>12, <1>13
<1>15. \A k \in 0 .. N : Call[k] \in V
  BY <1>2, <1>14, RecursionKeeps
<1>18. Call = [k \in 0 .. N |-> Call[k]]
  BY <1>12, <1>13
<1>19. Call \in [0 .. N -> V]
  BY <1>15, <1>18
<1>20. Calls(Call, label, img)
  <2>1. \A k \in 0 .. N, x \in AP : Call[k][x] = One(Call[k - 1], k, x)
    BY <1>12, <1>13
  <2>2. QED
    BY <1>16, <2>1
<1>21. [0 .. N -> V] = [0 .. MaxDepth + 1 -> [Fills(img) -> L!Fills(img)]]
  BY DEF Fills, N, V, AP, A, P
<1>22. QED
  BY <1>1, <1>19, <1>20, <1>21 DEF N

\* The pixels that have the label.
Marked(s, label, img) == {p \in L!PixelsOf(img) : s.out[p] = label}

\* The rectangle of s is the least one around the pixels Ms.
Framed(s, Ms, img) ==
    /\ \A p \in Ms : s.minx <= p[1] /\ p[1] <= s.maxx /\ s.miny <= p[2] /\ p[2] <= s.maxy
    /\ s.minx = img.w \/ \E p \in Ms : s.minx = p[1]
    /\ s.maxx = 0     \/ \E p \in Ms : s.maxx = p[1]
    /\ s.miny = img.h \/ \E p \in Ms : s.miny = p[2]
    /\ s.maxy = 0     \/ \E p \in Ms : s.maxy = p[2]

\* A fill under way.
Filling(s, label, img) ==
    /\ s \in L!Fills(img)
    /\ Marked(s, label, img) \subseteq img.on
    /\ s.depth = Cardinality(Marked(s, label, img))
    /\ Framed(s, Marked(s, label, img), img)

\* What a call from q makes of s.
Follows(s, t, q, label, img) ==
    /\ \A p \in L!PixelsOf(img) : p \notin Marked(t, label, img) => t.out[p] = s.out[p]
    /\ Marked(s, label, img) \subseteq Marked(t, label, img)
    /\ s.depth <= t.depth
    /\ \A D : Whole(img.on, Near4, D) /\ (q \in img.on => q \in D)
              => Marked(t, label, img) \subseteq Marked(s, label, img) \cup D
    /\ \/ t.depth > MaxDepth
       \/ /\ q \in img.on => q \in Marked(t, label, img)
          /\ \A p \in Marked(t, label, img) \ Marked(s, label, img) :
                Near4[p] \cap img.on \subseteq Marked(t, label, img)

\* A call begins with its own pixel.
LEMMA FillsOne ==
    ASSUME NEW img, ClusterImage(img), NEW label \in Int, NEW s, Filling(s, label, img),
           NEW q \in Int \X Int, L!Enters(s, q, label, img)
    PROVE  LET e == L!Filled(s, q, label) IN
           /\ Filling(e, label, img)
           /\ Marked(e, label, img) = Marked(s, label, img) \cup {q}
           /\ e.depth = s.depth + 1
           /\ \A p \in L!PixelsOf(img) \ {q} : e.out[p] = s.out[p]
<1> DEFINE e == L!Filled(s, q, label)
           Ms == Marked(s, label, img)
           N == Marked(e, label, img)
<1>1. q \in img.on /\ s.out[q] # label
  BY DEF L!Enters
<1>2. s \in L!Fills(img) /\ Ms \subseteq img.on /\ s.depth = Cardinality(Ms) /\ Framed(s, Ms, img)
  BY DEF Filling
<1>3. e \in L!Fills(img)
  BY <1>1, <1>2, FillKept
<1>4. q \in L!PixelsOf(img)
  BY <1>1 DEF ClusterImage, L!PixelsOf
<1>5. s.out \in [L!PixelsOf(img) -> Int] /\ s.depth \in Nat
  BY <1>2 DEF L!Fills
<1>6. e.out = [s.out EXCEPT ![q] = label] /\ e.depth = s.depth + 1
  BY DEF L!Filled
<1>7. N = Ms \cup {q} /\ q \notin Ms
  BY <1>1, <1>4, <1>5, <1>6 DEF Marked
<1>8. Cardinality(N) = Cardinality(Ms) + 1
  <2>1. IsFiniteSet(Ms)
    BY <1>2, ClusterPixels, FS_Subset
  <2> HIDE DEF Ms, N
  <2>2. QED
    BY <1>7, <2>1, FS_AddElement
<1>9. N \subseteq img.on
  BY <1>1, <1>2, <1>7
<1>10. Framed(e, N, img)
  <2>1. /\ e.minx = L!Least(q[1], s.minx) /\ e.maxx = L!Most(q[1], s.maxx)
        /\ e.miny = L!Least(q[2], s.miny) /\ e.maxy = L!Most(q[2], s.maxy)
    BY DEF L!Filled
  <2>2. s.minx \in Int /\ s.maxx \in Int /\ s.miny \in Int /\ s.maxy \in Int
    BY <1>2 DEF L!Fills
  <2>3. \A p \in N : p[1] \in Int /\ p[2] \in Int
    BY <1>9 DEF ClusterImage
  <2> HIDE DEF e, Ms, N
  <2>4. \A a, b \in Int : /\ L!Least(a, b) <= a /\ L!Least(a, b) <= b /\ L!Least(a, b) \in {a, b}
                          /\ L!Most(a, b) >= a /\ L!Most(a, b) >= b /\ L!Most(a, b) \in {a, b}
    BY DEF L!Least, L!Most
  <2>5. /\ e.minx \in {q[1], s.minx} /\ e.minx <= q[1] /\ e.minx <= s.minx
        /\ e.maxx \in {q[1], s.maxx} /\ e.maxx >= q[1] /\ e.maxx >= s.maxx
        /\ e.miny \in {q[2], s.miny} /\ e.miny <= q[2] /\ e.miny <= s.miny
        /\ e.maxy \in {q[2], s.maxy} /\ e.maxy >= q[2] /\ e.maxy >= s.maxy
    BY <1>7, <2>1, <2>2, <2>3, <2>4
  <2>6. \A p \in N : e.minx <= p[1] /\ p[1] <= e.maxx /\ e.miny <= p[2] /\ p[2] <= e.maxy
    BY <1>2, <1>7, <2>2, <2>3, <2>5 DEF Framed
  <2>7. /\ e.minx = img.w \/ \E p \in N : e.minx = p[1]
        /\ e.maxx = 0     \/ \E p \in N : e.maxx = p[1]
    BY <1>2, <1>7, <2>5 DEF Framed
  <2>8. /\ e.miny = img.h \/ \E p \in N : e.miny = p[2]
        /\ e.maxy = 0     \/ \E p \in N : e.maxy = p[2]
    BY <1>2, <1>7, <2>5 DEF Framed
  <2>9. QED
    BY <2>6, <2>7, <2>8 DEF Framed
<1>11. Filling(e, label, img)
  BY <1>2, <1>3, <1>6, <1>8, <1>9, <1>10 DEF Filling
<1>12. \A p \in L!PixelsOf(img) \ {q} : e.out[p] = s.out[p]
  BY <1>5, <1>6
<1>13. QED
  BY <1>6, <1>7, <1>11, <1>12

\* A call that returns at once.
LEMMA FillStays ==
    ASSUME NEW img, ClusterImage(img), NEW label \in Int, NEW s, Filling(s, label, img),
           NEW q \in Int \X Int, s.depth > MaxDepth \/ ~ L!Enters(s, q, label, img)
    PROVE  Follows(s, s, q, label, img)
<1>1. s.depth \in Nat /\ s.depth <= s.depth /\ MaxDepth \in Nat
  BY InputsAssumption DEF Filling, L!Fills
<1>2. s.depth > MaxDepth \/ (q \in img.on => q \in Marked(s, label, img))
  BY <1>1 DEF L!Enters, Marked, ClusterImage, L!PixelsOf
<1>3. QED
  BY <1>1, <1>2 DEF Follows

\* Four calls one after the other, as explore makes them.
LEMMA FillGoesOn ==
    ASSUME NEW img, ClusterImage(img), NEW label \in Int,
           NEW q \in Int \X Int, NEW s, Filling(s, label, img), L!Enters(s, q, label, img),
           NEW a, NEW b, NEW c, NEW t,
           Filling(a, label, img), Filling(b, label, img),
           Filling(c, label, img), Filling(t, label, img),
           Follows(L!Filled(s, q, label), a, L!East(q), label, img),
           Follows(a, b, L!West(q), label, img),
           Follows(b, c, L!Above(q), label, img),
           Follows(c, t, L!Below(q), label, img)
    PROVE  Follows(s, t, q, label, img)
<1> DEFINE e == L!Filled(s, q, label)
           Ms(f) == Marked(f, label, img)
<1>1. /\ Filling(e, label, img) /\ Ms(e) = Ms(s) \cup {q} /\ e.depth = s.depth + 1
      /\ \A p \in L!PixelsOf(img) \ {q} : e.out[p] = s.out[p]
  BY FillsOne
<1>2. q \in img.on
  BY DEF L!Enters
<1>3. Near4[q] = {L!East(q), L!West(q), L!Above(q), L!Below(q)}
  BY DEF Near4, L!Next4
<1>4. Ms(e) \subseteq Ms(a) /\ Ms(a) \subseteq Ms(b) /\ Ms(b) \subseteq Ms(c) /\ Ms(c) \subseteq Ms(t)
  BY DEF Follows
<1>5. /\ s.depth \in Nat /\ e.depth \in Nat /\ a.depth \in Nat /\ b.depth \in Nat
      /\ c.depth \in Nat /\ t.depth \in Nat /\ MaxDepth \in Nat
  BY <1>1, InputsAssumption DEF Filling, L!Fills
<1>6. e.depth <= a.depth /\ a.depth <= b.depth /\ b.depth <= c.depth /\ c.depth <= t.depth
  BY DEF Follows
<1>7. s.depth <= t.depth
  BY <1>1, <1>5, <1>6
<1>8. Ms(s) \subseteq Ms(t) /\ q \in Ms(t)
  BY <1>1, <1>4
<1>9. ASSUME NEW p \in L!PixelsOf(img), p \notin Ms(t) PROVE t.out[p] = s.out[p]
  <2>1. p \notin Ms(c) /\ p \notin Ms(b) /\ p \notin Ms(a) /\ p # q
    BY <1>4, <1>8, <1>9
  <2>2. t.out[p] = c.out[p] /\ c.out[p] = b.out[p] /\ b.out[p] = a.out[p] /\ a.out[p] = e.out[p]
    BY <1>9, <2>1 DEF Follows
  <2>3. QED
    BY <1>1, <2>1, <2>2
<1>10. ASSUME NEW D, Whole(img.on, Near4, D), q \in img.on => q \in D
       PROVE  Ms(t) \subseteq Ms(s) \cup D
  <2>1. \A r \in Near4[q] : r \in img.on => r \in D
    BY <1>2, <1>10 DEF Whole
  <2>2. /\ L!East(q) \in img.on => L!East(q) \in D
        /\ L!West(q) \in img.on => L!West(q) \in D
        /\ L!Above(q) \in img.on => L!Above(q) \in D
        /\ L!Below(q) \in img.on => L!Below(q) \in D
    BY <1>3, <2>1
  <2>3. /\ Ms(a) \subseteq Ms(e) \cup D /\ Ms(b) \subseteq Ms(a) \cup D
        /\ Ms(c) \subseteq Ms(b) \cup D /\ Ms(t) \subseteq Ms(c) \cup D
    BY <1>10, <2>2 DEF Follows
  <2>4. QED
    BY <1>1, <1>2, <1>10, <2>3
<1>11. ASSUME ~ (t.depth > MaxDepth), NEW p \in Ms(t) \ Ms(s)
       PROVE  Near4[p] \cap img.on \subseteq Ms(t)
  <2>1. /\ ~ (c.depth > MaxDepth) /\ ~ (b.depth > MaxDepth) /\ ~ (a.depth > MaxDepth)
        /\ ~ (t.depth > MaxDepth)
    BY <1>5, <1>6, <1>11
  <2>2. CASE p = q
    <3>1. /\ L!East(q) \in img.on => L!East(q) \in Ms(a)
          /\ L!West(q) \in img.on => L!West(q) \in Ms(b)
          /\ L!Above(q) \in img.on => L!Above(q) \in Ms(c)
          /\ L!Below(q) \in img.on => L!Below(q) \in Ms(t)
      BY <2>1 DEF Follows
    <3>2. QED
      BY <1>3, <1>4, <2>2, <3>1
  <2>3. CASE p \in Ms(a) \ Ms(e)
    <3>1. Near4[p] \cap img.on \subseteq Ms(a)
      BY <2>1, <2>3 DEF Follows
    <3>2. QED
      BY <1>4, <3>1
  <2>4. CASE p \in Ms(b) \ Ms(a)
    <3>1. Near4[p] \cap img.on \subseteq Ms(b)
      BY <2>1, <2>4 DEF Follows
    <3>2. QED
      BY <1>4, <3>1
  <2>5. CASE p \in Ms(c) \ Ms(b)
    <3>1. Near4[p] \cap img.on \subseteq Ms(c)
      BY <2>1, <2>5 DEF Follows
    <3>2. QED
      BY <1>4, <3>1
  <2>6. CASE p \in Ms(t) \ Ms(c)
    BY <2>1, <2>6 DEF Follows
  <2>7. QED
    BY <1>1, <1>11, <2>2, <2>3, <2>4, <2>5, <2>6
<1>12. QED
  BY <1>7, <1>8, <1>9, <1>10, <1>11 DEF Follows

\* A call with enough room for the calls it makes.
LEMMA FillFollows ==
    ASSUME NEW img, ClusterImage(img), NEW label \in Int, NEW call, Calls(call, label, img)
    PROVE  \A k \in 0 .. MaxDepth + 1 : \A s \in L!Fills(img), q \in Int \X Int :
              Filling(s, label, img) /\ s.depth + k > MaxDepth =>
                 LET t == call[k][<<s, q>>] IN
                 Filling(t, label, img) /\ Follows(s, t, q, label, img)
<1> DEFINE Good(k) ==
              \A s \in L!Fills(img), q \in Int \X Int :
                 Filling(s, label, img) /\ s.depth + k > MaxDepth =>
                    /\ Filling(call[k][<<s, q>>], label, img)
                    /\ Follows(s, call[k][<<s, q>>], q, label, img)
           T0 == {k \in 0 .. MaxDepth + 1 : Good(k)}
<1>1. MaxDepth + 1 \in Nat
  BY InputsAssumption
<1>2. \A s : Filling(s, label, img) => s \in L!Fills(img) /\ s.depth \in Nat
  BY DEF Filling, L!Fills
<1>3. ASSUME NEW k \in 0 .. MaxDepth + 1, k = 0 \/ Good(k - 1) PROVE Good(k)
  <2> SUFFICES ASSUME NEW s \in L!Fills(img), NEW q \in Int \X Int,
                      Filling(s, label, img), s.depth + k > MaxDepth
               PROVE  /\ Filling(call[k][<<s, q>>], label, img)
                      /\ Follows(s, call[k][<<s, q>>], q, label, img)
    OBVIOUS
  <2>1. CASE k = 0 \/ ~ L!Enters(s, q, label, img)
    <3>1. call[k][<<s, q>>] = s
      BY <2>1 DEF Calls
    <3>2. s.depth > MaxDepth \/ ~ L!Enters(s, q, label, img)
      BY <1>2, <2>1
    <3>3. QED
      BY <3>1, <3>2, FillStays
  <2>2. CASE k # 0 /\ L!Enters(s, q, label, img)
    <3> DEFINE e == L!Filled(s, q, label)
               a == call[k - 1][<<e, L!East(q)>>]
               b == call[k - 1][<<a, L!West(q)>>]
               c == call[k - 1][<<b, L!Above(q)>>]
               t == call[k - 1][<<c, L!Below(q)>>]
    <3>1. call[k][<<s, q>>] = t
      BY <2>2 DEF Calls, OneCall
    <3>2. Filling(e, label, img) /\ e.depth = s.depth + 1
      BY <2>2, FillsOne
    <3>3. k - 1 \in Nat /\ \A f : Filling(f, label, img) /\ s.depth + 1 <= f.depth
                             => f.depth + (k - 1) > MaxDepth
      <4>1. MaxDepth \in Nat /\ k \in Nat /\ k # 0 /\ s.depth \in Nat /\ s.depth + k > MaxDepth
        BY <1>2, <2>2, InputsAssumption
      <4>2. ASSUME NEW d \in Nat, s.depth + 1 <= d PROVE d + (k - 1) > MaxDepth
        BY <4>1, <4>2
      <4>3. QED
        BY <1>2, <4>1, <4>2
    <3>4. \A r \in {L!East(q), L!West(q), L!Above(q), L!Below(q)} : r \in Int \X Int
      BY DEF L!East, L!West, L!Above, L!Below
    <3>5. ASSUME NEW f, Filling(f, label, img), s.depth + 1 <= f.depth,
                 NEW r \in {L!East(q), L!West(q), L!Above(q), L!Below(q)},
                 NEW u, u = call[k - 1][<<f, r>>]
          PROVE  Filling(u, label, img) /\ Follows(f, u, r, label, img) /\ s.depth + 1 <= u.depth
      <4>1. Filling(u, label, img) /\ Follows(f, u, r, label, img)
        BY <1>2, <1>3, <2>2, <3>3, <3>4, <3>5
      <4>2. f.depth <= u.depth
        BY <4>1 DEF Follows
      <4>3. QED
        BY <1>2, <3>5, <4>1, <4>2
    <3> HIDE DEF Good
    <3>6. s.depth + 1 <= e.depth
      BY <1>2, <3>2
    <3>7. Filling(a, label, img) /\ Follows(e, a, L!East(q), label, img) /\ s.depth + 1 <= a.depth
      <4> HIDE DEF e
      <4>1. QED
        BY <3>2, <3>5, <3>6
    <3>8. Filling(b, label, img) /\ Follows(a, b, L!West(q), label, img) /\ s.depth + 1 <= b.depth
      <4> HIDE DEF a
      <4>1. QED
        BY <3>5, <3>7
    <3>9. Filling(c, label, img) /\ Follows(b, c, L!Above(q), label, img) /\ s.depth + 1 <= c.depth
      <4> HIDE DEF b
      <4>1. QED
        BY <3>5, <3>8
    <3>10. Filling(t, label, img) /\ Follows(c, t, L!Below(q), label, img)
      <4> HIDE DEF c
      <4>1. QED
        BY <3>5, <3>9
    <3>11. Follows(s, t, q, label, img)
      <4> HIDE DEF a, b, c, t
      <4>1. QED
        BY <2>2, <3>7, <3>8, <3>9, <3>10, FillGoesOn
    <3>12. QED
      <4> HIDE DEF t
      <4>1. QED
        BY <3>1, <3>10, <3>11
  <2>3. QED
    BY <2>1, <2>2
<1>4. 0 \in T0
  BY <1>1, <1>3
<1>5. ASSUME NEW k \in 0 .. (MaxDepth + 1) - 1, k \in T0 PROVE k + 1 \in T0
  <2>1. k + 1 \in 0 .. MaxDepth + 1 /\ (k + 1) - 1 = k
    BY <1>1
  <2> HIDE DEF Good
  <2>2. Good((k + 1) - 1)
    BY <1>5, <2>1
  <2>3. QED
    BY <1>3, <2>1, <2>2
<1> HIDE DEF T0
<1>6. \A k \in 0 .. MaxDepth + 1 : k \in T0
  BY <1>1, <1>4, <1>5, InductionUpTo
<1>7. QED
  BY <1>6 DEF T0

\* The values of the frame of a cluster.
LEMMA FrameOf ==
    ASSUME NEW img, ClusterImage(img), NEW f, NEW label \in Int, Filling(f, label, img),
           NEW C, C = Marked(f, label, img), C # {}
    PROVE  L!Rejected(f) <=> L!Rejected(L!Around(C, img))
<1> DEFINE r == L!Around(C, img)
<1>1. C \subseteq img.on /\ Framed(f, C, img)
  BY DEF Filling
<1>2. \A p \in C : p[1] \in 0 .. img.w - 1 /\ p[2] \in 0 .. img.h - 1
  BY <1>1 DEF ClusterImage
<1>3. img.w \in Nat /\ img.h \in Nat
  BY DEF ClusterImage
<1>4. /\ \E p \in C : p[1] = f.minx
      /\ \E p \in C : p[1] = f.maxx
      /\ \E p \in C : p[2] = f.miny
      /\ \E p \in C : p[2] = f.maxy
  <2>1. PICK p \in C : TRUE
    OBVIOUS
  <2>2. /\ f.minx <= p[1] /\ p[1] <= f.maxx /\ f.miny <= p[2] /\ p[2] <= f.maxy
    BY <1>1 DEF Framed
  <2>3. /\ f.minx \in Int /\ f.maxx \in Int /\ f.miny \in Int /\ f.maxy \in Int
    BY DEF Filling, L!Fills
  <2>4. p[1] \in 0 .. img.w - 1 /\ p[2] \in 0 .. img.h - 1
    BY <1>2
  <2>5. /\ f.minx # img.w /\ f.miny # img.h
        /\ f.maxx = 0 => p[1] = 0
        /\ f.maxy = 0 => p[2] = 0
    BY <1>3, <2>2, <2>3, <2>4
  <2>6. QED
    BY <1>1, <2>5 DEF Framed
<1>5. \A p \in C : f.minx <= p[1] /\ p[1] <= f.maxx /\ f.miny <= p[2] /\ p[2] <= f.maxy
  BY <1>1 DEF Framed
<1>6. f.minx \in 0 .. img.w /\ f.maxx \in 0 .. img.w /\ f.miny \in 0 .. img.h /\ f.maxy \in 0 .. img.h
  BY <1>2, <1>3, <1>4
<1>7. /\ r.minx = CHOOSE v \in 0 .. img.w : (\E q \in C : q[1] = v) /\ \A q \in C : v <= q[1]
      /\ r.maxx = CHOOSE v \in 0 .. img.w : (\E q \in C : q[1] = v) /\ \A q \in C : v >= q[1]
      /\ r.miny = CHOOSE v \in 0 .. img.h : (\E q \in C : q[2] = v) /\ \A q \in C : v <= q[2]
      /\ r.maxy = CHOOSE v \in 0 .. img.h : (\E q \in C : q[2] = v) /\ \A q \in C : v >= q[2]
  BY DEF L!Around
<1>8. r.minx = f.minx
  <2>1. ASSUME NEW v \in 0 .. img.w, \E q \in C : q[1] = v, \A q \in C : v <= q[1] PROVE v = f.minx
    BY <1>3, <1>4, <1>5, <1>6, <2>1
  <2>2. (\E q \in C : q[1] = f.minx) /\ \A q \in C : f.minx <= q[1]
    BY <1>4, <1>5
  <2>3. QED
    BY <1>6, <1>7, <2>1, <2>2
<1>9. r.maxx = f.maxx
  <2>1. ASSUME NEW v \in 0 .. img.w, \E q \in C : q[1] = v, \A q \in C : v >= q[1] PROVE v = f.maxx
    BY <1>3, <1>4, <1>5, <1>6, <2>1
  <2>2. (\E q \in C : q[1] = f.maxx) /\ \A q \in C : f.maxx >= q[1]
    BY <1>2, <1>4, <1>5, <1>6
  <2>3. QED
    BY <1>6, <1>7, <2>1, <2>2
<1>10. r.miny = f.miny
  <2>1. ASSUME NEW v \in 0 .. img.h, \E q \in C : q[2] = v, \A q \in C : v <= q[2] PROVE v = f.miny
    BY <1>3, <1>4, <1>5, <1>6, <2>1
  <2>2. (\E q \in C : q[2] = f.miny) /\ \A q \in C : f.miny <= q[2]
    BY <1>4, <1>5
  <2>3. QED
    BY <1>6, <1>7, <2>1, <2>2
<1>11. r.maxy = f.maxy
  <2>1. ASSUME NEW v \in 0 .. img.h, \E q \in C : q[2] = v, \A q \in C : v >= q[2] PROVE v = f.maxy
    BY <1>3, <1>4, <1>5, <1>6, <2>1
  <2>2. (\E q \in C : q[2] = f.maxy) /\ \A q \in C : f.maxy >= q[2]
    BY <1>2, <1>4, <1>5, <1>6
  <2>3. QED
    BY <1>6, <1>7, <2>1, <2>2
<1>12. QED
  BY <1>8, <1>9, <1>10, <1>11 DEF L!Rejected

\* A fill from a pixel labels its cluster, all of it, and nothing else.
LEMMA ClusterFilled ==
    ASSUME NEW img, ClusterImage(img), NEW q \in img.on, NEW label \in Int,
           NEW out \in [L!PixelsOf(img) -> Int], \A p \in L!PixelsOf(img) : out[p] # label,
           NEW C, C = L!Cluster(q, img), Cardinality(C) <= MaxDepth + 1,
           NEW f, f = L!explore([out |-> out, depth |-> 0, minx |-> img.w, maxx |-> 0,
                                 miny |-> img.h, maxy |-> 0], q, label, img)
    PROVE  /\ f.out \in [L!PixelsOf(img) -> Int]
           /\ \A p \in L!PixelsOf(img) : f.out[p] = IF p \in C THEN label ELSE out[p]
           /\ L!Rejected(f) <=> L!Rejected(L!Around(C, img))
           /\ C \subseteq L!Box(f)
<1> DEFINE s == [out |-> out, depth |-> 0, minx |-> img.w, maxx |-> 0, miny |-> img.h, maxy |-> 0]
           Ms == Marked(f, label, img)
<1>1. Component(img.on, Near4, q, C)
  BY ClusterIsComponent
<1>2. s \in L!Fills(img)
  BY DEF L!Fills, ClusterImage
<1>3. Marked(s, label, img) = {}
  BY DEF Marked
<1>4. Filling(s, label, img)
  <2>1. s.depth = Cardinality({}) /\ s.depth = 0
    BY FS_EmptySet
  <2>2. Framed(s, {}, img)
    BY DEF Framed
  <2> HIDE DEF s
  <2>3. QED
    BY <1>2, <1>3, <2>1, <2>2 DEF Filling
<1>5. PICK call \in [0 .. MaxDepth + 1 -> [Fills(img) -> L!Fills(img)]] :
         /\ Calls(call, label, img)
         /\ \A u, r : L!explore(u, r, label, img) = call[MaxDepth + 1][<<u, r>>]
  BY CallsExist
<1>6. f = call[MaxDepth + 1][<<s, q>>]
  BY <1>5
<1>7. q \in Int \X Int /\ MaxDepth + 1 \in 0 .. MaxDepth + 1 /\ s.depth + (MaxDepth + 1) > MaxDepth
  BY ClusterPixels, InputsAssumption
<1> HIDE DEF s
<1>8. Filling(f, label, img) /\ Follows(s, f, q, label, img)
  BY <1>2, <1>4, <1>5, <1>6, <1>7, FillFollows
<1>9. Ms \subseteq C
  BY <1>1, <1>3, <1>8 DEF Component, Follows
<1>10. C \subseteq Ms
  <2>1. CASE f.depth > MaxDepth
    <3>1. IsFiniteSet(C) /\ IsFiniteSet(Ms)
      BY <1>1, <1>9, ClusterPixels, FS_Subset DEF Component
    <3>2. Cardinality(Ms) = f.depth /\ f.depth \in Nat
      BY <1>8 DEF Filling, L!Fills
    <3>3. Cardinality(C) <= Cardinality(Ms) /\ Cardinality(C) \in Nat
      BY <2>1, <3>1, <3>2, FS_CardinalityType, InputsAssumption
    <3> HIDE DEF Ms
    <3>4. Cardinality(Ms) <= Cardinality(C) /\ (Cardinality(Ms) = Cardinality(C) => Ms = C)
      BY <1>9, <3>1, FS_Subset
    <3>5. QED
      BY <3>2, <3>3, <3>4
  <2>2. CASE ~ (f.depth > MaxDepth)
    <3>1. q \in Ms /\ Whole(img.on, Near4, Ms)
      BY <1>3, <1>8, <2>2 DEF Follows, Whole
    <3>2. QED
      BY <1>1, <3>1 DEF Component
  <2>3. QED
    BY <2>1, <2>2
<1>11. Ms = C
  BY <1>9, <1>10
<1>12. f.out \in [L!PixelsOf(img) -> Int]
  BY <1>8 DEF Filling, L!Fills
<1>13. s.out = out
  BY DEF s
<1>14. \A p \in L!PixelsOf(img) : f.out[p] = IF p \in C THEN label ELSE out[p]
  BY <1>8, <1>11, <1>13 DEF Follows, Marked
<1>15. C # {}
  BY <1>1 DEF Component
<1>16. L!Rejected(f) <=> L!Rejected(L!Around(C, img))
  BY <1>8, <1>11, <1>15, FrameOf
<1>17. ASSUME NEW p \in C PROVE p \in L!Box(f)
  <2>1. f.minx <= p[1] /\ p[1] <= f.maxx /\ f.miny <= p[2] /\ p[2] <= f.maxy
    BY <1>8, <1>11 DEF Filling, Framed
  <2>2. /\ f.minx \in Int /\ f.maxx \in Int /\ f.miny \in Int /\ f.maxy \in Int
    BY <1>8 DEF Filling, L!Fills
  <2>3. p \in Int \X Int
    BY <1>1, ClusterPixels DEF Component
  <2>4. p[1] \in f.minx .. f.maxx /\ p[2] \in f.miny .. f.maxy /\ p = <<p[1], p[2]>>
    BY <2>1, <2>2, <2>3
  <2>5. QED
    BY <2>4 DEF L!Box
<1>18. QED
  BY <1>12, <1>14, <1>16, <1>17

\* What LabelsSound says of the labels, before the logarithm.
LabelSound(out, img) ==
    \A p \in L!PixelsOf(img) : out[p] > 0 =>
        /\ p \in img.on
        /\ \A q \in L!PixelsOf(img) : out[q] = out[p] => q \in L!Cluster(p, img)
        /\ \A q \in L!Cluster(p, img) : out[q] \in {-1, out[p]}
        /\ ~ L!Rejected(L!Around(L!Cluster(p, img), img))

\* The state of the loop over the seeds.
Labels(img) == [out : [L!PixelsOf(img) -> Int], label : Nat]

\* No label is greater than the last one.
LabelInv(s, img) ==
    /\ s \in Labels(img)
    /\ \A p \in L!PixelsOf(img) : s.out[p] >= -1 /\ s.out[p] <= s.label
    /\ LabelSound(s.out, img)

\* One round of the loop over the seeds leaves labels.
LEMMA VisitKeepsType ==
    ASSUME NEW img, ClusterImage(img), NEW s \in Labels(img), NEW q
    PROVE  L!Visit(s, q, img) \in Labels(img)
<1>1. CASE q \notin img.on \/ s.out[q] # 0
  BY <1>1 DEF L!Visit
<1>2. CASE ~ (q \notin img.on \/ s.out[q] # 0)
  <2> DEFINE a == [out |-> s.out, depth |-> 0, minx |-> img.w, maxx |-> 0, miny |-> img.h, maxy |-> 0]
             f == L!explore(a, q, s.label + 1, img)
             out == IF L!Rejected(f)
                    THEN [p \in L!PixelsOf(img) |-> IF p \in L!Box(f) THEN -1 ELSE f.out[p]]
                    ELSE f.out
  <2>1. s.out \in [L!PixelsOf(img) -> Int] /\ s.label + 1 \in Int /\ s.label + 1 \in Nat
    BY DEF Labels
  <2>2. a \in L!Fills(img)
    BY <2>1 DEF L!Fills, ClusterImage
  <2>3. PICK call \in [0 .. MaxDepth + 1 -> [Fills(img) -> L!Fills(img)]] :
           /\ Calls(call, s.label + 1, img)
           /\ \A u, r : L!explore(u, r, s.label + 1, img) = call[MaxDepth + 1][<<u, r>>]
    BY <2>1, CallsExist
  <2> HIDE DEF a
  <2>4. f = call[MaxDepth + 1][<<a, q>>]
    BY <2>3
  <2>5. <<a, q>> \in Fills(img) /\ MaxDepth + 1 \in 0 .. MaxDepth + 1
    BY <1>2, <2>2, ClusterPixels, InputsAssumption DEF Fills
  <2>6. f \in L!Fills(img)
    BY <2>3, <2>4, <2>5
  <2>7. f.out \in [L!PixelsOf(img) -> Int]
    BY <2>6 DEF L!Fills
  <2>8. L!Visit(s, q, img) = [label |-> s.label + 1, out |-> out]
    BY <1>2 DEF L!Visit, a
  <2> HIDE DEF f
  <2>9. out \in [L!PixelsOf(img) -> Int]
    BY <2>7
  <2> HIDE DEF out
  <2>10. QED
    BY <2>1, <2>8, <2>9 DEF Labels
<1>3. QED
  BY <1>1, <1>2

\* One round keeps the labels sound.
LEMMA VisitKeepsSound ==
    ASSUME NEW img, ClusterImage(img), NEW s, LabelInv(s, img), NEW q,
           \A p \in img.on : L!Cardinality(L!Cluster(p, img)) <= MaxDepth + 1
    PROVE  LabelInv(L!Visit(s, q, img), img)
<1>1. CASE q \notin img.on \/ s.out[q] # 0
  BY <1>1 DEF L!Visit
<1>2. CASE ~ (q \notin img.on \/ s.out[q] # 0)
  <2> DEFINE X == L!PixelsOf(img)
             a == [out |-> s.out, depth |-> 0, minx |-> img.w, maxx |-> 0, miny |-> img.h, maxy |-> 0]
             n == s.label + 1
             f == L!explore(a, q, n, img)
             C == L!Cluster(q, img)
             out == IF L!Rejected(f)
                    THEN [p \in X |-> IF p \in L!Box(f) THEN -1 ELSE f.out[p]]
                    ELSE f.out
             Cl(p) == L!Cluster(p, img)
  <2>1. /\ s.out \in [X -> Int] /\ s.label \in Nat /\ n \in Nat /\ n \in Int
        /\ \A p \in X : s.out[p] >= -1 /\ s.out[p] <= s.label
        /\ LabelSound(s.out, img) /\ s \in Labels(img)
    BY DEF LabelInv, Labels
  <2>2. \A p \in X : s.out[p] # n
    BY <2>1
  <2>3. Cardinality(C) <= MaxDepth + 1
    BY <1>2, SameCardinality
  <2>4. /\ f.out \in [X -> Int]
        /\ \A p \in X : f.out[p] = IF p \in C THEN n ELSE s.out[p]
        /\ L!Rejected(f) <=> L!Rejected(L!Around(C, img))
        /\ C \subseteq L!Box(f)
    <3> DEFINE o == s.out
    <3>1. a = [out |-> o, depth |-> 0, minx |-> img.w, maxx |-> 0, miny |-> img.h, maxy |-> 0]
      OBVIOUS
    <3>2. o \in [X -> Int] /\ \A p \in X : o[p] # n
      BY <2>1, <2>2
    <3> HIDE DEF a, n, C, o
    <3>3. f = L!explore([out |-> o, depth |-> 0, minx |-> img.w, maxx |-> 0,
                         miny |-> img.h, maxy |-> 0], q, n, img)
      BY <3>1
    <3>4. C = L!Cluster(q, img)
      BY DEF C
    <3> HIDE DEF f
    <3>5. q \in img.on
      BY <1>2
    <3>6. QED
      BY <2>1, <2>3, <3>2, <3>3, <3>4, <3>5, ClusterFilled DEF o
  <2>5. L!Visit(s, q, img) = [label |-> n, out |-> out]
    BY <1>2 DEF L!Visit
  <2>6. L!Visit(s, q, img) \in Labels(img)
    BY <2>1, VisitKeepsType
  <2> HIDE DEF f, a
  <2>7. \A p \in X : \/ out[p] = -1
                     \/ p \in C /\ out[p] = n /\ ~ L!Rejected(L!Around(C, img))
                     \/ p \notin C /\ out[p] = s.out[p]
    BY <2>4
  <2>8. \A p \in X : p \in C => out[p] \in {-1, n}
    BY <2>4
  <2> HIDE DEF out
  <2>9. \A p \in X : out[p] >= -1 /\ out[p] <= n
    BY <2>1, <2>7
  <2>10. Component(img.on, Near4, q, C) /\ \A p \in img.on : Component(img.on, Near4, p, Cl(p))
    BY <1>2, ClusterIsComponent
  <2>11. img.on \subseteq X
    BY DEF ClusterImage, L!PixelsOf
  <2> HIDE DEF C, Cl
  <2>12. \A p \in img.on : Cl(p) \cap C # {} => Cl(p) = C
    BY <1>2, <2>10, ClusterPixels, ComponentsPart
  <2>13. \A p \in img.on : p \in Cl(p) /\ Cl(p) \subseteq img.on
    BY <2>10 DEF Component
  <2>14. C \subseteq img.on /\ q \in C
    BY <2>10 DEF Component
  <2>20. \A p \in X : s.out[p] > 0 =>
            /\ p \in img.on
            /\ \A r \in X : s.out[r] = s.out[p] => r \in Cl(p)
            /\ \A r \in Cl(p) : s.out[r] \in {-1, s.out[p]}
            /\ ~ L!Rejected(L!Around(Cl(p), img))
    BY <2>1 DEF LabelSound, Cl
  <2>15. ASSUME NEW p \in C, s.out[p] > 0 PROVE FALSE
    <3>1. p \in img.on /\ p \in X
      BY <2>11, <2>14
    <3>2. Cl(p) = C
      BY <2>12, <2>13, <3>1
    <3>3. s.out[q] \in {-1, s.out[p]}
      BY <2>14, <2>15, <2>20, <3>1, <3>2
    <3>4. QED
      BY <1>2, <2>15, <3>3
  <2>16. ASSUME NEW p \in X, out[p] > 0
         PROVE  /\ p \in img.on
                /\ \A r \in X : out[r] = out[p] => r \in Cl(p)
                /\ \A r \in Cl(p) : out[r] \in {-1, out[p]}
                /\ ~ L!Rejected(L!Around(Cl(p), img))
    <3>1. CASE p \in C
      <4>1. Cl(p) = C /\ p \in img.on
        BY <2>12, <2>13, <2>14, <3>1
      <4>2. out[p] = n /\ ~ L!Rejected(L!Around(C, img))
        BY <2>7, <2>16, <3>1
      <4>3. \A r \in X : out[r] = n => r \in C
        BY <2>1, <2>2, <2>7
      <4>4. \A r \in C : out[r] \in {-1, n}
        BY <2>8, <2>11, <2>14
      <4>5. QED
        BY <4>1, <4>2, <4>3, <4>4
    <3>2. CASE p \notin C
      <4>1. out[p] = s.out[p] /\ s.out[p] > 0
        BY <2>7, <2>16, <3>2
      <4>2. /\ p \in img.on
            /\ \A r \in X : s.out[r] = s.out[p] => r \in Cl(p)
            /\ \A r \in Cl(p) : s.out[r] \in {-1, s.out[p]}
            /\ ~ L!Rejected(L!Around(Cl(p), img))
        BY <2>20, <4>1
      <4>3. Cl(p) \cap C = {}
        <5>1. p \in Cl(p)
          BY <2>13, <4>2
        <5>2. QED
          BY <2>12, <3>2, <4>2, <5>1
      <4>4. ASSUME NEW r \in X, out[r] = out[p] PROVE r \in Cl(p)
        <5>1. out[r] # n /\ out[r] # -1
          BY <2>1, <2>2, <4>1, <4>4
        <5>2. out[r] = s.out[r]
          BY <2>7, <5>1
        <5>3. QED
          BY <4>1, <4>2, <4>4, <5>2
      <4>5. ASSUME NEW r \in Cl(p) PROVE out[r] \in {-1, out[p]}
        <5>1. r \in X /\ r \notin C
          BY <2>11, <2>13, <4>2, <4>3
        <5>2. out[r] = -1 \/ out[r] = s.out[r]
          BY <2>7, <5>1
        <5>3. QED
          BY <4>1, <4>2, <5>2
      <4>6. QED
        BY <4>2, <4>4, <4>5
    <3>3. QED
      BY <3>1, <3>2
  <2>17. LabelSound(out, img)
    BY <2>16 DEF LabelSound, Cl
  <2>18. QED
    BY <2>5, <2>6, <2>9, <2>17 DEF LabelInv
<1>3. QED
  BY <1>1, <1>2

\* The labels of a whole image.
LEMMA LabelledIsSound ==
    ASSUME NEW img, ClusterImage(img)
    PROVE  L!LabelsSound(img, L!Labelled(img))
<1> DEFINE X == L!PixelsOf(img)
           N == img.w * img.w
           start == [out |-> [p \in X |-> 0], label |-> 0]
           Round(s, k) == L!Visit(s, L!Seeds(img)[k], img)
           K(h) == [k \in 0 .. N |-> IF k = 0 THEN start ELSE Round(h[k - 1], k)]
           After == CHOOSE h : h = K(h)
           S == Labels(img)
           g == [x \in (1 .. N) \X S |-> Round(x[2], x[1])]
<1>1. N \in Nat
  BY DEF ClusterImage
<1>2. L!Labelled(img) = [p \in X |-> L!Logarithm(After[N].out[p])]
  BY DEF L!Labelled
<1>3. start \in S
  BY DEF Labels
<1>4. \A k \in 1 .. N, s \in S : Round(s, k) \in S
  BY VisitKeepsType
<1>5. (\A p \in img.on : L!Cardinality(L!Cluster(p, img)) <= MaxDepth + 1)
      => LabelInv(start, img) /\ \A k, s : LabelInv(s, img) => LabelInv(Round(s, k), img)
  <2>1. LabelInv(start, img)
    BY <1>3 DEF LabelInv, LabelSound
  <2>2. QED
    BY <2>1, VisitKeepsSound
<1> HIDE DEF N, S, Round, start
<1>6. g \in [(1 .. N) \X S -> S] /\ \A k \in 1 .. N, s \in S : g[<<k, s>>] = Round(s, k)
  BY <1>4
<1> HIDE DEF g
<1>7. PICK f \in [0 .. N -> S] : Recursive(f, N, start, g)
  BY <1>1, <1>3, <1>6, RecursionExists
<1>8. f = K(f)
  <2>1. ASSUME NEW k \in 0 .. N PROVE f[k] = K(f)[k]
    <3>1. CASE k = 0
      BY <1>7, <3>1 DEF Recursive
    <3>2. CASE k # 0
      <4>1. k \in 1 .. N /\ k - 1 \in 0 .. N
        BY <1>1, <3>2
      <4>2. f[k] = Round(f[k - 1], k)
        BY <1>6, <1>7, <4>1 DEF Recursive
      <4>3. QED
        BY <3>2, <4>2
    <3>3. QED
      BY <3>1, <3>2
  <2>2. QED
    BY <1>7, <2>1
<1>9. ASSUME NEW h PROVE K(h)[0] = start /\ \A k \in 1 .. N : K(h)[k] = Round(h[k - 1], k)
  BY <1>1
<1> HIDE DEF K
<1>10. After = K(After)
  BY <1>8
<1> HIDE DEF After
<1>11. After[0] = start /\ \A k \in 1 .. N : After[k] = Round(After[k - 1], k)
  BY <1>9, <1>10
<1>12. After[N] \in S
  <2>1. \A k \in 0 .. N : After[k] \in S
    BY <1>1, <1>3, <1>4, <1>11, RecursionKeeps
  <2>2. QED
    BY <1>1, <2>1
<1>13. ASSUME \A p \in img.on : L!Cardinality(L!Cluster(p, img)) <= MaxDepth + 1
       PROVE  LabelInv(After[N], img)
  <2> DEFINE V == {s \in S : LabelInv(s, img)}
  <2>1. start \in V /\ \A k \in 1 .. N : After[k - 1] \in V => After[k] \in V
    BY <1>3, <1>4, <1>5, <1>11, <1>13
  <2> HIDE DEF V
  <2>2. \A k \in 0 .. N : After[k] \in V
    BY <1>1, <1>11, <2>1, RecursionKeeps
  <2>3. QED
    BY <1>1, <2>2 DEF V
<1> DEFINE o == After[N].out
           out == L!Labelled(img)
<1>14. o \in [X -> Int] /\ \A p \in X : out[p] = L!Logarithm(o[p])
  BY <1>2, <1>12 DEF Labels, S
<1>15. ASSUME \A p \in img.on : L!Cardinality(L!Cluster(p, img)) <= MaxDepth + 1,
              NEW p \in X, out[p] > 0
       PROVE  /\ p \in img.on
              /\ \A q \in X : out[q] = out[p] => q \in L!Cluster(p, img)
              /\ \A q \in L!Cluster(p, img) : out[q] \in {-1, out[p]}
              /\ ~ L!Rejected(L!Around(L!Cluster(p, img), img))
  <2>1. LabelSound(o, img)
    BY <1>13, <1>15 DEF LabelInv
  <2>2. o[p] > 0 /\ out[p] = o[p] - 1
    BY <1>14, <1>15 DEF L!Logarithm
  <2>3. /\ p \in img.on
        /\ \A q \in X : o[q] = o[p] => q \in L!Cluster(p, img)
        /\ \A q \in L!Cluster(p, img) : o[q] \in {-1, o[p]}
        /\ ~ L!Rejected(L!Around(L!Cluster(p, img), img))
    BY <2>1, <2>2 DEF LabelSound
  <2>4. ASSUME NEW q \in X, out[q] = out[p] PROVE q \in L!Cluster(p, img)
    <3>1. o[q] = o[p]
      BY <1>14, <1>15, <2>2, <2>4 DEF L!Logarithm
    <3>2. QED
      BY <2>3, <3>1
  <2>5. ASSUME NEW q \in L!Cluster(p, img) PROVE out[q] \in {-1, out[p]}
    <3>1. q \in X
      BY <2>3, ClusterIsComponent DEF Component, ClusterImage, L!PixelsOf
    <3>2. o[q] = -1 \/ o[q] = o[p]
      BY <2>3
    <3>3. out[q] = L!Logarithm(o[q])
      BY <1>14, <3>1
    <3>4. QED
      BY <2>2, <3>2, <3>3 DEF L!Logarithm
  <2>6. QED
    BY <2>3, <2>4, <2>5
<1> HIDE DEF out, X
<1>16. QED
  BY <1>15 DEF L!LabelsSound, X, out

-----------------------------------------------------------------------------
(* The blobs of filter-particle. *)

BlobImage(img) ==
    /\ img.nr \in Nat \ {0} /\ img.nc \in Nat
    /\ img.on \subseteq (0 .. img.nr - 1) \X (0 .. img.nc - 1)

\* A blob hangs together as a cluster does.
LEMMA BlobPixels ==
    ASSUME NEW img, BlobImage(img)
    PROVE  /\ IsFiniteSet(img.on) /\ img.on \subseteq Int \X Int
           /\ img.on \subseteq F!PixelsOf(img) /\ F!PixelsOf(img) \subseteq Int \X Int
           /\ \A q, r \in img.on : r \in Near4[q] => q \in Near4[r]
           /\ \A q \in Int \X Int : Near4[q] = F!Beside(q)
<1> DEFINE same == [w |-> img.nr, h |-> img.nc, on |-> img.on]
<1>2. same.w = img.nr /\ same.h = img.nc /\ same.on = img.on
  OBVIOUS
<1> HIDE DEF same
<1>3. IF img.nc = 0 THEN img.on = {} ELSE ClusterImage(same)
  <2>1. CASE img.nc = 0
    BY <2>1 DEF BlobImage
  <2>2. CASE img.nc # 0
    BY <1>2, <2>2 DEF BlobImage, ClusterImage
  <2>3. QED
    BY <2>1, <2>2
<1>4. IsFiniteSet(img.on) /\ \A q, r \in img.on : r \in Near4[q] => q \in Near4[r]
  <2>1. CASE img.on = {}
    BY <2>1, FS_EmptySet
  <2>2. CASE img.on # {}
    BY <1>2, <1>3, <2>2, ClusterPixels
  <2>3. QED
    BY <2>1, <2>2
<1>5. \A q \in Int \X Int : Near4[q] = F!Beside(q)
  BY DEF Near4, L!Next4, L!East, L!West, L!Above, L!Below,
         F!Beside, F!Left, F!Right, F!Top, F!Bottom
<1>6. img.on \subseteq F!PixelsOf(img) /\ F!PixelsOf(img) \subseteq Int \X Int
  BY DEF BlobImage, F!PixelsOf
<1>7. QED
  BY <1>4, <1>5, <1>6

\* The reference is the component of a pixel.
LEMMA BlobIsComponent ==
    ASSUME NEW img, BlobImage(img), NEW p \in img.on
    PROVE  Component(img.on, Near4, p, F!Blob(p, img))
<1> DEFINE on == img.on
           n == Cardinality(on)
           Further(S) == S \cup (on \cap UNION {F!Beside(q) : q \in S})
           K(h) == [k \in 0 .. n |-> IF k = 0 THEN {p} ELSE Further(h[k - 1])]
           Reach == CHOOSE h : h = K(h)
           V == SUBSET on
<1>1. F!Blob(p, img) = Reach[n]
  <2>1. F!Cardinality(img.on) = n
    BY SameCardinality
  <2>2. QED
    BY <2>1 DEF F!Blob
<1>2. IsFiniteSet(on) /\ on \subseteq Int \X Int /\ n \in Nat
  BY BlobPixels, FS_CardinalityType
<1>3. ASSUME NEW S \in V PROVE Spread(on, Near4, S) = Further(S) /\ Further(S) \in V
  <2>1. \A q \in S : Near4[q] = F!Beside(q)
    BY <1>2, BlobPixels
  <2>2. {Near4[q] : q \in S} = {F!Beside(q) : q \in S}
    BY <2>1
  <2>3. QED
    BY <2>2 DEF Spread
<1> HIDE DEF Further
<1>13. p \in on /\ IsFiniteSet(on)
  BY <1>2
<1> HIDE DEF on
<1>14. \E f \in [0 .. n -> V] : Steps(on, Near4, p, n, f)
  <2>1. n = Cardinality(on)
    OBVIOUS
  <2> HIDE DEF n, K, Reach
  <2>2. QED
    BY <1>13, <2>1, StepsExist
<1> HIDE DEF n
<1>4. PICK f \in [0 .. n -> V] :
         f[0] = {p} /\ \A k \in 1 .. n : f[k] = Spread(on, Near4, f[k - 1])
  BY <1>14 DEF Steps
<1> HIDE DEF V
<1> USE DEF on
<1>5. f = K(f)
  <2>1. ASSUME NEW k \in 0 .. n PROVE f[k] = K(f)[k]
    <3>1. CASE k = 0
      BY <1>4, <3>1
    <3>2. CASE k # 0
      <4>1. k \in 1 .. n /\ k - 1 \in 0 .. n
        BY <1>2, <3>2
      <4>2. f[k] = Further(f[k - 1])
        BY <1>3, <1>4, <4>1
      <4>3. QED
        BY <3>2, <4>2
    <3>3. QED
      BY <3>1, <3>2
  <2>2. QED
    BY <1>4, <2>1
<1>6. ASSUME NEW h PROVE K(h)[0] = {p} /\ \A k \in 1 .. n : K(h)[k] = Further(h[k - 1])
  BY <1>2
<1> HIDE DEF K
<1>7. Reach = K(Reach)
  BY <1>5
<1> HIDE DEF Reach
<1>8. Reach[0] = {p} /\ \A k \in 1 .. n : Reach[k] = Further(Reach[k - 1])
  BY <1>6, <1>7
<1>9. \A k \in 0 .. n : Reach[k] \in V
  <2>1. Reach[0] \in V
    BY <1>8 DEF V
  <2>2. QED
    BY <1>2, <1>3, <1>8, <2>1, RecursionKeeps
<1>10. \A k \in 1 .. n : Reach[k] = Spread(on, Near4, Reach[k - 1])
  <2>1. ASSUME NEW k \in 1 .. n PROVE Reach[k] = Spread(on, Near4, Reach[k - 1])
    <3>1. k - 1 \in 0 .. n
      BY <1>2
    <3>2. QED
      BY <1>3, <1>8, <1>9, <3>1
  <2>2. QED
    BY <2>1
<1>11. Component(on, Near4, p, Reach[n])
  BY <1>2, <1>8, <1>10, StepsReachAll DEF n
<1>12. QED
  BY <1>1, <1>11

\* Blobs as sets of pixels, without how they are found.
LEMMA BlobsPart ==
    ASSUME NEW img, BlobImage(img)
    PROVE  /\ \A p \in img.on : p \in F!Blob(p, img) /\ F!Blob(p, img) \subseteq img.on
           /\ \A p \in img.on, q \in img.on : q \in F!Blob(p, img) => F!Blob(q, img) = F!Blob(p, img)
           /\ \A p \in img.on, q \in img.on : q \in F!Beside(p) => q \in F!Blob(p, img)
           /\ \A p \in img.on : F!Beside(p) \cap img.on = {} => F!Blob(p, img) = {p}
<1> DEFINE C(p) == F!Blob(p, img)
           on == img.on
<1>1. \A p \in on : Component(on, Near4, p, C(p))
  BY BlobIsComponent
<1> HIDE DEF C
<1>2. \A p \in on : p \in C(p) /\ C(p) \subseteq on
  BY <1>1 DEF Component
<1>3. ASSUME NEW p \in on, NEW q \in on, q \in C(p) PROVE C(q) = C(p)
  <2>1. C(q) \cap C(p) # {}
    BY <1>2, <1>3
  <2>2. \A a, b \in on : b \in Near4[a] => a \in Near4[b]
    BY BlobPixels
  <2>3. Component(on, Near4, p, C(p)) /\ Component(on, Near4, q, C(q))
    BY <1>1
  <2> HIDE DEF on
  <2>4. QED
    BY <2>1, <2>2, <2>3, ComponentsPart
<1>4. \A p \in on : Near4[p] = F!Beside(p)
  BY BlobPixels
<1>5. \A p \in on, q \in on : q \in F!Beside(p) => q \in C(p)
  BY <1>1, <1>2, <1>4 DEF Component, Whole
<1>6. ASSUME NEW p \in on, F!Beside(p) \cap on = {} PROVE C(p) = {p}
  <2>1. Whole(on, Near4, {p})
    BY <1>4, <1>6 DEF Whole
  <2>2. C(p) \subseteq {p}
    BY <1>1, <2>1 DEF Component
  <2>3. QED
    BY <1>2, <2>2
<1>7. QED
  BY <1>2, <1>3, <1>5, <1>6 DEF C

\* The loops meet every pixel at its place.
LEMMA PlacesMetInOrder ==
    ASSUME NEW img, BlobImage(img)
    PROVE  LET N == img.nr * img.nc IN
           /\ N \in Nat
           /\ \A k \in 1 .. N : /\ F!Columns(img)[k] \in F!PixelsOf(img)
                                /\ F!Place(img, F!Columns(img)[k]) = k - 1
           /\ \A q \in F!PixelsOf(img) : F!Place(img, q) \in 0 .. N - 1
           /\ \A q \in F!PixelsOf(img), r \in F!PixelsOf(img) :
                 F!Place(img, q) = F!Place(img, r) => q = r
<1> DEFINE W == img.nr
           H == img.nc
           n == W * H
           pixels == F!Columns(img)
<1>1. W \in Nat /\ W # 0 /\ H \in Nat /\ n \in Nat
  BY DEF BlobImage
<1>2. pixels = [k \in 1 .. n |-> <<(k - 1) % W, (k - 1) \div W>>]
  BY DEF F!Columns
<1>3. \A q : F!Place(img, q) = q[2] * W + q[1]
  BY DEF F!Place
<1>4. F!PixelsOf(img) = (0 .. W - 1) \X (0 .. H - 1)
  BY DEF F!PixelsOf
<1> HIDE DEF W, H, pixels
<1>5. ASSUME NEW k \in 1 .. n
      PROVE  /\ (k - 1) % W \in 0 .. W - 1 /\ (k - 1) \div W \in 0 .. H - 1
             /\ k - 1 = W * ((k - 1) \div W) + ((k - 1) % W)
  <2> DEFINE a == k - 1
             y == a \div W
             x == a % W
  <2>2. a \in Nat /\ W \in Nat \ {0} /\ a < W * H
    BY <1>1
  <2> HIDE DEF a
  <2>3. x \in 0 .. W - 1 /\ y \in Nat /\ a = W * y + x
    BY <2>2
  <2> HIDE DEF x, y
  <2>4. y < H
    <3> SUFFICES ASSUME y >= H PROVE FALSE
      BY <1>1, <2>3
    <3>1. PICK z \in Nat : y = H + z
      <4>1. y - H \in Nat /\ y = H + (y - H)
        BY <1>1, <2>3
      <4>2. QED
        BY <4>1
    <3>2. W * y = W * H + W * z /\ W * z \in Nat /\ W * H \in Nat
      BY <1>1, <3>1
    <3>3. QED
      BY <2>2, <2>3, <3>2
  <2>5. x \in 0 .. W - 1 /\ y \in 0 .. H - 1 /\ a = W * y + x
    BY <1>1, <2>3, <2>4
  <2>6. QED
    BY <2>5 DEF a, x, y
<1>6. ASSUME NEW k \in 1 .. n
      PROVE  pixels[k] \in F!PixelsOf(img) /\ F!Place(img, pixels[k]) = k - 1
  <2> DEFINE x == (k - 1) % W
             y == (k - 1) \div W
  <2>1. pixels[k] = <<x, y>>
    BY <1>2
  <2>2. x \in 0 .. W - 1 /\ y \in 0 .. H - 1 /\ k - 1 = W * y + x
    BY <1>5
  <2> HIDE DEF x, y
  <2>3. pixels[k] \in F!PixelsOf(img) /\ F!Place(img, pixels[k]) = y * W + x
    BY <1>3, <1>4, <2>1, <2>2
  <2>4. y * W = W * y
    BY <1>1, <2>2
  <2>5. QED
    BY <2>2, <2>3, <2>4
<1>7. ASSUME NEW x \in 0 .. W - 1, NEW y \in 0 .. H - 1 PROVE y * W + x \in 0 .. n - 1
  <2>1. PICK z \in Nat : H = y + 1 + z
    <3>1. H - y - 1 \in Nat /\ H = y + 1 + (H - y - 1)
      BY <1>1
    <3>2. QED
      BY <3>1
  <2>2. n = y * W + W + z * W /\ z * W \in Nat /\ y * W \in Nat
    BY <1>1, <2>1
  <2> HIDE DEF n
  <2>3. QED
    BY <1>1, <2>2
<1>8. ASSUME NEW x \in 0 .. W - 1, NEW y \in 0 .. H - 1, NEW u \in 0 .. W - 1, NEW v \in 0 .. H - 1,
             y * W + x = v * W + u
      PROVE  x = u /\ y = v
  <2>1. ASSUME NEW a \in 0 .. H - 1, NEW b \in 0 .. H - 1, NEW i \in 0 .. W - 1, NEW j \in 0 .. W - 1,
               a * W + i = b * W + j
        PROVE  ~ (a < b)
    <3> SUFFICES ASSUME a < b PROVE FALSE
      OBVIOUS
    <3>1. PICK z \in Nat : b = a + 1 + z
      <4>1. b - a - 1 \in Nat /\ b = a + 1 + (b - a - 1)
        BY <1>1
      <4>2. QED
        BY <4>1
    <3>2. b * W = a * W + W + z * W /\ z * W \in Nat /\ a * W \in Nat
      BY <1>1, <3>1
    <3>3. QED
      BY <1>1, <2>1, <3>2
  <2>2. ~ (y < v) /\ ~ (v < y)
    BY <1>8, <2>1
  <2>3. y = v
    BY <1>1, <2>2
  <2>4. y * W \in Nat
    BY <1>1
  <2>5. QED
    BY <1>1, <1>8, <2>3, <2>4
<1>9. \A q \in F!PixelsOf(img) : F!Place(img, q) \in 0 .. n - 1
  BY <1>3, <1>4, <1>7
<1>10. ASSUME NEW q \in F!PixelsOf(img), NEW r \in F!PixelsOf(img), F!Place(img, q) = F!Place(img, r)
       PROVE  q = r
  <2>1. PICK x \in 0 .. W - 1, y \in 0 .. H - 1 : q = <<x, y>>
    BY <1>4
  <2>2. PICK u \in 0 .. W - 1, v \in 0 .. H - 1 : r = <<u, v>>
    BY <1>4
  <2>3. y * W + x = v * W + u
    BY <1>3, <1>10, <2>1, <2>2
  <2>4. QED
    BY <1>8, <2>1, <2>2, <2>3
<1>11. QED
  BY <1>1, <1>6, <1>9, <1>10 DEF W, H, pixels

\* The pixels a number is taken from come before.
LEMMA PlacesBefore ==
    ASSUME NEW img, BlobImage(img), NEW q \in Int \X Int
    PROVE  /\ F!Place(img, F!Left(q)) < F!Place(img, q)
           /\ F!Place(img, F!Top(q)) < F!Place(img, q)
           /\ F!Bottom(q) \in img.on /\ q \in img.on =>
                 F!Place(img, F!BottomLeft(q)) < F!Place(img, q)
           /\ F!Place(img, q) \in Int
<1> DEFINE W == img.nr
<1>1. PICK x \in Int, y \in Int : q = <<x, y>>
  OBVIOUS
<1>2. W \in Nat /\ W > 0
  BY DEF BlobImage
<1>3. F!Place(img, q) = y * W + x /\ F!Place(img, F!Left(q)) = (y - 1) * W + x
      /\ F!Place(img, F!Top(q)) = y * W + (x - 1) /\ F!Place(img, F!BottomLeft(q)) = (y - 1) * W + (x + 1)
  BY <1>1 DEF F!Place, F!Left, F!Top, F!BottomLeft
<1>4. F!Bottom(q) \in img.on /\ q \in img.on => W > 1
  BY <1>1 DEF F!Bottom, BlobImage
<1> HIDE DEF W
<1>5. (y - 1) * W = y * W - W /\ y * W \in Int
  BY <1>2
<1>6. QED
  BY <1>2, <1>3, <1>4, <1>5

\* The ranks of the members of a set of numbers are 1, 2, ... without a gap, and
\* tell them apart.
LEMMA RanksAreFull ==
    ASSUME NEW n \in Nat, NEW V \in SUBSET (1 .. n)
    PROVE  /\ {Cardinality(V \cap 1 .. v) : v \in V} = 1 .. Cardinality(V)
           /\ \A v, w \in V : Cardinality(V \cap 1 .. v) = Cardinality(V \cap 1 .. w) => v = w
<1> DEFINE r(m) == Cardinality(V \cap 1 .. m)
           Full(m) == /\ \A i \in 1 .. r(m) : \E v \in V : v <= m /\ r(v) = i
                      /\ \A v \in V : v <= m => r(v) \in 1 .. r(m)
                      /\ \A v, w \in V : v <= m /\ w <= m /\ r(v) = r(w) => v = w
           T0 == {m \in 0 .. n : Full(m)}
<1>1. \A m \in 0 .. n : IsFiniteSet(V \cap 1 .. m) /\ r(m) \in Nat
  <2>1. IsFiniteSet(V)
    <3>1. IsFiniteSet(1 .. n)
      BY FS_Interval
    <3>2. QED
      BY <3>1, FS_Subset
  <2>2. \A m \in 0 .. n : IsFiniteSet(V \cap 1 .. m)
    BY <2>1, FS_Subset
  <2>3. QED
    BY <2>2, FS_CardinalityType
<1>2. r(0) = 0
  <2>1. V \cap 1 .. 0 = {}
    OBVIOUS
  <2>2. QED
    BY <2>1, FS_EmptySet
<1>3. ASSUME NEW m \in 0 .. n - 1
      PROVE  r(m + 1) = IF m + 1 \in V THEN r(m) + 1 ELSE r(m)
  <2>1. CASE m + 1 \in V
    <3>1. V \cap 1 .. m + 1 = (V \cap 1 .. m) \cup {m + 1} /\ m + 1 \notin V \cap 1 .. m
      BY <2>1
    <3>2. IsFiniteSet(V \cap 1 .. m)
      BY <1>1
    <3>3. Cardinality((V \cap 1 .. m) \cup {m + 1}) = Cardinality(V \cap 1 .. m) + 1
      BY <3>1, <3>2, FS_AddElement
    <3>4. QED
      BY <2>1, <3>1, <3>3
  <2>2. CASE m + 1 \notin V
    <3>1. V \cap 1 .. m + 1 = V \cap 1 .. m
      BY <2>2
    <3>2. QED
      BY <2>2, <3>1
  <2>3. QED
    BY <2>1, <2>2
<1>4. V \cap 1 .. n = V /\ \A v \in V : v \in 1 .. n
  OBVIOUS
<1> HIDE DEF r
<1>5. 0 \in T0
  BY <1>2, <1>4
<1>6. ASSUME NEW m \in 0 .. n - 1, m \in T0 PROVE m + 1 \in T0
  <2>1. Full(m) /\ m + 1 \in 0 .. n /\ m \in 0 .. n
    BY <1>6
  <2>2. r(m) \in Nat
    BY <1>1, <2>1
  <2>3. CASE m + 1 \in V
    <3>1. r(m + 1) = r(m) + 1
      BY <1>3, <2>3
    <3>2. \A v \in V : v <= m + 1 => v <= m \/ v = m + 1
      BY <1>4
    <3>3. \A i \in 1 .. r(m + 1) : i \in 1 .. r(m) \/ i = r(m + 1)
      BY <2>2, <3>1
    <3>4. ASSUME NEW i \in 1 .. r(m + 1) PROVE \E v \in V : v <= m + 1 /\ r(v) = i
      <4>1. CASE i \in 1 .. r(m)
        <5>1. PICK v \in V : v <= m /\ r(v) = i
          BY <2>1, <4>1
        <5>2. v <= m + 1
          BY <1>4, <5>1
        <5>3. QED
          BY <5>1, <5>2
      <4>2. CASE i = r(m + 1)
        BY <2>3, <4>2
      <4>3. QED
        BY <3>3, <4>1, <4>2
    <3>5. ASSUME NEW v \in V, v <= m + 1 PROVE r(v) \in 1 .. r(m + 1)
      BY <2>1, <2>2, <3>1, <3>2, <3>5
    <3>6. ASSUME NEW v \in V, NEW w \in V, v <= m + 1, w <= m + 1, r(v) = r(w) PROVE v = w
      <4>1. \A u \in V : u <= m => r(u) # r(m + 1)
        BY <2>1, <2>2, <3>1
      <4>2. QED
        BY <2>1, <3>2, <3>6, <4>1
    <3>7. QED
      BY <2>1, <3>4, <3>5, <3>6
  <2>4. CASE m + 1 \notin V
    <3>1. r(m + 1) = r(m)
      BY <1>3, <2>4
    <3>2. \A v \in V : v <= m + 1 <=> v <= m
      BY <1>4, <2>4
    <3>3. QED
      BY <2>1, <3>1, <3>2
  <2>5. QED
    BY <2>3, <2>4
<1> HIDE DEF T0
<1>7. n \in T0
  <2>1. \A m \in 0 .. n : m \in T0
    BY <1>5, <1>6, InductionUpTo
  <2>2. QED
    BY <2>1
<1>8. Full(n) /\ \A v \in V : v <= n
  BY <1>4, <1>7 DEF T0
<1>9. r(n) = Cardinality(V)
  BY <1>4 DEF r
<1>10. {r(v) : v \in V} = 1 .. Cardinality(V)
  BY <1>8, <1>9
<1>11. QED
  BY <1>8, <1>10 DEF r

-----------------------------------------------------------------------------
(* The first pass. *)

\* What the pass holds.
Numbers(img) == [pc : Nat, out : [F!PixelsOf(img) -> Nat], dup : Seq(Nat \X Nat)]

Alone(img, q) == q \notin img.on \/ F!Beside(q) \cap img.on = {}

\* The two entries of a pair.
Pair(d, a, b) == d \in {<<a, b>>, <<b, a>>}

\* What holds of a pixel that has been met.
Numbered(img, s, q) ==
    /\ s.out[q] \in 0 .. s.pc
    /\ s.out[q] = 0 <=> Alone(img, q)
    /\ ~ Alone(img, q) => \A r \in F!CopiesFrom(img, q) : s.out[q] = s.out[r]
    /\ ~ Alone(img, q) /\ F!Meets(img, q) =>
          \E d \in 1 .. Len(s.dup) : Pair(s.dup[d], s.out[q], s.out[F!BottomLeft(q)])

\* What has got one number hangs together, and so does what has got a pair.
NumbersTogether(img, s) ==
    /\ \A p \in F!PixelsOf(img), q \in F!PixelsOf(img) :
          s.out[p] > 0 /\ s.out[q] = s.out[p] => q \in F!Blob(p, img)
    /\ \A d \in 1 .. Len(s.dup) :
          \E p \in F!PixelsOf(img), q \in F!PixelsOf(img) :
             s.out[p] > 0 /\ s.out[q] > 0 /\ s.dup[d] = <<s.out[p], s.out[q]>> /\ q \in F!Blob(p, img)

\* After k pixels.
FirstInv(img, s, k) ==
    /\ s \in Numbers(img)
    /\ \A q \in F!PixelsOf(img) : F!Place(img, q) >= k => s.out[q] = 0
    /\ \A q \in F!PixelsOf(img) : F!Place(img, q) < k => Numbered(img, s, q)
    /\ \A n \in 1 .. s.pc : \E q \in F!PixelsOf(img) : s.out[q] = n
    /\ NumbersTogether(img, s)

\* The pixel a number is taken from, if there is one, has a number, and the one
\* at the lower left has where two meet.
LEMMA CopiesHaveNumbers ==
    ASSUME NEW img, BlobImage(img), NEW q \in img.on
    PROVE  /\ \A r \in F!CopiesFrom(img, q) :
                 r \in img.on /\ ~ Alone(img, r) /\ F!Place(img, r) < F!Place(img, q)
                 /\ r \in F!Blob(q, img)
           /\ F!Meets(img, q) =>
                 /\ F!BottomLeft(q) \in img.on /\ ~ Alone(img, F!BottomLeft(q))
                 /\ F!Place(img, F!BottomLeft(q)) < F!Place(img, q)
                 /\ F!BottomLeft(q) \in F!Blob(q, img)
<1> DEFINE l == F!Left(q)
           t == F!Top(q)
           b == F!Bottom(q)
           m == F!BottomLeft(q)
<1>1. q \in Int \X Int
  BY BlobPixels
<1>2. PICK x \in Int, y \in Int : q = <<x, y>>
  BY <1>1
<1>3. /\ q \in F!Beside(l) /\ q \in F!Beside(t) /\ m \in F!Beside(b) /\ b \in F!Beside(m)
      /\ l \in F!Beside(q) /\ t \in F!Beside(q) /\ b \in F!Beside(q)
  BY <1>2 DEF F!Beside, F!Left, F!Right, F!Top, F!Bottom, F!BottomLeft
<1>4. /\ F!Place(img, l) < F!Place(img, q) /\ F!Place(img, t) < F!Place(img, q)
      /\ b \in img.on => F!Place(img, m) < F!Place(img, q)
  BY <1>1, PlacesBefore
<1> HIDE DEF l, t, b, m
<1>5. \A r \in {l, t} : r \in img.on => ~ Alone(img, r) /\ r \in F!Blob(q, img)
  BY <1>3, BlobsPart DEF Alone
<1>6. b \in img.on /\ m \in img.on => ~ Alone(img, m) /\ m \in F!Blob(q, img)
  <2> SUFFICES ASSUME b \in img.on, m \in img.on PROVE ~ Alone(img, m) /\ m \in F!Blob(q, img)
    OBVIOUS
  <2>1. b \in F!Blob(q, img) /\ m \in F!Blob(b, img)
    BY <1>3, BlobsPart
  <2>2. F!Blob(b, img) = F!Blob(q, img)
    BY <2>1, BlobsPart
  <2>3. QED
    BY <1>3, <2>1, <2>2 DEF Alone
<1>7. \A r \in F!CopiesFrom(img, q) : \/ r \in {l, t} /\ r \in img.on
                                      \/ r = m /\ m \in img.on /\ b \in img.on
  BY DEF F!CopiesFrom, l, t, b, m
<1>8. F!Meets(img, q) => m \in img.on /\ b \in img.on
  BY DEF F!Meets, m, b
<1>9. QED
  BY <1>4, <1>5, <1>6, <1>7, <1>8 DEF m

\* The first pass at a pixel with something beside it: its number and its pair.
NumberAt(img, s, q, t, k1) ==
    /\ \/ F!CopiesFrom(img, q) = {} /\ k1 = s.pc + 1 /\ t.pc = s.pc + 1
       \/ \E r \in F!CopiesFrom(img, q) : k1 = s.out[r] /\ t.pc = s.pc
    /\ t.out = [s.out EXCEPT ![q] = k1]
    /\ IF F!Meets(img, q)
       THEN \E d : t.dup = Append(s.dup, d) /\ Pair(d, k1, s.out[F!BottomLeft(q)])
       ELSE t.dup = s.dup

\* What one turn of the loop does.
LEMMA NumberTurn ==
    ASSUME NEW img, NEW s, NEW q
    PROVE  /\ Alone(img, q) => F!Number(img, s, q) = s
           /\ ~ Alone(img, q) => \E k1 : NumberAt(img, s, q, F!Number(img, s, q), k1)
<1>1. Alone(img, q) => F!Number(img, s, q) = s
  BY DEF F!Number, Alone
<1>2. ASSUME ~ Alone(img, q) PROVE \E k1 : NumberAt(img, s, q, F!Number(img, s, q), k1)
  <2> DEFINE new == F!CopiesFrom(img, q) = {}
             r == CHOOSE p \in F!CopiesFrom(img, q) : TRUE
             k1 == IF new THEN s.pc + 1 ELSE s.out[r]
             k2 == s.out[F!BottomLeft(q)]
             d == IF k1 > k2 THEN <<k2, k1>> ELSE <<k1, k2>>
             t == F!Number(img, s, q)
  <2>1. t = [pc  |-> IF new THEN s.pc + 1 ELSE s.pc,
             out |-> [s.out EXCEPT ![q] = k1],
             dup |-> IF F!Meets(img, q) THEN Append(s.dup, d) ELSE s.dup]
    BY <1>2 DEF F!Number, Alone
  <2>2. ~ new => r \in F!CopiesFrom(img, q)
    OBVIOUS
  <2>3. Pair(d, k1, k2)
    BY DEF Pair
  <2> HIDE DEF r, d, t
  <2>4. \/ new /\ k1 = s.pc + 1 /\ t.pc = s.pc + 1
        \/ ~ new /\ k1 = s.out[r] /\ t.pc = s.pc
    BY <2>1
  <2> HIDE DEF k1
  <2>5. t.out = [s.out EXCEPT ![q] = k1]
    BY <2>1
  <2>6. t.dup = IF F!Meets(img, q) THEN Append(s.dup, d) ELSE s.dup
    BY <2>1
  <2>7. NumberAt(img, s, q, t, k1)
    BY <2>2, <2>3, <2>4, <2>5, <2>6 DEF NumberAt
  <2>8. QED
    BY <2>7 DEF t
<1>3. QED
  BY <1>1, <1>2

\* A turn leaves numbers.
LEMMA NumberKeepsType ==
    ASSUME NEW img, BlobImage(img), NEW s \in Numbers(img), NEW q
    PROVE  F!Number(img, s, q) \in Numbers(img)
<1>1. CASE Alone(img, q)
  BY <1>1, NumberTurn
<1>2. CASE ~ Alone(img, q)
  <2> DEFINE t == F!Number(img, s, q)
  <2>1. PICK k1 : NumberAt(img, s, q, t, k1)
    BY <1>2, NumberTurn
  <2>2. s.pc \in Nat /\ s.out \in [F!PixelsOf(img) -> Nat] /\ s.dup \in Seq(Nat \X Nat)
    BY DEF Numbers
  <2>3. q \in img.on
    BY <1>2 DEF Alone
  <2>4. k1 \in Nat /\ t.pc \in Nat
    <3>1. \A r \in F!CopiesFrom(img, q) : r \in F!PixelsOf(img)
      BY <2>3, BlobPixels, CopiesHaveNumbers
    <3>2. QED
      BY <2>1, <2>2, <3>1 DEF NumberAt
  <2>5. t.out \in [F!PixelsOf(img) -> Nat]
    BY <2>1, <2>2, <2>4 DEF NumberAt
  <2>6. t.dup \in Seq(Nat \X Nat)
    <3>1. CASE F!Meets(img, q)
      <4>1. F!BottomLeft(q) \in F!PixelsOf(img)
        BY <2>3, <3>1, BlobPixels, CopiesHaveNumbers
      <4>2. s.out[F!BottomLeft(q)] \in Nat
        BY <2>2, <4>1
      <4>3. PICK d : t.dup = Append(s.dup, d) /\ Pair(d, k1, s.out[F!BottomLeft(q)])
        BY <2>1, <3>1 DEF NumberAt
      <4>4. d \in Nat \X Nat
        BY <2>4, <4>2, <4>3 DEF Pair
      <4>5. QED
        BY <2>2, <4>3, <4>4
    <3>2. CASE ~ F!Meets(img, q)
      BY <2>1, <2>2, <3>2 DEF NumberAt
    <3>3. QED
      BY <3>1, <3>2
  <2>7. t = [pc |-> t.pc, out |-> t.out, dup |-> t.dup]
    <3>1. ~ (q \notin img.on \/ F!Beside(q) \cap img.on = {})
      BY <1>2 DEF Alone
    <3>2. QED
      BY <3>1 DEF F!Number
  <2> HIDE DEF t
  <2>8. t \in Numbers(img)
    BY <2>4, <2>5, <2>6, <2>7 DEF Numbers
  <2>9. QED
    BY <2>8 DEF t
<1>3. QED
  BY <1>1, <1>2

\* A turn keeps the invariant.
LEMMA NumberGoesOn ==
    ASSUME NEW img, BlobImage(img), NEW k \in 1 .. img.nr * img.nc, NEW s, FirstInv(img, s, k - 1)
    PROVE  FirstInv(img, F!Number(img, s, F!Columns(img)[k]), k)
<1> DEFINE X == F!PixelsOf(img)
           At(p) == F!Place(img, p)
           q == F!Columns(img)[k]
           t == F!Number(img, s, q)
           C(p) == F!Blob(p, img)
<1>1. /\ q \in X /\ At(q) = k - 1 /\ k \in Int
      /\ \A p \in X : At(p) \in Int /\ (At(p) = k - 1 => p = q)
  BY PlacesMetInOrder
<1>2. /\ s \in Numbers(img)
      /\ \A p \in X : At(p) >= k - 1 => s.out[p] = 0
      /\ \A p \in X : At(p) < k - 1 => Numbered(img, s, p)
      /\ \A n \in 1 .. s.pc : \E p \in X : s.out[p] = n
      /\ NumbersTogether(img, s)
  BY DEF FirstInv
<1>3. s.pc \in Nat /\ s.out \in [X -> Nat] /\ s.dup \in Seq(Nat \X Nat)
  BY <1>2 DEF Numbers
<1>4. t \in Numbers(img)
  BY <1>2, NumberKeepsType
<1>5. \A p \in X : At(p) < k <=> At(p) < k - 1 \/ p = q
  BY <1>1
<1>6. \A p \in X : s.out[p] \in 0 .. s.pc /\ (s.out[p] > 0 => p \in img.on /\ p # q /\ At(p) < k - 1)
  <2>1. ASSUME NEW p \in X PROVE s.out[p] \in 0 .. s.pc /\ (s.out[p] > 0 => p \in img.on /\ p # q /\ At(p) < k - 1)
    <3>1. CASE At(p) >= k - 1
      BY <1>2, <1>3, <3>1
    <3>2. CASE At(p) < k - 1
      <4>1. s.out[p] \in 0 .. s.pc /\ (s.out[p] = 0 <=> Alone(img, p))
        BY <1>2, <3>2 DEF Numbered
      <4>2. p # q
        BY <1>1, <3>2
      <4>3. QED
        BY <3>2, <4>1, <4>2 DEF Alone
    <3>3. QED
      BY <1>1, <3>1, <3>2
  <2>2. QED
    BY <2>1
<1> HIDE DEF q, t, X, At, C
<1>7. CASE Alone(img, q)
  <2>1. t = s
    BY <1>7, NumberTurn DEF t
  <2>2. Numbered(img, s, q)
    BY <1>1, <1>2, <1>3, <1>7 DEF Numbered
  <2>3. \A p \in X : At(p) >= k => At(p) >= k - 1
    BY <1>1
  <2>4. FirstInv(img, s, k)
    BY <1>2, <1>5, <2>2, <2>3 DEF FirstInv, X, At
  <2>5. QED
    BY <2>1, <2>4 DEF t, q
<1>8. CASE ~ Alone(img, q)
  <2>1. PICK k1 : NumberAt(img, s, q, t, k1)
    BY <1>8, NumberTurn DEF t
  <2>2. q \in img.on /\ img.on \subseteq X
    BY <1>8, BlobPixels DEF Alone, X
  <2>3. \A r \in X : r \in img.on /\ ~ Alone(img, r) /\ At(r) < At(q) =>
           s.out[r] \in 1 .. s.pc /\ r # q
    <3>1. ASSUME NEW r \in X, ~ Alone(img, r), At(r) < At(q) PROVE s.out[r] \in 1 .. s.pc /\ r # q
      <4>1. s.out[r] \in 0 .. s.pc /\ (s.out[r] = 0 <=> Alone(img, r))
        BY <1>1, <1>2, <3>1 DEF Numbered
      <4>2. r # q
        BY <1>1, <3>1
      <4>3. QED
        BY <1>3, <3>1, <4>1, <4>2
    <3>2. QED
      BY <3>1
  <2>4. \A r \in F!CopiesFrom(img, q) :
           r \in img.on /\ r \in X /\ r # q /\ s.out[r] \in 1 .. s.pc /\ r \in C(q)
    BY <2>2, <2>3, CopiesHaveNumbers DEF C, At
  <2> DEFINE m == F!BottomLeft(q)
  <2>5. F!Meets(img, q) => m \in img.on /\ m \in X /\ m # q /\ s.out[m] \in 1 .. s.pc /\ m \in C(q)
    BY <2>2, <2>3, CopiesHaveNumbers DEF C, At
  <2> HIDE DEF m
  <2>6. t.out = [s.out EXCEPT ![q] = k1]
    BY <2>1 DEF NumberAt
  <2>7. t.out[q] = k1 /\ \A p \in X : p # q => t.out[p] = s.out[p]
    BY <1>1, <1>3, <2>6
  <2>8. k1 \in 1 .. t.pc /\ t.pc \in Nat /\ s.pc <= t.pc /\ t.pc <= s.pc + 1
    BY <1>3, <2>1, <2>4 DEF NumberAt
  <2>9. /\ Len(s.dup) \in Nat /\ Len(t.dup) \in Nat /\ Len(s.dup) <= Len(t.dup)
        /\ \A d \in 1 .. Len(s.dup) : d \in 1 .. Len(t.dup) /\ t.dup[d] = s.dup[d]
        /\ \A d \in 1 .. Len(t.dup) : d \in 1 .. Len(s.dup) \/ d = Len(t.dup)
        /\ F!Meets(img, q) => /\ Len(t.dup) \in 1 .. Len(t.dup) /\ Len(t.dup) = Len(s.dup) + 1
                              /\ Pair(t.dup[Len(t.dup)], k1, s.out[m])
        /\ ~ F!Meets(img, q) => t.dup = s.dup
    <3>1. CASE F!Meets(img, q)
      <4>1. PICK d : t.dup = Append(s.dup, d) /\ Pair(d, k1, s.out[m])
        BY <2>1, <3>1 DEF NumberAt, m
      <4>2. t.dup[Len(s.dup) + 1] = d /\ Len(t.dup) = Len(s.dup) + 1 /\ Len(s.dup) \in Nat
        BY <1>3, <4>1
      <4>3. \A e \in 1 .. Len(s.dup) : t.dup[e] = s.dup[e]
        BY <1>3, <4>1
      <4>4. QED
        BY <3>1, <4>1, <4>2, <4>3
    <3>2. CASE ~ F!Meets(img, q)
      BY <1>3, <2>1, <3>2 DEF NumberAt
    <3>3. QED
      BY <3>1, <3>2
  <2>10. \A p \in X : At(p) >= k => t.out[p] = 0
    <3>1. \A p \in X : At(p) >= k => p # q /\ At(p) >= k - 1
      BY <1>1
    <3>2. QED
      BY <1>2, <2>7, <3>1
  <2>11. ASSUME NEW p \in X, At(p) < k PROVE Numbered(img, t, p)
    <3>1. CASE p = q
      <4>1. t.out[q] \in 0 .. t.pc /\ t.out[q] # 0
        BY <2>7, <2>8
      <4>2. \A r \in F!CopiesFrom(img, q) : t.out[q] = t.out[r]
        <5>1. \A r \in F!CopiesFrom(img, q), u \in F!CopiesFrom(img, q) : r = u
          BY DEF F!CopiesFrom
        <5>2. \A r \in F!CopiesFrom(img, q) : k1 = s.out[r]
          BY <2>1, <5>1 DEF NumberAt
        <5>3. QED
          BY <2>4, <2>7, <5>2
      <4>3. F!Meets(img, q) =>
               \E d \in 1 .. Len(t.dup) : Pair(t.dup[d], t.out[q], t.out[F!BottomLeft(q)])
        BY <2>5, <2>7, <2>9 DEF m
      <4>4. QED
        BY <1>8, <3>1, <4>1, <4>2, <4>3 DEF Numbered
    <3>2. CASE p # q
      <4>1. At(p) < k - 1
        BY <1>5, <2>11, <3>2
      <4>2. Numbered(img, s, p) /\ t.out[p] = s.out[p]
        BY <1>2, <2>7, <3>2, <4>1
      <4>3. t.out[p] \in 0 .. t.pc /\ (t.out[p] = 0 <=> Alone(img, p))
        BY <1>3, <2>8, <4>2 DEF Numbered
      <4>4. ASSUME ~ Alone(img, p) PROVE \A r \in F!CopiesFrom(img, p) : t.out[p] = t.out[r]
        <5>1. p \in img.on
          BY <4>4 DEF Alone
        <5>2. \A r \in F!CopiesFrom(img, p) : r \in X /\ At(r) < At(p)
          BY <2>2, <5>1, CopiesHaveNumbers DEF At
        <5>3. \A r \in F!CopiesFrom(img, p) : t.out[r] = s.out[r]
          BY <1>1, <2>7, <4>1, <5>2
        <5>4. QED
          BY <4>2, <4>4, <5>3 DEF Numbered
      <4>5. ASSUME ~ Alone(img, p), F!Meets(img, p)
            PROVE  \E d \in 1 .. Len(t.dup) : Pair(t.dup[d], t.out[p], t.out[F!BottomLeft(p)])
        <5>1. p \in img.on
          BY <4>5 DEF Alone
        <5>2. F!BottomLeft(p) \in X /\ At(F!BottomLeft(p)) < At(p)
          BY <2>2, <4>5, <5>1, CopiesHaveNumbers DEF At
        <5>3. t.out[F!BottomLeft(p)] = s.out[F!BottomLeft(p)]
          BY <1>1, <2>7, <4>1, <5>2
        <5>4. PICK d \in 1 .. Len(s.dup) : Pair(s.dup[d], s.out[p], s.out[F!BottomLeft(p)])
          BY <4>2, <4>5 DEF Numbered
        <5>5. QED
          BY <2>9, <4>2, <5>3, <5>4
      <4>6. QED
        BY <4>3, <4>4, <4>5 DEF Numbered
    <3>3. QED
      BY <3>1, <3>2
  <2>12. ASSUME NEW n \in 1 .. t.pc PROVE \E p \in X : t.out[p] = n
    <3>1. CASE n \in 1 .. s.pc
      <4>1. PICK p \in X : s.out[p] = n
        BY <1>2, <3>1
      <4>2. p # q
        BY <1>6, <3>1, <4>1
      <4>3. QED
        BY <2>7, <4>1, <4>2
    <3>2. CASE n \notin 1 .. s.pc
      <4>1. n = s.pc + 1 /\ t.pc # s.pc
        BY <1>3, <2>8, <3>2
      <4>2. k1 = n
        BY <2>1, <4>1 DEF NumberAt
      <4>3. QED
        BY <1>1, <2>7, <4>2
    <3>3. QED
      BY <3>1, <3>2
  <2>13. \A a \in img.on, b \in img.on : b \in C(a) => C(b) = C(a)
    BY BlobsPart DEF C
  <2>14. \A a \in img.on : a \in C(a)
    BY BlobsPart DEF C
  <2>15. \A a \in X, b \in X : s.out[a] > 0 /\ s.out[b] = s.out[a] => b \in C(a)
    BY <1>2 DEF NumbersTogether, X, C
  <2>16. ASSUME NEW a \in X, NEW b \in X, t.out[a] > 0, t.out[b] = t.out[a] PROVE b \in C(a)
    <3>1. CASE a = q /\ b = q
      BY <2>2, <2>14, <3>1
    <3>2. CASE a # q /\ b # q
      BY <2>7, <2>15, <2>16, <3>2
    <3>3. ASSUME NEW c \in X, c # q, s.out[c] = k1 PROVE c \in img.on /\ C(c) = C(q)
      <4>1. s.out[c] \in 0 .. s.pc /\ c \in img.on
        BY <1>6, <2>8, <3>3
      <4>2. PICK r \in F!CopiesFrom(img, q) : k1 = s.out[r]
        BY <1>3, <2>1, <3>3, <4>1 DEF NumberAt
      <4>3. c \in C(r)
        BY <2>4, <2>8, <2>15, <3>3, <4>2
      <4>4. C(r) = C(q)
        BY <2>2, <2>4, <2>13
      <4>5. C(c) = C(r)
        BY <2>4, <2>13, <4>1, <4>3
      <4>6. QED
        BY <4>1, <4>4, <4>5
    <3>4. CASE a = q /\ b # q
      BY <2>7, <2>14, <2>16, <3>3, <3>4
    <3>5. CASE a # q /\ b = q
      <4>1. s.out[a] = k1
        BY <2>7, <2>16, <3>5
      <4>2. C(a) = C(q) /\ q \in C(q)
        BY <2>2, <2>14, <3>3, <3>5, <4>1
      <4>3. QED
        BY <3>5, <4>2
    <3>6. QED
      BY <3>1, <3>2, <3>4, <3>5
  <2>17. ASSUME NEW d \in 1 .. Len(t.dup)
         PROVE  \E a \in X, b \in X : t.out[a] > 0 /\ t.out[b] > 0 /\ t.dup[d] = <<t.out[a], t.out[b]>> /\ b \in C(a)
    <3>1. CASE d \in 1 .. Len(s.dup)
      <4>1. \E a \in X, b \in X :
               s.out[a] > 0 /\ s.out[b] > 0 /\ s.dup[d] = <<s.out[a], s.out[b]>> /\ b \in C(a)
        BY <1>2, <3>1 DEF NumbersTogether, X, C
      <4>2. PICK a \in X, b \in X :
               s.out[a] > 0 /\ s.out[b] > 0 /\ s.dup[d] = <<s.out[a], s.out[b]>> /\ b \in C(a)
        BY <4>1
      <4>3. t.out[a] = s.out[a] /\ t.out[b] = s.out[b]
        BY <1>6, <2>7, <4>2
      <4>4. QED
        BY <2>9, <3>1, <4>2, <4>3
    <3>2. CASE d \notin 1 .. Len(s.dup)
      <4>1. F!Meets(img, q) /\ d = Len(t.dup)
        BY <2>9, <3>2
      <4>2. Pair(t.dup[d], t.out[q], t.out[m]) /\ m \in X /\ m \in img.on /\ t.out[q] > 0 /\ t.out[m] > 0
        BY <2>5, <2>7, <2>8, <2>9, <4>1
      <4>3. m \in C(q) /\ q \in C(m)
        BY <2>2, <2>5, <2>13, <2>14, <4>1
      <4>4. QED
        BY <1>1, <4>2, <4>3 DEF Pair
    <3>3. QED
      BY <3>1, <3>2
  <2>18. NumbersTogether(img, t)
    BY <2>16, <2>17 DEF NumbersTogether, X, C
  <2>19. FirstInv(img, t, k)
    BY <1>4, <2>10, <2>11, <2>12, <2>18 DEF FirstInv, X, At
  <2>20. QED
    BY <2>19 DEF t, q
<1>9. QED
  BY <1>7, <1>8

\* After the pass all pixels have been met.
LEMMA FirstPassNumbers ==
    ASSUME NEW img, BlobImage(img)
    PROVE  FirstInv(img, F!FirstPass(img), img.nr * img.nc)
<1> DEFINE X == F!PixelsOf(img)
           N == img.nr * img.nc
           start == [pc |-> 0, out |-> [p \in X |-> 0], dup |-> <<>>]
           Round(s, k) == F!Number(img, s, F!Columns(img)[k])
           K(h) == [k \in 0 .. N |-> IF k = 0 THEN start ELSE Round(h[k - 1], k)]
           After == CHOOSE h : h = K(h)
           S == Numbers(img)
           g == [x \in (1 .. N) \X S |-> Round(x[2], x[1])]
<1>1. N \in Nat
  BY DEF BlobImage
<1>2. F!FirstPass(img) = After[N]
  BY DEF F!FirstPass
<1>3. start \in S
  BY DEF Numbers
<1>4. \A k \in 1 .. N, s \in S : Round(s, k) \in S
  BY NumberKeepsType
<1>5. FirstInv(img, start, 0)
  <2>1. start.out = [p \in X |-> 0] /\ start.pc = 0 /\ start.dup = <<>>
    OBVIOUS
  <2>2. \A q \in X : F!Place(img, q) \in 0 .. N - 1
    BY PlacesMetInOrder
  <2>3. \A q \in X : ~ (F!Place(img, q) < 0)
    BY <1>1, <2>2
  <2> HIDE DEF start
  <2>4. (\A p \in X : start.out[p] = 0) /\ Len(start.dup) = 0
    BY <2>1
  <2>5. NumbersTogether(img, start)
    BY <2>4 DEF NumbersTogether
  <2>6. QED
    BY <1>3, <2>1, <2>3, <2>4, <2>5 DEF FirstInv
<1>6. \A s : \A k \in 1 .. N : FirstInv(img, s, k - 1) => FirstInv(img, Round(s, k), k)
  BY NumberGoesOn
<1> HIDE DEF N, S, Round, start
<1>7. g \in [(1 .. N) \X S -> S] /\ \A k \in 1 .. N, s \in S : g[<<k, s>>] = Round(s, k)
  BY <1>4
<1> HIDE DEF g
<1>8. PICK f \in [0 .. N -> S] : Recursive(f, N, start, g)
  BY <1>1, <1>3, <1>7, RecursionExists
<1>9. f = K(f)
  <2>1. ASSUME NEW k \in 0 .. N PROVE f[k] = K(f)[k]
    <3>1. CASE k = 0
      BY <1>8, <3>1 DEF Recursive
    <3>2. CASE k # 0
      <4>1. k \in 1 .. N /\ k - 1 \in 0 .. N
        BY <1>1, <3>2
      <4>2. f[k] = Round(f[k - 1], k)
        BY <1>7, <1>8, <4>1 DEF Recursive
      <4>3. QED
        BY <3>2, <4>2
    <3>3. QED
      BY <3>1, <3>2
  <2>2. QED
    BY <1>8, <2>1
<1>10. ASSUME NEW h PROVE K(h)[0] = start /\ \A k \in 1 .. N : K(h)[k] = Round(h[k - 1], k)
  BY <1>1
<1> HIDE DEF K
<1>11. After = K(After)
  BY <1>9
<1> HIDE DEF After
<1>12. After[0] = start /\ \A k \in 1 .. N : After[k] = Round(After[k - 1], k)
  BY <1>10, <1>11
<1> DEFINE T0 == {k \in 0 .. N : FirstInv(img, After[k], k)}
<1>13. 0 \in T0
  BY <1>1, <1>5, <1>12
<1>14. ASSUME NEW k \in 0 .. N - 1, k \in T0 PROVE k + 1 \in T0
  <2>1. k + 1 \in 1 .. N /\ k + 1 \in 0 .. N /\ (k + 1) - 1 = k
    BY <1>1
  <2>2. After[k + 1] = Round(After[(k + 1) - 1], k + 1)
    BY <1>12, <2>1
  <2>3. FirstInv(img, After[(k + 1) - 1], (k + 1) - 1)
    BY <1>14, <2>1
  <2>4. FirstInv(img, After[k + 1], k + 1)
    BY <1>6, <2>1, <2>2, <2>3
  <2>5. QED
    BY <2>1, <2>4
<1> HIDE DEF T0
<1>15. N \in T0
  <2>1. \A k \in 0 .. N : k \in T0
    BY <1>1, <1>13, <1>14, InductionUpTo
  <2>2. QED
    BY <1>1, <2>1
<1>16. QED
  BY <1>2, <1>15 DEF T0, N

-----------------------------------------------------------------------------
(* The pairs: sorted and joined. *)

\* Entries k and j change places.
Swapped(e, n, k, j) == [i \in 1 .. n |-> IF i = k THEN e[j] ELSE IF i = j THEN e[k] ELSE e[i]]

\* A list of n pairs.
PairsIn(e, n) == e = [i \in 1 .. n |-> <<e[i][1], e[i][2]>>]

\* Entry k is to stand behind entry j.
Later(loc, e, k, j) ==
    \/ loc[e[k][1]] > loc[e[j][1]]
    \/ e[k][1] = e[j][1] /\ loc[e[k][2]] > loc[e[j][2]]

\* A comparison leaves the entries or swaps two: also where only the second
\* numbers change places, as the first ones are equal.
LEMMA ExchangeSwaps ==
    ASSUME NEW n \in Nat, NEW e, PairsIn(e, n), NEW loc,
           NEW k \in 1 .. n, NEW j \in 1 .. n, k # j
    PROVE  F!Exchange(loc, e, k, j) =
              IF Later(loc, e, k, j) THEN Swapped(e, n, k, j) ELSE e
<1> DEFINE x == F!Exchange(loc, e, k, j)
<1>10. DOMAIN e = 1 .. n /\ e = [i \in 1 .. n |-> e[i]] /\ \A i \in 1 .. n : e[i] = <<e[i][1], e[i][2]>>
  BY DEF PairsIn
<1>1. CASE loc[e[k][1]] > loc[e[j][1]]
  <2>1. x = [e EXCEPT ![k] = e[j], ![j] = e[k]]
    BY <1>1 DEF F!Exchange
  <2>2. [e EXCEPT ![k] = e[j], ![j] = e[k]] = Swapped(e, n, k, j)
    BY <1>10 DEF Swapped
  <2>3. QED
    BY <1>1, <2>1, <2>2 DEF Later
<1>2. CASE ~ (loc[e[k][1]] > loc[e[j][1]]) /\ e[k][1] = e[j][1] /\ loc[e[k][2]] > loc[e[j][2]]
  <2>1. x = [e EXCEPT ![k][2] = e[j][2], ![j][2] = e[k][2]]
    BY <1>2 DEF F!Exchange
  <2>2. PICK a, b : e[k] = <<a, b>>
    BY <1>10
  <2>3. PICK c, d : e[j] = <<c, d>>
    BY <1>10
  <2>4. a = c
    BY <1>2, <2>2, <2>3
  <2>5. [<<a, b>> EXCEPT ![2] = d] = <<a, d>> /\ [<<c, d>> EXCEPT ![2] = b] = <<c, b>>
    OBVIOUS
  <2>6. ASSUME NEW i \in 1 .. n PROVE x[i] = Swapped(e, n, k, j)[i]
    <3>1. CASE i = k
      <4>1. x[k] = [e[k] EXCEPT ![2] = e[j][2]]
        BY <1>10, <2>1
      <4>2. QED
        BY <2>2, <2>3, <2>4, <2>5, <3>1, <4>1 DEF Swapped
    <3>2. CASE i = j
      <4>1. x[j] = [e[j] EXCEPT ![2] = e[k][2]]
        BY <1>10, <2>1
      <4>2. x[j] = <<c, b>>
        <5>1. e[k][2] = b
          BY <2>2
        <5>2. x[j] = [<<c, d>> EXCEPT ![2] = b]
          BY <2>3, <4>1, <5>1
        <5>3. QED
          BY <2>5, <5>2
      <4>3. <<c, b>> = e[k]
        BY <2>2, <2>4
      <4>4. Swapped(e, n, k, j)[j] = e[k]
        BY DEF Swapped
      <4>5. QED
        BY <3>2, <4>2, <4>3, <4>4
    <3>3. CASE i # k /\ i # j
      BY <1>10, <2>1, <3>3 DEF Swapped
    <3>4. QED
      BY <3>1, <3>2, <3>3
  <2>7. DOMAIN x = 1 .. n /\ x = [i \in 1 .. n |-> x[i]]
    BY <1>10, <2>1
  <2> HIDE DEF x
  <2>8. x = Swapped(e, n, k, j)
    BY <2>6, <2>7 DEF Swapped
  <2>9. QED
    BY <1>2, <2>8 DEF x, Later
<1>3. CASE ~ (loc[e[k][1]] > loc[e[j][1]]) /\ ~ (e[k][1] = e[j][1] /\ loc[e[k][2]] > loc[e[j][2]])
  BY <1>3 DEF F!Exchange, Later
<1>4. QED
  BY <1>1, <1>2, <1>3

\* So a comparison keeps all entries.
LEMMA ExchangeKeeps ==
    ASSUME NEW n \in Nat, NEW e, PairsIn(e, n), NEW loc,
           NEW k \in 1 .. n, NEW j \in 1 .. n, k # j
    PROVE  F!Exchange(loc, e, k, j) = Swapped(e, n, k, j) \/ F!Exchange(loc, e, k, j) = e
<1>1. QED
  BY ExchangeSwaps

\* The turns of the inner loop of the sort.
ComparedBy(turn, n, loc, e, k) ==
    /\ turn[0] = e
    /\ \A d \in 1 .. n - k : turn[d] = F!Exchange(loc, turn[d - 1], k, k + d)
    /\ F!Compared(loc, e, k) = turn[n - k]

\* They keep what holds of all entries.
LEMMA ComparedTurns ==
    ASSUME NEW n \in Nat, NEW Q, NEW e \in [1 .. n -> Q \X Q], NEW loc, NEW k \in 1 .. n,
           NEW P \in SUBSET (Q \X Q), \A i \in 1 .. n : e[i] \in P
    PROVE  \E turn \in [0 .. n - k -> [1 .. n -> P]] : ComparedBy(turn, n, loc, e, k)
<1> DEFINE N == n - k
           S == [1 .. n -> P]
           Round(s, d) == F!Exchange(loc, s, k, k + d)
           K(h) == [d \in 0 .. N |-> IF d = 0 THEN e ELSE Round(h[d - 1], d)]
           Turn == CHOOSE h : h = K(h)
           g == [x \in (1 .. N) \X S |-> Round(x[2], x[1])]
<1>1. N \in Nat
  OBVIOUS
<1>2. F!Compared(loc, e, k) = Turn[N]
  <2>1. Len(e) = n
    OBVIOUS
  <2>2. QED
    BY <2>1 DEF F!Compared
<1>3. e \in S
  OBVIOUS
<1>4. ASSUME NEW d \in 1 .. N, NEW s \in S PROVE Round(s, d) \in S
  <2> DEFINE j == k + d
             x == F!Exchange(loc, s, k, j)
  <2>1. j \in 1 .. n /\ k # j /\ PairsIn(s, n)
    BY DEF PairsIn
  <2> HIDE DEF j
  <2>2. x = Swapped(s, n, k, j) \/ x = s
    BY <2>1, ExchangeKeeps
  <2>3. Swapped(s, n, k, j) \in S
    BY <2>1 DEF Swapped
  <2>4. QED
    BY <2>2, <2>3 DEF j
<1> HIDE DEF N, S, Round
<1>5. g \in [(1 .. N) \X S -> S] /\ \A d \in 1 .. N, s \in S : g[<<d, s>>] = Round(s, d)
  BY <1>4
<1> HIDE DEF g
<1>6. PICK f \in [0 .. N -> S] : Recursive(f, N, e, g)
  BY <1>1, <1>3, <1>5, RecursionExists
<1>7. f = K(f)
  <2>1. ASSUME NEW d \in 0 .. N PROVE f[d] = K(f)[d]
    <3>1. CASE d = 0
      BY <1>6, <3>1 DEF Recursive
    <3>2. CASE d # 0
      <4>1. d \in 1 .. N /\ d - 1 \in 0 .. N
        BY <1>1, <3>2
      <4>2. f[d] = Round(f[d - 1], d)
        BY <1>5, <1>6, <4>1 DEF Recursive
      <4>3. QED
        BY <3>2, <4>2
    <3>3. QED
      BY <3>1, <3>2
  <2>2. QED
    BY <1>6, <2>1
<1>8. ASSUME NEW h PROVE /\ K(h)[0] = e /\ \A d \in 1 .. N : K(h)[d] = Round(h[d - 1], d)
                         /\ K(h) = [d \in 0 .. N |-> K(h)[d]]
  BY <1>1
<1> HIDE DEF K
<1>9. Turn = K(Turn)
  BY <1>7
<1> HIDE DEF Turn
<1>10. Turn[0] = e /\ (\A d \in 1 .. N : Turn[d] = Round(Turn[d - 1], d)) /\ Turn = [d \in 0 .. N |-> Turn[d]]
  BY <1>8, <1>9
<1>11. \A d \in 0 .. N : Turn[d] \in S
  <2>1. Turn[0] \in S /\ \A d \in 1 .. N : Turn[d - 1] \in S => Turn[d] \in S
    BY <1>3, <1>4, <1>10
  <2>2. QED
    BY <1>1, <2>1, RecursionKeeps
<1>12. Turn \in [0 .. N -> S]
  BY <1>10, <1>11
<1>13. QED
  BY <1>2, <1>10, <1>12 DEF N, S, Round, ComparedBy

\* The pairs with the number that comes first in front.
Turned(loc, dup) ==
    [i \in 1 .. Len(dup) |-> IF loc[dup[i][1]] > loc[dup[i][2]]
                             THEN <<dup[i][2], dup[i][1]>> ELSE dup[i]]

\* The turns of the outer loop.
SortedBy(row, n, loc, dup) ==
    /\ row[0] = Turned(loc, dup)
    /\ \A k \in 1 .. n : row[k] = F!Compared(loc, row[k - 1], k)
    /\ F!SortedPairs(loc, dup) = row[n]

\* The outer loop.  What holds of a pair and the same pair turned round holds of
\* all sorted pairs.
LEMMA SortedRows ==
    ASSUME NEW n \in Nat, NEW Q, NEW dup \in [1 .. n -> Q \X Q], NEW loc,
           NEW P \in SUBSET (Q \X Q),
           \A i \in 1 .. n : dup[i] \in P /\ <<dup[i][2], dup[i][1]>> \in P
    PROVE  \E row \in [0 .. n -> [1 .. n -> P]] : SortedBy(row, n, loc, dup)
<1> DEFINE N == n
           S == [1 .. n -> P]
           start == Turned(loc, dup)
           Round(s, k) == F!Compared(loc, s, k)
           K(h) == [k \in 0 .. N |-> IF k = 0 THEN start ELSE Round(h[k - 1], k)]
           Rows == CHOOSE h : h = K(h)
           g == [x \in (1 .. N) \X S |-> Round(x[2], x[1])]
<1>1. Len(dup) = n
  OBVIOUS
<1>2. F!SortedPairs(loc, dup) = Rows[N]
  BY <1>1 DEF F!SortedPairs, Turned
<1>3. start \in S
  BY <1>1 DEF Turned
<1>4. ASSUME NEW k \in 1 .. N, NEW s \in S PROVE Round(s, k) \in S
  <2>1. s \in [1 .. n -> Q \X Q] /\ \A i \in 1 .. n : s[i] \in P
    OBVIOUS
  <2>2. PICK turn \in [0 .. n - k -> [1 .. n -> P]] : ComparedBy(turn, n, loc, s, k)
    BY <2>1, ComparedTurns
  <2>3. n - k \in 0 .. n - k
    OBVIOUS
  <2>4. QED
    BY <2>2, <2>3 DEF ComparedBy
<1> HIDE DEF S, Round, start
<1>5. g \in [(1 .. N) \X S -> S] /\ \A d \in 1 .. N, s \in S : g[<<d, s>>] = Round(s, d)
  BY <1>4
<1> HIDE DEF g
<1>6. PICK f \in [0 .. N -> S] : Recursive(f, N, start, g)
  BY <1>3, <1>5, RecursionExists
<1>7. f = K(f)
  <2>1. ASSUME NEW d \in 0 .. N PROVE f[d] = K(f)[d]
    <3>1. CASE d = 0
      BY <1>6, <3>1 DEF Recursive
    <3>2. CASE d # 0
      <4>1. d \in 1 .. N /\ d - 1 \in 0 .. N
        BY <3>2
      <4>2. f[d] = Round(f[d - 1], d)
        BY <1>5, <1>6, <4>1 DEF Recursive
      <4>3. QED
        BY <3>2, <4>2
    <3>3. QED
      BY <3>1, <3>2
  <2>2. QED
    BY <1>6, <2>1
<1>8. ASSUME NEW h PROVE /\ K(h)[0] = start /\ \A d \in 1 .. N : K(h)[d] = Round(h[d - 1], d)
                         /\ K(h) = [d \in 0 .. N |-> K(h)[d]]
  OBVIOUS
<1> HIDE DEF K
<1>9. Rows = K(Rows)
  BY <1>7
<1> HIDE DEF Rows
<1>10. Rows[0] = start /\ (\A d \in 1 .. N : Rows[d] = Round(Rows[d - 1], d)) /\ Rows = [d \in 0 .. N |-> Rows[d]]
  BY <1>8, <1>9
<1>11. \A d \in 0 .. N : Rows[d] \in S
  <2>1. Rows[0] \in S /\ \A d \in 1 .. N : Rows[d - 1] \in S => Rows[d] \in S
    BY <1>3, <1>4, <1>10
  <2>2. QED
    BY <2>1, RecursionKeeps
<1>12. Rows \in [0 .. N -> S]
  BY <1>10, <1>11
<1>13. QED
  BY <1>2, <1>10, <1>12 DEF S, Round, start, SortedBy

\* Number 0 stays the number of no blob, the others stay numbers of their kind.
Indexes(pc, kind) ==
    {x \in [0 .. pc -> 0 .. pc] :
        x[0] = 0 /\ \A k \in 1 .. pc : x[k] \in 1 .. pc /\ kind[x[k]] = kind[k]}

\* Pairs of numbers of one kind.
Alike(pc, kind) == {d \in (1 .. pc) \X (1 .. pc) : kind[d[1]] = kind[d[2]]}

\* A join of two pairs of one kind keeps the kind of every number.
LEMMA JoinKeeps ==
    ASSUME NEW n \in Nat, NEW pc \in Nat, NEW kind, NEW dup \in [1 .. n -> Alike(pc, kind)],
           NEW x \in Indexes(pc, kind), NEW k \in 1 .. n, NEW j \in 1 .. n
    PROVE  F!Join(dup, x, k, j) \in Indexes(pc, kind)
<1>10. \A i \in 1 .. n : dup[i] \in (1 .. pc) \X (1 .. pc) /\ kind[dup[i][1]] = kind[dup[i][2]]
  BY DEF Alike
<1>1. PICK a \in 1 .. pc, b \in 1 .. pc : dup[k] = <<a, b>> /\ kind[a] = kind[b]
  <2> DEFINE D == dup[k]
  <2>3. D \in (1 .. pc) \X (1 .. pc)
    BY <1>10
  <2> HIDE DEF D
  <2>4. PICK a \in 1 .. pc, b \in 1 .. pc : D = <<a, b>>
    BY <2>3
  <2>1. dup[k] = <<a, b>>
    BY <2>4 DEF D
  <2>2. QED
    BY <1>10, <2>1
<1>2. PICK c \in 1 .. pc, d \in 1 .. pc : dup[j] = <<c, d>> /\ kind[c] = kind[d]
  <2> DEFINE D == dup[j]
  <2>3. D \in (1 .. pc) \X (1 .. pc)
    BY <1>10
  <2> HIDE DEF D
  <2>4. PICK c \in 1 .. pc, d \in 1 .. pc : D = <<c, d>>
    BY <2>3
  <2>1. dup[j] = <<c, d>>
    BY <2>4 DEF D
  <2>2. QED
    BY <1>10, <2>1
<1>3. x \in [0 .. pc -> 0 .. pc] /\ x[0] = 0 /\ \A i \in 1 .. pc : x[i] \in 1 .. pc /\ kind[x[i]] = kind[i]
  BY DEF Indexes
<1>4. F!Join(dup, x, k, j) = IF b \in {c, d} THEN [x EXCEPT ![c] = x[a], ![d] = x[a]] ELSE x
  BY <1>1, <1>2 DEF F!Join
<1>5. CASE b \in {c, d}
  <2> DEFINE y == [x EXCEPT ![c] = x[a], ![d] = x[a]]
  <2>1. y \in [0 .. pc -> 0 .. pc] /\ y[0] = 0
    <3>1. x[a] \in 0 .. pc /\ c \in 0 .. pc /\ d \in 0 .. pc /\ c # 0 /\ d # 0 /\ 0 \in 0 .. pc
      BY <1>3
    <3>2. QED
      BY <1>3, <3>1
  <2>2. \A i \in 1 .. pc : y[i] = IF i \in {c, d} THEN x[a] ELSE x[i]
    BY <1>3
  <2>3. kind[x[a]] = kind[c] /\ kind[x[a]] = kind[d] /\ x[a] \in 1 .. pc
    BY <1>1, <1>2, <1>3, <1>5
  <2> HIDE DEF y
  <2>4. \A i \in 1 .. pc : y[i] \in 1 .. pc /\ kind[y[i]] = kind[i]
    BY <1>3, <2>2, <2>3
  <2>5. QED
    BY <1>4, <1>5, <2>1, <2>4 DEF Indexes, y
<1>6. CASE b \notin {c, d}
  BY <1>4, <1>6
<1>7. QED
  BY <1>5, <1>6

\* The turns of the inner loop that joins.
JoinedBy(turn, n, dup, x, k) ==
    /\ turn[0] = x
    /\ \A d \in 1 .. n - k + 1 : turn[d] = F!Join(dup, turn[d - 1], k, k + d - 1)
    /\ F!JoinedWith(dup, x, k) = turn[n - k + 1]

\* They keep the kind of a number.
LEMMA JoinedTurns ==
    ASSUME NEW n \in Nat, NEW pc \in Nat, NEW kind, NEW dup \in [1 .. n -> Alike(pc, kind)],
           NEW x \in Indexes(pc, kind), NEW k \in 1 .. n
    PROVE  \E turn \in [0 .. n - k + 1 -> Indexes(pc, kind)] : JoinedBy(turn, n, dup, x, k)
<1> DEFINE N == n - k + 1
           S == Indexes(pc, kind)
           Round(s, d) == F!Join(dup, s, k, k + d - 1)
           K(h) == [d \in 0 .. N |-> IF d = 0 THEN x ELSE Round(h[d - 1], d)]
           Turn == CHOOSE h : h = K(h)
           g == [y \in (1 .. N) \X S |-> Round(y[2], y[1])]
<1>1. N \in Nat
  OBVIOUS
<1>2. F!JoinedWith(dup, x, k) = Turn[N]
  <2>1. Len(dup) = n
    OBVIOUS
  <2>2. QED
    BY <2>1 DEF F!JoinedWith
<1>3. x \in S
  OBVIOUS
<1>4. ASSUME NEW d \in 1 .. N, NEW s \in S PROVE Round(s, d) \in S
  <2>1. k + d - 1 \in 1 .. n
    OBVIOUS
  <2>2. QED
    BY <2>1, JoinKeeps
<1> HIDE DEF N, S, Round
<1>5. g \in [(1 .. N) \X S -> S] /\ \A d \in 1 .. N, s \in S : g[<<d, s>>] = Round(s, d)
  BY <1>4
<1> HIDE DEF g
<1>6. PICK f \in [0 .. N -> S] : Recursive(f, N, x, g)
  BY <1>1, <1>3, <1>5, RecursionExists
<1>7. f = K(f)
  <2>1. ASSUME NEW d \in 0 .. N PROVE f[d] = K(f)[d]
    <3>1. CASE d = 0
      BY <1>6, <3>1 DEF Recursive
    <3>2. CASE d # 0
      <4>1. d \in 1 .. N /\ d - 1 \in 0 .. N
        BY <1>1, <3>2
      <4>2. f[d] = Round(f[d - 1], d)
        BY <1>5, <1>6, <4>1 DEF Recursive
      <4>3. QED
        BY <3>2, <4>2
    <3>3. QED
      BY <3>1, <3>2
  <2>2. QED
    BY <1>6, <2>1
<1>8. ASSUME NEW h PROVE /\ K(h)[0] = x /\ \A d \in 1 .. N : K(h)[d] = Round(h[d - 1], d)
                         /\ K(h) = [d \in 0 .. N |-> K(h)[d]]
  BY <1>1
<1> HIDE DEF K
<1>9. Turn = K(Turn)
  BY <1>7
<1> HIDE DEF Turn
<1>10. Turn[0] = x /\ (\A d \in 1 .. N : Turn[d] = Round(Turn[d - 1], d)) /\ Turn = [d \in 0 .. N |-> Turn[d]]
  BY <1>8, <1>9
<1>11. \A d \in 0 .. N : Turn[d] \in S
  <2>1. Turn[0] \in S /\ \A d \in 1 .. N : Turn[d - 1] \in S => Turn[d] \in S
    BY <1>3, <1>4, <1>10
  <2>2. QED
    BY <1>1, <2>1, RecursionKeeps
<1>12. Turn \in [0 .. N -> S]
  BY <1>10, <1>11
<1>13. QED
  BY <1>2, <1>10, <1>12 DEF N, S, Round, JoinedBy

\* The turns of the outer one.
RowsJoined(row, n, pc, dup) ==
    /\ row[0] = [l \in 0 .. pc |-> l]
    /\ \A k \in 1 .. n : row[k] = F!JoinedWith(dup, row[k - 1], k)
    /\ F!Joined(pc, dup) = row[n]

\* They do, too.
LEMMA JoinedRows ==
    ASSUME NEW n \in Nat, NEW pc \in Nat, NEW kind, NEW dup \in [1 .. n -> Alike(pc, kind)]
    PROVE  \E row \in [0 .. n -> Indexes(pc, kind)] : RowsJoined(row, n, pc, dup)
<1> DEFINE N == n
           S == Indexes(pc, kind)
           start == [l \in 0 .. pc |-> l]
           Round(s, k) == F!JoinedWith(dup, s, k)
           K(h) == [k \in 0 .. N |-> IF k = 0 THEN start ELSE Round(h[k - 1], k)]
           Rows == CHOOSE h : h = K(h)
           g == [x \in (1 .. N) \X S |-> Round(x[2], x[1])]
<1>1. Len(dup) = n
  OBVIOUS
<1>2. F!Joined(pc, dup) = Rows[N]
  BY <1>1 DEF F!Joined
<1>3. start \in S
  BY DEF Indexes
<1>4. ASSUME NEW k \in 1 .. N, NEW s \in S PROVE Round(s, k) \in S
  <2>1. PICK turn \in [0 .. n - k + 1 -> Indexes(pc, kind)] : JoinedBy(turn, n, dup, s, k)
    BY JoinedTurns
  <2>2. n - k + 1 \in 0 .. n - k + 1
    OBVIOUS
  <2>3. QED
    BY <2>1, <2>2 DEF JoinedBy
<1> HIDE DEF S, Round, start
<1>5. g \in [(1 .. N) \X S -> S] /\ \A d \in 1 .. N, s \in S : g[<<d, s>>] = Round(s, d)
  BY <1>4
<1> HIDE DEF g
<1>6. PICK f \in [0 .. N -> S] : Recursive(f, N, start, g)
  BY <1>3, <1>5, RecursionExists
<1>7. f = K(f)
  <2>1. ASSUME NEW d \in 0 .. N PROVE f[d] = K(f)[d]
    <3>1. CASE d = 0
      BY <1>6, <3>1 DEF Recursive
    <3>2. CASE d # 0
      <4>1. d \in 1 .. N /\ d - 1 \in 0 .. N
        BY <3>2
      <4>2. f[d] = Round(f[d - 1], d)
        BY <1>5, <1>6, <4>1 DEF Recursive
      <4>3. QED
        BY <3>2, <4>2
    <3>3. QED
      BY <3>1, <3>2
  <2>2. QED
    BY <1>6, <2>1
<1>8. ASSUME NEW h PROVE /\ K(h)[0] = start /\ \A d \in 1 .. N : K(h)[d] = Round(h[d - 1], d)
                         /\ K(h) = [d \in 0 .. N |-> K(h)[d]]
  OBVIOUS
<1> HIDE DEF K
<1>9. Rows = K(Rows)
  BY <1>7
<1> HIDE DEF Rows
<1>10. Rows[0] = start /\ (\A d \in 1 .. N : Rows[d] = Round(Rows[d - 1], d)) /\ Rows = [d \in 0 .. N |-> Rows[d]]
  BY <1>8, <1>9
<1>11. \A d \in 0 .. N : Rows[d] \in S
  <2>1. Rows[0] \in S /\ \A d \in 1 .. N : Rows[d - 1] \in S => Rows[d] \in S
    BY <1>3, <1>4, <1>10
  <2>2. QED
    BY <2>1, RecursionKeeps
<1>12. Rows \in [0 .. N -> S]
  BY <1>10, <1>11
<1>13. QED
  BY <1>2, <1>10, <1>12 DEF S, Round, start, RowsJoined

-----------------------------------------------------------------------------
(* At most two pairs: the numbers of each become one. *)

\* Every number has a place of its own.
PlacesDiffer(loc, pc) ==
    /\ \A k \in 1 .. pc : loc[k] \in Int
    /\ \A k, l \in 1 .. pc : loc[k] = loc[l] => k = l

\* What the sort leaves of at most two pairs: the number that comes first is in
\* front, the pair with the first number is in front, and no pair is lost.
FewSortedPairs(n, loc, dup, s) ==
    /\ \A i \in 1 .. n : loc[s[i][1]] <= loc[s[i][2]]
    /\ n = 2 => loc[s[1][1]] <= loc[s[2][1]]
    /\ \A d \in 1 .. n : \E e \in 1 .. n : Pair(s[e], dup[d][1], dup[d][2])

\* The sort does.
LEMMA FewSorted ==
    ASSUME NEW n \in 0 .. 2, NEW pc \in Nat, NEW dup \in [1 .. n -> (1 .. pc) \X (1 .. pc)],
           NEW loc, PlacesDiffer(loc, pc)
    PROVE  FewSortedPairs(n, loc, dup, F!SortedPairs(loc, dup))
<1> DEFINE Q == 1 .. pc
           s == F!SortedPairs(loc, dup)
           o == Turned(loc, dup)
<1>1. PICK row \in [0 .. n -> [1 .. n -> Q \X Q]] : SortedBy(row, n, loc, dup)
  <2>1. \A i \in 1 .. n : dup[i] \in Q \X Q /\ <<dup[i][2], dup[i][1]>> \in Q \X Q
    OBVIOUS
  <2>2. n \in Nat
    OBVIOUS
  <2> DEFINE P == Q \X Q
  <2>3. P \in SUBSET (Q \X Q) /\ (\A i \in 1 .. n : dup[i] \in P /\ <<dup[i][2], dup[i][1]>> \in P)
    BY <2>1
  <2>4. \E row \in [0 .. n -> [1 .. n -> P]] : SortedBy(row, n, loc, dup)
    <3> HIDE DEF P
    <3>1. QED
      BY <2>2, <2>3, SortedRows
  <2>5. QED
    BY <2>4
<1>2. /\ row[0] = o /\ s = row[n] /\ \A k \in 1 .. n : row[k] = F!Compared(loc, row[k - 1], k)
      /\ n \in Nat /\ \A k \in 0 .. n : row[k] \in [1 .. n -> Q \X Q]
  <2>1. row[0] = o /\ s = row[n] /\ \A k \in 1 .. n : row[k] = F!Compared(loc, row[k - 1], k)
    BY <1>1 DEF SortedBy
  <2> DEFINE Lists == [1 .. n -> Q \X Q]
  <2>2. row \in [0 .. n -> Lists] /\ n \in Nat
    OBVIOUS
  <2> HIDE DEF Lists
  <2>3. \A k \in 0 .. n : row[k] \in Lists
    BY <2>2
  <2>4. \A k \in 0 .. n : row[k] \in [1 .. n -> Q \X Q]
    BY <2>3 DEF Lists
  <2>5. QED
    BY <2>1, <2>2, <2>4
<1>3. ASSUME NEW i \in 1 .. n
      PROVE  loc[o[i][1]] <= loc[o[i][2]] /\ Pair(o[i], dup[i][1], dup[i][2])
  <2>1. PICK a \in Q, b \in Q : dup[i] = <<a, b>>
    <3> DEFINE D == dup[i]
    <3>1. D \in Q \X Q
      OBVIOUS
    <3> HIDE DEF D
    <3>2. PICK a \in Q, b \in Q : D = <<a, b>>
      BY <3>1
    <3>3. QED
      BY <3>2 DEF D
  <2>2. o[i] = IF loc[a] > loc[b] THEN <<b, a>> ELSE <<a, b>>
    <3>1. Len(dup) = n /\ dup[i][1] = a /\ dup[i][2] = b
      BY <2>1
    <3>2. o[i] = IF loc[dup[i][1]] > loc[dup[i][2]] THEN <<dup[i][2], dup[i][1]>> ELSE dup[i]
      BY <3>1 DEF Turned
    <3>3. QED
      BY <2>1, <3>1, <3>2
  <2>3. loc[a] \in Int /\ loc[b] \in Int
    BY DEF PlacesDiffer
  <2> HIDE DEF o
  <2>4. QED
    BY <2>1, <2>2, <2>3 DEF Pair
<1>4. o \in [1 .. n -> Q \X Q]
  <2>1. 0 \in 0 .. n
    BY <1>2
  <2>2. QED
    BY <1>2, <2>1
<1>5. ASSUME NEW k \in 1 .. n PROVE \E turn : ComparedBy(turn, n, loc, row[k - 1], k)
  <2>1. row[k - 1] \in [1 .. n -> Q \X Q]
    <3>1. k - 1 \in 0 .. n
      BY <1>2
    <3>2. QED
      BY <1>2, <3>1
  <2> DEFINE P == Q \X Q
             e == row[k - 1]
  <2>2. P \in SUBSET (Q \X Q) /\ (\A i \in 1 .. n : e[i] \in P) /\ e \in [1 .. n -> Q \X Q]
    BY <2>1
  <2> HIDE DEF P, e
  <2>3. \E turn \in [0 .. n - k -> [1 .. n -> P]] : ComparedBy(turn, n, loc, e, k)
    BY <1>2, <2>2, ComparedTurns
  <2>4. QED
    BY <2>3 DEF e
<1> HIDE DEF s, o, Q
<1>6. row[n] = IF n = 2 THEN F!Exchange(loc, o, 1, 2) ELSE o
  <2>1. CASE n = 0
    BY <1>2, <2>1
  <2>2. ASSUME n >= 1 PROVE F!Compared(loc, row[n - 1], n) = row[n - 1] /\ row[n] = row[n - 1]
    <3>1. PICK turn : ComparedBy(turn, n, loc, row[n - 1], n)
      BY <1>5, <2>2
    <3>2. n - n = 0 /\ n \in 1 .. n
      BY <1>2, <2>2
    <3>3. QED
      BY <1>2, <3>1, <3>2 DEF ComparedBy
  <2>3. CASE n = 1
    BY <1>2, <2>2, <2>3
  <2>4. CASE n = 2
    <3>1. PICK turn : ComparedBy(turn, n, loc, row[0], 1)
      <4>1. 1 \in 1 .. n /\ 1 - 1 = 0
        BY <2>4
      <4>2. QED
        BY <1>5, <4>1
    <3>2. turn[0] = o /\ turn[1] = F!Exchange(loc, turn[0], 1, 2) /\ F!Compared(loc, o, 1) = turn[1]
      BY <1>2, <2>4, <3>1 DEF ComparedBy
    <3>3. row[1] = F!Compared(loc, row[0], 1)
      BY <1>2, <2>4
    <3>4. row[2] = row[1]
      BY <2>2, <2>4
    <3>5. QED
      BY <1>2, <2>4, <3>2, <3>3, <3>4
  <2>5. QED
    BY <2>1, <2>3, <2>4
<1>7. CASE n # 2
  <2>1. s = o
    BY <1>2, <1>6, <1>7
  <2>2. QED
    BY <1>3, <1>7, <2>1 DEF FewSortedPairs, s
<1>8. CASE n = 2
  <2> DEFINE c == Later(loc, o, 1, 2)
  <2>1. s = IF c THEN Swapped(o, n, 1, 2) ELSE o
    <3>1. PairsIn(o, n)
      BY <1>4 DEF PairsIn
    <3>2. 1 \in 1 .. n /\ 2 \in 1 .. n
      BY <1>8
    <3>3. s = F!Exchange(loc, o, 1, 2)
      BY <1>2, <1>6, <1>8
    <3>4. F!Exchange(loc, o, 1, 2) = IF Later(loc, o, 1, 2) THEN Swapped(o, n, 1, 2) ELSE o
      <4>1. n \in Nat /\ 1 # 2
        BY <1>2
      <4>2. QED
        BY <3>1, <3>2, <4>1, ExchangeSwaps
    <3>5. QED
      BY <3>3, <3>4
  <2>2. /\ loc[o[1][1]] \in Int /\ loc[o[2][1]] \in Int
        /\ loc[o[1][1]] <= loc[o[1][2]] /\ loc[o[2][1]] <= loc[o[2][2]]
        /\ Pair(o[1], dup[1][1], dup[1][2]) /\ Pair(o[2], dup[2][1], dup[2][2])
    BY <1>3, <1>4, <1>8 DEF Q, PlacesDiffer
  <2>3. CASE c
    <3>1. s[1] = o[2] /\ s[2] = o[1]
      BY <1>8, <2>1, <2>3 DEF Swapped
    <3>2. loc[o[2][1]] <= loc[o[1][1]]
      BY <2>2, <2>3 DEF Later
    <3>3. \A i \in 1 .. n : i = 1 \/ i = 2
      BY <1>8
    <3>4. (\A i \in 1 .. n : loc[s[i][1]] <= loc[s[i][2]]) /\ loc[s[1][1]] <= loc[s[2][1]]
      BY <2>2, <3>1, <3>2, <3>3
    <3>5. 1 \in 1 .. n /\ 2 \in 1 .. n /\ Pair(s[2], dup[1][1], dup[1][2]) /\ Pair(s[1], dup[2][1], dup[2][2])
      BY <1>8, <2>2, <3>1
    <3>6. \A d \in 1 .. n : \E e \in 1 .. n : Pair(s[e], dup[d][1], dup[d][2])
      BY <3>3, <3>5
    <3>7. QED
      BY <3>4, <3>6 DEF FewSortedPairs, s
  <2>4. CASE ~ c
    <3>1. s = o
      BY <2>1, <2>4
    <3>2. loc[o[1][1]] <= loc[o[2][1]]
      BY <2>2, <2>4 DEF Later
    <3>3. QED
      BY <1>3, <3>1, <3>2 DEF FewSortedPairs, s
  <2>5. QED
    BY <2>3, <2>4
<1>9. QED
  BY <1>7, <1>8

\* A join of two pairs given by their numbers.
JoinOf(x, a, b, c, d) == IF b \in {c, d} THEN [x EXCEPT ![c] = x[a], ![d] = x[a]] ELSE x

\* The joins of one pair, and of two.
LEMMA JoinsOfTwo ==
    ASSUME NEW pc \in Nat, NEW a \in 1 .. pc, NEW b \in 1 .. pc, NEW c \in 1 .. pc, NEW d \in 1 .. pc,
           NEW loc, PlacesDiffer(loc, pc),
           loc[c] <= loc[d], loc[a] <= loc[c]
    PROVE  LET id == [l \in 0 .. pc |-> l]
               x1 == JoinOf(id, a, b, a, b)
               x2 == JoinOf(x1, a, b, c, d)
               x3 == JoinOf(x2, c, d, c, d)
           IN  x1[a] = x1[b] /\ x3[a] = x3[b] /\ x3[c] = x3[d]
<1> DEFINE id == [l \in 0 .. pc |-> l]
           x1 == JoinOf(id, a, b, a, b)
           x2 == JoinOf(x1, a, b, c, d)
           x3 == JoinOf(x2, c, d, c, d)
<1>1. \A y \in {a, b, c, d} : y \in 0 .. pc
  OBVIOUS
<1>2. DOMAIN x1 = 0 .. pc /\ \A y \in 0 .. pc : x1[y] = IF y \in {a, b} THEN a ELSE y
  BY <1>1 DEF JoinOf
<1> HIDE DEF x1
<1>3. x1[a] = a /\ x1[b] = a
  BY <1>1, <1>2
<1>4. DOMAIN x2 = 0 .. pc
      /\ \A y \in 0 .. pc : x2[y] = IF b \in {c, d} /\ y \in {c, d} THEN a ELSE x1[y]
  BY <1>1, <1>2, <1>3 DEF JoinOf
<1> HIDE DEF x2
<1>5. \A y \in 0 .. pc : x3[y] = IF y \in {c, d} THEN x2[c] ELSE x2[y]
  BY <1>1, <1>4 DEF JoinOf
<1> HIDE DEF x3
<1>6. x3[c] = x3[d] /\ x3[c] = x2[c]
  BY <1>1, <1>5
<1>7. x3[a] = x3[b]
  <2>1. CASE b \in {c, d}
    <3>1. x2[c] = a /\ x2[a] = a /\ x2[b] = a
      BY <1>1, <1>3, <1>4, <2>1
    <3>2. QED
      BY <1>1, <1>5, <3>1
  <2>2. CASE b \notin {c, d}
    <3>1. x2[c] = x1[c] /\ x2[a] = a /\ x2[b] = a
      BY <1>1, <1>3, <1>4, <2>2
    <3>2. x3[b] = a
      BY <1>1, <1>5, <2>2, <3>1
    <3>3. a = d => a = c
      <4>1. loc[a] \in Int /\ loc[c] \in Int /\ loc[d] \in Int
        BY DEF PlacesDiffer
      <4>2. a = d => loc[a] = loc[c]
        BY <4>1
      <4>3. QED
        BY <4>2 DEF PlacesDiffer
    <3>4. x3[a] = a
      BY <1>1, <1>3, <1>5, <3>1, <3>3
    <3>5. QED
      BY <3>2, <3>4
  <2>3. QED
    BY <2>1, <2>2
<1>8. QED
  BY <1>3, <1>6, <1>7 DEF x1, x2, x3

\* The loops that join do the same to a sorted list of at most two pairs.
LEMMA FewJoined ==
    ASSUME NEW n \in 0 .. 2, NEW pc \in Nat, NEW dup \in [1 .. n -> (1 .. pc) \X (1 .. pc)],
           NEW loc, PlacesDiffer(loc, pc),
           NEW s \in [1 .. n -> (1 .. pc) \X (1 .. pc)], FewSortedPairs(n, loc, dup, s)
    PROVE  LET x == F!Joined(pc, s) IN \A d \in 1 .. n : x[dup[d][1]] = x[dup[d][2]]
<1> DEFINE x == F!Joined(pc, s)
           kind == [k \in 1 .. pc |-> 0]
           id == [l \in 0 .. pc |-> l]
<1>1. n \in Nat /\ s \in [1 .. n -> Alike(pc, kind)]
  <2>1. \A i \in 1 .. n : s[i] \in Alike(pc, kind)
    BY DEF Alike
  <2>2. QED
    BY <2>1
<1> HIDE DEF kind
<1>2. PICK row \in [0 .. n -> Indexes(pc, kind)] : RowsJoined(row, n, pc, s)
  BY <1>1, JoinedRows
<1>3. row[0] = id /\ x = row[n] /\ \A k \in 1 .. n : row[k] = F!JoinedWith(s, row[k - 1], k)
  BY <1>2 DEF RowsJoined
<1>4. ASSUME NEW k \in 1 .. n PROVE \E turn : JoinedBy(turn, n, s, row[k - 1], k)
  <2> DEFINE y == row[k - 1]
  <2>1. y \in Indexes(pc, kind)
    BY <1>1, <1>2
  <2> HIDE DEF y
  <2>2. \E turn \in [0 .. n - k + 1 -> Indexes(pc, kind)] : JoinedBy(turn, n, s, y, k)
    BY <1>1, <2>1, JoinedTurns
  <2>3. QED
    BY <2>2 DEF y
<1>5. ASSUME NEW y, NEW k \in 1 .. n, NEW j \in 1 .. n
      PROVE  F!Join(s, y, k, j) = JoinOf(y, s[k][1], s[k][2], s[j][1], s[j][2])
  BY DEF F!Join, JoinOf
<1> HIDE DEF x, id
<1>6. ASSUME n >= 1
      PROVE  row[n] = JoinOf(row[n - 1], s[n][1], s[n][2], s[n][1], s[n][2])
  <2>1. n \in 1 .. n /\ n - n + 1 = 1 /\ n + 1 - 1 = n
    BY <1>6
  <2>2. PICK turn : JoinedBy(turn, n, s, row[n - 1], n)
    BY <1>4, <2>1
  <2>3. turn[0] = row[n - 1] /\ turn[1] = F!Join(s, turn[0], n, n) /\ F!JoinedWith(s, row[n - 1], n) = turn[1]
    <3>1. \A d \in 1 .. n - n + 1 : turn[d] = F!Join(s, turn[d - 1], n, n + d - 1)
      BY <2>2 DEF JoinedBy
    <3>2. turn[1] = F!Join(s, turn[1 - 1], n, n + 1 - 1)
      BY <2>1, <3>1
    <3>3. QED
      BY <2>1, <2>2, <3>2 DEF JoinedBy
  <2>4. QED
    BY <1>3, <1>5, <2>1, <2>3
<1>7. \A i \in 1 .. n : s[i][1] \in 1 .. pc /\ s[i][2] \in 1 .. pc
  OBVIOUS
<1>8. \A i \in 1 .. n : x[s[i][1]] = x[s[i][2]]
  <2>1. CASE n = 0
    BY <2>1
  <2>2. CASE n = 1
    <3> DEFINE a == s[1][1]
               b == s[1][2]
    <3>1. x = JoinOf(id, a, b, a, b)
      BY <1>3, <1>6, <2>2
    <3>2. a \in 1 .. pc /\ b \in 1 .. pc
      BY <1>7, <2>2
    <3> HIDE DEF a, b
    <3>3. x[a] = x[b]
      BY <3>1, <3>2 DEF JoinOf, id
    <3>4. QED
      BY <2>2, <3>3 DEF a, b
  <2>3. CASE n = 2
    <3> DEFINE a == s[1][1]
               b == s[1][2]
               c == s[2][1]
               d == s[2][2]
    <3>1. x = JoinOf(row[1], c, d, c, d)
      BY <1>3, <1>6, <2>3
    <3>2. row[1] = JoinOf(JoinOf(id, a, b, a, b), a, b, c, d)
      <4>1. PICK turn : JoinedBy(turn, n, s, row[1 - 1], 1)
        BY <1>4, <2>3
      <4>2. \A e \in 1 .. 2 : turn[e] = F!Join(s, turn[e - 1], 1, 1 + e - 1)
        BY <2>3, <4>1 DEF JoinedBy
      <4>3. turn[1] = F!Join(s, turn[1 - 1], 1, 1 + 1 - 1) /\ turn[2] = F!Join(s, turn[2 - 1], 1, 1 + 2 - 1)
        BY <4>2
      <4>4. turn[1] = F!Join(s, turn[0], 1, 1) /\ turn[2] = F!Join(s, turn[1], 1, 2)
        BY <4>3
      <4>5. turn[0] = id
        BY <1>3, <4>1 DEF JoinedBy
      <4>6. row[1] = turn[2]
        <5>1. F!JoinedWith(s, row[1 - 1], 1) = turn[2]
          BY <2>3, <4>1 DEF JoinedBy
        <5>2. QED
          BY <1>3, <2>3, <5>1
      <4>7. turn[1] = JoinOf(turn[0], a, b, a, b) /\ turn[2] = JoinOf(turn[1], a, b, c, d)
        BY <1>5, <2>3, <4>4
      <4>8. QED
        BY <4>5, <4>6, <4>7
    <3>3. a \in 1 .. pc /\ b \in 1 .. pc /\ c \in 1 .. pc /\ d \in 1 .. pc
      BY <1>7, <2>3
    <3>4. loc[c] <= loc[d] /\ loc[a] <= loc[c]
      BY <2>3 DEF FewSortedPairs
    <3> HIDE DEF a, b, c, d
    <3>5. x[a] = x[b] /\ x[c] = x[d]
      <4> DEFINE x1 == JoinOf(id, a, b, a, b)
                 x2 == JoinOf(x1, a, b, c, d)
                 x3 == JoinOf(x2, c, d, c, d)
      <4>1. x1[a] = x1[b] /\ x3[a] = x3[b] /\ x3[c] = x3[d]
        BY <3>3, <3>4, JoinsOfTwo DEF id
      <4>2. QED
        BY <3>1, <3>2, <4>1
    <3>6. \A i \in 1 .. n : i = 1 \/ i = 2
      BY <2>3
    <3>7. QED
      BY <3>5, <3>6 DEF a, b, c, d
  <2>4. QED
    BY <2>1, <2>2, <2>3
<1>9. ASSUME NEW d \in 1 .. n PROVE x[dup[d][1]] = x[dup[d][2]]
  <2>1. PICK e \in 1 .. n : Pair(s[e], dup[d][1], dup[d][2])
    BY DEF FewSortedPairs
  <2>2. x[s[e][1]] = x[s[e][2]]
    BY <1>8
  <2>3. QED
    BY <2>1, <2>2 DEF Pair
<1>10. QED
  BY <1>9 DEF x

\* Of at most two pairs, the numbers of each become one.
LEMMA TwoPairsJoined ==
    ASSUME NEW n \in 0 .. 2, NEW pc \in Nat, NEW dup \in [1 .. n -> (1 .. pc) \X (1 .. pc)],
           NEW loc, PlacesDiffer(loc, pc)
    PROVE  LET x == F!Joined(pc, F!SortedPairs(loc, dup)) IN
           \A d \in 1 .. n : x[dup[d][1]] = x[dup[d][2]]
<1> DEFINE s == F!SortedPairs(loc, dup)
           Q == 1 .. pc
           P == Q \X Q
<1>1. FewSortedPairs(n, loc, dup, s)
  BY FewSorted
<1>2. s \in [1 .. n -> P]
  <2>1. n \in Nat /\ P \in SUBSET (Q \X Q) /\ dup \in [1 .. n -> Q \X Q]
        /\ \A i \in 1 .. n : dup[i] \in P /\ <<dup[i][2], dup[i][1]>> \in P
    OBVIOUS
  <2> HIDE DEF P, Q
  <2>2. PICK row \in [0 .. n -> [1 .. n -> P]] : SortedBy(row, n, loc, dup)
    BY <2>1, SortedRows
  <2>3. n \in 0 .. n
    BY <2>1
  <2>4. QED
    BY <2>2, <2>3 DEF SortedBy
<1> HIDE DEF s
<1>3. LET x == F!Joined(pc, s) IN \A d \in 1 .. n : x[dup[d][1]] = x[dup[d][2]]
  BY <1>1, <1>2, FewJoined DEF P, Q
<1>4. QED
  BY <1>3 DEF s

-----------------------------------------------------------------------------
(* All of pfind. *)

\* The numbers that are left become 1, 2, ... without a gap, and stay apart.
LEMMA RenumberedFull ==
    ASSUME NEW pc \in Nat, NEW x \in [0 .. pc -> 0 .. pc], x[0] = 0,
           \A k \in 1 .. pc : x[k] \in 1 .. pc
    PROVE  LET new == F!Renumbered(x) IN
           /\ new[0] = 0
           /\ {new[k] : k \in 1 .. pc} = 1 .. F!Cardinality({new[k] : k \in 1 .. pc})
           /\ \A k, l \in 1 .. pc : new[k] = new[l] <=> x[k] = x[l]
<1> DEFINE V == {x[l] : l \in 1 .. pc}
           rank(v) == Cardinality(V \cap 1 .. v)
           new == F!Renumbered(x)
<1>1. ASSUME NEW k \in 0 .. pc PROVE new[k] = rank(x[k])
  <2>1. {x[l] : l \in 0 .. pc} \cap 1 .. x[k] = V \cap 1 .. x[k]
    <3>1. ASSUME NEW l \in 0 .. pc, x[l] \in 1 .. x[k] PROVE x[l] \in V
      <4>1. x[l] # 0
        BY <3>1
      <4>2. l \in 1 .. pc
        BY <4>1
      <4>3. QED
        BY <4>2
    <3>2. QED
      BY <3>1
  <2>2. new[k] = F!Cardinality({x[l] : l \in 0 .. pc} \cap 1 .. x[k])
    BY DEF F!Renumbered
  <2> HIDE DEF new, V
  <2>3. QED
    BY <2>1, <2>2, SameCardinality
<1>2. new[0] = 0
  <2>1. V \cap 1 .. 0 = {} /\ 0 \in 0 .. pc
    OBVIOUS
  <2> HIDE DEF new
  <2>2. new[0] = Cardinality({})
    BY <1>1, <2>1
  <2>3. QED
    BY <2>2, FS_EmptySet
<1>3. V \in SUBSET (1 .. pc)
  OBVIOUS
<1>4. \A k \in 1 .. pc : x[k] \in V
  OBVIOUS
<1>5. {new[k] : k \in 1 .. pc} = {rank(v) : v \in V}
  <2>1. \A k \in 1 .. pc : new[k] = rank(x[k])
    <3> HIDE DEF new, rank
    <3>1. QED
      BY <1>1
  <2> HIDE DEF new, rank
  <2>2. QED
    BY <2>1
<1> HIDE DEF V
<1>6. {rank(v) : v \in V} = 1 .. Cardinality(V) /\ \A v, w \in V : rank(v) = rank(w) => v = w
  BY <1>3, RanksAreFull
<1>7. IsFiniteSet(V) /\ Cardinality(V) \in Nat
  <2>1. IsFiniteSet(1 .. pc)
    BY FS_Interval
  <2>2. QED
    BY <1>3, <2>1, FS_Subset, FS_CardinalityType
<1> HIDE DEF new, rank
<1>8. F!Cardinality({new[k] : k \in 1 .. pc}) = Cardinality(V)
  <2> DEFINE m == Cardinality(V)
  <2>1. m \in Nat /\ {new[k] : k \in 1 .. pc} = 1 .. m
    BY <1>5, <1>6, <1>7
  <2> HIDE DEF m
  <2>2. Cardinality(1 .. m) = m
    <3>1. 1 \in Int /\ m \in Int
      BY <2>1
    <3>2. Cardinality(1 .. m) = IF 1 > m THEN 0 ELSE m - 1 + 1
      BY <3>1, FS_Interval
    <3>3. QED
      BY <2>1, <3>2
  <2>3. QED
    BY <2>1, <2>2, SameCardinality DEF m
<1>9. \A k, l \in 1 .. pc : new[k] = new[l] <=> x[k] = x[l]
  <2>1. \A k \in 1 .. pc : new[k] = rank(x[k]) /\ x[k] \in V
    BY <1>1, <1>4
  <2>2. QED
    BY <1>6, <2>1
<1>10. QED
  BY <1>2, <1>5, <1>6, <1>8, <1>9 DEF new

\* Where every pixel has the label of those its number is taken from, and the
\* labels that meet at a pixel are one.
LabelsMeet(img, e) ==
    \A q \in img.on : ~ Alone(img, q) =>
       /\ \A r \in F!CopiesFrom(img, q) : e[q] = e[r]
       /\ F!Meets(img, q) => e[q] = e[F!BottomLeft(q)]

\* Then pixels beside each other have one label: pixels below each other
\* by induction over the columns.
LEMMA LabelsAgree ==
    ASSUME NEW img, BlobImage(img), NEW e, LabelsMeet(img, e)
    PROVE  \A p \in img.on : \A q \in F!Beside(p) \cap img.on : e[p] = e[q]
<1> DEFINE on == img.on
           Same(q, t) == q \in on /\ t \in on => e[q] = e[t]
           T0 == {j \in 0 .. img.nc : \A i \in Int : Same(<<i, j>>, <<i - 1, j>>)}
<1>1. on \subseteq Int \X Int /\ img.nc \in Nat
      /\ \A i, j \in Int : <<i, j>> \in on => j \in 0 .. img.nc - 1
  BY DEF BlobImage
<1>2. ASSUME NEW i \in Int, NEW j \in Int, <<i, j>> \in on, <<i, j - 1>> \in on
      PROVE  e[<<i, j>>] = e[<<i, j - 1>>]
  <2> DEFINE q == <<i, j>>
             l == <<i, j - 1>>
  <2>1. l = F!Left(q) /\ F!Left(q) \in F!Beside(q)
    BY DEF F!Left, F!Beside
  <2> HIDE DEF q, l
  <2>2. q \in on /\ l \in on
    BY <1>2 DEF q, l
  <2>3. l \in F!CopiesFrom(img, q) /\ ~ Alone(img, q)
    BY <2>1, <2>2 DEF F!CopiesFrom, Alone
  <2>4. e[q] = e[l]
    BY <2>2, <2>3 DEF LabelsMeet
  <2>5. QED
    BY <2>4 DEF q, l
<1>3. ASSUME NEW i \in Int, NEW j \in Int, \A k \in Int : Same(<<k, j - 1>>, <<k - 1, j - 1>>)
      PROVE  Same(<<i, j>>, <<i - 1, j>>)
  <2> DEFINE q == <<i, j>>
             t == <<i - 1, j>>
             l == <<i, j - 1>>
             m == <<i - 1, j - 1>>
             u == <<i - 2, j>>
  <2> SUFFICES ASSUME q \in on, t \in on PROVE e[q] = e[t]
    OBVIOUS
  <2>1. /\ F!Left(q) = l /\ F!Top(q) = t /\ F!Bottom(t) = q /\ F!BottomLeft(t) = l /\ F!Left(t) = m
        /\ F!Top(t) = u /\ t \in F!Beside(q) /\ q \in F!Beside(t)
    <3>1. i - 1 + 1 = i /\ i - 1 - 1 = i - 2
      OBVIOUS
    <3>2. QED
      BY <3>1 DEF F!Left, F!Top, F!Bottom, F!BottomLeft, F!Beside
  <2>2. ~ Alone(img, q) /\ ~ Alone(img, t)
    BY <2>1 DEF Alone
  <2>3. Same(l, m)
    BY <1>3
  <2>4. l \in on => e[q] = e[l]
    BY <1>2
  <2>5. m \in on => e[t] = e[m]
    <3>1. i - 1 \in Int
      OBVIOUS
    <3>2. QED
      BY <1>2, <3>1
  <2> HIDE DEF q, t, l, m, u
  <2>6. CASE l \notin on
    <3>1. t \in F!CopiesFrom(img, q)
      BY <2>1, <2>6 DEF F!CopiesFrom
    <3>2. QED
      BY <2>2, <3>1 DEF LabelsMeet
  <2>7. CASE l \in on /\ m \in on
    BY <2>3, <2>4, <2>5, <2>7
  <2>8. CASE l \in on /\ m \notin on /\ u \in on
    <3>1. F!Meets(img, t)
      BY <2>1, <2>8 DEF F!Meets
    <3>2. e[t] = e[l]
      BY <2>1, <2>2, <3>1 DEF LabelsMeet
    <3>3. QED
      BY <2>4, <2>8, <3>2
  <2>9. CASE l \in on /\ m \notin on /\ u \notin on
    <3>1. l \in F!CopiesFrom(img, t)
      BY <2>1, <2>9 DEF F!CopiesFrom
    <3>2. e[t] = e[l]
      BY <2>2, <3>1 DEF LabelsMeet
    <3>3. QED
      BY <2>4, <2>9, <3>2
  <2>10. QED
    BY <2>6, <2>7, <2>8, <2>9
<1>4. ASSUME NEW j \in Int, j < 0 PROVE \A k \in Int : Same(<<k, j>>, <<k - 1, j>>)
  BY <1>1, <1>4
<1> HIDE DEF Same
<1>5. 0 \in T0
  <2>1. \A k \in Int : Same(<<k, 0 - 1>>, <<k - 1, 0 - 1>>)
    BY <1>4
  <2>2. QED
    BY <1>1, <1>3, <2>1
<1>6. ASSUME NEW j \in 0 .. img.nc - 1, j \in T0 PROVE j + 1 \in T0
  <2>1. j + 1 - 1 = j /\ j + 1 \in 0 .. img.nc /\ j + 1 \in Int
    BY <1>1
  <2>2. \A k \in Int : Same(<<k, j + 1 - 1>>, <<k - 1, j + 1 - 1>>)
    BY <1>6, <2>1
  <2>3. QED
    BY <1>3, <2>1, <2>2
<1>7. \A j \in 0 .. img.nc : j \in T0
  <2> HIDE DEF T0
  <2>1. QED
    BY <1>1, <1>5, <1>6, InductionUpTo
<1>8. ASSUME NEW i \in Int, NEW j \in Int, <<i, j>> \in on, <<i - 1, j>> \in on
      PROVE  e[<<i, j>>] = e[<<i - 1, j>>]
  <2>1. j \in 0 .. img.nc
    BY <1>1, <1>8
  <2>2. QED
    BY <1>7, <1>8, <2>1 DEF Same
<1>9. ASSUME NEW p \in on, NEW q \in F!Beside(p) \cap on PROVE e[p] = e[q]
  <2>1. PICK i \in Int, j \in Int : p = <<i, j>>
    BY <1>1
  <2>2. q \in {<<i, j - 1>>, <<i, j + 1>>, <<i - 1, j>>, <<i + 1, j>>}
    BY <2>1 DEF F!Beside, F!Left, F!Right, F!Top, F!Bottom
  <2>3. i + 1 - 1 = i /\ j + 1 - 1 = j /\ i + 1 \in Int /\ j + 1 \in Int
    OBVIOUS
  <2>4. CASE q = <<i, j - 1>>
    BY <1>2, <2>1, <2>4
  <2>5. CASE q = <<i, j + 1>>
    <3>1. e[<<i, j + 1>>] = e[<<i, j + 1 - 1>>]
      BY <1>2, <2>1, <2>3, <2>5
    <3>2. QED
      BY <2>1, <2>3, <2>5, <3>1
  <2>6. CASE q = <<i - 1, j>>
    BY <1>8, <2>1, <2>6
  <2>7. CASE q = <<i + 1, j>>
    <3>1. e[<<i + 1, j>>] = e[<<i + 1 - 1, j>>]
      BY <1>8, <2>1, <2>3, <2>7
    <3>2. QED
      BY <2>1, <2>3, <2>7, <3>1
  <2>8. QED
    BY <2>2, <2>4, <2>5, <2>6, <2>7
<1>10. QED
  BY <1>9

\* The places of the numbers.
Locations(img, s) == [k \in 1 .. s.pc |-> F!binloc(img, s.out, k)]

\* Every number is somewhere, so each has a first place, and no two the same.
LEMMA LocationsDiffer ==
    ASSUME NEW img, BlobImage(img), NEW s, FirstInv(img, s, img.nr * img.nc)
    PROVE  PlacesDiffer(Locations(img, s), s.pc)
<1> DEFINE X == F!PixelsOf(img)
           At(q) == F!Place(img, q)
           loc == Locations(img, s)
           P(k) == {At(q) : q \in {p \in X : s.out[p] = k}}
           N == img.nr * img.nc
<1>1. (\A q \in X : At(q) \in 0 .. N - 1) /\ \A q \in X, r \in X : At(q) = At(r) => q = r
  BY PlacesMetInOrder
<1>2. \A k \in 1 .. s.pc : \E q \in X : s.out[q] = k
  BY DEF FirstInv
<1>3. \A k \in 1 .. s.pc : loc[k] = CHOOSE v \in P(k) : \A u \in P(k) : v <= u
  BY DEF Locations, F!binloc
<1> HIDE DEF X, At, loc, N
<1>4. ASSUME NEW k \in 1 .. s.pc
      PROVE  \E q \in X : s.out[q] = k /\ loc[k] = At(q)
  <2> DEFINE places == P(k)
  <2>1. places # {} /\ places \subseteq Nat
    BY <1>1, <1>2
  <2>2. loc[k] = CHOOSE v \in places : \A u \in places : v <= u
    BY <1>3
  <2> HIDE DEF places
  <2>3. loc[k] \in places
    BY <2>1, <2>2, LeastNumber
  <2>4. QED
    BY <2>3 DEF places
<1>5. \A k \in 1 .. s.pc : loc[k] \in Int
  BY <1>1, <1>4
<1>6. ASSUME NEW k \in 1 .. s.pc, NEW l \in 1 .. s.pc, loc[k] = loc[l] PROVE k = l
  <2>1. PICK q \in X : s.out[q] = k /\ loc[k] = At(q)
    BY <1>4
  <2>2. PICK r \in X : s.out[r] = l /\ loc[l] = At(r)
    BY <1>4
  <2>3. q = r
    BY <1>1, <1>6, <2>1, <2>2
  <2>4. QED
    BY <2>1, <2>2, <2>3
<1>7. QED
  BY <1>5, <1>6 DEF PlacesDiffer, loc

\* The blob a number was given to.
BlobOf(img, s) == [k \in 1 .. s.pc |-> F!Blob(CHOOSE q \in F!PixelsOf(img) : s.out[q] = k, img)]

\* What the first pass leaves, for the passes that follow.
LEMMA NumbersLeft ==
    ASSUME NEW img, BlobImage(img), NEW s, FirstInv(img, s, img.nr * img.nc)
    PROVE  LET X == F!PixelsOf(img)
               kind == BlobOf(img, s)
           IN  /\ s.pc \in Nat /\ Len(s.dup) \in Nat
               /\ \A p \in X : /\ s.out[p] \in 0 .. s.pc
                               /\ s.out[p] = 0 <=> Alone(img, p)
                               /\ s.out[p] > 0 => p \in img.on /\ kind[s.out[p]] = F!Blob(p, img)
               /\ \A k \in 1 .. s.pc : \E p \in X : s.out[p] = k
               /\ s.dup \in [1 .. Len(s.dup) -> Alike(s.pc, kind)]
<1> DEFINE X == F!PixelsOf(img)
           kind == BlobOf(img, s)
           C(p) == F!Blob(p, img)
           pix(k) == CHOOSE q \in X : s.out[q] = k
<1>1. s.pc \in Nat /\ s.dup \in Seq(Nat \X Nat) /\ s.out \in [X -> Nat]
  BY DEF FirstInv, Numbers
<1>2. \A p \in X : Numbered(img, s, p)
  <2>1. \A p \in X : F!Place(img, p) < img.nr * img.nc
    <3>1. \A p \in X : F!Place(img, p) \in 0 .. img.nr * img.nc - 1
      BY PlacesMetInOrder
    <3> DEFINE N == img.nr * img.nc
    <3>2. N \in Nat
      BY PlacesMetInOrder
    <3> HIDE DEF N
    <3>3. \A p \in X : F!Place(img, p) \in 0 .. N - 1
      BY <3>1 DEF N
    <3>4. \A p \in X : F!Place(img, p) < N
      BY <3>2, <3>3
    <3>5. QED
      BY <3>4 DEF N
  <2>2. QED
    BY <2>1 DEF FirstInv
<1>3. \A p \in X : s.out[p] \in 0 .. s.pc /\ (s.out[p] = 0 <=> Alone(img, p))
  BY <1>2 DEF Numbered
<1>4. \A k \in 1 .. s.pc : \E p \in X : s.out[p] = k
  BY DEF FirstInv
<1>5. \A p \in X, q \in X : s.out[p] > 0 /\ s.out[q] = s.out[p] => q \in C(p)
  BY DEF FirstInv, NumbersTogether
<1>6. \A d \in 1 .. Len(s.dup) :
          \E p \in X, q \in X :
             s.out[p] > 0 /\ s.out[q] > 0 /\ s.dup[d] = <<s.out[p], s.out[q]>> /\ q \in C(p)
  BY DEF FirstInv, NumbersTogether
<1>7. \A k \in 1 .. s.pc : kind[k] = C(pix(k))
  BY DEF BlobOf
<1>8. \A p \in img.on, q \in img.on : q \in C(p) => C(q) = C(p)
  BY BlobsPart
<1> HIDE DEF X, kind, C
<1>9. ASSUME NEW p \in X, s.out[p] > 0
      PROVE  p \in img.on /\ kind[s.out[p]] = C(p)
  <2>1. p \in img.on /\ s.out[p] \in 1 .. s.pc
    BY <1>1, <1>3, <1>9 DEF Alone
  <2> DEFINE r == pix(s.out[p])
  <2>2. r \in X /\ s.out[r] = s.out[p] /\ kind[s.out[p]] = C(r)
    BY <1>4, <1>7, <2>1
  <2> HIDE DEF r
  <2>3. r \in img.on
    BY <1>3, <1>9, <2>2 DEF Alone
  <2>4. r \in C(p)
    BY <1>5, <1>9, <2>2
  <2>5. QED
    BY <1>8, <2>1, <2>2, <2>3, <2>4
<1>10. ASSUME NEW d \in 1 .. Len(s.dup) PROVE s.dup[d] \in Alike(s.pc, kind)
  <2>1. PICK p \in X, q \in X :
             s.out[p] > 0 /\ s.out[q] > 0 /\ s.dup[d] = <<s.out[p], s.out[q]>> /\ q \in C(p)
    BY <1>6
  <2>2. p \in img.on /\ q \in img.on /\ kind[s.out[p]] = C(p) /\ kind[s.out[q]] = C(q)
    BY <1>9, <2>1
  <2>3. C(q) = C(p)
    BY <1>8, <2>1, <2>2
  <2>4. s.out[p] \in 1 .. s.pc /\ s.out[q] \in 1 .. s.pc
    BY <1>1, <1>3, <2>1
  <2>5. QED
    BY <2>1, <2>2, <2>3, <2>4 DEF Alike
<1>11. Len(s.dup) \in Nat /\ s.dup \in [1 .. Len(s.dup) -> Alike(s.pc, kind)]
  <2> DEFINE m == Len(s.dup)
             A == Alike(s.pc, kind)
             D == s.dup
  <2>1. m \in Nat /\ D = [d \in 1 .. m |-> D[d]] /\ \A d \in 1 .. m : D[d] \in A
    BY <1>1, <1>10
  <2> HIDE DEF m, A, D
  <2>2. m \in Nat /\ D \in [1 .. m -> A]
    BY <2>1
  <2>3. QED
    BY <2>2 DEF m, A, D
<1>12. QED
  BY <1>1, <1>3, <1>4, <1>9, <1>11 DEF X, kind, C

\* The labels of pfind: the new numbers.
LEMMA JoinedNumbers ==
    ASSUME NEW pc \in Nat, NEW kind, NEW n \in Nat, NEW dup \in [1 .. n -> Alike(pc, kind)],
           NEW loc, PlacesDiffer(loc, pc)
    PROVE  LET x == F!Joined(pc, F!SortedPairs(loc, dup)) IN
           /\ x \in Indexes(pc, kind)
           /\ n <= 2 => \A d \in 1 .. n : x[dup[d][1]] = x[dup[d][2]]
<1> DEFINE s == F!SortedPairs(loc, dup)
           x == F!Joined(pc, s)
           Q == 1 .. pc
           P == Alike(pc, kind)
<1>1. dup \in [1 .. n -> Q \X Q] /\ P \in SUBSET (Q \X Q)
      /\ \A i \in 1 .. n : dup[i] \in P /\ <<dup[i][2], dup[i][1]>> \in P
  <2>1. \A a, b : <<a, b>> \in P => a \in Q /\ b \in Q /\ <<b, a>> \in P
    BY DEF Alike
  <2>2. P \subseteq Q \X Q
    BY DEF Alike
  <2> HIDE DEF P, Q
  <2>3. ASSUME NEW i \in 1 .. n PROVE dup[i] \in P /\ <<dup[i][2], dup[i][1]>> \in P
    <3> DEFINE D == dup[i]
    <3>1. D \in P
      BY DEF P
    <3> HIDE DEF D
    <3>2. PICK a \in Q, b \in Q : D = <<a, b>>
      BY <2>2, <3>1
    <3>3. <<D[2], D[1]>> \in P
      BY <2>1, <3>1, <3>2
    <3>4. QED
      BY <3>1, <3>3 DEF D
  <2>4. dup \in [1 .. n -> Q \X Q]
    BY <2>2, <2>3 DEF P
  <2>5. QED
    BY <2>2, <2>3, <2>4
<1>2. s \in [1 .. n -> P]
  <2> HIDE DEF P, Q
  <2>1. PICK row \in [0 .. n -> [1 .. n -> P]] : SortedBy(row, n, loc, dup)
    BY <1>1, SortedRows
  <2>2. n \in 0 .. n
    OBVIOUS
  <2>3. QED
    BY <2>1, <2>2 DEF SortedBy
<1> HIDE DEF s
<1>3. x \in Indexes(pc, kind)
  <2>1. PICK row \in [0 .. n -> Indexes(pc, kind)] : RowsJoined(row, n, pc, s)
    BY <1>2, JoinedRows
  <2>2. n \in 0 .. n
    OBVIOUS
  <2>3. QED
    BY <2>1, <2>2 DEF RowsJoined
<1>4. ASSUME n <= 2 PROVE \A d \in 1 .. n : x[dup[d][1]] = x[dup[d][2]]
  <2>1. n \in 0 .. 2 /\ dup \in [1 .. n -> (1 .. pc) \X (1 .. pc)]
    BY <1>1, <1>4
  <2> HIDE DEF P, Q, x
  <2>2. LET y == F!Joined(pc, F!SortedPairs(loc, dup)) IN
        \A d \in 1 .. n : y[dup[d][1]] = y[dup[d][2]]
    BY <2>1, TwoPairsJoined
  <2>3. QED
    BY <2>2 DEF s, x
<1>5. QED
  BY <1>3, <1>4 DEF s

\* The labels of all images.
LEMMA PfindLabelsBlobs ==
    ASSUME NEW img, BlobImage(img)
    PROVE  F!BlobsLabelled(img, F!pfind(img))
<1> DEFINE X == F!PixelsOf(img)
           s == F!FirstPass(img)
           loc == Locations(img, s)
           x == F!Joined(s.pc, F!SortedPairs(loc, s.dup))
           new == F!Renumbered(x)
           kind == BlobOf(img, s)
           C(p) == F!Blob(p, img)
           n == Len(s.dup)
           res == F!pfind(img)
<1>1. /\ res.blob = [p \in X |-> new[s.out[p]]]
      /\ res.pcount = F!Cardinality({new[k] : k \in 1 .. s.pc})
      /\ res.pairs = n
  BY DEF F!pfind, Locations
<1>2. FirstInv(img, s, img.nr * img.nc)
  BY FirstPassNumbers
<1> HIDE DEF s, res
<1>3. /\ s.pc \in Nat /\ n \in Nat
      /\ \A p \in X : /\ s.out[p] \in 0 .. s.pc
                      /\ s.out[p] = 0 <=> Alone(img, p)
                      /\ s.out[p] > 0 => p \in img.on /\ kind[s.out[p]] = C(p)
      /\ \A k \in 1 .. s.pc : \E p \in X : s.out[p] = k
      /\ s.dup \in [1 .. n -> Alike(s.pc, kind)]
  BY <1>2, NumbersLeft
<1>4. PlacesDiffer(loc, s.pc)
  BY <1>2, LocationsDiffer
<1>5. ASSUME NEW q \in img.on, ~ Alone(img, q)
      PROVE  /\ \A r \in F!CopiesFrom(img, q) : s.out[q] = s.out[r] /\ r \in X
             /\ F!Meets(img, q) => /\ F!BottomLeft(q) \in X
                                   /\ \E d \in 1 .. n : Pair(s.dup[d], s.out[q], s.out[F!BottomLeft(q)])
  <2>1. q \in X /\ img.on \subseteq X
    BY BlobPixels
  <2>2. F!Place(img, q) < img.nr * img.nc
    <3> DEFINE N == img.nr * img.nc
    <3>1. N \in Nat /\ F!Place(img, q) \in 0 .. N - 1
      BY <2>1, PlacesMetInOrder
    <3> HIDE DEF N
    <3>2. F!Place(img, q) < N
      BY <3>1
    <3>3. QED
      BY <3>2 DEF N
  <2>3. Numbered(img, s, q)
    BY <1>2, <2>1, <2>2 DEF FirstInv
  <2>4. (\A r \in F!CopiesFrom(img, q) : r \in X)
        /\ (F!Meets(img, q) => F!BottomLeft(q) \in X)
    BY <2>1, CopiesHaveNumbers
  <2>5. QED
    BY <1>5, <2>3, <2>4 DEF Numbered
<1>6. x \in Indexes(s.pc, kind) /\ (n <= 2 => \A d \in 1 .. n : x[s.dup[d][1]] = x[s.dup[d][2]])
  <2> DEFINE pc == s.pc
             dup == s.dup
  <2>1. pc \in Nat /\ n \in Nat /\ dup \in [1 .. n -> Alike(pc, kind)] /\ PlacesDiffer(loc, pc)
    BY <1>3, <1>4
  <2> HIDE DEF pc, dup, loc, kind, n
  <2>2. LET y == F!Joined(pc, F!SortedPairs(loc, dup)) IN
        /\ y \in Indexes(pc, kind)
        /\ n <= 2 => \A d \in 1 .. n : y[dup[d][1]] = y[dup[d][2]]
    BY <2>1, JoinedNumbers
  <2>3. QED
    BY <2>2 DEF pc, dup
<1> HIDE DEF x
<1>7. x \in [0 .. s.pc -> 0 .. s.pc] /\ x[0] = 0
      /\ \A k \in 1 .. s.pc : x[k] \in 1 .. s.pc /\ kind[x[k]] = kind[k]
  BY <1>6 DEF Indexes
<1>8. /\ new[0] = 0
      /\ {new[k] : k \in 1 .. s.pc} = 1 .. res.pcount
      /\ \A k, l \in 1 .. s.pc : new[k] = new[l] <=> x[k] = x[l]
  <2> DEFINE pc == s.pc
  <2>1. pc \in Nat /\ x \in [0 .. pc -> 0 .. pc] /\ x[0] = 0 /\ \A k \in 1 .. pc : x[k] \in 1 .. pc
    BY <1>3, <1>7
  <2> HIDE DEF pc, new
  <2>2. LET z == F!Renumbered(x) IN
        /\ z[0] = 0
        /\ {z[k] : k \in 1 .. pc} = 1 .. F!Cardinality({z[k] : k \in 1 .. pc})
        /\ \A k, l \in 1 .. pc : z[k] = z[l] <=> x[k] = x[l]
    BY <2>1, RenumberedFull
  <2>3. QED
    BY <1>1, <2>2 DEF pc, new
<1>9. /\ \A p \in img.on, q \in img.on : q \in F!Beside(p) => q \in C(p)
      /\ \A p \in img.on : p \in C(p)
      /\ \A p \in img.on : F!Beside(p) \cap img.on = {} => C(p) = {p}
      /\ img.on \subseteq X
  BY BlobsPart, BlobPixels
<1>10. \A p \in img.on : p \notin F!Beside(p)
  BY BlobPixels DEF F!Beside, F!Left, F!Right, F!Top, F!Bottom
<1> HIDE DEF X, new, kind, C, n
<1>11. \A k \in 1 .. s.pc : new[k] \in 1 .. res.pcount
  BY <1>8
<1>12. \A p \in X : res.blob[p] = new[s.out[p]]
  BY <1>1
<1>13. ASSUME NEW p \in X
       PROVE  /\ res.blob[p] = 0 <=> s.out[p] = 0
              /\ res.blob[p] # 0 => res.blob[p] \in 1 .. res.pcount /\ s.out[p] \in 1 .. s.pc
  <2>1. CASE s.out[p] = 0
    BY <1>8, <1>12, <2>1
  <2>2. CASE s.out[p] # 0
    <3>1. s.out[p] \in 1 .. s.pc
      BY <1>3, <2>2
    <3>2. res.blob[p] \in 1 .. res.pcount
      BY <1>11, <1>12, <3>1
    <3>3. QED
      BY <2>2, <3>1, <3>2
  <2>3. QED
    BY <2>1, <2>2
<1>14. {res.blob[p] : p \in X} \ {0} = 1 .. res.pcount
  <2>1. ASSUME NEW v \in 1 .. res.pcount PROVE \E p \in X : res.blob[p] = v
    <3>1. PICK k \in 1 .. s.pc : new[k] = v
      BY <1>8
    <3>2. PICK p \in X : s.out[p] = k
      BY <1>3
    <3>3. QED
      BY <1>12, <3>1, <3>2
  <2>2. QED
    BY <1>13, <2>1
<1>15. ASSUME NEW p \in X, res.blob[p] > 0
       PROVE  p \in img.on /\ \A q \in X : res.blob[q] = res.blob[p] => q \in C(p)
  <2>1. s.out[p] \in 1 .. s.pc /\ p \in img.on /\ kind[s.out[p]] = C(p)
    BY <1>3, <1>13, <1>15
  <2>2. ASSUME NEW q \in X, res.blob[q] = res.blob[p] PROVE q \in C(p)
    <3>1. s.out[q] \in 1 .. s.pc /\ q \in img.on /\ kind[s.out[q]] = C(q)
      BY <1>3, <1>13, <1>15, <2>2
    <3>2. x[s.out[q]] = x[s.out[p]]
      BY <1>8, <1>12, <2>1, <2>2, <3>1
    <3>3. C(q) = C(p)
      BY <1>7, <2>1, <3>1, <3>2
    <3>4. QED
      BY <1>9, <3>1, <3>3
  <2>3. QED
    BY <2>1, <2>2
<1>16. ASSUME NEW p \in img.on PROVE res.blob[p] = 0 <=> C(p) = {p}
  <2>1. p \in X
    BY <1>9
  <2>2. res.blob[p] = 0 <=> F!Beside(p) \cap img.on = {}
    BY <1>3, <1>13, <2>1 DEF Alone
  <2>3. F!Beside(p) \cap img.on = {} <=> C(p) = {p}
    BY <1>9, <1>10
  <2>4. QED
    BY <2>2, <2>3
<1>17. ASSUME res.pairs <= 2 PROVE F!WholeBlobs(img, res)
  <2>1. \A d \in 1 .. n : x[s.dup[d][1]] = x[s.dup[d][2]]
    BY <1>1, <1>6, <1>17
  <2> DEFINE e == [p \in X |-> x[s.out[p]]]
  <2>2. \A p \in X : e[p] = x[s.out[p]]
    OBVIOUS
  <2> HIDE DEF e
  <2>3. LabelsMeet(img, e)
    <3>1. ASSUME NEW q \in img.on, ~ Alone(img, q) PROVE \A r \in F!CopiesFrom(img, q) : e[q] = e[r]
      BY <1>5, <1>9, <2>2, <3>1
    <3>2. ASSUME NEW q \in img.on, ~ Alone(img, q), F!Meets(img, q) PROVE e[q] = e[F!BottomLeft(q)]
      <4> DEFINE m == F!BottomLeft(q)
      <4>1. m \in X
        BY <1>5, <3>2
      <4>2. PICK d \in 1 .. n : Pair(s.dup[d], s.out[q], s.out[m])
        BY <1>5, <3>2
      <4>3. q \in X /\ e[q] = x[s.out[q]] /\ e[m] = x[s.out[m]]
        BY <1>9, <2>2, <4>1
      <4> HIDE DEF m
      <4>4. x[s.dup[d][1]] = x[s.dup[d][2]]
        BY <2>1
      <4>5. x[s.out[q]] = x[s.out[m]]
        BY <4>2, <4>4 DEF Pair
      <4>6. QED
        BY <4>3, <4>5 DEF m
    <3>3. QED
      BY <3>1, <3>2 DEF LabelsMeet
  <2>4. \A p \in img.on : \A q \in F!Beside(p) \cap img.on : e[p] = e[q]
    BY <2>3, LabelsAgree
  <2>5. ASSUME NEW p \in img.on, NEW q \in F!Beside(p) \cap img.on PROVE res.blob[p] = res.blob[q]
    <3>1. p \in X /\ q \in X /\ x[s.out[p]] = x[s.out[q]]
      BY <1>9, <2>2, <2>4
    <3>2. s.out[p] \in 0 .. s.pc /\ s.out[q] \in 0 .. s.pc
      BY <1>3, <3>1
    <3>3. q \in C(p) /\ p \in C(p) /\ C(p) # {p} /\ q # p
      BY <1>9, <1>10
    <3>4. p \in F!Beside(q)
      <4>1. Near4[p] = F!Beside(p) /\ Near4[q] = F!Beside(q)
        BY BlobPixels
      <4>2. QED
        BY <4>1, BlobPixels
    <3>5. s.out[p] # 0 /\ s.out[q] # 0
      BY <1>3, <3>1, <3>4 DEF Alone
    <3>6. new[s.out[p]] = new[s.out[q]]
      BY <1>3, <1>8, <3>1, <3>2, <3>5
    <3>7. QED
      BY <1>12, <3>1, <3>6
  <2>6. QED
    BY <2>5 DEF F!WholeBlobs
<1>18. /\ {res.blob[p] : p \in X} \ {0} = 1 .. res.pcount
       /\ \A p \in X : res.blob[p] > 0 =>
             p \in img.on /\ \A q \in X : res.blob[q] = res.blob[p] => q \in C(p)
       /\ \A p \in img.on : res.blob[p] = 0 <=> C(p) = {p}
       /\ res.pairs <= 2 => F!WholeBlobs(img, res)
  BY <1>14, <1>15, <1>16, <1>17
<1>19. F!BlobsLabelled(img, res)
  BY <1>18 DEF F!BlobsLabelled, X, C
<1>20. QED
  BY <1>19 DEF res

-----------------------------------------------------------------------------
(* The tasks: what is computed is computed from the input, and the buffer of *)
(* localmaxima stays one.                                                    *)

ProcessInv ==
    /\ output = [done |-> output.done, value |-> output.value]
    /\ unit = "combine" => /\ input \in Stacks
                           /\ output.done => output.value = T!Combined(input.mem, input.planes)
    /\ unit = "label" => /\ input \in ClusterImages
                         /\ output.done => output.value = L!Labelled(input)
    /\ unit = "blobs" => /\ input \in BlobImages
                         /\ output.done => output.value = F!pfind(input)
    /\ unit = "maxima" => /\ input \in MaximaImages
                          /\ output.value \in Buffers(DOMAIN OldBuffer.at)
                          /\ output.done => M!MaximaOfThisImage(input, output.value)
    /\ unit = "background" => /\ input \in Histograms
                              /\ output.done => output.value = B!approx_bg(input)
    /\ unit = "rings" => /\ input \in RingInputs
                         /\ output.done => output.value =
                               R!compute_histogram(input.c, input.min_r, input.min_r + input.more)
    /\ unit = "peaks" => /\ input \in Profiles
                         /\ output.done => output.value =
                               R!Highest(input, R!search_peaks(input, FitSize))

\* The buffer has room for every image.
LEMMA BufferServes ==
    ASSUME NEW img \in MaximaImages, NEW buffer \in Buffers(DOMAIN OldBuffer.at)
    PROVE  /\ M!Listed(img, buffer) \in Buffers(DOMAIN OldBuffer.at)
           /\ M!MaximaOfThisImage(img, M!Listed(img, buffer))
<1>1. Image(img) /\ 1 .. (img.w - 2) * (img.h - 2) \subseteq DOMAIN OldBuffer.at
  BY InputsAssumption DEF Image
<1>2. QED
  BY <1>1, MaximaListed

\* No input has been processed yet.
LEMMA ProcessStarts == Init => ProcessInv
<1> SUFFICES ASSUME Init PROVE ProcessInv
  OBVIOUS
<1>1. OldBuffer \in Buffers(DOMAIN OldBuffer.at)
  BY InputsAssumption DEF Buffers
<1>2. ~ output.done /\ output = [done |-> output.done, value |-> output.value]
  BY DEF Init
<1>3. unit = "maxima" => output.value = OldBuffer
  BY DEF Init
<1>4. QED
  BY <1>1, <1>2, <1>3 DEF Init, ProcessInv

\* Processing one input and waiting keep the invariant.
LEMMA ProcessGoesOn == ProcessInv /\ [Next]_vars => ProcessInv'
<1> SUFFICES ASSUME ProcessInv, [Next]_vars PROVE ProcessInv'
  OBVIOUS
<1> DEFINE Out(v) == output' = [done |-> TRUE, value |-> v] /\ output'.done /\ output'.value = v
                        /\ unit' = unit /\ input' = input
<1>1. CASE Combine
  <2>1. unit = "combine" /\ Out(T!Combined(input.mem, input.planes))
    BY <1>1 DEF Combine, Computes
  <2>2. QED
    BY <2>1 DEF ProcessInv
<1>2. CASE Label
  <2>1. unit = "label" /\ Out(L!Labelled(input))
    BY <1>2 DEF Label, Computes
  <2>2. QED
    BY <2>1 DEF ProcessInv
<1>3. CASE ListMaxima
  <2>1. unit = "maxima" /\ Out(M!Listed(input, output.value))
    BY <1>3 DEF ListMaxima, Computes
  <2>2. input \in MaximaImages /\ output.value \in Buffers(DOMAIN OldBuffer.at)
    BY <2>1 DEF ProcessInv
  <2>3. /\ M!Listed(input, output.value) \in Buffers(DOMAIN OldBuffer.at)
        /\ M!MaximaOfThisImage(input, M!Listed(input, output.value))
    BY <2>2, BufferServes
  <2>4. M!MaximaOfThisImage(input, output.value)'
    BY <2>1, <2>3
  <2>5. QED
    BY <2>1, <2>2, <2>3, <2>4 DEF ProcessInv
<1>4. CASE Number
  <2>1. unit = "blobs" /\ Out(F!pfind(input))
    BY <1>4 DEF Number, Computes
  <2>2. QED
    BY <2>1 DEF ProcessInv
<1>5. CASE Estimate
  <2>1. unit = "background" /\ Out(B!approx_bg(input))
    BY <1>5 DEF Estimate, Computes
  <2>2. QED
    BY <2>1 DEF ProcessInv
<1>6. CASE ReadRings
  <2>1. unit = "rings" /\ Out(R!compute_histogram(input.c, input.min_r, input.min_r + input.more))
    BY <1>6 DEF ReadRings, Computes
  <2>2. QED
    BY <2>1 DEF ProcessInv
<1>7. CASE FindPeak
  <2>1. unit = "peaks" /\ Out(R!Highest(input, R!search_peaks(input, FitSize)))
    BY <1>7 DEF FindPeak, Computes
  <2>2. QED
    BY <2>1 DEF ProcessInv
<1>8. CASE NextImage
  <2>1. unit = "maxima" /\ unit' = unit /\ input' \in MaximaImages /\ output' = [output EXCEPT !.done = FALSE]
    BY <1>8 DEF NextImage
  <2>2. ~ output'.done /\ output'.value = output.value /\ output' = [done |-> output'.done, value |-> output'.value]
    BY <2>1 DEF ProcessInv
  <2>3. QED
    BY <2>1, <2>2 DEF ProcessInv
<1>9. CASE Stopped \/ UNCHANGED vars
  BY <1>9 DEF Stopped, vars, ProcessInv
<1>10. QED
  BY <1>1, <1>2, <1>3, <1>4, <1>5, <1>6, <1>7, <1>8, <1>9 DEF Next

\* So the invariant holds of every state.
LEMMA ProcessAlways == Spec => []ProcessInv
BY ProcessStarts, ProcessGoesOn, PTL DEF Spec

\* combine-test: plane i of the output is what plane i has in common with one
\* beside it, for every number and size of the planes (src_hough/ufo-combine-
\* test-task.c).
THEOREM StacksCombined == Spec => []CombineExact
<1>1. ProcessInv => CombineExact
  <2> SUFFICES ASSUME ProcessInv, unit = "combine", output.done
               PROVE  T!CombineExact(input.mem, input.planes, output.value)
    BY DEF CombineExact, Done
  <2>1. input.planes \in Nat \ {0, 1} /\ output.value = T!Combined(input.mem, input.planes)
    BY InputsAssumption DEF ProcessInv
  <2>2. QED
    BY <2>1, PlanesCombined
<1>2. QED
  BY <1>1, ProcessAlways, PTL

\* label-cluster: for every image that is not wider than high, and any bounds on
\* the size and shape of a cluster, the recursive fill labels whole clusters, and
\* what the rectangles of rejected clusters blot out never makes two of one or
\* one of two (src_hough/ufo-label-cluster-task.c 96-164, 243-274).
THEOREM ClustersAreSound == Spec => []LabelsSound
<1>1. ProcessInv => LabelsSound
  <2> SUFFICES ASSUME ProcessInv, unit = "label", output.done PROVE L!LabelsSound(input, output.value)
    BY DEF LabelsSound, Done
  <2>1. input \in ClusterImages /\ output.value = L!Labelled(input)
    BY DEF ProcessInv
  <2>2. ClusterImage(input)
    BY <2>1, InputsAssumption DEF ClusterImage
  <2>3. QED
    BY <2>1, <2>2, LabelledIsSound
<1>2. QED
  BY <1>1, ProcessAlways, PTL

\* filter-particle: for every image, a number is only given to pixels that hang
\* together, the numbers have no gap, only a pixel on its own gets none, and as
\* long as at most two pairs of numbers met, pixels beside each other have the
\* same (src_ordfilt/ufo-filter-particle-task.c 200-432).
THEOREM BlobsAreLabelled == Spec => []BlobsLabelled
<1>1. ProcessInv => BlobsLabelled
  <2> SUFFICES ASSUME ProcessInv, unit = "blobs", output.done PROVE F!BlobsLabelled(input, output.value)
    BY DEF BlobsLabelled, Done
  <2>1. input \in BlobImages /\ output.value = F!pfind(input)
    BY DEF ProcessInv
  <2>2. BlobImage(input)
    BY <2>1, InputsAssumption DEF BlobImage
  <2>3. QED
    BY <2>1, <2>2, PfindLabelsBlobs
<1>2. QED
  BY <1>1, ProcessAlways, PTL

\* localmaxima: for every image that its buffer has room for, also the second
\* one, the list is that of the image at hand (lines 155-218).
THEOREM ListIsOfThisImage == Spec => []MaximaOfThisImage
<1>1. ProcessInv => MaximaOfThisImage
  BY DEF ProcessInv, MaximaOfThisImage, Done
<1>2. QED
  BY <1>1, ProcessAlways, PTL

\* piv-contrast: only a background of one value is without a result, for every
\* histogram and number of rounds (approx_bg 170-198).
THEOREM BackgroundIsNumber == Spec => []BackgroundDefined
<1>1. ProcessInv => BackgroundDefined
  <2> SUFFICES ASSUME ProcessInv, unit = "background", output.done
               PROVE  B!BackgroundDefined(input, output.value)
    BY DEF BackgroundDefined, Done
  <2>1. input \in [0 .. Levels - 1 -> Nat] /\ output.value = B!approx_bg(input)
        /\ Levels \in Nat /\ Rounds \in Nat
    BY InputsAssumption DEF ProcessInv
  <2>2. QED
    BY <2>1, BackgroundFound
<1>2. QED
  BY <1>1, ProcessAlways, PTL

\* azimuthal-test and multi-search mean the same pixels by a ring, but for the
\* corners and edges RingsExact names, for every centre, radius and image size.
THEOREM RingsAreExact == Spec => []RingsExact
<1>1. ProcessInv => RingsExact
  <2> SUFFICES ASSUME ProcessInv, unit = "rings", output.done
               PROVE  R!RingsExact(input.c, input.min_r, input.min_r + input.more, output.value)
    BY DEF RingsExact, Done
  <2>1. /\ input.c \in Int \X Int /\ input.min_r \in Nat \ {0} /\ input.more \in Nat
        /\ output.value = R!compute_histogram(input.c, input.min_r, input.min_r + input.more)
        /\ ImageWidth \in Nat /\ ImageHeight \in Nat
    BY InputsAssumption DEF ProcessInv
  <2>2. QED
    BY <2>1, RingsFollowDistance
<1>2. QED
  BY <1>1, ProcessAlways, PTL

\* azimuthal-test finds the first of the highest peaks, for histograms of any
\* length (search_peaks 189-206, gaussian_thread 315-340).
THEOREM PeakIsHighest == Spec => []PeaksFound
<1>1. ProcessInv => PeaksFound
  <2> SUFFICES ASSUME ProcessInv, unit = "peaks", output.done PROVE R!PeaksFound(input, output.value)
    BY DEF PeaksFound, Done
  <2>1. /\ input \in [0 .. HistLen - 1 -> Nat]
        /\ output.value = R!Highest(input, R!search_peaks(input, FitSize))
        /\ FitSize = 5 /\ HistLen \in Nat /\ HistLen > FitSize
    BY InputsAssumption DEF ProcessInv
  <2>2. QED
    BY <2>1, BestPeakFound
<1>2. QED
  BY <1>1, ProcessAlways, PTL

-----------------------------------------------------------------------------
(* The objects a task holds. *)

Field == [set : BOOLEAN, refs : Nat, lent : BOOLEAN, overdrawn : BOOLEAN, null : BOOLEAN]
Holdings(objects) == [objects -> Field]

Owned(f) == f.set => f.refs > 0
There(f) == f.set /\ (f.refs > 0 \/ f.lent)
SameFaults(f, e) == f.overdrawn = e.overdrawn /\ f.null = e.null

Fetching  == {"take", "borrow", "create"}
Gathering == Fetching \cup {"clear"}

\* Steps of these kinds that are always done, each about an object of its own.
Gathers(steps, kinds) ==
    /\ \A k \in 1 .. Len(steps) :
          steps[k].do \in kinds /\ steps[k].on = {} /\ steps[k].off = {}
    /\ \A k, l \in 1 .. Len(steps) : steps[k].object = steps[l].object => k = l

\* What a list of steps is about, and what it borrows.
About(steps)    == {steps[k].object : k \in 1 .. Len(steps)}
Borrowed(steps) == {steps[k].object : k \in {i \in 1 .. Len(steps) : steps[i].do = "borrow"}}

\* Releases of objects that setup has taken or created, each if its pointer is
\* set, and each once.
Returns(steps, setup) ==
    /\ \A k \in 1 .. Len(steps) :
          /\ steps[k].do = "release" /\ steps[k].on = {steps[k].object} /\ steps[k].off = {}
          /\ steps[k].object \in About(setup) \ Borrowed(setup)
    /\ \A k, l \in 1 .. Len(steps) : steps[k].object = steps[l].object => k = l

IsList(steps) == Len(steps) \in Nat /\ DOMAIN steps = 1 .. Len(steps)

\* What setup, get_requisition and finalize of the tasks have in common.
TameRow(t, row) ==
    /\ IsList(row.setup) /\ IsList(row.requisition) /\ IsList(row.finalize)
    /\ t \notin {"hough_likelihood", "hough_likelihood_image"} =>
          Gathers(row.setup, IF t = "fftconvolution" THEN Gathering ELSE Fetching)
    /\ t # "fftconvolution" => row.requisition = <<>> /\ Returns(row.finalize, row.setup)

LEMMA SetupRows ==
    ASSUME NEW t \in DOMAIN Tasks
    PROVE  TameRow(t, Tasks[t])
<1>1. t \in {"ring_pattern", "piv_contrast", "complex_mult", "hough_likelihood",
             "hough_likelihood_image", "candidate_filter", "azimuthal_test", "ring_writer",
             "of_ring_pattern", "contrast", "ordfilt", "filter_particle",
             "concatenate_result", "get_dup_circ", "multi_search", "localmaxima",
             "local_maxima", "label_cluster", "combine_test", "blob_test", "brightness_cut",
             "hessian_kernel", "hessian_analysis", "fftconvolution", "sum", "log",
             "bilateral", "device_info"}
  BY DEF Tasks
<1>2. ASSUME Tasks[t].requisition = <<>>, t # "fftconvolution",
             IsList(Tasks[t].setup), IsList(Tasks[t].finalize),
             t \notin {"hough_likelihood", "hough_likelihood_image"} => Gathers(Tasks[t].setup, Fetching),
             Returns(Tasks[t].finalize, Tasks[t].setup)
      PROVE  TameRow(t, Tasks[t])
  BY <1>2 DEF TameRow, IsList
<1>3. CASE t = "piv_contrast"
  <2>1. Tasks[t].setup = PivContrastSetup /\ Tasks[t].finalize = PivContrastFinalize
          /\ Tasks[t].requisition = <<>>
    BY <1>3 DEF Tasks, Row, RowOnDemand
  <2>2. Gathers(PivContrastSetup, Fetching) /\ IsList(PivContrastSetup) /\ IsList(PivContrastFinalize)
    BY DEF Gathers, Fetching, IsList, PivContrastSetup, PivContrastFinalize, Take, Release, ReleaseIf,
           GiveBack, Always
  <2>3. Returns(PivContrastFinalize, PivContrastSetup)
    BY DEF Returns, About, Borrowed, PivContrastSetup, PivContrastFinalize, Take, Release, ReleaseIf,
           GiveBack, Always
  <2>4. QED
    BY <1>2, <1>3, <2>1, <2>2, <2>3
<1>4. CASE t = "hough_likelihood"
  <2>1. Tasks[t].setup = HoughLikelihoodSetup /\ Tasks[t].finalize = HoughLikelihoodFinalize
          /\ Tasks[t].requisition = <<>>
    BY <1>4 DEF Tasks, Row, RowOnDemand
  <2>2. IsList(HoughLikelihoodSetup) /\ IsList(HoughLikelihoodFinalize)
    BY DEF IsList, HoughLikelihoodSetup, HoughLikelihoodFinalize
  <2>3. About(HoughLikelihoodSetup) \ Borrowed(HoughLikelihoodSetup)
          = {"context", "kernel", "mask_mem", "count_mem"}
    BY DEF About, Borrowed, HoughLikelihoodSetup, Take, Create, Release, ReleaseIf, GiveBack, Always
  <2>4. Returns(HoughLikelihoodFinalize, HoughLikelihoodSetup)
    BY <2>3 DEF Returns, HoughLikelihoodFinalize, Release, ReleaseIf, GiveBack, Always
  <2>5. QED
    BY <1>2, <1>4, <2>1, <2>2, <2>4
<1>5. CASE t = "candidate_filter"
  <2>1. Tasks[t].setup = CandidateFilterSetup /\ Tasks[t].finalize = CandidateFilterFinalize
          /\ Tasks[t].requisition = <<>>
    BY <1>5 DEF Tasks, Row, RowOnDemand
  <2>2. Gathers(CandidateFilterSetup, Fetching) /\ IsList(CandidateFilterSetup) /\ IsList(CandidateFilterFinalize)
    BY DEF Gathers, Fetching, IsList, CandidateFilterSetup, CandidateFilterFinalize, Take, Borrow,
           Release, ReleaseIf, GiveBack, Always
  <2>3. Returns(CandidateFilterFinalize, CandidateFilterSetup)
    BY DEF Returns, About, Borrowed, CandidateFilterSetup, CandidateFilterFinalize, Take, Borrow,
           Release, ReleaseIf, GiveBack, Always
  <2>4. QED
    BY <1>2, <1>5, <2>1, <2>2, <2>3
<1>6. CASE t = "ring_writer"
  <2>1. Tasks[t].setup = RingWriterSetup /\ Tasks[t].finalize = RingWriterFinalize
          /\ Tasks[t].requisition = <<>>
    BY <1>6 DEF Tasks, Row, RowOnDemand
  <2>2. Gathers(RingWriterSetup, Fetching) /\ IsList(RingWriterSetup) /\ IsList(RingWriterFinalize)
    BY DEF Gathers, Fetching, IsList, RingWriterSetup, RingWriterFinalize, Create, Release, ReleaseIf,
           GiveBack, Always
  <2>3. Returns(RingWriterFinalize, RingWriterSetup)
    BY DEF Returns, About, Borrowed, RingWriterSetup, RingWriterFinalize, Create, Release, ReleaseIf,
           GiveBack, Always
  <2>4. QED
    BY <1>2, <1>6, <2>1, <2>2, <2>3
<1>7. CASE t = "local_maxima"
  <2>1. Tasks[t].setup = LocalMaximaSetup /\ Tasks[t].finalize = LocalMaximaFinalize
          /\ Tasks[t].requisition = <<>>
    BY <1>7 DEF Tasks, Row, RowOnDemand
  <2>2. Gathers(LocalMaximaSetup, Fetching) /\ IsList(LocalMaximaSetup) /\ IsList(LocalMaximaFinalize)
    BY DEF Gathers, Fetching, IsList, LocalMaximaSetup, LocalMaximaFinalize, Take, Release, ReleaseIf,
           GiveBack, Always
  <2>3. Returns(LocalMaximaFinalize, LocalMaximaSetup)
    BY DEF Returns, About, Borrowed, LocalMaximaSetup, LocalMaximaFinalize, Take, Release, ReleaseIf,
           GiveBack, Always
  <2>4. QED
    BY <1>2, <1>7, <2>1, <2>2, <2>3
<1>8. CASE t = "hessian_analysis"
  <2>1. Tasks[t].setup = HessianAnalysisSetup /\ Tasks[t].finalize = HessianAnalysisFinalize
          /\ Tasks[t].requisition = <<>>
    BY <1>8 DEF Tasks, Row, RowOnDemand
  <2>2. Gathers(HessianAnalysisSetup, Fetching) /\ IsList(HessianAnalysisSetup) /\ IsList(HessianAnalysisFinalize)
    BY DEF Gathers, Fetching, IsList, HessianAnalysisSetup, HessianAnalysisFinalize, Take, Release,
           ReleaseIf, GiveBack, Always
  <2>3. Returns(HessianAnalysisFinalize, HessianAnalysisSetup)
    BY DEF Returns, About, Borrowed, HessianAnalysisSetup, HessianAnalysisFinalize, Take, Release,
           ReleaseIf, GiveBack, Always
  <2>4. QED
    BY <1>2, <1>8, <2>1, <2>2, <2>3
<1>9. ASSUME Tasks[t].finalize = <<>>, Tasks[t].requisition = <<>>, t # "fftconvolution",
             IsList(Tasks[t].setup),
             t \notin {"hough_likelihood", "hough_likelihood_image"} => Gathers(Tasks[t].setup, Fetching)
      PROVE  TameRow(t, Tasks[t])
  BY <1>2, <1>9 DEF Returns, IsList
<1>10. CASE t = "complex_mult"
  <2>1. Tasks[t].setup = ComplexMultSetup /\ Tasks[t].finalize = <<>> /\ Tasks[t].requisition = <<>>
    BY <1>10 DEF Tasks, Row, RowOnDemand
  <2>2. Gathers(ComplexMultSetup, Fetching) /\ IsList(ComplexMultSetup)
    BY DEF Gathers, Fetching, IsList, ComplexMultSetup, Take, Borrow, Always
  <2>3. QED
    BY <1>9, <1>10, <2>1, <2>2
<1>11. CASE t = "hough_likelihood_image"
  <2>1. Tasks[t].setup = HoughLikelihoodImageSetup /\ Tasks[t].finalize = <<>>
          /\ Tasks[t].requisition = <<>>
    BY <1>11 DEF Tasks, Row, RowOnDemand
  <2>2. IsList(HoughLikelihoodImageSetup)
    BY DEF IsList, HoughLikelihoodImageSetup
  <2>3. QED
    BY <1>9, <1>11, <2>1, <2>2
<1>12. CASE t = "ordfilt"
  <2>1. Tasks[t].setup = OrdfiltSetup /\ Tasks[t].finalize = <<>> /\ Tasks[t].requisition = <<>>
    BY <1>12 DEF Tasks, Row, RowOnDemand
  <2>2. Gathers(OrdfiltSetup, Fetching) /\ IsList(OrdfiltSetup)
    BY DEF Gathers, Fetching, IsList, OrdfiltSetup, Take, Borrow, Always
  <2>3. QED
    BY <1>9, <1>12, <2>1, <2>2
<1>13. CASE t = "localmaxima"
  <2>1. Tasks[t].setup = LocalmaximaSetup /\ Tasks[t].finalize = <<>> /\ Tasks[t].requisition = <<>>
    BY <1>13 DEF Tasks, Row, RowOnDemand
  <2>2. Gathers(LocalmaximaSetup, Fetching) /\ IsList(LocalmaximaSetup)
    BY DEF Gathers, Fetching, IsList, LocalmaximaSetup, Borrow, Always
  <2>3. QED
    BY <1>9, <1>13, <2>1, <2>2
<1>14. CASE t = "fftconvolution"
  <2>1. Tasks[t].setup = FftconvolutionSetup /\ Tasks[t].finalize = FftconvolutionFinalize
          /\ Tasks[t].requisition = FftconvolutionRequisition
    BY <1>14 DEF Tasks, RowOnDemand
  <2>2. Gathers(FftconvolutionSetup, Gathering)
    BY DEF Gathers, Gathering, Fetching, FftconvolutionSetup, Take, Borrow, Clear, Always
  <2>3. IsList(FftconvolutionSetup) /\ IsList(FftconvolutionRequisition) /\ IsList(FftconvolutionFinalize)
    BY DEF IsList, FftconvolutionSetup, FftconvolutionRequisition, FftconvolutionFinalize
  <2>4. QED
    BY <1>14, <2>1, <2>2, <2>3 DEF TameRow
<1>15. CASE t \in {"ring_pattern", "azimuthal_test", "of_ring_pattern", "contrast",
                    "filter_particle", "concatenate_result", "get_dup_circ", "multi_search",
                    "label_cluster", "combine_test", "blob_test", "brightness_cut",
                    "hessian_kernel", "sum", "log", "bilateral", "device_info"}
  <2>1. Tasks[t].setup = <<>> /\ Tasks[t].finalize = <<>> /\ Tasks[t].requisition = <<>>
    BY <1>15 DEF Tasks, Row, RowOnDemand
  <2>2. Gathers(<<>>, Fetching) /\ IsList(<<>>)
    BY DEF Gathers, IsList
  <2>3. QED
    BY <1>9, <1>15, <2>1, <2>2
<1>16. QED
  BY <1>1, <1>3, <1>4, <1>5, <1>6, <1>7, <1>8, <1>10, <1>11, <1>12, <1>13, <1>14, <1>15


\* What a step makes of its object.
Became(step, f, missing, g) ==
    /\ step.do \in Gathering => SameFaults(g, f)
    /\ step.do \in {"take", "create"} => Owned(g)
    /\ step.do \in Fetching /\ step.object \notin missing => There(g)
    /\ step.do = "create" => g.set
    /\ step.do = "clear" => ~ g.set
    /\ step.do = "release" => /\ Owned(f) => g.overdrawn = f.overdrawn
                              /\ f.set => g.null = f.null

LEMMA FieldChanges ==
    ASSUME NEW f \in Field, NEW step, NEW missing, NEW there \in BOOLEAN,
           there <=> step.object \notin missing
    PROVE  /\ Changed(f, step.do, there) \in Field
           /\ Became(step, f, missing, Changed(f, step.do, there))
<1> DEFINE do == step.do
           g == Changed(f, do, there)
<1>1. CASE do = "take"
  <2>1. g = [set |-> there, refs |-> IF there THEN 1 ELSE 0, lent |-> there,
             overdrawn |-> f.overdrawn, null |-> f.null]
    BY <1>1 DEF Changed, Field
  <2>2. g \in Field
    BY <2>1 DEF Field
  <2>3. g.set = there /\ (there => g.refs = 1) /\ SameFaults(g, f)
    BY <2>1 DEF Field, SameFaults
  <2>4. QED
    BY <1>1, <2>2, <2>3 DEF Became, Fetching, Owned, There
<1>2. CASE do = "borrow"
  <2>1. g = [set |-> there, refs |-> 0, lent |-> there,
             overdrawn |-> f.overdrawn, null |-> f.null]
    BY <1>2 DEF Changed, Field
  <2>2. g \in Field
    BY <2>1 DEF Field
  <2>3. g.set = there /\ g.lent = there /\ SameFaults(g, f)
    BY <2>1 DEF Field, SameFaults
  <2>4. QED
    BY <1>2, <2>2, <2>3 DEF Became, Fetching, Owned, There
<1>3. CASE do = "create"
  <2>1. g = [set |-> TRUE, refs |-> 1, lent |-> FALSE,
             overdrawn |-> f.overdrawn, null |-> f.null]
    BY <1>3 DEF Changed, Field
  <2>2. g \in Field
    BY <2>1 DEF Field
  <2>3. g.set /\ g.refs = 1 /\ SameFaults(g, f)
    BY <2>1 DEF Field, SameFaults
  <2>4. QED
    BY <1>3, <2>2, <2>3 DEF Became, Fetching, Owned, There
<1>4. CASE do = "clear"
  <2>1. g = [set |-> FALSE, refs |-> 0, lent |-> FALSE,
             overdrawn |-> f.overdrawn, null |-> f.null]
    BY <1>4 DEF Changed, Field
  <2>2. g \in Field
    BY <2>1 DEF Field
  <2>3. ~ g.set /\ SameFaults(g, f)
    BY <2>1 DEF Field, SameFaults
  <2>4. QED
    BY <1>4, <2>2, <2>3 DEF Became, Fetching, Owned, There
<1>5. CASE do \notin Gathering
  <2>1. g = IF ~ f.set THEN [f EXCEPT !.null = TRUE]
            ELSE IF f.refs = 0 THEN [f EXCEPT !.overdrawn = TRUE]
            ELSE [f EXCEPT !.refs = @ - 1]
    BY <1>5 DEF Changed, Gathering, Fetching
  <2>2. f.refs \in Nat
    BY DEF Field
  <2>3. g \in Field /\ (Owned(f) => g.overdrawn = f.overdrawn) /\ (f.set => g.null = f.null)
    <3>1. CASE ~ f.set
      <4>1. g = [f EXCEPT !.null = TRUE]
        BY <2>1, <3>1
      <4>2. g \in Field /\ g.overdrawn = f.overdrawn
        BY <4>1 DEF Field
      <4>3. QED
        BY <3>1, <4>2
    <3>2. CASE f.set /\ f.refs = 0
      <4>1. g = [f EXCEPT !.overdrawn = TRUE]
        BY <2>1, <3>2
      <4>2. g \in Field /\ g.null = f.null
        BY <4>1 DEF Field
      <4>3. ~ Owned(f)
        BY <3>2 DEF Owned
      <4>4. QED
        BY <4>2, <4>3
    <3>3. CASE f.set /\ f.refs # 0
      <4>1. g = [f EXCEPT !.refs = @ - 1] /\ f.refs - 1 \in Nat
        BY <2>1, <2>2, <3>3
      <4>2. g \in Field /\ g.overdrawn = f.overdrawn /\ g.null = f.null
        BY <4>1 DEF Field
      <4>3. QED
        BY <4>2
    <3>4. QED
      BY <3>1, <3>2, <3>3
  <2>4. QED
    BY <1>5, <2>3 DEF Became, Gathering, Fetching
<1>6. QED
  BY <1>1, <1>2, <1>3, <1>4, <1>5 DEF Gathering, Fetching

\* t is what is held after a step, s what was held before.
StepDone(s, step, missing, t) ==
    /\ \A p \in DOMAIN s : p # step.object => t[p] = s[p]
    /\ Applies(s, step) => Became(step, s[step.object], missing, t[step.object])
    /\ ~ Applies(s, step) => t = s

LEMMA OneStep ==
    ASSUME NEW objects, NEW s \in Holdings(objects), NEW step, step.object \in objects, NEW missing
    PROVE  Step(s, step, missing) \in Holdings(objects) /\ StepDone(s, step, missing, Step(s, step, missing))
<1> DEFINE o == step.object
           there == o \notin missing
           g == Changed(s[o], step.do, there)
           t == Step(s, step, missing)
<1>1. s[o] \in Field /\ DOMAIN s = objects /\ there \in BOOLEAN
  BY DEF Holdings
<1>2. g \in Field /\ Became(step, s[o], missing, g)
  BY <1>1, FieldChanges
<1> HIDE DEF g
<1>3. CASE Applies(s, step)
  <2>1. t = [s EXCEPT ![o] = g]
    BY <1>3 DEF Step, g
  <2>2. t \in Holdings(objects) /\ t[o] = g /\ \A p \in DOMAIN s : p # o => t[p] = s[p]
    BY <1>1, <1>2, <2>1 DEF Holdings
  <2>3. QED
    BY <1>2, <1>3, <2>2 DEF StepDone
<1>4. CASE ~ Applies(s, step)
  <2>1. t = s
    BY <1>4 DEF Step
  <2>2. QED
    BY <1>4, <2>1 DEF StepDone
<1>5. QED
  BY <1>3, <1>4

\* What is held after each step.
PassesThrough(h, steps, missing, objects) ==
    /\ h \in [0 .. Len(steps) -> Holdings(objects)]
    /\ h[0] = held
    /\ h[Len(steps)] = Perform(steps, missing)
    /\ \A k \in 1 .. Len(steps) : h[k] = Step(h[k - 1], steps[k], missing)

\* Perform goes from one holding to the next.
LEMMA Performed ==
    ASSUME NEW objects, held \in Holdings(objects), NEW missing,
           NEW steps, Len(steps) \in Nat,
           \A k \in 1 .. Len(steps) : steps[k].object \in objects
    PROVE  \E h : PassesThrough(h, steps, missing, objects)
<1> DEFINE len == Len(steps)
           V == Holdings(objects)
           Next0(k, s) == Step(s, steps[k], missing)
           K(f) == [k \in 0 .. len |-> IF k = 0 THEN held ELSE Next0(k, f[k - 1])]
           g == [p \in (1 .. len) \X V |-> Next0(p[1], p[2])]
           After == CHOOSE f : f = K(f)
<1>1. Perform(steps, missing) = After[len]
  BY DEF Perform
<1>2. \A k \in 1 .. len, s \in V : Next0(k, s) \in V
  BY OneStep
<1>3. g \in [(1 .. len) \X V -> V] /\ \A k \in 1 .. len, s \in V : g[<<k, s>>] = Next0(k, s)
  BY <1>2
<1>4. \A k, s : Next0(k, s) = Step(s, steps[k], missing)
  OBVIOUS
<1>5. len \in Nat /\ held \in V
  OBVIOUS
<1> HIDE DEF g, Next0, V, len
<1>6. PICK h \in [0 .. len -> V] : Recursive(h, len, held, g)
  BY <1>3, <1>5, RecursionExists
<1>7. h = K(h)
  <2>1. ASSUME NEW i \in 0 .. len PROVE h[i] = K(h)[i]
    <3>1. CASE i = 0
      BY <1>6, <3>1 DEF Recursive
    <3>2. CASE i # 0
      <4>1. i \in 1 .. len /\ h[i - 1] \in V
        BY <1>5, <3>2
      <4>2. h[i] = Next0(i, h[i - 1])
        BY <1>3, <1>6, <4>1 DEF Recursive
      <4>3. QED
        BY <3>2, <4>2
    <3>3. QED
      BY <3>1, <3>2
  <2>2. QED
    BY <2>1
<1>8. ASSUME NEW e
      PROVE  /\ K(e)[0] = held /\ \A k \in 1 .. len : K(e)[k] = Next0(k, e[k - 1])
             /\ K(e) = [k \in DOMAIN K(e) |-> K(e)[k]] /\ DOMAIN K(e) = 0 .. len
  BY <1>5
<1> HIDE DEF K
<1>9. After = K(After)
  BY <1>7
<1> HIDE DEF After
<1>10. After[0] = held /\ \A k \in 1 .. len : After[k] = Next0(k, After[k - 1])
  BY <1>8, <1>9
<1>11. \A k \in 0 .. len : After[k] \in V
  <2>1. After[0] \in V /\ \A k \in 1 .. len : After[k - 1] \in V => After[k] \in V
    BY <1>2, <1>5, <1>10
  <2>2. QED
    BY <1>5, <2>1, RecursionKeeps
<1>12. After \in [0 .. len -> V]
  <2>1. After = [k \in 0 .. len |-> After[k]]
    BY <1>8, <1>9
  <2>2. QED
    BY <1>11, <2>1
<1>13. PassesThrough(After, steps, missing, objects)
  BY <1>1, <1>4, <1>10, <1>12 DEF len, V, PassesThrough
<1>14. QED
  BY <1>13

\* What a step of a setup leaves of its object.
Gathered(step, missing, s) ==
    /\ step.do = "clear" => ~ s[step.object].set
    /\ step.do # "clear" /\ step.object \notin missing => There(s[step.object])

\* A setup that releases nothing keeps what is held in order, and has in the end
\* all it is for.
LEMMA GathersAll ==
    ASSUME NEW steps, Len(steps) \in Nat, NEW kinds, kinds \subseteq Gathering, Gathers(steps, kinds),
           NEW objects, \A k \in 1 .. Len(steps) : steps[k].object \in objects,
           held \in Holdings(objects), NEW missing
    PROVE  LET s == Perform(steps, missing) IN
           /\ s \in Holdings(objects)
           /\ \A o \in objects : SameFaults(s[o], held[o])
           /\ \A o \in objects \ Borrowed(steps) : Owned(held[o]) => Owned(s[o])
           /\ \A k \in 1 .. Len(steps) : Gathered(steps[k], missing, s)
<1> DEFINE len == Len(steps)
           kept == objects \ Borrowed(steps)
<1>1. PICK h : PassesThrough(h, steps, missing, objects)
  BY Performed
<1>2. /\ h[0] = held /\ h[len] = Perform(steps, missing)
      /\ \A k \in 0 .. len : h[k] \in Holdings(objects)
      /\ \A k \in 1 .. len : h[k] = Step(h[k - 1], steps[k], missing)
  BY <1>1 DEF PassesThrough
<1> DEFINE Good(s, k) == /\ \A o \in objects : SameFaults(s[o], held[o])
                         /\ \A o \in kept : Owned(held[o]) => Owned(s[o])
                         /\ \A i \in 1 .. k : Gathered(steps[i], missing, s)
           G == {k \in 0 .. len : Good(h[k], k)}
<1>3. 0 \in G
  BY <1>2 DEF SameFaults
<1>4. ASSUME NEW k \in 0 .. len - 1, k \in G PROVE k + 1 \in G
  <2> DEFINE s == h[k]
             t == h[k + 1]
             step == steps[k + 1]
             o == step.object
  <2>1. k + 1 \in 1 .. len /\ k + 1 \in 0 .. len /\ (k + 1) - 1 = k /\ k \in 0 .. len
    OBVIOUS
  <2>2. s \in Holdings(objects) /\ t = Step(s, step, missing) /\ o \in objects /\ Good(s, k)
    BY <1>2, <1>4, <2>1
  <2>3. step.do \in Gathering /\ step.on = {} /\ step.off = {}
    BY <2>1 DEF Gathers
  <2>4. \A i \in 1 .. k : steps[i].object # o /\ i \in 1 .. len
    BY <2>1 DEF Gathers
  <2>5. step.do = "borrow" => o \notin kept
    BY <2>1 DEF Borrowed
  <2> HIDE DEF t, s, step, kept
  <2>6. StepDone(s, step, missing, t) /\ DOMAIN s = objects
    BY <2>2, OneStep DEF Holdings
  <2>7. Applies(s, step)
    BY <2>3 DEF Applies
  <2>8. \A p \in objects : p # o => t[p] = s[p]
    BY <2>6 DEF StepDone
  <2>9. Became(step, s[o], missing, t[o])
    BY <2>6, <2>7 DEF StepDone
  <2>10. /\ SameFaults(t[o], s[o])
         /\ o \in kept => Owned(t[o])
         /\ step.do = "clear" => ~ t[o].set
         /\ step.do # "clear" /\ o \notin missing => There(t[o])
    <3>1. step.do = "clear" => Owned(t[o])
      BY <2>9 DEF Became, Owned
    <3>2. QED
      BY <2>3, <2>5, <2>9, <3>1 DEF Became, Gathering, Fetching
  <2>11. \A p \in objects : SameFaults(t[p], held[p])
    BY <2>2, <2>8, <2>10 DEF SameFaults
  <2>12. \A p \in kept : Owned(held[p]) => Owned(t[p])
    BY <2>2, <2>8, <2>10 DEF kept
  <2>13. \A i \in 1 .. k + 1 : Gathered(steps[i], missing, t)
    <3> TAKE i \in 1 .. k + 1
    <3>1. CASE i = k + 1
      BY <2>10, <3>1 DEF Gathered, step
    <3>2. CASE i # k + 1
      <4>1. i \in 1 .. k
        BY <2>1, <3>2
      <4>2. Gathered(steps[i], missing, s) /\ steps[i].object # o /\ steps[i].object \in objects
        BY <2>2, <2>4, <4>1
      <4>3. t[steps[i].object] = s[steps[i].object]
        BY <2>8, <4>2
      <4>4. QED
        BY <4>2, <4>3 DEF Gathered
    <3>3. QED
      BY <3>1, <3>2
  <2>14. QED
    BY <2>1, <2>11, <2>12, <2>13 DEF t
<1> HIDE DEF G
<1>5. len \in G
  <2>1. len \in Nat /\ len \in 0 .. len
    OBVIOUS
  <2>2. \A k \in 0 .. len : k \in G
    BY <1>3, <1>4, <2>1, InductionUpTo
  <2>3. QED
    BY <2>1, <2>2
<1>6. Good(h[len], len) /\ h[len] \in Holdings(objects)
  BY <1>2, <1>5 DEF G
<1>7. QED
  BY <1>2, <1>6

\* finalize gives nothing back that is not held, nor NULL.
LEMMA GivesBackOnce ==
    ASSUME NEW steps, Len(steps) \in Nat, NEW setup, Returns(steps, setup),
           NEW objects, About(setup) \subseteq objects, held \in Holdings(objects),
           \A o \in objects \ Borrowed(setup) : Owned(held[o])
    PROVE  LET s == Perform(steps, {}) IN
           s \in Holdings(objects) /\ \A o \in objects : SameFaults(s[o], held[o])
<1> DEFINE len == Len(steps)
<1>1. \A k \in 1 .. len : steps[k].object \in objects /\ Owned(held[steps[k].object])
  BY DEF Returns
<1>2. PICK h : PassesThrough(h, steps, {}, objects)
  BY <1>1, Performed
<1>3. /\ h[0] = held /\ h[len] = Perform(steps, {})
      /\ \A k \in 0 .. len : h[k] \in Holdings(objects)
      /\ \A k \in 1 .. len : h[k] = Step(h[k - 1], steps[k], {})
  BY <1>2 DEF PassesThrough
<1> DEFINE Good(s, k) == /\ \A o \in objects : SameFaults(s[o], held[o])
                         /\ \A i \in k + 1 .. len : s[steps[i].object] = held[steps[i].object]
           G == {k \in 0 .. len : Good(h[k], k)}
<1>4. 0 \in G
  BY <1>3 DEF SameFaults
<1>5. ASSUME NEW k \in 0 .. len - 1, k \in G PROVE k + 1 \in G
  <2> DEFINE s == h[k]
             t == h[k + 1]
             step == steps[k + 1]
             o == step.object
  <2>1. k + 1 \in 1 .. len /\ k + 1 \in 0 .. len /\ (k + 1) - 1 = k /\ k \in 0 .. len
          /\ k + 1 \in k + 1 .. len
    OBVIOUS
  <2>2. s \in Holdings(objects) /\ t = Step(s, step, {}) /\ o \in objects /\ Good(s, k)
    BY <1>1, <1>3, <1>5, <2>1
  <2>3. step.do = "release" /\ step.on = {o} /\ step.off = {}
    BY <2>1 DEF Returns
  <2>4. \A i \in (k + 1) + 1 .. len : i \in 1 .. len /\ i \in k + 1 .. len /\ steps[i].object # o
    BY <2>1 DEF Returns
  <2>5. s[o] = held[o] /\ Owned(held[o])
    BY <1>1, <2>1, <2>2
  <2> HIDE DEF t, s, step
  <2>6. StepDone(s, step, {}, t) /\ DOMAIN s = objects
    BY <2>2, OneStep DEF Holdings
  <2>7. \A p \in objects : p # o => t[p] = s[p]
    BY <2>6 DEF StepDone
  <2>8. SameFaults(t[o], s[o])
    <3>1. CASE s[o].set
      <4>1. Applies(s, step)
        BY <2>3, <3>1 DEF Applies
      <4>2. Became(step, s[o], {}, t[o])
        BY <2>6, <4>1 DEF StepDone
      <4>3. QED
        BY <2>3, <2>5, <3>1, <4>2 DEF Became, SameFaults
    <3>2. CASE ~ s[o].set
      <4>1. ~ Applies(s, step)
        BY <2>3, <3>2 DEF Applies
      <4>2. QED
        BY <2>6, <4>1 DEF StepDone, SameFaults
    <3>3. QED
      BY <3>1, <3>2
  <2>9. \A p \in objects : SameFaults(t[p], held[p])
    BY <2>2, <2>7, <2>8 DEF SameFaults
  <2>10. \A i \in (k + 1) + 1 .. len : t[steps[i].object] = held[steps[i].object]
    BY <1>1, <2>2, <2>4, <2>7
  <2>11. QED
    BY <2>1, <2>9, <2>10 DEF t
<1> HIDE DEF G
<1>6. len \in G
  <2>1. len \in Nat /\ len \in 0 .. len
    OBVIOUS
  <2>2. \A k \in 0 .. len : k \in G
    BY <1>4, <1>5, <2>1, InductionUpTo
  <2>3. QED
    BY <2>1, <2>2
<1>7. Good(h[len], len) /\ h[len] \in Holdings(objects)
  BY <1>3, <1>6 DEF G
<1>8. QED
  BY <1>3, <1>7

\* One step of those below: of the object o, with or without effect.
LEMMA StepOn ==
    ASSUME NEW objects, NEW s \in Holdings(objects), NEW o \in objects,
           NEW step, step.object = o, NEW missing, NEW t, t = Step(s, step, missing)
    PROVE  /\ t \in Holdings(objects)
           /\ \A p \in objects : p # o => t[p] = s[p]
           /\ Applies(s, step) => Became(step, s[o], missing, t[o])
           /\ ~ Applies(s, step) => t = s
<1>1. DOMAIN s = objects
  BY DEF Holdings
<1>2. t \in Holdings(objects) /\ StepDone(s, step, missing, t)
  BY OneStep
<1>3. QED
  BY <1>1, <1>2 DEF StepDone

\* The likelihood image task gives back the mask of the setup before, and has a
\* new one.
LEMMA ImageTakesAll ==
    ASSUME NEW objects, objects = {"context", "kernel", "mask_mem"}, held \in Holdings(objects),
           \A o \in objects : Owned(held[o]), NEW missing, "mask_mem" \notin missing
    PROVE  LET s == Perform(HoughLikelihoodImageSetup, missing) IN
           /\ s \in Holdings(objects)
           /\ \A o \in objects : SameFaults(s[o], held[o]) /\ Owned(s[o])
           /\ missing = {} => \A o \in objects : There(s[o])
<1> DEFINE steps == HoughLikelihoodImageSetup
<1>1. /\ Len(steps) = 4
      /\ steps[1] = Always("take", "context")
      /\ steps[2] = Always("take", "kernel")
      /\ steps[3] = [Always("release", "mask_mem") EXCEPT !.on = {"mask_mem"}]
      /\ steps[4] = Always("create", "mask_mem")
  BY DEF HoughLikelihoodImageSetup, Take, Create, Release, ReleaseIf, GiveBack
<1>2. /\ steps[1].object = "context" /\ steps[1].do = "take" /\ steps[1].on = {} /\ steps[1].off = {}
      /\ steps[2].object = "kernel" /\ steps[2].do = "take" /\ steps[2].on = {} /\ steps[2].off = {}
      /\ steps[3].object = "mask_mem" /\ steps[3].do = "release" /\ steps[3].on = {"mask_mem"}
      /\ steps[3].off = {}
      /\ steps[4].object = "mask_mem" /\ steps[4].do = "create" /\ steps[4].on = {} /\ steps[4].off = {}
  BY <1>1 DEF Always
<1> HIDE DEF steps
<1>4. Len(steps) \in Nat /\ \A k \in 1 .. Len(steps) : steps[k].object \in objects
  <2> SUFFICES ASSUME NEW k \in 1 .. 4 PROVE steps[k].object \in objects
    BY <1>1
  <2>1. k = 1 \/ k = 2 \/ k = 3 \/ k = 4
    OBVIOUS
  <2>2. QED
    BY <1>2, <2>1
<1>5. PICK h : PassesThrough(h, steps, missing, objects)
  BY <1>4, Performed
<1> DEFINE s1 == Step(held, steps[1], missing)
           s2 == Step(s1, steps[2], missing)
           s3 == Step(s2, steps[3], missing)
           s4 == Step(s3, steps[4], missing)
<1>6. Perform(steps, missing) = s4
  BY <1>1, <1>5 DEF PassesThrough
<1> HIDE DEF s1, s2, s3, s4
<1>7. /\ s1 \in Holdings(objects) /\ s1["kernel"] = held["kernel"] /\ s1["mask_mem"] = held["mask_mem"]
      /\ Became(steps[1], held["context"], missing, s1["context"])
  BY <1>2, StepOn DEF s1, Applies
<1>8. /\ s2 \in Holdings(objects) /\ s2["context"] = s1["context"] /\ s2["mask_mem"] = s1["mask_mem"]
      /\ Became(steps[2], s1["kernel"], missing, s2["kernel"])
  BY <1>2, <1>7, StepOn DEF s2, Applies
<1>9. /\ s3 \in Holdings(objects) /\ s3["context"] = s2["context"] /\ s3["kernel"] = s2["kernel"]
      /\ SameFaults(s3["mask_mem"], s2["mask_mem"])
  <2>1. CASE s2["mask_mem"].set
    <3>1. Applies(s2, steps[3])
      BY <1>2, <2>1 DEF Applies
    <3>2. /\ s3 \in Holdings(objects) /\ s3["context"] = s2["context"] /\ s3["kernel"] = s2["kernel"]
          /\ Became(steps[3], s2["mask_mem"], missing, s3["mask_mem"])
      BY <1>2, <1>8, <3>1, StepOn DEF s3
    <3>3. Owned(s2["mask_mem"])
      BY <1>7, <1>8
    <3>4. QED
      BY <1>2, <2>1, <3>2, <3>3 DEF Became, SameFaults
  <2>2. CASE ~ s2["mask_mem"].set
    <3>1. ~ Applies(s2, steps[3])
      BY <1>2, <2>2 DEF Applies
    <3>2. s3 = s2
      BY <1>2, <1>8, <3>1, StepOn DEF s3
    <3>3. QED
      BY <1>8, <3>2 DEF SameFaults
  <2>3. QED
    BY <2>1, <2>2
<1>10. /\ s4 \in Holdings(objects) /\ s4["context"] = s3["context"] /\ s4["kernel"] = s3["kernel"]
       /\ Became(steps[4], s3["mask_mem"], missing, s4["mask_mem"])
  BY <1>2, <1>9, StepOn DEF s4, Applies
<1>11. /\ SameFaults(s4["context"], held["context"]) /\ Owned(s4["context"])
       /\ missing = {} => There(s4["context"])
  BY <1>2, <1>7, <1>8, <1>9, <1>10 DEF Became, Gathering, Fetching
<1>12. /\ SameFaults(s4["kernel"], held["kernel"]) /\ Owned(s4["kernel"])
       /\ missing = {} => There(s4["kernel"])
  BY <1>2, <1>7, <1>8, <1>9, <1>10 DEF Became, Gathering, Fetching
<1>13. SameFaults(s4["mask_mem"], held["mask_mem"]) /\ Owned(s4["mask_mem"]) /\ There(s4["mask_mem"])
  <2>1. SameFaults(s4["mask_mem"], s3["mask_mem"]) /\ Owned(s4["mask_mem"]) /\ There(s4["mask_mem"])
    BY <1>2, <1>10 DEF Became, Gathering, Fetching
  <2>2. QED
    BY <1>7, <1>8, <1>9, <2>1 DEF SameFaults
<1>14. QED
  BY <1>6, <1>10, <1>11, <1>12, <1>13 DEF steps

\* In the first setup of the likelihood task neither release is reached.
LEMMA FirstLikelihoodTakesAll ==
    ASSUME NEW objects, objects = {"context", "kernel", "mask_mem", "count_mem"},
           held \in Holdings(objects), \A o \in objects : ~ held[o].set,
           NEW missing, missing \subseteq {"kernel"}
    PROVE  LET s == Perform(HoughLikelihoodSetup, missing) IN
           /\ s \in Holdings(objects)
           /\ \A o \in objects : SameFaults(s[o], held[o]) /\ Owned(s[o])
           /\ missing = {} => \A o \in objects : There(s[o])
<1> DEFINE steps == HoughLikelihoodSetup
<1>1. /\ Len(steps) = 6
      /\ steps[1] = Always("take", "context")
      /\ steps[2] = Always("take", "kernel")
      /\ steps[3] = [Always("release", "mask_mem") EXCEPT !.on = {"mask_mem"}]
      /\ steps[4] = Always("create", "mask_mem")
      /\ steps[5] = [Always("release", "mask_mem") EXCEPT !.on = {"count_mem"}]
      /\ steps[6] = Always("create", "count_mem")
  BY DEF HoughLikelihoodSetup, Take, Create, Release, ReleaseIf, GiveBack
<1>2. /\ steps[1].object = "context" /\ steps[1].do = "take" /\ steps[1].on = {} /\ steps[1].off = {}
      /\ steps[2].object = "kernel" /\ steps[2].do = "take" /\ steps[2].on = {} /\ steps[2].off = {}
      /\ steps[3].object = "mask_mem" /\ steps[3].on = {"mask_mem"}
      /\ steps[4].object = "mask_mem" /\ steps[4].do = "create" /\ steps[4].on = {} /\ steps[4].off = {}
      /\ steps[5].object = "mask_mem" /\ steps[5].on = {"count_mem"}
      /\ steps[6].object = "count_mem" /\ steps[6].do = "create" /\ steps[6].on = {} /\ steps[6].off = {}
  BY <1>1 DEF Always
<1> HIDE DEF steps
<1>4. Len(steps) \in Nat /\ \A k \in 1 .. Len(steps) : steps[k].object \in objects
  <2> SUFFICES ASSUME NEW k \in 1 .. 6 PROVE steps[k].object \in objects
    BY <1>1
  <2>1. k = 1 \/ k = 2 \/ k = 3 \/ k = 4 \/ k = 5 \/ k = 6
    OBVIOUS
  <2>2. QED
    BY <1>2, <2>1
<1>5. PICK h : PassesThrough(h, steps, missing, objects)
  BY <1>4, Performed
<1> DEFINE s1 == Step(held, steps[1], missing)
           s2 == Step(s1, steps[2], missing)
           s3 == Step(s2, steps[3], missing)
           s4 == Step(s3, steps[4], missing)
           s5 == Step(s4, steps[5], missing)
           s6 == Step(s5, steps[6], missing)
<1>6. Perform(steps, missing) = s6
  <2>1. /\ h[0] = held /\ h[6] = Perform(steps, missing)
        /\ \A k \in 1 .. 6 : h[k] = Step(h[k - 1], steps[k], missing)
    BY <1>1, <1>5 DEF PassesThrough
  <2> HIDE DEF s1, s2, s3, s4, s5, s6
  <2>2. h[1] = s1 /\ h[2] = Step(h[1], steps[2], missing) /\ h[3] = Step(h[2], steps[3], missing)
    BY <2>1 DEF s1
  <2>3. /\ h[4] = Step(h[3], steps[4], missing) /\ h[5] = Step(h[4], steps[5], missing)
        /\ h[6] = Step(h[5], steps[6], missing)
    BY <2>1
  <2>4. QED
    BY <2>1, <2>2, <2>3 DEF s2, s3, s4, s5, s6
<1> HIDE DEF s1, s2, s3, s4, s5, s6
<1>7. /\ s1 \in Holdings(objects) /\ \A p \in objects \ {"context"} : s1[p] = held[p]
      /\ Became(steps[1], held["context"], missing, s1["context"])
  BY <1>2, StepOn DEF s1, Applies
<1>8. /\ s2 \in Holdings(objects) /\ \A p \in objects \ {"kernel"} : s2[p] = s1[p]
      /\ Became(steps[2], s1["kernel"], missing, s2["kernel"])
  BY <1>2, <1>7, StepOn DEF s2, Applies
<1>9. s3 = s2
  <2>1. ~ s2["mask_mem"].set
    BY <1>7, <1>8
  <2>2. ~ Applies(s2, steps[3])
    BY <1>2, <2>1 DEF Applies
  <2>3. QED
    BY <1>2, <1>8, <2>2, StepOn DEF s3
<1>10. /\ s4 \in Holdings(objects) /\ \A p \in objects \ {"mask_mem"} : s4[p] = s3[p]
       /\ Became(steps[4], s3["mask_mem"], missing, s4["mask_mem"])
  BY <1>2, <1>8, <1>9, StepOn DEF s4, Applies
<1>11. s5 = s4
  <2>1. ~ s4["count_mem"].set
    BY <1>7, <1>8, <1>9, <1>10
  <2>2. ~ Applies(s4, steps[5])
    BY <1>2, <2>1 DEF Applies
  <2>3. QED
    BY <1>2, <1>10, <2>2, StepOn DEF s5
<1>12. /\ s6 \in Holdings(objects) /\ \A p \in objects \ {"count_mem"} : s6[p] = s5[p]
       /\ Became(steps[6], s5["count_mem"], missing, s6["count_mem"])
  BY <1>2, <1>10, <1>11, StepOn DEF s6, Applies
<1>13. /\ s6["context"] = s1["context"] /\ s6["kernel"] = s2["kernel"] /\ s6["mask_mem"] = s4["mask_mem"]
       /\ s1["kernel"] = held["kernel"] /\ s3["mask_mem"] = held["mask_mem"]
       /\ s5["count_mem"] = held["count_mem"]
  BY <1>7, <1>8, <1>9, <1>10, <1>11, <1>12
<1>14. SameFaults(s6["context"], held["context"]) /\ Owned(s6["context"]) /\ There(s6["context"])
  BY <1>2, <1>7, <1>13 DEF Became, Gathering, Fetching
<1>15. /\ SameFaults(s6["kernel"], held["kernel"]) /\ Owned(s6["kernel"])
       /\ missing = {} => There(s6["kernel"])
  BY <1>2, <1>8, <1>13 DEF Became, Gathering, Fetching
<1>16. SameFaults(s6["mask_mem"], held["mask_mem"]) /\ Owned(s6["mask_mem"]) /\ There(s6["mask_mem"])
  BY <1>2, <1>10, <1>13 DEF Became, Gathering, Fetching
<1>17. SameFaults(s6["count_mem"], held["count_mem"]) /\ Owned(s6["count_mem"]) /\ There(s6["count_mem"])
  BY <1>2, <1>12, <1>13 DEF Became, Gathering, Fetching
<1>18. QED
  BY <1>6, <1>12, <1>14, <1>15, <1>16, <1>17 DEF steps

Made == {"fft_buffer_1", "fft_buffer_2", "fft_plan"}

\* When fftconvolution is asked for its output, it has both buffers and the plan
\* afterwards; if there was a plan, nothing changes.
LEMMA RequisitionMakesAll ==
    ASSUME NEW objects, Made \subseteq objects, held \in Holdings(objects),
           held["fft_plan"].set => \A o \in Made : held[o].set
    PROVE  LET s == Perform(FftconvolutionRequisition, {}) IN
           /\ s \in Holdings(objects)
           /\ \A o \in objects \ Made : s[o] = held[o]
           /\ \A o \in Made : /\ SameFaults(s[o], held[o]) /\ s[o].set
                              /\ Owned(held[o]) => Owned(s[o])
<1> DEFINE steps == FftconvolutionRequisition
<1>1. /\ Len(steps) = 3
      /\ steps[1] = [Always("create", "fft_buffer_1") EXCEPT !.off = {"fft_plan"}]
      /\ steps[2] = [Always("create", "fft_buffer_2") EXCEPT !.off = {"fft_plan"}]
      /\ steps[3] = [Always("create", "fft_plan") EXCEPT !.off = {"fft_plan"}]
  BY DEF FftconvolutionRequisition, CreateUnless, Create
<1>2. /\ steps[1].object = "fft_buffer_1" /\ steps[2].object = "fft_buffer_2"
      /\ steps[3].object = "fft_plan"
      /\ \A k \in 1 .. 3 : steps[k].do = "create" /\ steps[k].on = {} /\ steps[k].off = {"fft_plan"}
  BY <1>1 DEF Always
<1> HIDE DEF steps
<1>4. Len(steps) \in Nat /\ \A k \in 1 .. Len(steps) : steps[k].object \in objects
  <2> SUFFICES ASSUME NEW k \in 1 .. 3 PROVE steps[k].object \in objects
    BY <1>1
  <2>1. k = 1 \/ k = 2 \/ k = 3
    OBVIOUS
  <2>2. QED
    BY <1>2, <2>1 DEF Made
<1>5. PICK h : PassesThrough(h, steps, {}, objects)
  BY <1>4, Performed
<1> DEFINE s1 == Step(held, steps[1], {})
           s2 == Step(s1, steps[2], {})
           s3 == Step(s2, steps[3], {})
<1>6. Perform(steps, {}) = s3
  <2>1. /\ h[0] = held /\ h[3] = Perform(steps, {})
        /\ \A k \in 1 .. 3 : h[k] = Step(h[k - 1], steps[k], {})
    BY <1>1, <1>5 DEF PassesThrough
  <2> HIDE DEF s1, s2, s3
  <2>2. h[1] = s1 /\ h[2] = Step(h[1], steps[2], {}) /\ h[3] = Step(h[2], steps[3], {})
    BY <2>1 DEF s1
  <2>3. QED
    BY <2>1, <2>2 DEF s2, s3
<1>7. \A s : \A k \in 1 .. 3 : Applies(s, steps[k]) <=> ~ s["fft_plan"].set
  <2> TAKE s
  <2> TAKE k \in 1 .. 3
  <2>1. steps[k].on = {} /\ steps[k].off = {"fft_plan"}
    BY <1>2
  <2>2. QED
    BY <2>1, Zenon DEF Applies
<1>3. 1 \in 1 .. 3 /\ 2 \in 1 .. 3 /\ 3 \in 1 .. 3
  OBVIOUS
<1> HIDE DEF s1, s2, s3
<1>8. CASE held["fft_plan"].set
  <2>1. s1 = held
    BY <1>7, <1>3, <1>8 DEF s1, Step
  <2>2. s2 = held
    BY <1>7, <1>3, <1>8, <2>1 DEF s2, Step
  <2>3. s3 = held
    BY <1>7, <1>3, <1>8, <2>2 DEF s3, Step
  <2>4. QED
    BY <1>6, <1>8, <2>3 DEF steps, SameFaults
<1>9. CASE ~ held["fft_plan"].set
  <2>1. /\ s1 \in Holdings(objects) /\ \A p \in objects \ {"fft_buffer_1"} : s1[p] = held[p]
        /\ Became(steps[1], held["fft_buffer_1"], {}, s1["fft_buffer_1"])
    BY <1>2, <1>7, <1>3, <1>9, StepOn DEF s1, Made
  <2>2. ~ s1["fft_plan"].set
    BY <1>9, <2>1 DEF Made
  <2>3. /\ s2 \in Holdings(objects) /\ \A p \in objects \ {"fft_buffer_2"} : s2[p] = s1[p]
        /\ Became(steps[2], s1["fft_buffer_2"], {}, s2["fft_buffer_2"])
    BY <1>2, <1>7, <1>3, <2>1, <2>2, StepOn DEF s2, Made
  <2>4. ~ s2["fft_plan"].set
    BY <2>2, <2>3 DEF Made
  <2>5. /\ s3 \in Holdings(objects) /\ \A p \in objects \ {"fft_plan"} : s3[p] = s2[p]
        /\ Became(steps[3], s2["fft_plan"], {}, s3["fft_plan"])
    BY <1>2, <1>7, <1>3, <2>3, <2>4, StepOn DEF s3, Made
  <2>6. /\ s3["fft_buffer_1"] = s1["fft_buffer_1"] /\ s3["fft_buffer_2"] = s2["fft_buffer_2"]
        /\ s1["fft_buffer_2"] = held["fft_buffer_2"] /\ s2["fft_plan"] = held["fft_plan"]
        /\ \A o \in objects \ Made : s3[o] = held[o]
    BY <2>1, <2>3, <2>5 DEF Made
  <2>7. \A o \in Made : SameFaults(s3[o], held[o]) /\ s3[o].set /\ Owned(s3[o])
    BY <1>2, <2>1, <2>3, <2>5, <2>6 DEF Made, Became, Gathering, Fetching
  <2>8. QED
    BY <1>6, <2>5, <2>6, <2>7 DEF steps
<1>10. QED
  BY <1>8, <1>9

\* finalize of fftconvolution releases NULL only for what was never made.
LEMMA MadeAreReturned ==
    ASSUME NEW objects, Made \subseteq objects, held \in Holdings(objects),
           \A o \in Made : Owned(held[o])
    PROVE  LET s == Perform(FftconvolutionFinalize, {}) IN
           /\ s \in Holdings(objects)
           /\ \A o \in objects \ Made : s[o] = held[o]
           /\ \A o \in Made : /\ s[o].overdrawn = held[o].overdrawn
                              /\ held[o].set => s[o].null = held[o].null
<1> DEFINE steps == FftconvolutionFinalize
<1>1. /\ Len(steps) = 3
      /\ steps[1] = Always("release", "fft_buffer_1")
      /\ steps[2] = Always("release", "fft_buffer_2")
      /\ steps[3] = Always("release", "fft_plan")
  BY DEF FftconvolutionFinalize, GiveBack
<1>2. /\ steps[1].object = "fft_buffer_1" /\ steps[2].object = "fft_buffer_2"
      /\ steps[3].object = "fft_plan"
      /\ \A k \in 1 .. 3 : steps[k].do = "release" /\ steps[k].on = {} /\ steps[k].off = {}
  BY <1>1 DEF Always
<1> HIDE DEF steps
<1>4. Len(steps) \in Nat /\ \A k \in 1 .. Len(steps) : steps[k].object \in objects
  <2> SUFFICES ASSUME NEW k \in 1 .. 3 PROVE steps[k].object \in objects
    BY <1>1
  <2>1. k = 1 \/ k = 2 \/ k = 3
    OBVIOUS
  <2>2. QED
    BY <1>2, <2>1 DEF Made
<1>5. PICK h : PassesThrough(h, steps, {}, objects)
  BY <1>4, Performed
<1> DEFINE s1 == Step(held, steps[1], {})
           s2 == Step(s1, steps[2], {})
           s3 == Step(s2, steps[3], {})
<1>6. Perform(steps, {}) = s3
  <2>1. /\ h[0] = held /\ h[3] = Perform(steps, {})
        /\ \A k \in 1 .. 3 : h[k] = Step(h[k - 1], steps[k], {})
    BY <1>1, <1>5 DEF PassesThrough
  <2> HIDE DEF s1, s2, s3
  <2>2. h[1] = s1 /\ h[2] = Step(h[1], steps[2], {}) /\ h[3] = Step(h[2], steps[3], {})
    BY <2>1 DEF s1
  <2>3. QED
    BY <2>1, <2>2 DEF s2, s3
<1>7. \A s : \A k \in 1 .. 3 : Applies(s, steps[k])
  BY <1>2 DEF Applies
<1>3. 1 \in 1 .. 3 /\ 2 \in 1 .. 3 /\ 3 \in 1 .. 3
  OBVIOUS
<1> HIDE DEF s1, s2, s3
<1>8. /\ s1 \in Holdings(objects) /\ \A p \in objects \ {"fft_buffer_1"} : s1[p] = held[p]
      /\ Became(steps[1], held["fft_buffer_1"], {}, s1["fft_buffer_1"])
  BY <1>2, <1>7, <1>3, StepOn DEF s1, Made
<1>9. /\ s2 \in Holdings(objects) /\ \A p \in objects \ {"fft_buffer_2"} : s2[p] = s1[p]
      /\ Became(steps[2], s1["fft_buffer_2"], {}, s2["fft_buffer_2"])
  BY <1>2, <1>7, <1>3, <1>8, StepOn DEF s2, Made
<1>10. /\ s3 \in Holdings(objects) /\ \A p \in objects \ {"fft_plan"} : s3[p] = s2[p]
       /\ Became(steps[3], s2["fft_plan"], {}, s3["fft_plan"])
  BY <1>2, <1>7, <1>3, <1>9, StepOn DEF s3, Made
<1>11. /\ s3["fft_buffer_1"] = s1["fft_buffer_1"] /\ s3["fft_buffer_2"] = s2["fft_buffer_2"]
       /\ s1["fft_buffer_2"] = held["fft_buffer_2"] /\ s2["fft_plan"] = held["fft_plan"]
       /\ \A o \in objects \ Made : s3[o] = held[o]
  BY <1>8, <1>9, <1>10 DEF Made
<1>12. \A o \in Made : /\ s3[o].overdrawn = held[o].overdrawn
                       /\ held[o].set => s3[o].null = held[o].null
  BY <1>2, <1>8, <1>9, <1>10, <1>11 DEF Made, Became
<1>13. QED
  BY <1>6, <1>10, <1>11, <1>12 DEF steps

\* What a task holds is in order.
InHand ==
    /\ held \in Holdings(Objects)
    /\ \A o \in Objects : /\ ~ held[o].overdrawn
                          /\ held[o].null => phase = "finalized" /\ o \in OnDemand /\ ~ asked
    /\ phase # "finalized" =>
          /\ \A o \in Objects \ Borrowed(Row0.setup) : Owned(held[o])
          /\ asked \/ ("fft_plan" \in OnDemand /\ held["fft_plan"].set) =>
                \A o \in OnDemand : held[o].set
          /\ task = "hough_likelihood" /\ runs = 0 => \A o \in Objects : ~ held[o].set
    /\ phase \in {"ready", "running"} => \A o \in Objects \ OnDemand : There(held[o])

HoldInv ==
    /\ task \in DOMAIN Tasks /\ runs \in Nat /\ asked \in BOOLEAN
    /\ (task = "hough_likelihood" => runs < 2) => InHand

\* The objects of a task, from its row.
LEMMA ObjectsOfTask ==
    ASSUME task \in DOMAIN Tasks
    PROVE  /\ Objects = About(Row0.setup) \cup OnDemand
           /\ task # "fftconvolution" => Row0.requisition = <<>> /\ OnDemand = {}
           /\ task = "fftconvolution" => /\ OnDemand = Made /\ Made \cap Borrowed(Row0.setup) = {}
                                         /\ Row0.requisition = FftconvolutionRequisition
                                         /\ Row0.finalize = FftconvolutionFinalize
           /\ OnDemand \cap Borrowed(Row0.setup) = {}
           /\ Borrowed(Row0.setup) \subseteq About(Row0.setup)
<1>1. TameRow(task, Row0)
  BY SetupRows DEF Row0
<1>2. Objects = About(Row0.setup) \cup OnDemand
  BY <1>1 DEF TameRow, IsList, Objects, About
<1>3. ASSUME task # "fftconvolution" PROVE Row0.requisition = <<>> /\ OnDemand = {}
  BY <1>1, <1>3 DEF TameRow, OnDemand
<1>4. ASSUME task = "fftconvolution"
      PROVE  /\ OnDemand = Made /\ Made \cap Borrowed(Row0.setup) = {}
             /\ Row0.requisition = FftconvolutionRequisition
             /\ Row0.finalize = FftconvolutionFinalize
  <2>1. /\ Row0.requisition = FftconvolutionRequisition /\ Row0.setup = FftconvolutionSetup
        /\ Row0.finalize = FftconvolutionFinalize
    BY <1>4 DEF Row0, Tasks, RowOnDemand
  <2>2. OnDemand = Made
    BY <2>1 DEF OnDemand, FftconvolutionRequisition, CreateUnless, Create, Always, Made
  <2>3. Made \cap Borrowed(FftconvolutionSetup) = {}
    BY DEF Borrowed, FftconvolutionSetup, Borrow, Take, Clear, Always, Made
  <2>4. QED
    BY <2>1, <2>2, <2>3
<1>5. OnDemand \cap Borrowed(Row0.setup) = {}
  BY <1>3, <1>4
<1>6. Borrowed(Row0.setup) \subseteq About(Row0.setup)
  BY DEF Borrowed, About
<1>7. QED
  BY <1>2, <1>3, <1>4, <1>5, <1>6

\* After a setup that finds every kernel everything it is for is there; what was
\* in order stays so.  (Not the second of the likelihood task.)
LEMMA SetupTakesAll ==
    ASSUME HoldInv, phase = "idle", task = "hough_likelihood" => runs = 0,
           NEW missing, missing \subseteq Kernels
    PROVE  LET s == Perform(Row0.setup, missing) IN
           /\ s \in Holdings(Objects)
           /\ \A o \in Objects : SameFaults(s[o], held[o])
           /\ \A o \in Objects \ Borrowed(Row0.setup) : Owned(s[o])
           /\ missing = {} => \A o \in Objects \ OnDemand : There(s[o])
           /\ "fft_plan" \in OnDemand => ~ s["fft_plan"].set
<1> DEFINE s == Perform(Row0.setup, missing)
<1>1. task \in DOMAIN Tasks /\ InHand
  BY DEF HoldInv
<1>2. TameRow(task, Row0) /\ Len(Row0.setup) \in Nat
  BY <1>1, SetupRows DEF Row0, TameRow, IsList
<1>3. held \in Holdings(Objects) /\ \A o \in Objects \ Borrowed(Row0.setup) : Owned(held[o])
  BY <1>1 DEF InHand
<1>4. Objects = About(Row0.setup) \cup OnDemand
  BY <1>1, ObjectsOfTask
<1>5. ASSUME NEW kinds, kinds \subseteq Gathering, Gathers(Row0.setup, kinds)
      PROVE  /\ s \in Holdings(Objects)
             /\ \A o \in Objects : SameFaults(s[o], held[o])
             /\ \A o \in Objects \ Borrowed(Row0.setup) : Owned(s[o])
             /\ \A k \in 1 .. Len(Row0.setup) : Gathered(Row0.setup[k], missing, s)
  <2>1. \A k \in 1 .. Len(Row0.setup) : Row0.setup[k].object \in Objects
    BY <1>4 DEF About
  <2>2. QED
    BY <1>2, <1>3, <1>5, <2>1, GathersAll
<1>6. CASE task \notin {"hough_likelihood", "hough_likelihood_image", "fftconvolution"}
  <2>1. Gathers(Row0.setup, Fetching) /\ Fetching \subseteq Gathering
    BY <1>2, <1>6 DEF TameRow, Gathering
  <2>2. /\ s \in Holdings(Objects)
        /\ \A o \in Objects : SameFaults(s[o], held[o])
        /\ \A o \in Objects \ Borrowed(Row0.setup) : Owned(s[o])
        /\ \A k \in 1 .. Len(Row0.setup) : Gathered(Row0.setup[k], missing, s)
    BY <1>5, <2>1
  <2>3. OnDemand = {}
    BY <1>1, <1>6, ObjectsOfTask
  <2> HIDE DEF s
  <2>4. ASSUME missing = {}, NEW o \in Objects PROVE There(s[o])
    <3>1. PICK k \in 1 .. Len(Row0.setup) : Row0.setup[k].object = o
      BY <1>4, <2>3 DEF About
    <3>2. Row0.setup[k].do # "clear"
      BY <2>1 DEF Gathers, Fetching
    <3>3. QED
      BY <2>2, <2>4, <3>1, <3>2 DEF Gathered
  <2>5. QED
    BY <2>2, <2>3, <2>4 DEF s
<1>7. CASE task = "fftconvolution"
  <2>1. Gathers(Row0.setup, Gathering)
    BY <1>2, <1>7 DEF TameRow
  <2>2. /\ s \in Holdings(Objects)
        /\ \A o \in Objects : SameFaults(s[o], held[o])
        /\ \A o \in Objects \ Borrowed(Row0.setup) : Owned(s[o])
        /\ \A k \in 1 .. Len(Row0.setup) : Gathered(Row0.setup[k], missing, s)
    BY <1>5, <2>1
  <2>3. Row0.setup = FftconvolutionSetup /\ OnDemand = Made
    BY <1>1, <1>7, ObjectsOfTask DEF Row0, Tasks, RowOnDemand
  <2>4. /\ Len(FftconvolutionSetup) = 6
        /\ \A k \in 1 .. 6 : FftconvolutionSetup[k].do = "clear" =>
              FftconvolutionSetup[k].object = "fft_plan"
        /\ FftconvolutionSetup[5].do = "clear" /\ FftconvolutionSetup[5].object = "fft_plan"
    BY DEF FftconvolutionSetup, Borrow, Take, Clear, Always
  <2> HIDE DEF s
  <2>5. ~ s["fft_plan"].set
    <3>1. 5 \in 1 .. Len(Row0.setup)
      BY <2>3, <2>4
    <3>2. Gathered(Row0.setup[5], missing, s)
      BY <2>2, <3>1
    <3>3. QED
      BY <2>3, <2>4, <3>2 DEF Gathered
  <2>6. ASSUME missing = {}, NEW o \in Objects \ OnDemand PROVE There(s[o])
    <3>1. PICK k \in 1 .. Len(Row0.setup) : Row0.setup[k].object = o
      BY <1>4 DEF About
    <3>2. Row0.setup[k].do # "clear"
      BY <2>3, <2>4, <3>1 DEF Made
    <3>3. QED
      BY <2>2, <2>6, <3>1, <3>2 DEF Gathered
  <2>7. QED
    BY <2>2, <2>5, <2>6 DEF s
<1>8. CASE task = "hough_likelihood"
  <2>1. Row0.setup = HoughLikelihoodSetup
    BY <1>8 DEF Row0, Tasks, Row, RowOnDemand
  <2>2. OnDemand = {} /\ Borrowed(HoughLikelihoodSetup) = {}
    <3>1. OnDemand = {}
      BY <1>1, <1>8, ObjectsOfTask
    <3>2. Borrowed(HoughLikelihoodSetup) = {}
      BY DEF Borrowed, HoughLikelihoodSetup, Take, Create, Release, ReleaseIf, GiveBack, Always
    <3>3. QED
      BY <3>1, <3>2
  <2>3. Objects = {"context", "kernel", "mask_mem", "count_mem"}
    <3>1. About(HoughLikelihoodSetup) = {"context", "kernel", "mask_mem", "count_mem"}
      BY DEF About, HoughLikelihoodSetup, Take, Create, Release, ReleaseIf, GiveBack, Always
    <3>2. QED
      BY <1>4, <2>1, <2>2, <3>1
  <2>4. missing \subseteq {"kernel"}
    BY <2>1 DEF Kernels, HoughLikelihoodSetup, Take, Create, Release, ReleaseIf, GiveBack, Always
  <2>5. \A o \in Objects : ~ held[o].set
    BY <1>1, <1>8 DEF InHand
  <2>6. /\ s \in Holdings(Objects)
        /\ \A o \in Objects : SameFaults(s[o], held[o]) /\ Owned(s[o])
        /\ missing = {} => \A o \in Objects : There(s[o])
    BY <1>3, <2>1, <2>3, <2>4, <2>5, FirstLikelihoodTakesAll
  <2> HIDE DEF s
  <2>7. QED
    BY <2>2, <2>6 DEF s
<1>9. CASE task = "hough_likelihood_image"
  <2>1. Row0.setup = HoughLikelihoodImageSetup
    BY <1>9 DEF Row0, Tasks, Row, RowOnDemand
  <2>2. OnDemand = {} /\ Borrowed(HoughLikelihoodImageSetup) = {}
    <3>1. OnDemand = {}
      BY <1>1, <1>9, ObjectsOfTask
    <3>2. Borrowed(HoughLikelihoodImageSetup) = {}
      BY DEF Borrowed, HoughLikelihoodImageSetup, Take, Create, Release, ReleaseIf, GiveBack, Always
    <3>3. QED
      BY <3>1, <3>2
  <2>3. Objects = {"context", "kernel", "mask_mem"}
    <3>1. About(HoughLikelihoodImageSetup) = {"context", "kernel", "mask_mem"}
      BY DEF About, HoughLikelihoodImageSetup, Take, Create, Release, ReleaseIf, GiveBack, Always
    <3>2. QED
      BY <1>4, <2>1, <2>2, <3>1
  <2>4. "mask_mem" \notin missing
    <3>1. "mask_mem" \notin Kernels
      BY <2>1 DEF Kernels, HoughLikelihoodImageSetup, Take, Create, Release, ReleaseIf, GiveBack, Always
    <3>2. QED
      BY <3>1
  <2>5. \A o \in Objects : Owned(held[o])
    BY <1>3, <2>1, <2>2
  <2>6. /\ s \in Holdings(Objects)
        /\ \A o \in Objects : SameFaults(s[o], held[o]) /\ Owned(s[o])
        /\ missing = {} => \A o \in Objects : There(s[o])
    BY <1>3, <2>1, <2>3, <2>4, <2>5, ImageTakesAll
  <2> HIDE DEF s
  <2>7. QED
    BY <2>2, <2>6 DEF s
<1>10. QED
  BY <1>6, <1>7, <1>8, <1>9

\* Being asked for the output makes what is made on demand, and no more.
LEMMA AskedMakesAll ==
    ASSUME HoldInv, InHand, phase = "running"
    PROVE  LET s == Perform(Row0.requisition, {}) IN
           /\ s \in Holdings(Objects)
           /\ \A o \in Objects \ OnDemand : s[o] = held[o]
           /\ \A o \in OnDemand : SameFaults(s[o], held[o]) /\ s[o].set /\ Owned(s[o])
<1> DEFINE s == Perform(Row0.requisition, {})
<1>1. task \in DOMAIN Tasks /\ held \in Holdings(Objects) /\ phase # "finalized"
  BY DEF HoldInv, InHand
<1>2. \A o \in OnDemand : Owned(held[o]) /\ o \in Objects
  BY <1>1, ObjectsOfTask DEF InHand
<1>3. CASE task # "fftconvolution"
  <2>1. Row0.requisition = <<>> /\ OnDemand = {}
    BY <1>1, <1>3, ObjectsOfTask
  <2>2. \E h : PassesThrough(h, <<>>, {}, Objects)
    <3> DEFINE steps == <<>>
    <3>1. Len(steps) \in Nat /\ \A k \in 1 .. Len(steps) : steps[k].object \in Objects
      OBVIOUS
    <3> HIDE DEF steps
    <3>2. \E h : PassesThrough(h, steps, {}, Objects)
      BY <1>1, <3>1, Performed
    <3>3. QED
      BY <3>2 DEF steps
  <2>3. Perform(<<>>, {}) = held
    BY <2>2 DEF PassesThrough
  <2>4. QED
    BY <1>1, <2>1, <2>3
<1>4. CASE task = "fftconvolution"
  <2>1. Row0.requisition = FftconvolutionRequisition /\ OnDemand = Made
    BY <1>1, <1>4, ObjectsOfTask
  <2>2. held["fft_plan"].set => \A o \in Made : held[o].set
    BY <1>1, <2>1 DEF InHand, Made
  <2>3. Made \subseteq Objects
    BY <1>2, <2>1
  <2>4. /\ s \in Holdings(Objects)
        /\ \A o \in Objects \ Made : s[o] = held[o]
        /\ \A o \in Made : /\ SameFaults(s[o], held[o]) /\ s[o].set
                           /\ Owned(held[o]) => Owned(s[o])
    BY <1>1, <2>1, <2>2, <2>3, RequisitionMakesAll
  <2> HIDE DEF s
  <2>5. QED
    BY <1>2, <2>1, <2>4 DEF s
<1>5. QED
  BY <1>3, <1>4

\* finalize finds a reference for whatever it releases, and NULL only for what is
\* made on demand and never was.
LEMMA FinalizeReturns ==
    ASSUME HoldInv, InHand, phase = "idle"
    PROVE  LET s == Perform(Row0.finalize, {}) IN
           /\ s \in Holdings(Objects)
           /\ \A o \in Objects : s[o].overdrawn = held[o].overdrawn
           /\ \A o \in Objects : s[o].null = held[o].null \/ (o \in OnDemand /\ ~ held[o].set)
<1> DEFINE s == Perform(Row0.finalize, {})
<1>1. task \in DOMAIN Tasks /\ held \in Holdings(Objects)
  BY DEF HoldInv, InHand
<1>2. /\ TameRow(task, Row0) /\ Len(Row0.finalize) \in Nat
      /\ \A o \in Objects \ Borrowed(Row0.setup) : Owned(held[o])
  BY <1>1, SetupRows DEF Row0, TameRow, IsList, InHand
<1>3. Objects = About(Row0.setup) \cup OnDemand
  BY <1>1, ObjectsOfTask
<1>4. CASE task # "fftconvolution"
  <2>1. Returns(Row0.finalize, Row0.setup) /\ About(Row0.setup) \subseteq Objects
    BY <1>2, <1>3, <1>4 DEF TameRow
  <2>2. s \in Holdings(Objects) /\ \A o \in Objects : SameFaults(s[o], held[o])
    BY <1>1, <1>2, <2>1, GivesBackOnce
  <2> HIDE DEF s
  <2>3. QED
    BY <2>2 DEF s, SameFaults
<1>5. CASE task = "fftconvolution"
  <2>1. /\ Row0.finalize = FftconvolutionFinalize /\ OnDemand = Made
        /\ Made \cap Borrowed(Row0.setup) = {}
    BY <1>1, <1>5, ObjectsOfTask
  <2>2. Made \subseteq Objects /\ \A o \in Made : Owned(held[o])
    BY <1>2, <1>3, <2>1
  <2>3. /\ s \in Holdings(Objects)
        /\ \A o \in Objects \ Made : s[o] = held[o]
        /\ \A o \in Made : /\ s[o].overdrawn = held[o].overdrawn
                           /\ held[o].set => s[o].null = held[o].null
    BY <1>1, <2>1, <2>2, MadeAreReturned
  <2> HIDE DEF s
  <2>4. QED
    BY <2>1, <2>3 DEF s
<1>6. QED
  BY <1>4, <1>5

\* A new task holds nothing.
LEMMA HoldStarts == ObjectInit => HoldInv
<1> SUFFICES ASSUME ObjectInit PROVE HoldInv
  OBVIOUS
<1>1. /\ held = [o \in Objects |-> Null] /\ asked = FALSE /\ phase = "idle"
      /\ task \in DOMAIN Tasks /\ runs = 0
  BY DEF ObjectInit
<1>2. Null \in Field /\ ~ Null.set /\ ~ Null.overdrawn /\ ~ Null.null
  BY DEF Null, Field
<1>3. held \in Holdings(Objects) /\ \A o \in Objects : held[o] = Null
  BY <1>1, <1>2 DEF Holdings
<1>4. \A o \in OnDemand : o \in Objects
  BY DEF Objects
<1>5. InHand
  BY <1>1, <1>2, <1>3, <1>4 DEF InHand, Owned
<1>6. QED
  BY <1>1, <1>5 DEF HoldInv

\* Every step keeps HoldInv.
LEMMA HoldGoesOn == HoldInv /\ [ObjectNext]_objectVars => HoldInv'
<1> SUFFICES ASSUME HoldInv, [ObjectNext]_objectVars PROVE HoldInv'
  OBVIOUS
<1>1. task \in DOMAIN Tasks /\ runs \in Nat /\ asked \in BOOLEAN
  BY DEF HoldInv
<1>2. ASSUME task' = task
      PROVE  Row0' = Row0 /\ Objects' = Objects /\ OnDemand' = OnDemand
  BY <1>2 DEF Row0, Objects, OnDemand
<1>3. ASSUME UNCHANGED <<task, held, asked, runs>>,
             phase' = phase \/ (phase = "ready" /\ phase' = "running")
      PROVE  HoldInv'
  <2>1. InHand => InHand'
    BY <1>2, <1>3 DEF InHand
  <2>2. QED
    BY <1>1, <1>3, <2>1 DEF HoldInv
<1>4. ASSUME NEW p \in Properties, NEW v \in Samples(p), Set(p, v) PROVE HoldInv'
  BY <1>3, <1>4 DEF Set
<1>5. CASE Setup
  <2>1. PICK missing \in SUBSET Kernels :
           /\ held' = Perform(Row0.setup, missing)
           /\ phase' = IF missing = {} THEN "ready" ELSE "idle"
    BY <1>5 DEF Setup
  <2>2. /\ task' = task /\ runs' = runs + 1 /\ asked' = FALSE /\ phase = "idle" /\ runs' \in Nat
    <3>1. task' = task /\ runs' = runs + 1 /\ asked' = FALSE /\ phase = "idle"
      BY <1>5 DEF Setup
    <3>2. QED
      BY <1>1, <3>1
  <2>3. CASE task = "hough_likelihood" => runs = 0
    <3> DEFINE s == Perform(Row0.setup, missing)
    <3>1. /\ s \in Holdings(Objects)
          /\ \A o \in Objects : SameFaults(s[o], held[o])
          /\ \A o \in Objects \ Borrowed(Row0.setup) : Owned(s[o])
          /\ missing = {} => \A o \in Objects \ OnDemand : There(s[o])
          /\ "fft_plan" \in OnDemand => ~ s["fft_plan"].set
      BY <2>2, <2>3, SetupTakesAll
    <3>2. InHand
      BY <2>3 DEF HoldInv
    <3>3. \A o \in Objects : ~ s[o].overdrawn /\ ~ s[o].null
      BY <2>2, <3>1, <3>2 DEF InHand, SameFaults
    <3>4. s = held'
      BY <2>1
    <3> HIDE DEF s
    <3>5. phase' \in {"ready", "idle"} /\ (phase' = "ready" => missing = {})
      BY <2>1
    <3>6. ~ (task = "hough_likelihood" /\ runs' = 0)
      BY <1>1, <2>2
    <3>7. InHand'
      BY <1>2, <2>2, <3>1, <3>3, <3>4, <3>5, <3>6 DEF InHand
    <3>8. QED
      BY <1>1, <2>2, <3>7 DEF HoldInv
  <2>4. CASE ~ (task = "hough_likelihood" => runs = 0)
    <3>1. ~ (task' = "hough_likelihood" => runs' < 2)
      BY <1>1, <2>2, <2>4
    <3>2. QED
      BY <1>1, <2>2, <3>1 DEF HoldInv
  <2>5. QED
    BY <2>3, <2>4
<1>6. CASE GetNumInputs
  <2>1. UNCHANGED <<task, held, asked, runs>> /\ phase = "ready" /\ phase' = "running"
    BY <1>6 DEF GetNumInputs
  <2>2. QED
    BY <1>3, <2>1
<1>7. CASE GetRequisition
  <2> DEFINE s == Perform(Row0.requisition, {})
  <2>1. /\ task' = task /\ runs' = runs /\ phase' = phase /\ phase = "running" /\ asked' = TRUE
        /\ held' = s
    BY <1>7 DEF GetRequisition
  <2>2. InHand => InHand'
    <3> SUFFICES ASSUME InHand PROVE InHand'
      OBVIOUS
    <3>1. /\ s \in Holdings(Objects)
          /\ \A o \in Objects \ OnDemand : s[o] = held[o]
          /\ \A o \in OnDemand : SameFaults(s[o], held[o]) /\ s[o].set /\ Owned(s[o])
      BY <2>1, AskedMakesAll
    <3> HIDE DEF s
    <3>2. \A o \in Objects : ~ s[o].overdrawn /\ ~ s[o].null
      BY <2>1, <3>1 DEF InHand, SameFaults
    <3>3. \A o \in Objects \ Borrowed(Row0.setup) : Owned(s[o])
      BY <2>1, <3>1 DEF InHand
    <3>4. \A o \in Objects \ OnDemand : There(s[o])
      BY <2>1, <3>1 DEF InHand
    <3>5. task = "hough_likelihood" => OnDemand = {}
      BY <1>1, ObjectsOfTask
    <3>6. task = "hough_likelihood" /\ runs = 0 => \A o \in Objects : ~ s[o].set
      BY <2>1, <3>1, <3>5 DEF InHand
    <3>7. QED
      BY <1>2, <2>1, <3>1, <3>2, <3>3, <3>4, <3>6 DEF InHand
  <2>3. QED
    BY <1>1, <2>1, <2>2 DEF HoldInv
<1>8. CASE Generate
  BY <1>3, <1>8 DEF Generate
<1>9. CASE EndRun
  <2>1. /\ task' = task /\ runs' = runs /\ asked' = asked /\ phase = "running" /\ phase' = "idle"
        /\ held' = [o \in Objects |-> [held[o] EXCEPT !.lent = FALSE]]
    BY <1>9 DEF EndRun
  <2>2. InHand => InHand'
    <3> SUFFICES ASSUME InHand PROVE InHand'
      OBVIOUS
    <3>1. \A o \in Objects : /\ held'[o] \in Field /\ held'[o].set = held[o].set
                             /\ held'[o].refs = held[o].refs /\ SameFaults(held'[o], held[o])
      <4> TAKE o \in Objects
      <4>1. held[o] \in Field /\ held'[o] = [held[o] EXCEPT !.lent = FALSE]
        BY <2>1 DEF InHand, Holdings
      <4>2. QED
        BY <4>1 DEF Field, SameFaults
    <3>2. held' \in Holdings(Objects)
      BY <2>1, <3>1 DEF Holdings
    <3>3. \A o \in Objects : ~ held'[o].overdrawn /\ ~ held'[o].null
      BY <2>1, <3>1 DEF InHand, SameFaults
    <3>4. \A o \in Objects \ Borrowed(Row0.setup) : Owned(held'[o])
      BY <2>1, <3>1 DEF InHand, Owned
    <3>5. \A o \in OnDemand : o \in Objects
      BY DEF Objects
    <3>6. asked \/ ("fft_plan" \in OnDemand /\ held'["fft_plan"].set) => \A o \in OnDemand : held'[o].set
      BY <2>1, <3>1, <3>5 DEF InHand
    <3>7. task = "hough_likelihood" /\ runs = 0 => \A o \in Objects : ~ held'[o].set
      BY <2>1, <3>1 DEF InHand
    <3>8. QED
      BY <1>2, <2>1, <3>2, <3>3, <3>4, <3>6, <3>7 DEF InHand
  <2>3. QED
    BY <1>1, <2>1, <2>2 DEF HoldInv
<1>10. CASE Finalize
  <2> DEFINE s == Perform(Row0.finalize, {})
  <2>1. /\ task' = task /\ runs' = runs /\ asked' = asked /\ phase = "idle" /\ phase' = "finalized"
        /\ held' = s
    BY <1>10 DEF Finalize
  <2>2. (task = "hough_likelihood" => runs < 2) /\ InHand => InHand'
    <3> SUFFICES ASSUME InHand PROVE InHand'
      OBVIOUS
    <3>1. /\ s \in Holdings(Objects)
          /\ \A o \in Objects : s[o].overdrawn = held[o].overdrawn
          /\ \A o \in Objects : s[o].null = held[o].null \/ (o \in OnDemand /\ ~ held[o].set)
      BY <2>1, FinalizeReturns
    <3> HIDE DEF s
    <3>2. \A o \in Objects : ~ s[o].overdrawn /\ (s[o].null => o \in OnDemand /\ ~ asked)
      BY <2>1, <3>1 DEF InHand
    <3>3. QED
      BY <1>2, <2>1, <3>1, <3>2 DEF InHand
  <2>3. QED
    BY <1>1, <2>1, <2>2 DEF HoldInv
<1>11. CASE Finalized \/ UNCHANGED objectVars
  BY <1>3, <1>11 DEF Finalized, objectVars
<1>12. QED
  BY <1>4, <1>5, <1>6, <1>7, <1>8, <1>9, <1>10, <1>11 DEF ObjectNext

\* In every run a task has all it uses, by a reference of its own or lent by the
\* run, and once it was asked for its output also what is made on demand; through
\* any number of runs and of setups that failed, it releases nothing it has no
\* reference on, and NULL only for what is made on demand and never was (setup,
\* get_requisition and finalize of every task; of the likelihood task up to its
\* second setup).
THEOREM TasksHoldWhatTheyUse == ObjectSpec => []ReferencesSound
<1>1. HoldInv => ReferencesSound
  <2> SUFFICES ASSUME HoldInv, task = "hough_likelihood" => runs < 2 PROVE ReferencesSound
    BY DEF ReferencesSound
  <2>1. InHand /\ task \in DOMAIN Tasks
    BY DEF HoldInv
  <2>2. ASSUME phase = "running", asked, NEW o \in OnDemand PROVE Usable(o)
    <3>1. o \in Objects \ Borrowed(Row0.setup)
      BY <2>1, ObjectsOfTask
    <3>2. held[o].set /\ Owned(held[o])
      BY <2>1, <2>2, <3>1 DEF InHand
    <3>3. QED
      BY <3>2 DEF Usable, Owned
  <2>3. ASSUME phase \in {"ready", "running"}, NEW o \in Objects \ OnDemand PROVE Usable(o)
    BY <2>1, <2>3 DEF InHand, Usable, There
  <2>4. \A o \in Objects : ~ held[o].overdrawn /\ (held[o].null => o \in OnDemand /\ ~ asked)
    BY <2>1 DEF InHand
  <2>5. QED
    BY <2>2, <2>3, <2>4 DEF ReferencesSound
<1>2. QED
  BY <1>1, HoldStarts, HoldGoesOn, PTL DEF ObjectSpec

KernelInv ==
    /\ phase \in {"idle", "ready", "running", "finalized"}
    /\ produced \in {0, 1} /\ flag \in BOOLEAN
    /\ phase = "running" /\ task = "hessian_kernel" => (flag <=> produced = 1)

\* A run of the Hessian kernel generator makes one kernel, in whatever state the
\* run before left its flag (get_num_inputs and generate of hessian-kernel).
THEOREM EveryRunItsKernel == ObjectSpec => []OneKernelPerRun
<1>1. ObjectInit => KernelInv
  BY DEF ObjectInit, KernelInv
<1>2. KernelInv /\ [ObjectNext]_objectVars => KernelInv'
  <2> SUFFICES ASSUME KernelInv, [ObjectNext]_objectVars PROVE KernelInv'
    OBVIOUS
  <2>1. ASSUME NEW p \in Properties, NEW v \in Samples(p), Set(p, v) PROVE KernelInv'
    BY <2>1 DEF Set, KernelInv
  <2>2. CASE Setup
    <3>1. /\ phase' \in {"ready", "idle"} /\ phase' # "running"
          /\ UNCHANGED <<flag, produced, task>>
      BY <2>2 DEF Setup
    <3>2. QED
      BY <3>1 DEF KernelInv
  <2>3. CASE GetNumInputs
    <3>1. phase' = "running" /\ produced' = 0 /\ task' = task
      BY <2>3 DEF GetNumInputs
    <3>2. flag' = (flag /\ task # "hessian_kernel")
      BY <2>3 DEF GetNumInputs
    <3>3. flag' \in BOOLEAN /\ (task = "hessian_kernel" => ~ flag')
      BY <3>2, Zenon
    <3>4. QED
      BY <3>1, <3>3 DEF KernelInv
  <2>4. CASE GetRequisition
    BY <2>4 DEF GetRequisition, KernelInv
  <2>5. CASE Generate
    BY <2>5 DEF Generate, KernelInv
  <2>6. CASE EndRun
    BY <2>6 DEF EndRun, KernelInv
  <2>7. CASE Finalize
    BY <2>7 DEF Finalize, KernelInv
  <2>8. CASE Finalized \/ UNCHANGED objectVars
    BY <2>8 DEF Finalized, objectVars, KernelInv
  <2>9. QED
    BY <2>1, <2>2, <2>3, <2>4, <2>5, <2>6, <2>7, <2>8 DEF ObjectNext
<1>3. KernelInv => OneKernelPerRun
  BY DEF KernelInv, OneKernelPerRun
<1>4. QED
  BY <1>1, <1>2, <1>3, PTL DEF ObjectSpec

-----------------------------------------------------------------------------
(* Sizes rounded up to a power of two. *)

\* Bit holds the powers of two.
LEMMA Bits ==
    /\ Bit[0] = 1 /\ \A i \in 1 .. Width : Bit[i] = 2 * Bit[i - 1]
    /\ \A i \in 0 .. Width : Bit[i] \in Nat \ {0}
<1> DEFINE N == Width
           P == Nat \ {0}
           Twice(v) == 2 * v
           K(f) == [n \in 0 .. N |-> IF n = 0 THEN 1 ELSE Twice(f[n - 1])]
           g == [p \in (1 .. N) \X P |-> Twice(p[2])]
<1>1. N \in Nat
  BY WidthAssumption
<1>2. Bit = CHOOSE f : f = K(f)
  BY DEF Bit
<1>3. \A v \in P : Twice(v) \in P
  OBVIOUS
<1>4. g \in [(1 .. N) \X P -> P] /\ \A n \in 1 .. N, v \in P : g[<<n, v>>] = Twice(v)
  BY <1>3
<1>5. 1 \in P
  OBVIOUS
<1> HIDE DEF g, N, P
<1>6. PICK h \in [0 .. N -> P] : Recursive(h, N, 1, g)
  BY <1>1, <1>4, <1>5, RecursionExists
<1> HIDE DEF Twice
<1>7. h = K(h)
  <2>1. ASSUME NEW i \in 0 .. N PROVE h[i] = K(h)[i]
    <3>1. CASE i = 0
      BY <1>6, <3>1 DEF Recursive
    <3>2. CASE i # 0
      <4>1. i \in 1 .. N /\ h[i - 1] \in P
        BY <1>1, <3>2
      <4>2. h[i] = Twice(h[i - 1])
        BY <1>4, <1>6, <4>1 DEF Recursive
      <4>3. QED
        BY <3>2, <4>2
    <3>3. QED
      BY <3>1, <3>2
  <2>2. QED
    BY <2>1
<1>8. ASSUME NEW e PROVE K(e)[0] = 1 /\ \A n \in 1 .. N : K(e)[n] = Twice(e[n - 1])
  BY <1>1
<1> HIDE DEF K
<1>9. Bit = K(Bit)
  BY <1>2, <1>7
<1>10. Bit[0] = 1 /\ \A n \in 1 .. N : Bit[n] = Twice(Bit[n - 1])
  BY <1>8, <1>9
<1>11. \A n \in 0 .. N : Bit[n] \in P
  <2>1. Bit[0] \in P /\ \A n \in 1 .. N : Bit[n - 1] \in P => Bit[n] \in P
    BY <1>3, <1>5, <1>10
  <2>2. QED
    BY <1>1, <2>1, RecursionKeeps
<1>12. QED
  BY <1>10, <1>11 DEF N, P, Twice

\* A higher bit is worth more.
LEMMA BitsGrow ==
    ASSUME NEW i \in 0 .. Width, NEW j \in 0 .. Width, i < j
    PROVE  2 * Bit[i] <= Bit[j]
<1> DEFINE X == {n \in 0 .. Width : i < n => 2 * Bit[i] <= Bit[n]}
<1>1. Width \in Nat /\ 0 \in X
  BY WidthAssumption
<1>2. ASSUME NEW n \in 0 .. Width - 1, n \in X PROVE n + 1 \in X
  <2>1. n + 1 \in 1 .. Width /\ n + 1 \in 0 .. Width /\ (n + 1) - 1 = n /\ n \in 0 .. Width
    BY <1>1
  <2>2. Bit[n + 1] = 2 * Bit[n] /\ Bit[n] \in Nat /\ Bit[i] \in Nat
    BY <2>1, Bits
  <2>3. CASE i < n
    BY <1>2, <2>1, <2>2, <2>3
  <2>4. CASE ~ (i < n)
    <3>1. i < n + 1 => i = n
      BY <2>4
    <3>2. QED
      BY <2>1, <2>2, <3>1
  <2>5. QED
    BY <2>3, <2>4
<1> HIDE DEF X
<1>3. \A n \in 0 .. Width : n \in X
  BY <1>1, <1>2, InductionUpTo
<1>4. QED
  BY <1>3 DEF X

\* Rounding by doubling ends at the least power of two, for sizes it can round.
LEMMA DoublingRounds ==
    ASSUME NEW x \in 1 .. Bit[Width - 1]
    PROVE  LeastPowerOfTwo(x, ceil_power_of_two(x))
<1> DEFINE N == Width
           P == Int
           Turn(v) == IF v >= x THEN v ELSE (2 * v) % Bit[N]
           K(f) == [k \in 0 .. N |-> IF k = 0 THEN 1 ELSE Turn(f[k - 1])]
           g == [p \in (1 .. N) \X P |-> Turn(p[2])]
           D == CHOOSE f : f = K(f)
<1>1. N \in Nat \ {0} /\ N - 1 \in 0 .. N /\ Bit[N] \in Nat \ {0} /\ Bit[N - 1] \in Nat /\ x \in Nat
  <2>1. N \in Nat \ {0} /\ N \in 0 .. N /\ N - 1 \in 0 .. N
    BY WidthAssumption
  <2>2. QED
    BY <2>1, Bits
<1>2. ceil_power_of_two(x) = IF D[N] >= x THEN D[N] ELSE Diverges
  BY DEF ceil_power_of_two
<1>3. \A v \in P : Turn(v) \in P
  BY <1>1
<1>4. g \in [(1 .. N) \X P -> P] /\ \A n \in 1 .. N, v \in P : g[<<n, v>>] = Turn(v)
  BY <1>3
<1>5. 1 \in P
  OBVIOUS
<1>37. \A v : Turn(v) = IF v >= x THEN v ELSE (2 * v) % Bit[N]
  OBVIOUS
<1> HIDE DEF g, N, P
<1>6. PICK h \in [0 .. N -> P] : Recursive(h, N, 1, g)
  BY <1>1, <1>4, <1>5, RecursionExists
<1> HIDE DEF Turn
<1>7. h = K(h)
  <2>1. ASSUME NEW i \in 0 .. N PROVE h[i] = K(h)[i]
    <3>1. CASE i = 0
      BY <1>6, <3>1 DEF Recursive
    <3>2. CASE i # 0
      <4>1. i \in 1 .. N /\ h[i - 1] \in P
        BY <1>1, <3>2
      <4>2. h[i] = Turn(h[i - 1])
        BY <1>4, <1>6, <4>1 DEF Recursive
      <4>3. QED
        BY <3>2, <4>2
    <3>3. QED
      BY <3>1, <3>2
  <2>2. QED
    BY <2>1
<1>8. ASSUME NEW e PROVE K(e)[0] = 1 /\ \A n \in 1 .. N : K(e)[n] = Turn(e[n - 1])
  BY <1>1
<1> HIDE DEF K
<1>9. D = K(D)
  BY <1>7
<1> HIDE DEF D
<1>10. D[0] = 1 /\ \A n \in 1 .. N : D[n] = Turn(D[n - 1])
  BY <1>8, <1>9
\* After k turns the value is a power of two, the least that will do or the k-th.
<1> DEFINE Good(k, j) == D[k] = Bit[j] /\ (j = 0 \/ Bit[j - 1] < x) /\ (D[k] >= x \/ j = k)
           X == {k \in 0 .. N : \E j \in 0 .. N - 1 : Good(k, j)}
<1>11. 0 \in X
  <2>1. 0 \in 0 .. N - 1 /\ 0 \in 0 .. N /\ D[0] = Bit[0]
    BY <1>1, <1>10, Bits
  <2>2. QED
    BY <2>1
<1>12. ASSUME NEW k \in 0 .. N - 1, k \in X PROVE k + 1 \in X
  <2>1. PICK j \in 0 .. N - 1 : Good(k, j)
    <3> HIDE DEF Good
    <3>1. QED
      BY <1>12
  <2>2. k + 1 \in 1 .. N /\ k + 1 \in 0 .. N /\ (k + 1) - 1 = k /\ j \in 0 .. N
    BY <1>1
  <2>3. D[k + 1] = IF D[k] >= x THEN D[k] ELSE (2 * D[k]) % Bit[N]
    BY <1>10, <2>2, <1>37
  <2>4. CASE D[k] >= x
    <3>1. D[k + 1] = Bit[j] /\ D[k + 1] >= x
      BY <2>1, <2>3, <2>4
    <3>2. QED
      BY <2>1, <2>2, <3>1
  <2>5. CASE ~ (D[k] >= x)
    <3>1. j = k /\ Bit[k] \in Nat /\ Bit[k] < x /\ Bit[N - 1] >= x
      <4>1. Bit[j] \in Nat
        BY <2>2, Bits DEF N
      <4>2. QED
        BY <1>1, <2>1, <2>5, <4>1 DEF N
    <3>2. k # N - 1
      BY <1>1, <3>1
    <3>3. k + 1 \in 0 .. N - 1 /\ k + 1 < N /\ N \in 0 .. N
      BY <1>1, <3>2
    <3>4. Bit[k + 1] = 2 * Bit[k] /\ Bit[k + 1] \in Nat \ {0} /\ Bit[N] \in Nat
      BY <2>2, <3>3, Bits DEF N
    <3>5. 2 * Bit[k + 1] <= Bit[N]
      BY <2>2, <3>3, BitsGrow DEF N
    <3>6. (2 * Bit[k]) % Bit[N] = Bit[k + 1]
      BY <1>1, <3>4, <3>5
    <3>7. D[k + 1] = Bit[k + 1]
      BY <2>1, <2>3, <2>5, <3>1, <3>6
    <3>8. Bit[(k + 1) - 1] < x
      BY <2>2, <3>1
    <3>9. QED
      BY <2>2, <3>3, <3>7, <3>8
  <2>6. QED
    BY <2>4, <2>5
<1> HIDE DEF X
<1>13. N \in X
  <2>1. \A k \in 0 .. N : k \in X
    BY <1>1, <1>11, <1>12, InductionUpTo
  <2>2. QED
    BY <1>1, <2>1
<1>14. PICK j \in 0 .. N - 1 : Good(N, j)
  <2> HIDE DEF Good
  <2>1. QED
    BY <1>13 DEF X
<1>15. D[N] >= x /\ ceil_power_of_two(x) = Bit[j]
  BY <1>1, <1>2, <1>14
<1>16. Bit[j] = 1 \/ Bit[j] \div 2 < x
  <2>1. CASE j = 0
    BY <2>1, Bits
  <2>2. CASE j # 0
    <3>1. j \in 1 .. N /\ j - 1 \in 0 .. N
      BY <1>1, <2>2
    <3>2. Bit[j] = 2 * Bit[j - 1] /\ Bit[j - 1] \in Nat
      BY <3>1, Bits DEF N
    <3>3. Bit[j] \div 2 = Bit[j - 1]
      BY <3>2
    <3>4. QED
      BY <1>14, <2>2, <3>3
  <2>3. QED
    BY <2>1, <2>2
<1>17. QED
  BY <1>14, <1>15, <1>16 DEF LeastPowerOfTwo, IsPowerOfTwo, N

\* A quotient of one, and one of zero.
LEMMA Quotients ==
    ASSUME NEW m \in Nat \ {0}, NEW y \in Nat
    PROVE  /\ y < m => y \div m = 0
           /\ y >= m /\ y < 2 * m => y \div m = 1
<1>1. y \div m \in Nat /\ y % m \in 0 .. m - 1 /\ y = m * (y \div m) + (y % m)
  OBVIOUS
<1> DEFINE q == y \div m
<1>2. ASSUME q >= 1 PROVE y >= m
  <2>1. m * q >= m * 1
    BY <1>1, <1>2
  <2>2. QED
    BY <1>1, <2>1
<1>3. ASSUME q >= 2 PROVE y >= 2 * m
  <2>1. m * q >= m * 2
    BY <1>1, <1>3
  <2>2. QED
    BY <1>1, <2>1
<1>4. ASSUME q = 0 PROVE y < m
  BY <1>1, <1>4
<1>5. q \in Nat
  BY <1>1
<1> HIDE DEF q
<1>6. (y < m => q = 0) /\ (y >= m /\ y < 2 * m => q = 1)
  BY <1>2, <1>3, <1>4, <1>5
<1>7. QED
  BY <1>6 DEF q

\* A number that is not zero has a highest bit.
LEMMA HighestBit ==
    ASSUME NEW y \in 1 .. Bit[Width] - 1
    PROVE  \E h \in 0 .. Width - 1 : Bit[h] <= y /\ y < Bit[h + 1]
<1> DEFINE X == {h \in 0 .. Width - 1 : Bit[h] <= y}
<1>1. Width \in Nat \ {0} /\ Bit[Width] \in Nat /\ y \in Nat
  <2>1. Width \in Nat \ {0} /\ Width \in 0 .. Width
    BY WidthAssumption
  <2>2. QED
    BY <2>1, Bits
<1>2. X \subseteq Nat /\ X # {} /\ Width \in Nat /\ \A n \in X : n <= Width
  <2>1. 0 \in 0 .. Width - 1 /\ Bit[0] <= y
    BY <1>1, Bits
  <2>2. QED
    BY <1>1, <2>1
<1> HIDE DEF X
<1>3. PICK h \in X : \A m \in X : m <= h
  BY <1>2, GreatestNumber
<1>4. h \in 0 .. Width - 1 /\ Bit[h] <= y
  BY DEF X
<1>5. y < Bit[h + 1]
  <2>1. CASE h = Width - 1
    BY <1>1, <2>1
  <2>2. CASE h # Width - 1
    <3>1. h + 1 \in 0 .. Width - 1 /\ h + 1 \in 0 .. Width /\ ~ (h + 1 <= h)
      BY <1>1, <1>4, <2>2
    <3>2. h + 1 \notin X
      BY <1>3, <3>1
    <3>3. ~ (Bit[h + 1] <= y)
      BY <3>1, <3>2 DEF X
    <3>4. Bit[h + 1] \in Nat
      BY <3>1, Bits
    <3>5. QED
      BY <1>1, <3>3, <3>4
  <2>3. QED
    BY <2>1, <2>2
<1>6. QED
  BY <1>4, <1>5

\* All bits below bit m add up to one less than it.
LEMMA LowBits ==
    ASSUME NEW m \in 0 .. Width
    PROVE  Word({i \in 0 .. Width - 1 : i < m}) = Bit[m] - 1
<1> DEFINE N == Width
           bits == {i \in 0 .. Width - 1 : i < m}
           P == Int
           Add(k, v) == v + (IF k - 1 \in bits THEN Bit[k - 1] ELSE 0)
           K(f) == [k \in 0 .. N |-> IF k = 0 THEN 0 ELSE Add(k, f[k - 1])]
           g == [p \in (1 .. N) \X P |-> Add(p[1], p[2])]
           D == CHOOSE f : f = K(f)
<1>1. N \in Nat \ {0} /\ N \in 0 .. N
  BY WidthAssumption
<1>2. Word(bits) = D[N]
  BY DEF Word
<1>3. \A k \in 1 .. N, v \in P : Add(k, v) \in P
  <2>1. \A k \in 1 .. N : k - 1 \in 0 .. N /\ Bit[k - 1] \in Nat
    BY <1>1, Bits
  <2>2. QED
    BY <2>1
<1>4. g \in [(1 .. N) \X P -> P] /\ \A n \in 1 .. N, v \in P : g[<<n, v>>] = Add(n, v)
  BY <1>3
<1>5. 0 \in P
  OBVIOUS
<1>35. \A k, v : Add(k, v) = v + (IF k - 1 \in bits THEN Bit[k - 1] ELSE 0)
  OBVIOUS
<1> HIDE DEF g, N, P
<1>6. PICK h \in [0 .. N -> P] : Recursive(h, N, 0, g)
  BY <1>1, <1>4, <1>5, RecursionExists
<1> HIDE DEF Add
<1>7. h = K(h)
  <2>1. ASSUME NEW i \in 0 .. N PROVE h[i] = K(h)[i]
    <3>1. CASE i = 0
      BY <1>6, <3>1 DEF Recursive
    <3>2. CASE i # 0
      <4>1. i \in 1 .. N /\ h[i - 1] \in P
        BY <1>1, <3>2
      <4>2. h[i] = Add(i, h[i - 1])
        BY <1>4, <1>6, <4>1 DEF Recursive
      <4>3. QED
        BY <3>2, <4>2
    <3>3. QED
      BY <3>1, <3>2
  <2>2. QED
    BY <2>1
<1>8. ASSUME NEW e PROVE K(e)[0] = 0 /\ \A n \in 1 .. N : K(e)[n] = Add(n, e[n - 1])
  BY <1>1
<1> HIDE DEF K
<1>9. D = K(D)
  BY <1>7
<1> HIDE DEF D
<1>10. D[0] = 0 /\ \A n \in 1 .. N : D[n] = Add(n, D[n - 1])
  BY <1>8, <1>9
<1> DEFINE X == {k \in 0 .. N : D[k] = IF k <= m THEN Bit[k] - 1 ELSE Bit[m] - 1}
<1>11. 0 \in X
  <2>1. 0 \in 0 .. N /\ 0 <= m /\ Bit[0] - 1 = 0
    BY <1>1, Bits
  <2>2. QED
    BY <1>10, <2>1
<1>12. ASSUME NEW k \in 0 .. N - 1, k \in X PROVE k + 1 \in X
  <2>1. k + 1 \in 1 .. N /\ k + 1 \in 0 .. N /\ (k + 1) - 1 = k /\ k \in 0 .. Width - 1 /\ m \in Nat
    BY <1>1 DEF N
  <2>2. D[k + 1] = D[k] + (IF k \in bits THEN Bit[k] ELSE 0)
    BY <1>10, <2>1, <1>35
  <2>3. Bit[k] \in Nat /\ Bit[k + 1] \in Nat /\ Bit[k + 1] = 2 * Bit[k] /\ Bit[m] \in Nat
    <3>1. k \in 0 .. Width /\ k + 1 \in 1 .. Width /\ k + 1 \in 0 .. Width
      BY <1>1, <2>1 DEF N
    <3>2. QED
      BY <2>1, <3>1, Bits
  <2>4. CASE k < m
    <3>1. k \in bits /\ k <= m /\ k + 1 <= m
      BY <2>1, <2>4
    <3>2. D[k] = Bit[k] - 1
      BY <1>12, <3>1
    <3>3. D[k + 1] = Bit[k + 1] - 1
      BY <2>2, <2>3, <3>1, <3>2
    <3>4. QED
      BY <2>1, <3>1, <3>3
  <2>5. CASE ~ (k < m)
    <3>1. k \notin bits /\ ~ (k + 1 <= m) /\ (k <= m => k = m)
      BY <2>1, <2>5
    <3>2. D[k] = Bit[m] - 1
      BY <1>12, <3>1
    <3>3. D[k + 1] = Bit[m] - 1
      BY <2>2, <2>3, <3>1, <3>2
    <3>4. QED
      BY <2>1, <3>1, <3>3
  <2>6. QED
    BY <2>4, <2>5
<1> HIDE DEF X
<1>13. N \in X
  <2>1. \A k \in 0 .. N : k \in X
    BY <1>1, <1>11, <1>12, InductionUpTo
  <2>2. QED
    BY <1>1, <2>1
<1>14. N <= m => N = m
  BY <1>1 DEF N
<1>15. QED
  BY <1>2, <1>13, <1>14 DEF X

\* Shifting by m doubles the run of ones below the highest bit.
LEMMA Shifted ==
    ASSUME NEW h \in 0 .. Width - 1, NEW m \in Nat, NEW bits \in SUBSET (0 .. h),
           \A i \in 0 .. h : i + m > h => i \in bits
    PROVE  /\ OrShifted(bits, m) \in SUBSET (0 .. h)
           /\ \A i \in 0 .. h : i + 2 * m > h => i \in OrShifted(bits, m)
<1>1. Width \in Nat
  BY WidthAssumption
<1>2. ASSUME NEW i \in OrShifted(bits, m) PROVE i \in 0 .. h
  <2>1. i \in bits \/ (i \in 0 .. Width - 1 /\ i + m \in bits)
    BY DEF OrShifted
  <2>2. CASE i \in 0 .. Width - 1 /\ i + m \in bits
    <3>1. i \in Nat /\ i + m \in 0 .. h
      BY <1>1, <2>2
    <3>2. QED
      BY <3>1
  <2>3. QED
    BY <2>1, <2>2
<1>3. ASSUME NEW i \in 0 .. h, i + 2 * m > h PROVE i \in OrShifted(bits, m)
  <2>1. CASE i + m > h
    BY <2>1 DEF OrShifted
  <2>2. CASE ~ (i + m > h)
    <3>1. i \in 0 .. Width - 1 /\ i + m \in 0 .. h /\ (i + m) + m > h
      BY <1>1, <1>3, <2>2
    <3>2. i + m \in bits
      BY <3>1
    <3>3. QED
      BY <3>1, <3>2 DEF OrShifted
  <2>3. QED
    BY <2>1, <2>2
<1>4. QED
  BY <1>2, <1>3

\* Rounding by filling the bits ends at the least power of two.
LEMMA FillingRounds ==
    ASSUME NEW x \in 1 .. Bit[Width - 1]
    PROVE  LeastPowerOfTwo(x, pow2round(x))
<1> DEFINE y == x - 1
           below == BitsOf(y)
           b1 == OrShifted(below, 1)
           b2 == OrShifted(b1, 2)
           b4 == OrShifted(b2, 4)
           b8 == OrShifted(b4, 8)
           b16 == OrShifted(b8, 16)
<1>1. /\ Width \in 1 .. 32 /\ Width - 1 \in 0 .. Width /\ Width \in 1 .. Width
      /\ Bit[Width - 1] \in Nat \ {0} /\ Bit[Width] = 2 * Bit[Width - 1] /\ Bit[Width] \in Nat
  <2>1. Width \in 1 .. 32 /\ Width - 1 \in 0 .. Width /\ Width \in 1 .. Width /\ Width \in 0 .. Width
    BY WidthAssumption
  <2>2. QED
    BY <2>1, Bits
<1>2. y \in Nat /\ y < Bit[Width - 1] /\ y % Bit[Width] = y
  BY <1>1
<1>3. pow2round(x) = (Word(b16) + 1) % Bit[Width]
  BY <1>2 DEF pow2round
<1>4. CASE y = 0
  <2>1. below = {}
    <3>1. ASSUME NEW i \in 0 .. Width - 1 PROVE (y \div Bit[i]) % 2 # 1
      <4>1. i \in 0 .. Width
        BY <1>1
      <4>2. Bit[i] \in Nat \ {0}
        BY <4>1, Bits
      <4>3. y \div Bit[i] = 0
        BY <1>2, <1>4, <4>2, Quotients
      <4>4. QED
        BY <4>3
    <3>2. QED
      BY <3>1 DEF BitsOf
  <2>2. b1 = {}
    BY <2>1 DEF OrShifted
  <2>3. b2 = {}
    BY <2>2 DEF OrShifted
  <2>4. b4 = {}
    BY <2>3 DEF OrShifted
  <2>5. b8 = {}
    BY <2>4 DEF OrShifted
  <2>6. b16 = {}
    BY <2>5 DEF OrShifted
  <2>7. b16 = {i \in 0 .. Width - 1 : i < 0}
    BY <1>1, <2>6
  <2>8. Word(b16) = 0
    <3>1. 0 \in 0 .. Width /\ Bit[0] = 1
      BY <1>1, Bits
    <3>2. Word({i \in 0 .. Width - 1 : i < 0}) = Bit[0] - 1
      BY <3>1, LowBits
    <3>3. QED
      BY <2>7, <3>1, <3>2
  <2>9. pow2round(x) = 1
    BY <1>1, <1>3, <2>8
  <2>10. 0 \in 0 .. Width - 1 /\ 1 = Bit[0]
    BY <1>1, Bits
  <2>11. x = 1
    BY <1>4
  <2>12. QED
    BY <2>9, <2>10, <2>11 DEF LeastPowerOfTwo, IsPowerOfTwo
<1>5. CASE y # 0
  <2>1. y \in 1 .. Bit[Width] - 1
    BY <1>1, <1>2, <1>5
  <2> HIDE DEF y
  <2>2. PICK h \in 0 .. Width - 1 : Bit[h] <= y /\ y < Bit[h + 1]
    BY <2>1, HighestBit
  <2>3. /\ h \in 0 .. Width /\ h + 1 \in 0 .. Width /\ h + 1 \in 1 .. Width /\ (h + 1) - 1 = h
        /\ Bit[h] \in Nat \ {0} /\ Bit[h + 1] = 2 * Bit[h] /\ Bit[h + 1] \in Nat
    <3>1. h \in 0 .. Width /\ h + 1 \in 0 .. Width /\ h + 1 \in 1 .. Width /\ (h + 1) - 1 = h
      BY <1>1
    <3>2. QED
      BY <3>1, Bits
  <2>4. h \in below /\ below \in SUBSET (0 .. h)
    <3>1. y \div Bit[h] = 1
      BY <1>2, <2>2, <2>3, Quotients
    <3>2. h \in below
      BY <3>1 DEF BitsOf
    <3>3. ASSUME NEW i \in below PROVE i \in 0 .. h
      <4>1. i \in 0 .. Width - 1 /\ (y \div Bit[i]) % 2 = 1
        BY DEF BitsOf
      <4>2. i \in 0 .. Width
        BY <1>1, <4>1
      <4>3. Bit[i] \in Nat \ {0}
        BY <4>2, Bits
      <4>4. CASE i > h
        <5>1. 2 * Bit[h] <= Bit[i]
          BY <2>3, <4>2, <4>4, BitsGrow
        <5>2. y < Bit[i]
          BY <1>2, <2>2, <2>3, <4>3, <5>1
        <5>3. y \div Bit[i] = 0
          BY <1>2, <4>3, <5>2, Quotients
        <5>4. QED
          BY <4>1, <5>3
      <4>5. QED
        BY <1>1, <4>1, <4>4
    <3>4. QED
      BY <3>2, <3>3
  <2> HIDE DEF below
  <2>5. \A i \in 0 .. h : i + 1 > h => i \in below
    <3>1. ASSUME NEW i \in 0 .. h, i + 1 > h PROVE i = h
      BY <3>1
    <3>2. QED
      BY <2>4, <3>1
  <2>6. b1 \in SUBSET (0 .. h) /\ \A i \in 0 .. h : i + 2 > h => i \in b1
    <3>1. b1 \in SUBSET (0 .. h) /\ \A i \in 0 .. h : i + 2 * 1 > h => i \in b1
      BY <2>4, <2>5, Shifted
    <3>2. QED
      BY <3>1
  <2> HIDE DEF b1
  <2>7. b2 \in SUBSET (0 .. h) /\ \A i \in 0 .. h : i + 4 > h => i \in b2
    <3>1. b2 \in SUBSET (0 .. h) /\ \A i \in 0 .. h : i + 2 * 2 > h => i \in b2
      BY <2>6, Shifted
    <3>2. QED
      BY <3>1
  <2> HIDE DEF b2
  <2>8. b4 \in SUBSET (0 .. h) /\ \A i \in 0 .. h : i + 8 > h => i \in b4
    <3>1. b4 \in SUBSET (0 .. h) /\ \A i \in 0 .. h : i + 2 * 4 > h => i \in b4
      BY <2>7, Shifted
    <3>2. QED
      BY <3>1
  <2> HIDE DEF b4
  <2>9. b8 \in SUBSET (0 .. h) /\ \A i \in 0 .. h : i + 16 > h => i \in b8
    <3>1. b8 \in SUBSET (0 .. h) /\ \A i \in 0 .. h : i + 2 * 8 > h => i \in b8
      BY <2>8, Shifted
    <3>2. QED
      BY <3>1
  <2> HIDE DEF b8
  <2>10. b16 \in SUBSET (0 .. h) /\ \A i \in 0 .. h : i + 32 > h => i \in b16
    <3>1. b16 \in SUBSET (0 .. h) /\ \A i \in 0 .. h : i + 2 * 16 > h => i \in b16
      BY <2>9, Shifted
    <3>2. QED
      BY <3>1
  <2> HIDE DEF b16
  <2>11. b16 = {i \in 0 .. Width - 1 : i < h + 1}
    <3>1. \A i \in 0 .. h : i + 32 > h
      BY <1>1
    <3>2. \A i : i \in 0 .. h <=> (i \in 0 .. Width - 1 /\ i < h + 1)
      BY <1>1
    <3>3. QED
      BY <2>10, <3>1, <3>2
  <2>12. Word(b16) = Bit[h + 1] - 1
    BY <2>3, <2>11, LowBits
  <2>13. h # Width - 1
    BY <1>1, <1>2, <2>2
  <2>14. h + 1 \in 0 .. Width - 1 /\ h + 1 < Width /\ Width \in 0 .. Width
    BY <1>1, <2>13
  <2>15. 2 * Bit[h + 1] <= Bit[Width]
    BY <2>3, <2>14, BitsGrow
  <2>16. pow2round(x) = Bit[h + 1]
    BY <1>1, <1>3, <2>3, <2>12, <2>15
  <2>17. Bit[h + 1] >= x /\ Bit[h + 1] \div 2 < x
    BY <2>2, <2>3 DEF y
  <2>18. QED
    BY <2>14, <2>16, <2>17 DEF LeastPowerOfTwo, IsPowerOfTwo
<1>6. QED
  BY <1>4, <1>5

\* There is one least power of two, and a power of two is its own.
LEMMA LeastIsOne ==
    ASSUME NEW x \in Nat, NEW u, LeastPowerOfTwo(x, u), x >= 1
    PROVE  /\ u \in 1 .. Bit[Width - 1] /\ LeastPowerOfTwo(u, u)
           /\ \A v : LeastPowerOfTwo(x, v) => v = u
<1>1. Width \in Nat \ {0} /\ Width - 1 \in 0 .. Width
  BY WidthAssumption
<1>2. ASSUME NEW j \in 0 .. Width - 1, NEW k \in 0 .. Width - 1, j < k,
             Bit[j] >= x, Bit[k] = 1 \/ Bit[k] \div 2 < x
      PROVE  FALSE
  <2>1. j \in 0 .. Width /\ k \in 0 .. Width
    BY <1>1
  <2>2. Bit[j] \in Nat \ {0} /\ Bit[k] \in Nat \ {0} /\ 2 * Bit[j] <= Bit[k]
    BY <1>2, <2>1, Bits, BitsGrow
  <2>3. QED
    BY <1>2, <2>2
<1>3. PICK j \in 0 .. Width - 1 : u = Bit[j]
  BY DEF LeastPowerOfTwo, IsPowerOfTwo
<1>4. ASSUME NEW v, LeastPowerOfTwo(x, v) PROVE v = u
  <2>1. PICK k \in 0 .. Width - 1 : v = Bit[k]
    BY <1>4 DEF LeastPowerOfTwo, IsPowerOfTwo
  <2>2. ~ (j < k) /\ ~ (k < j)
    BY <1>2, <1>3, <1>4, <2>1 DEF LeastPowerOfTwo
  <2>3. j = k
    BY <1>1, <2>2
  <2>4. QED
    BY <1>3, <2>1, <2>3
<1>5. u \in Nat \ {0} /\ Bit[Width - 1] \in Nat
  <2>1. j \in 0 .. Width
    BY <1>1
  <2>2. QED
    BY <1>1, <1>3, <2>1, Bits
<1>6. u <= Bit[Width - 1]
  <2>1. CASE j = Width - 1
    BY <1>3, <1>5, <2>1
  <2>2. CASE j # Width - 1
    <3>1. j \in 0 .. Width /\ j < Width - 1
      BY <1>1, <2>2
    <3>2. 2 * Bit[j] <= Bit[Width - 1]
      BY <1>1, <3>1, BitsGrow
    <3>3. QED
      BY <1>3, <1>5, <3>2
  <2>3. QED
    BY <2>1, <2>2
<1>7. LeastPowerOfTwo(u, u)
  BY <1>3, <1>5 DEF LeastPowerOfTwo, IsPowerOfTwo
<1>8. QED
  BY <1>4, <1>5, <1>6, <1>7

\* What set_property may do with a value.
AsGiven(how) == how = "as given" \/ how = "also current"
IsSize(how)  == how = "power of two" \/ how = "power of two in setup"

\* What the declaration of a property must be for its value to be read back.
Kept(r) ==
    /\ r.lo \in Int /\ r.hi \in Int /\ r.initial \in Int
    /\ AsGiven(r.stored) \/ IsSize(r.stored) \/ r.stored = "odd" \/ r.stored = "not at all"
    /\ r.stored = "odd" => r.initial = 9
    /\ IsSize(r.stored) => r.initial = 1024 /\ r.lo >= 1 /\ r.hi <= Large

\* It is so for every kind of property the tasks have.
LEMMA PlainKept ==
    ASSUME NEW lo \in Int, NEW hi \in Int, NEW declared, NEW initial \in Int
    PROVE  Kept(Plain(lo, hi, declared, initial))
BY DEF Kept, AsGiven, IsSize, Plain, Property

\* And for those a generator starts with.
LEMMA CurrentKept ==
    ASSUME NEW lo \in Int, NEW hi \in Int, NEW declared, NEW initial \in Int
    PROVE  Kept(CurrentToo(lo, hi, declared, initial))
BY DEF Kept, AsGiven, IsSize, CurrentToo, Property

\* And for the one of the template.
LEMMA IgnoredKept ==
    ASSUME NEW lo \in Int, NEW hi \in Int, NEW declared, NEW initial \in Int
    PROVE  Kept(Ignored(lo, hi, declared, initial))
BY DEF Kept, AsGiven, IsSize, Ignored, Property

\* And for sizes.
LEMMA SizeKept ==
    ASSUME NEW lo \in Int, NEW hi \in Int, NEW declared, lo >= 1, hi <= Large
    PROVE  /\ Kept(PowerOfTwo(lo, hi, declared, 1024))
           /\ Kept(PowerOfTwoInSetup(lo, hi, declared, 1024))
BY DEF Kept, AsGiven, IsSize, PowerOfTwo, PowerOfTwoInSetup, Property

\* It is so for every property of every task.
LEMMA PropertyRows ==
    ASSUME NEW t \in DOMAIN Tasks, NEW p \in DOMAIN Tasks[t].properties
    PROVE  Kept(Tasks[t].properties[p])
<1>1. Large \in Nat /\ Large >= 65536
  BY LargeAssumption
<1>2. CASE t = "ring_pattern"
  <2>1. Tasks[t].properties = RingPatternProperties
    BY <1>2 DEF Tasks, Row, RowOnDemand
  <2>2. \A q \in DOMAIN RingPatternProperties : Kept(RingPatternProperties[q])
    BY <1>1, PlainKept, CurrentKept, SizeKept DEF RingPatternProperties
  <2>3. QED
    BY <2>1, <2>2
<1>3. CASE t = "piv_contrast"
  <2>1. Tasks[t].properties = PivContrastProperties
    BY <1>3 DEF Tasks, Row, RowOnDemand
  <2>2. \A q \in DOMAIN PivContrastProperties : Kept(PivContrastProperties[q])
    BY <1>1, PlainKept DEF PivContrastProperties
  <2>3. QED
    BY <2>1, <2>2
<1>4. CASE t = "hough_likelihood"
  <2>1. Tasks[t].properties = HoughLikelihoodProperties
    BY <1>4 DEF Tasks, Row, RowOnDemand
  <2>2. \A q \in DOMAIN HoughLikelihoodProperties : Kept(HoughLikelihoodProperties[q])
    <3>1. Kept(MaskSize) /\ Kept(MaskInnerSize)
      BY DEF MaskSize, MaskInnerSize, OddOnly, Plain, Property, Kept, AsGiven, IsSize
    <3>2. QED
      BY <1>1, <3>1, PlainKept DEF HoughLikelihoodProperties
  <2>3. QED
    BY <2>1, <2>2
<1>5. CASE t = "hough_likelihood_image"
  <2>1. Tasks[t].properties = HoughLikelihoodImageProperties
    BY <1>5 DEF Tasks, Row, RowOnDemand
  <2>2. \A q \in DOMAIN HoughLikelihoodImageProperties : Kept(HoughLikelihoodImageProperties[q])
    <3>1. Kept(MaskSize) /\ Kept(MaskInnerSize)
      BY DEF MaskSize, MaskInnerSize, OddOnly, Plain, Property, Kept, AsGiven, IsSize
    <3>2. QED
      BY <1>1, <3>1 DEF HoughLikelihoodImageProperties
  <2>3. QED
    BY <2>1, <2>2
<1>6. CASE t = "candidate_filter"
  <2>1. Tasks[t].properties = CandidateFilterProperties
    BY <1>6 DEF Tasks, Row, RowOnDemand
  <2>2. \A q \in DOMAIN CandidateFilterProperties : Kept(CandidateFilterProperties[q])
    BY <1>1, PlainKept, CurrentKept DEF CandidateFilterProperties
  <2>3. QED
    BY <2>1, <2>2
<1>7. CASE t = "azimuthal_test"
  <2>1. Tasks[t].properties = AzimuthalTestProperties
    BY <1>7 DEF Tasks, Row, RowOnDemand
  <2>2. \A q \in DOMAIN AzimuthalTestProperties : Kept(AzimuthalTestProperties[q])
    BY <1>1, PlainKept DEF AzimuthalTestProperties
  <2>3. QED
    BY <2>1, <2>2
<1>8. CASE t = "ring_writer"
  <2>1. Tasks[t].properties = RingWriterProperties
    BY <1>8 DEF Tasks, Row, RowOnDemand
  <2>2. \A q \in DOMAIN RingWriterProperties : Kept(RingWriterProperties[q])
    BY <1>1, PlainKept DEF RingWriterProperties
  <2>3. QED
    BY <2>1, <2>2
<1>9. CASE t = "of_ring_pattern"
  <2>1. Tasks[t].properties = OfRingPatternProperties
    BY <1>9 DEF Tasks, Row, RowOnDemand
  <2>2. \A q \in DOMAIN OfRingPatternProperties : Kept(OfRingPatternProperties[q])
    BY <1>1, PlainKept, CurrentKept, SizeKept DEF OfRingPatternProperties
  <2>3. QED
    BY <2>1, <2>2
<1>10. CASE t = "contrast"
  <2>1. Tasks[t].properties = ContrastProperties
    BY <1>10 DEF Tasks, Row, RowOnDemand
  <2>2. \A q \in DOMAIN ContrastProperties : Kept(ContrastProperties[q])
    BY <1>1, PlainKept DEF ContrastProperties
  <2>3. QED
    BY <2>1, <2>2
<1>11. CASE t = "ordfilt"
  <2>1. Tasks[t].properties = OrdfiltProperties
    BY <1>11 DEF Tasks, Row, RowOnDemand
  <2>2. \A q \in DOMAIN OrdfiltProperties : Kept(OrdfiltProperties[q])
    BY <1>1 DEF OrdfiltProperties
  <2>3. QED
    BY <2>1, <2>2
<1>12. CASE t = "filter_particle"
  <2>1. Tasks[t].properties = FilterParticleProperties
    BY <1>12 DEF Tasks, Row, RowOnDemand
  <2>2. \A q \in DOMAIN FilterParticleProperties : Kept(FilterParticleProperties[q])
    BY <1>1, PlainKept DEF FilterParticleProperties
  <2>3. QED
    BY <2>1, <2>2
<1>13. CASE t = "concatenate_result"
  <2>1. Tasks[t].properties = ConcatenateResultProperties
    BY <1>13 DEF Tasks, Row, RowOnDemand
  <2>2. \A q \in DOMAIN ConcatenateResultProperties : Kept(ConcatenateResultProperties[q])
    BY <1>1, PlainKept DEF ConcatenateResultProperties
  <2>3. QED
    BY <2>1, <2>2
<1>14. CASE t = "get_dup_circ"
  <2>1. Tasks[t].properties = GetDupCircProperties
    BY <1>14 DEF Tasks, Row, RowOnDemand
  <2>2. \A q \in DOMAIN GetDupCircProperties : Kept(GetDupCircProperties[q])
    BY <1>1, PlainKept DEF GetDupCircProperties
  <2>3. QED
    BY <2>1, <2>2
<1>15. CASE t = "multi_search"
  <2>1. Tasks[t].properties = MultiSearchProperties
    BY <1>15 DEF Tasks, Row, RowOnDemand
  <2>2. \A q \in DOMAIN MultiSearchProperties : Kept(MultiSearchProperties[q])
    BY <1>1, PlainKept DEF MultiSearchProperties
  <2>3. QED
    BY <2>1, <2>2
<1>16. CASE t = "localmaxima"
  <2>1. Tasks[t].properties = LocalmaximaProperties
    BY <1>16 DEF Tasks, Row, RowOnDemand
  <2>2. \A q \in DOMAIN LocalmaximaProperties : Kept(LocalmaximaProperties[q])
    BY <1>1, PlainKept DEF LocalmaximaProperties
  <2>3. QED
    BY <2>1, <2>2
<1>17. CASE t = "local_maxima"
  <2>1. Tasks[t].properties = LocalMaximaProperties
    BY <1>17 DEF Tasks, Row, RowOnDemand
  <2>2. \A q \in DOMAIN LocalMaximaProperties : Kept(LocalMaximaProperties[q])
    BY <1>1, PlainKept DEF LocalMaximaProperties
  <2>3. QED
    BY <2>1, <2>2
<1>18. CASE t = "blob_test"
  <2>1. Tasks[t].properties = BlobTestProperties
    BY <1>18 DEF Tasks, Row, RowOnDemand
  <2>2. \A q \in DOMAIN BlobTestProperties : Kept(BlobTestProperties[q])
    BY <1>1, PlainKept DEF BlobTestProperties
  <2>3. QED
    BY <2>1, <2>2
<1>19. CASE t = "brightness_cut"
  <2>1. Tasks[t].properties = BrightnessCutProperties
    BY <1>19 DEF Tasks, Row, RowOnDemand
  <2>2. \A q \in DOMAIN BrightnessCutProperties : Kept(BrightnessCutProperties[q])
    BY <1>1, PlainKept DEF BrightnessCutProperties
  <2>3. QED
    BY <2>1, <2>2
<1>20. CASE t = "hessian_kernel"
  <2>1. Tasks[t].properties = HessianKernelProperties
    BY <1>20 DEF Tasks, Row, RowOnDemand
  <2>2. \A q \in DOMAIN HessianKernelProperties : Kept(HessianKernelProperties[q])
    <3>1. Kept(PowerOfTwoInSetup(256, 4096, 1024, 1024))
      BY <1>1 DEF PowerOfTwoInSetup, Property, Kept, AsGiven, IsSize
    <3>2. QED
      BY <1>1, <3>1, PlainKept, IgnoredKept DEF HessianKernelProperties
  <2>3. QED
    BY <2>1, <2>2
<1>21. CASE t \in {"complex_mult", "label_cluster", "combine_test", "hessian_analysis", "fftconvolution", "sum", "log", "bilateral", "device_info"}
  <2>1. Tasks[t].properties = OnlyTest
    BY <1>21 DEF Tasks, Row, RowOnDemand,
         ComplexMultProperties, LabelClusterProperties, CombineTestProperties, HessianAnalysisProperties, FftconvolutionProperties, SumProperties, LogProperties, BilateralProperties, DeviceInfoProperties
  <2>2. \A q \in DOMAIN OnlyTest : Kept(OnlyTest[q])
    BY <1>1, IgnoredKept DEF OnlyTest
  <2>3. QED
    BY <2>1, <2>2
<1>22. t \in {"ring_pattern", "piv_contrast", "complex_mult", "hough_likelihood", "hough_likelihood_image", "candidate_filter", "azimuthal_test", "ring_writer", "of_ring_pattern", "contrast", "ordfilt", "filter_particle", "concatenate_result", "get_dup_circ", "multi_search", "localmaxima", "local_maxima", "label_cluster", "combine_test", "blob_test", "brightness_cut", "hessian_kernel", "hessian_analysis", "fftconvolution", "sum", "log", "bilateral", "device_info"}
  BY DEF Tasks
<1>23. QED
  BY <1>2, <1>3, <1>4, <1>5, <1>6, <1>7, <1>8, <1>9, <1>10, <1>11, <1>12, <1>13, <1>14, <1>15, <1>16, <1>17, <1>18, <1>19, <1>20, <1>21, <1>22

PropInv ==
    /\ task \in DOMAIN Tasks
    /\ priv \in [Properties -> Int] /\ given \in [Properties -> Int]
    /\ \A p \in Properties : IsSize(Row0.properties[p].stored) =>
           given[p] \in 1 .. Large
    /\ DOMAIN current = {q \in Properties : Row0.properties[q].stored = "also current"}
    /\ PropertiesIndependent

\* 1024 is a power of two.
LEMMA Initially == LeastPowerOfTwo(1024, 1024) /\ 1024 \in 1 .. Large
<1>1. Width \in 1 .. 32 /\ Large <= Bit[Width - 1] /\ Large \in Nat /\ Large >= 65536
  BY WidthAssumption, SizesAssumption, LargeAssumption
<1>2. \A i \in 0 .. Width : Bit[i] \in Nat
  BY Bits
<1>3. \A i \in 0 .. Width : i < 11 => Bit[i] <= 1024 /\ (i = 10 => Bit[i] = 1024)
  <2>1. Bit[0] = 1 /\ \A i \in 1 .. Width : Bit[i] = 2 * Bit[i - 1]
    BY Bits
  <2>2. 1 \in 0 .. Width /\ Bit[1] = 2
    BY <1>1, <2>1
  <2>3. 2 \in 0 .. Width => Bit[2] = 4
    BY <1>1, <2>1, <2>2
  <2>4. 3 \in 0 .. Width => Bit[3] = 8
    BY <1>1, <2>1, <2>3
  <2>5. 4 \in 0 .. Width => Bit[4] = 16
    BY <1>1, <2>1, <2>4
  <2>6. 5 \in 0 .. Width => Bit[5] = 32
    BY <1>1, <2>1, <2>5
  <2>7. 6 \in 0 .. Width => Bit[6] = 64
    BY <1>1, <2>1, <2>6
  <2>8. 7 \in 0 .. Width => Bit[7] = 128
    BY <1>1, <2>1, <2>7
  <2>9. 8 \in 0 .. Width => Bit[8] = 256
    BY <1>1, <2>1, <2>8
  <2>10. 9 \in 0 .. Width => Bit[9] = 512
    BY <1>1, <2>1, <2>9
  <2>11. 10 \in 0 .. Width => Bit[10] = 1024
    BY <1>1, <2>1, <2>10
  <2>12. ASSUME NEW i \in 0 .. Width, i < 11
         PROVE  i = 0 \/ i = 1 \/ i = 2 \/ i = 3 \/ i = 4 \/ i = 5 \/ i = 6 \/ i = 7 \/ i = 8
                  \/ i = 9 \/ i = 10
    BY <1>1, <2>12
  <2>13. QED
    BY <2>1, <2>2, <2>3, <2>4, <2>5, <2>6, <2>7, <2>8, <2>9, <2>10, <2>11, <2>12
<1>4. ~ (Width - 1 < 11)
  <2>1. Width - 1 \in 0 .. Width
    BY <1>1
  <2>2. Bit[Width - 1] \in Nat
    BY <1>2, <2>1
  <2>3. QED
    BY <1>1, <1>3, <2>1, <2>2
<1>5. 10 \in 0 .. Width - 1 /\ 10 \in 0 .. Width
  BY <1>1, <1>4
<1>6. 1024 = Bit[10]
  BY <1>3, <1>5
<1>7. QED
  BY <1>1, <1>5, <1>6 DEF LeastPowerOfTwo, IsPowerOfTwo

\* The values of init are read back.
LEMMA PropertiesStart == ObjectInit => PropInv
<1> SUFFICES ASSUME ObjectInit PROVE PropInv
  OBVIOUS
<1>1. /\ task \in DOMAIN Tasks /\ phase = "idle" /\ given = priv
      /\ priv = [p \in Properties |-> Row0.properties[p].initial]
      /\ current = [p \in {q \in Properties : Row0.properties[q].stored = "also current"} |->
                      Row0.properties[p].initial]
  BY DEF ObjectInit
<1>2. \A p \in Properties : Kept(Row0.properties[p])
  BY <1>1, PropertyRows DEF Properties, Row0
<1>3. /\ \A p \in Properties : priv[p] = Row0.properties[p].initial
      /\ \A p \in DOMAIN current : p \in Properties /\ current[p] = Row0.properties[p].initial
      /\ DOMAIN current = {q \in Properties : Row0.properties[q].stored = "also current"}
  BY <1>1
<1>4. priv \in [Properties -> Int]
  BY <1>1, <1>2 DEF Kept
<1>5. \A p \in Properties : ReadBack(p)
  <2> TAKE p \in Properties
  <2>1. Kept(Row0.properties[p]) /\ priv[p] = Row0.properties[p].initial /\ given[p] = priv[p]
    BY <1>1, <1>2, <1>3
  <2>2. CASE Row0.properties[p].stored = "odd"
    BY <2>1, <2>2 DEF ReadBack, Kept
  <2>3. CASE IsSize(Row0.properties[p].stored)
    <3>1. LeastPowerOfTwo(given[p], priv[p])
      BY <2>1, <2>3, Initially DEF Kept
    <3>2. CASE Row0.properties[p].stored = "power of two"
      BY <3>1, <3>2 DEF ReadBack
    <3>3. CASE Row0.properties[p].stored = "power of two in setup"
      BY <3>1, <3>3 DEF ReadBack
    <3>4. QED
      BY <2>3, <3>2, <3>3 DEF IsSize
  <2>4. CASE AsGiven(Row0.properties[p].stored) \/ Row0.properties[p].stored = "not at all"
    BY <2>1, <2>4 DEF ReadBack, AsGiven
  <2>5. QED
    BY <2>1, <2>2, <2>3, <2>4 DEF Kept
<1>6. \A p \in Properties : IsSize(Row0.properties[p].stored) =>
         given[p] \in 1 .. Large
  <2> TAKE p \in Properties
  <2>1. given[p] = Row0.properties[p].initial /\ Kept(Row0.properties[p])
    BY <1>1, <1>2, <1>3
  <2>2. QED
    BY <2>1, Initially DEF Kept
<1>7. PropertiesIndependent
  BY <1>3, <1>5 DEF PropertiesIndependent
<1>8. QED
  BY <1>1, <1>3, <1>4, <1>6, <1>7 DEF PropInv

\* What set_property stores is what get_property will return.
LEMMA SetReadsBack ==
    ASSUME PropInv, NEW p \in Properties, NEW v \in Samples(p), Set(p, v)
    PROVE  PropInv'
<1> DEFINE r == Row0.properties[p]
           how == r.stored
           w == Stored(how, priv[p], v)
<1>1. /\ task \in DOMAIN Tasks /\ priv \in [Properties -> Int] /\ given \in [Properties -> Int]
      /\ \A q \in Properties : ReadBack(q)
      /\ \A q \in DOMAIN current : current[q] = priv[q]
      /\ DOMAIN current = {q \in Properties : Row0.properties[q].stored = "also current"}
  BY DEF PropInv, PropertiesIndependent
<1>2. Kept(r)
  BY <1>1, PropertyRows DEF Properties, Row0
<1>3. v \in Int /\ v >= r.lo /\ v <= r.hi
  <2>1. v \in InRange(p)
    BY DEF Samples
  <2>2. r.lo \in Int /\ r.hi \in Int
    BY <1>2 DEF Kept
  <2>3. QED
    BY <2>1, <2>2 DEF InRange
<1>4. /\ task' = task /\ phase' = phase /\ phase = "idle"
      /\ priv' = [priv EXCEPT ![p] = w]
      /\ current' = [q \in DOMAIN current |-> IF q = p THEN v ELSE current[q]]
      /\ given' = [given EXCEPT ![p] = v]
  BY DEF Set
<1>5. Row0' = Row0 /\ Properties' = Properties
  BY <1>4 DEF Row0, Properties
<1>6. /\ how = "odd" => w \in {v, v - 1} /\ w % 2 = 1
      /\ how = "power of two" => LeastPowerOfTwo(v, w)
      /\ how = "not at all" => w = priv[p]
      /\ AsGiven(how) \/ how = "power of two in setup" => w = v
  <2>1. how = "odd" => w \in {v, v - 1} /\ w % 2 = 1
    BY <1>3 DEF Stored
  <2>2. ASSUME how = "power of two" PROVE LeastPowerOfTwo(v, w)
    <3>1. v \in 1 .. Bit[Width - 1]
      <4>1. Width - 1 \in 0 .. Width
        BY WidthAssumption
      <4>2. Bit[Width - 1] \in Nat
        BY <4>1, Bits
      <4>3. r.lo >= 1 /\ r.hi <= Large /\ r.lo \in Int /\ r.hi \in Int
        BY <1>2, <2>2 DEF Kept, IsSize
      <4>4. QED
        BY <1>3, <4>2, <4>3, SizesAssumption, LargeAssumption
    <3>2. w = ceil_power_of_two(v)
      BY <2>2 DEF Stored
    <3>3. QED
      BY <2>2, <3>1, <3>2, DoublingRounds
  <2>3. /\ how = "not at all" => w = priv[p]
        /\ AsGiven(how) \/ how = "power of two in setup" => w = v
    BY DEF Stored, AsGiven
  <2>4. QED
    BY <2>1, <2>2, <2>3
<1>7. w \in Int
  <2>1. CASE how = "power of two"
    <3>1. PICK k \in 0 .. Width - 1 : w = Bit[k]
      BY <1>6, <2>1 DEF LeastPowerOfTwo, IsPowerOfTwo
    <3>2. k \in 0 .. Width
      BY WidthAssumption
    <3>3. QED
      BY <3>1, <3>2, Bits
  <2>2. CASE how # "power of two"
    <3>1. w = v \/ w = v - 1 \/ w = priv[p]
      BY <1>2, <1>6, <2>2 DEF Kept, AsGiven, IsSize
    <3>2. priv[p] \in Int /\ v - 1 \in Int
      <4>1. priv \in [Properties -> Int]
        BY <1>1
      <4>2. priv[p] \in Int
        BY <4>1
      <4>3. QED
        BY <1>3, <4>2
    <3> HIDE DEF w
    <3>3. QED
      BY <1>3, <3>1, <3>2
  <2>3. QED
    BY <2>1, <2>2
<1> HIDE DEF w
<1>8. /\ priv'[p] = w /\ given'[p] = v
      /\ \A q \in Properties : q # p => priv'[q] = priv[q] /\ given'[q] = given[q]
      /\ priv' \in [Properties -> Int] /\ given' \in [Properties -> Int]
  BY <1>1, <1>3, <1>4, <1>7
<1>9. \A q \in Properties : ReadBack(q)'
  <2> TAKE q \in Properties
  <2>1. CASE q # p
    <3>1. priv'[q] = priv[q] /\ given'[q] = given[q] /\ ReadBack(q)
      BY <1>1, <1>8, <2>1
    <3>2. QED
      BY <1>4, <1>5, <3>1 DEF ReadBack
  <2>2. CASE q = p
    <3>1. CASE how = "not at all"
      <4>1. priv'[p] = priv[p] /\ ReadBack(p)
        BY <1>1, <1>6, <1>8, <3>1
      <4>2. QED
        BY <1>5, <2>2, <3>1, <4>1 DEF ReadBack
    <3>2. CASE how = "odd"
      <4>1. priv'[p] \in {given'[p], given'[p] - 1} /\ priv'[p] % 2 = 1
        BY <1>6, <1>8, <3>2
      <4>2. QED
        BY <1>5, <2>2, <3>2, <4>1 DEF ReadBack
    <3>3. CASE how = "power of two"
      BY <1>5, <1>6, <1>8, <2>2, <3>3 DEF ReadBack
    <3>4. CASE AsGiven(how) \/ how = "power of two in setup"
      <4>1. priv'[p] = given'[p] /\ phase' = "idle"
        BY <1>4, <1>6, <1>8, <3>4
      <4>2. QED
        BY <1>5, <2>2, <3>4, <4>1 DEF ReadBack, AsGiven
    <3>5. AsGiven(how) \/ how = "power of two" \/ how = "power of two in setup" \/ how = "odd"
            \/ how = "not at all"
      BY <1>2 DEF Kept, IsSize
    <3>6. QED
      BY <3>1, <3>2, <3>3, <3>4, <3>5
  <2>3. QED
    BY <2>1, <2>2
<1>10. DOMAIN current' = DOMAIN current /\ \A q \in DOMAIN current : current'[q] = priv'[q]
  <2>1. \A q \in DOMAIN current : q \in Properties /\ Row0.properties[q].stored = "also current"
    BY <1>1
  <2>2. QED
    BY <1>1, <1>4, <1>6, <1>8, <2>1 DEF AsGiven
<1>11. \A q \in Properties : IsSize(Row0.properties[q].stored) =>
          given'[q] \in 1 .. Large
  <2> TAKE q \in Properties
  <2>1. CASE q = p
    BY <1>2, <1>3, <1>8, <2>1, LargeAssumption DEF Kept
  <2>2. CASE q # p
    BY <1>8, <2>2 DEF PropInv
  <2>3. QED
    BY <2>1, <2>2
<1>12. PropertiesIndependent'
  BY <1>5, <1>9, <1>10 DEF PropertiesIndependent
<1>13. QED
  BY <1>1, <1>4, <1>5, <1>8, <1>10, <1>11, <1>12 DEF PropInv

\* Setup rounds the sizes of the Hessian kernel, and rounding again changes nothing.
LEMMA SetupReadsBack ==
    ASSUME PropInv, Setup
    PROVE  PropInv'
<1>1. /\ task \in DOMAIN Tasks /\ priv \in [Properties -> Int] /\ given \in [Properties -> Int]
      /\ \A q \in Properties : ReadBack(q)
      /\ \A q \in DOMAIN current : current[q] = priv[q]
      /\ DOMAIN current = {q \in Properties : Row0.properties[q].stored = "also current"}
  BY DEF PropInv, PropertiesIndependent
<1>2. /\ task' = task /\ given' = given /\ current' = current
      /\ priv' = [p \in Properties |->
                    IF Row0.properties[p].stored = "power of two in setup"
                    THEN pow2round(priv[p]) ELSE priv[p]]
  BY DEF Setup
<1>3. Row0' = Row0 /\ Properties' = Properties
  BY <1>2 DEF Row0, Properties
<1>4. Width - 1 \in 0 .. Width /\ Bit[Width - 1] \in Nat
  <2>1. Width - 1 \in 0 .. Width
    BY WidthAssumption
  <2>2. QED
    BY <2>1, Bits
<1>5. ASSUME NEW p \in Properties, Row0.properties[p].stored = "power of two in setup"
      PROVE  LeastPowerOfTwo(given[p], pow2round(priv[p]))
  <2> DEFINE x == given[p]
  <2>1. x \in 1 .. Bit[Width - 1] /\ x \in Nat /\ x >= 1
    <3>1. x \in 1 .. Large
      BY <1>5 DEF PropInv, IsSize
    <3>2. QED
      BY <1>4, <3>1, SizesAssumption, LargeAssumption
  <2>2. LeastPowerOfTwo(x, priv[p]) \/ priv[p] = x
    BY <1>1, <1>5 DEF ReadBack
  <2>3. CASE priv[p] = x
    BY <2>1, <2>3, FillingRounds
  <2>4. CASE LeastPowerOfTwo(x, priv[p])
    <3>1. priv[p] \in 1 .. Bit[Width - 1] /\ LeastPowerOfTwo(priv[p], priv[p])
      BY <2>1, <2>4, LeastIsOne
    <3>2. LeastPowerOfTwo(priv[p], pow2round(priv[p]))
      BY <3>1, FillingRounds
    <3>3. priv[p] \in Nat /\ priv[p] >= 1
      BY <1>4, <3>1
    <3>4. pow2round(priv[p]) = priv[p]
      BY <3>1, <3>2, <3>3, LeastIsOne
    <3>5. QED
      BY <2>4, <3>4
  <2>5. QED
    BY <2>2, <2>3, <2>4
<1>6. /\ \A p \in Properties : Row0.properties[p].stored # "power of two in setup" => priv'[p] = priv[p]
      /\ \A p \in Properties : Row0.properties[p].stored = "power of two in setup" =>
            priv'[p] = pow2round(priv[p])
  BY <1>2
<1>7. priv' \in [Properties -> Int]
  <2>1. ASSUME NEW p \in Properties PROVE priv'[p] \in Int
    <3>1. CASE Row0.properties[p].stored = "power of two in setup"
      <4>1. PICK k \in 0 .. Width - 1 : priv'[p] = Bit[k]
        BY <1>5, <1>6, <3>1 DEF LeastPowerOfTwo, IsPowerOfTwo
      <4>2. k \in 0 .. Width
        BY WidthAssumption
      <4>3. QED
        BY <4>1, <4>2, Bits
    <3>2. CASE Row0.properties[p].stored # "power of two in setup"
      BY <1>1, <1>6, <3>2
    <3>3. QED
      BY <3>1, <3>2
  <2>2. priv' = [p \in Properties |-> priv'[p]]
    BY <1>2
  <2>3. QED
    BY <2>1, <2>2
<1>8. \A p \in Properties : ReadBack(p)'
  <2> TAKE p \in Properties
  <2>1. CASE Row0.properties[p].stored = "power of two in setup"
    BY <1>2, <1>3, <1>5, <1>6, <2>1 DEF ReadBack
  <2>2. CASE Row0.properties[p].stored # "power of two in setup"
    <3>1. priv'[p] = priv[p] /\ ReadBack(p)
      BY <1>1, <1>6, <2>2
    <3>2. QED
      BY <1>2, <1>3, <2>2, <3>1 DEF ReadBack
  <2>3. QED
    BY <2>1, <2>2
<1>9. \A q \in DOMAIN current : current'[q] = priv'[q]
  <2>1. \A q \in DOMAIN current : q \in Properties /\ Row0.properties[q].stored = "also current"
    BY <1>1
  <2>2. \A q \in DOMAIN current : priv'[q] = priv[q]
    BY <1>6, <2>1
  <2>3. QED
    BY <1>1, <1>2, <2>2
<1>10. PropertiesIndependent'
  BY <1>2, <1>3, <1>8, <1>9 DEF PropertiesIndependent
<1>11. QED
  BY <1>1, <1>2, <1>3, <1>7, <1>10 DEF PropInv

\* Every property is read back as it was given, whatever else is set before or
\* after it (set_property and get_property of every task); sizes are rounded up to
\* the least power of two, however often setup rounds them.
THEOREM PropertiesReadBack == ObjectSpec => []PropertiesIndependent
<1>1. PropInv /\ [ObjectNext]_objectVars => PropInv'
  <2> SUFFICES ASSUME PropInv, [ObjectNext]_objectVars PROVE PropInv'
    OBVIOUS
  <2>1. ASSUME UNCHANGED <<task, priv, current, given>>,
               phase' \in {"idle", "finalized"} \/ phase \in {"ready", "running"}
        PROVE  PropInv'
    <3>1. Row0' = Row0 /\ Properties' = Properties
      BY <2>1 DEF Row0, Properties
    <3>2. ASSUME NEW p \in Properties, ReadBack(p) PROVE ReadBack(p)'
      BY <2>1, <3>1, <3>2 DEF ReadBack
    <3>3. QED
      BY <2>1, <3>1, <3>2 DEF PropInv, PropertiesIndependent
  <2>2. ASSUME NEW p \in Properties, NEW v \in Samples(p), Set(p, v) PROVE PropInv'
    BY <2>2, SetReadsBack
  <2>3. CASE Setup
    BY <2>3, SetupReadsBack
  <2>4. CASE GetNumInputs \/ GetRequisition
    BY <2>1, <2>4 DEF GetNumInputs, GetRequisition
  <2>5. CASE Generate
    BY <2>1, <2>5 DEF Generate
  <2>6. CASE EndRun
    BY <2>1, <2>6 DEF EndRun
  <2>7. CASE Finalize
    BY <2>1, <2>7 DEF Finalize
  <2>8. CASE Finalized
    BY <2>1, <2>8 DEF Finalized, objectVars
  <2>9. CASE UNCHANGED objectVars
    <3>1. UNCHANGED <<task, phase, priv, current, given>>
      BY <2>9 DEF objectVars
    <3>2. QED
      BY <3>1 DEF PropInv, PropertiesIndependent, ReadBack, Row0, Properties
  <2>10. QED
    BY <2>2, <2>3, <2>4, <2>5, <2>6, <2>7, <2>8, <2>9 DEF ObjectNext
<1>2. PropInv => PropertiesIndependent
  BY DEF PropInv
<1>3. QED
  BY <1>1, <1>2, PropertiesStart, PTL DEF ObjectSpec

=============================================================================
