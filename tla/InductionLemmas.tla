--------------------------- MODULE InductionLemmas ---------------------------
(***************************************************************************)
(* Induction and recursion over the natural numbers, about sets and        *)
(* functions: the forms the proofs of this project can cite.  All of it    *)
(* rests on the library's theorem that < is well-founded on Nat.           *)
(***************************************************************************)
EXTENDS Integers, WellFoundedInduction, TLAPS

\* A set of natural numbers that is not empty has a least element.
LEMMA LeastNumber ==
    ASSUME NEW T, T \subseteq Nat, T # {}
    PROVE  \E n \in T : \A m \in T : n <= m
<1>1. \E n \in T : \A m \in T : ~ (<<m, n>> \in OpToRel(<, Nat))
  BY NatLessThanWellFounded, WFMin
<1>2. ASSUME NEW m \in Nat, NEW n \in Nat, m < n
      PROVE  <<m, n>> \in OpToRel(<, Nat)
  <2> DEFINE p == <<m, n>>
  <2>1. p[1] < p[2] /\ p \in Nat \X Nat
    BY <1>2, SMT
  <2> HIDE DEF p
  <2>2. p \in OpToRel(<, Nat)
    BY <2>1, Zenon DEF OpToRel
  <2>3. QED
    BY <2>2, Zenon DEF p
<1>3. \E n \in T : \A m \in T : ~ (m < n)
  BY <1>1, <1>2, Zenon
<1>4. QED
  BY <1>3

\* One with a bound has a greatest.
LEMMA GreatestNumber ==
    ASSUME NEW T, T \subseteq Nat, T # {}, NEW b \in Nat, \A n \in T : n <= b
    PROVE  \E n \in T : \A m \in T : m <= n
<1> DEFINE U == {i \in 0 .. b : b - i \in T}
<1>1. \A n \in T : b - n \in U
  <2> TAKE n \in T
  <2>1. n \in Nat /\ n <= b /\ b - (b - n) = n
    OBVIOUS
  <2>2. b - n \in 0 .. b /\ b - (b - n) \in T
    BY <2>1
  <2>3. QED
    BY <2>2
<1>2. PICK i \in U : \A j \in U : i <= j
  <2>1. U \subseteq Nat /\ U # {}
    <3>1. \E n \in T : TRUE
      OBVIOUS
    <3> HIDE DEF U
    <3>2. U # {}
      BY <1>1, <3>1
    <3>3. U \subseteq Nat
      BY DEF U
    <3>4. QED
      BY <3>2, <3>3
  <2> HIDE DEF U
  <2>2. QED
    BY <2>1, LeastNumber
<1>3. b - i \in T /\ i \in 0 .. b
  OBVIOUS
<1>4. ASSUME NEW m \in T PROVE m <= b - i
  <2>1. b - m \in U
    BY <1>1
  <2> HIDE DEF U
  <2>2. i <= b - m
    BY <1>2, <2>1
  <2>3. m \in Nat
    OBVIOUS
  <2>4. QED
    BY <1>3, <2>2, <2>3
<1>5. QED
  BY <1>3, <1>4

\* A set that has 0 and with every number the next one has all of them.
LEMMA InductionUpTo ==
    ASSUME NEW N \in Nat, NEW T, 0 \in T,
           \A n \in 0 .. N - 1 : n \in T => n + 1 \in T
    PROVE  \A n \in 0 .. N : n \in T
<1> DEFINE U == {n \in 0 .. N : n \notin T}
<1> SUFFICES ASSUME U # {} PROVE FALSE
  OBVIOUS
<1>1. PICK n \in U : \A m \in U : n <= m
  <2>1. U \subseteq Nat
    OBVIOUS
  <2> HIDE DEF U
  <2>2. QED
    BY <2>1, LeastNumber
<1>2. n # 0 /\ n - 1 \in 0 .. N - 1 /\ (n - 1) + 1 = n
  OBVIOUS
<1>3. n - 1 \in T
  BY <1>1, <1>2
<1>4. QED
  BY <1>2, <1>3

\* The same for all of Nat.
LEMMA Induction ==
    ASSUME NEW T, 0 \in T, \A n \in Nat : n \in T => n + 1 \in T
    PROVE  \A n \in Nat : n \in T
<1> TAKE n \in Nat
<1>1. \A m \in 0 .. n - 1 : m \in T => m + 1 \in T
  OBVIOUS
<1>2. QED
  BY <1>1, InductionUpTo

-----------------------------------------------------------------------------
(* Functions defined by recursion. *)

Recursive(f, N, a, g) ==
    /\ DOMAIN f = 0 .. N
    /\ f[0] = a
    /\ \A n \in 1 .. N : f[n] = g[<<n, f[n - 1]>>]

\* g gives the value at n from that at n - 1, both in S.
LEMMA RecursionExists ==
    ASSUME NEW N \in Nat, NEW S, NEW a \in S, NEW g \in [(1 .. N) \X S -> S]
    PROVE  \E f \in [0 .. N -> S] : Recursive(f, N, a, g)
<1> DEFINE T == {n \in 0 .. N : \E f \in [0 .. n -> S] : Recursive(f, n, a, g)}
<1>1. 0 \in T
  <2> DEFINE f == [i \in 0 .. 0 |-> a]
  <2>1. f \in [0 .. 0 -> S] /\ Recursive(f, 0, a, g)
    BY DEF Recursive
  <2>2. QED
    BY <2>1
<1>2. ASSUME NEW n \in 0 .. N - 1, n \in T PROVE n + 1 \in T
  <2>1. PICK f \in [0 .. n -> S] : Recursive(f, n, a, g)
    BY <1>2
  <2> DEFINE b == g[<<n + 1, f[n]>>]
             h == [i \in 0 .. n + 1 |-> IF i = n + 1 THEN b ELSE f[i]]
  <2>2. b \in S
    OBVIOUS
  <2>3. h \in [0 .. n + 1 -> S]
    BY <2>2
  <2>4. h[0] = a
    BY <2>1 DEF Recursive
  <2>5. ASSUME NEW i \in 1 .. n + 1 PROVE h[i] = g[<<i, h[i - 1]>>]
    <3>1. CASE i = n + 1
      <4>1. h[i - 1] = f[n]
        BY <3>1
      <4>2. QED
        BY <3>1, <4>1
    <3>2. CASE i # n + 1
      <4>1. i \in 1 .. n /\ h[i] = f[i] /\ h[i - 1] = f[i - 1]
        BY <3>2
      <4>2. f[i] = g[<<i, f[i - 1]>>]
        BY <2>1, <4>1 DEF Recursive
      <4>3. QED
        BY <4>1, <4>2
    <3>3. QED
      BY <3>1, <3>2
  <2> HIDE DEF h
  <2>6. Recursive(h, n + 1, a, g)
    BY <2>3, <2>4, <2>5 DEF Recursive
  <2>7. n + 1 \in 0 .. N
    OBVIOUS
  <2>8. QED
    BY <2>3, <2>6, <2>7
<1> HIDE DEF T
<1>3. N \in T
  BY <1>1, <1>2, InductionUpTo
<1>4. QED
  BY <1>3 DEF T

\* Two functions that follow the same rule are the same, as far as they do.
LEMMA RecursionUnique ==
    ASSUME NEW N \in Nat, NEW f, NEW h, f[0] = h[0],
           \A n \in 1 .. N : f[n - 1] = h[n - 1] => f[n] = h[n]
    PROVE  \A n \in 0 .. N : f[n] = h[n]
<1> DEFINE T == {n \in 0 .. N : f[n] = h[n]}
<1>1. 0 \in T
  OBVIOUS
<1>2. ASSUME NEW n \in 0 .. N - 1, n \in T PROVE n + 1 \in T
  <2>1. n + 1 \in 1 .. N /\ (n + 1) - 1 = n
    OBVIOUS
  <2>2. f[n + 1] = h[n + 1]
    BY <1>2, <2>1
  <2>3. QED
    BY <2>1, <2>2
<1> HIDE DEF T
<1>3. \A n \in 0 .. N : n \in T
  BY <1>1, <1>2, InductionUpTo
<1>4. QED
  BY <1>3 DEF T

\* What the rule keeps holds of every value.
LEMMA RecursionKeeps ==
    ASSUME NEW N \in Nat, NEW S, NEW f, f[0] \in S,
           \A n \in 1 .. N : f[n - 1] \in S => f[n] \in S
    PROVE  \A n \in 0 .. N : f[n] \in S
<1> DEFINE T == {n \in 0 .. N : f[n] \in S}
<1>1. 0 \in T
  OBVIOUS
<1>2. ASSUME NEW n \in 0 .. N - 1, n \in T PROVE n + 1 \in T
  <2>1. n + 1 \in 1 .. N /\ (n + 1) - 1 = n
    OBVIOUS
  <2>2. f[n + 1] \in S
    BY <1>2, <2>1
  <2>3. QED
    BY <2>1, <2>2
<1> HIDE DEF T
<1>3. \A n \in 0 .. N : n \in T
  BY <1>1, <1>2, InductionUpTo
<1>4. QED
  BY <1>3 DEF T

=============================================================================
