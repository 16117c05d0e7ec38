---------------------------- MODULE ResultsProofs -----------------------------
(***************************************************************************)
(* TLAPS proofs about the two tasks that handle rings image by image:      *)
(* GetDupCirc, for lists of any length and any threshold, and              *)
(* ConcatenateResult, for any number of images and results.                *)
(***************************************************************************)
EXTENDS GetDupCirc, ConcatenateResult, FiniteSetTheorems, InductionLemmas, TLAPS

-----------------------------------------------------------------------------
(* get-dup-circ. *)

Place == [x : Nat, y : Nat, r : Nat]

TypeInv ==
    /\ pc \in {"outer", "inner", "done"}
    /\ N \in Nat
    /\ coord \in [1 .. N -> Place]
    /\ i \in 1 .. N + 1
    /\ members \in [1 .. N -> SUBSET (1 .. N)]
    /\ origin \in Seq(SUBSET (1 .. N))

\* While ring i is searched for, it is there, and what is added up has a
\* radius for every ring in it: the average is never taken for a merged ring.
SearchInv ==
    pc = "inner" =>
        /\ i <= N
        /\ ~Gone(i)
        /\ j \in i + 1 .. N + 1
        /\ merged \in Nat \ {0}
        /\ sum \in Place
        /\ sum.r >= merged

\* The rings of the input are parted between the output and the rings from i on.
Parted ==
    /\ \A k, l \in 1 .. Len(origin) : k # l => origin[k] \cap origin[l] = {}
    /\ \A k, l \in i .. N : k # l => members[k] \cap members[l] = {}
    /\ \A k \in 1 .. Len(origin), l \in i .. N : origin[k] \cap members[l] = {}

Covered ==
    \A k \in 1 .. N :
        \/ \E l \in 1 .. Len(origin) : k \in origin[l]
        \/ \E l \in i .. N : k \in members[l]

\* A ring that is marked as merged stands for nothing any more.
GoneIsEmpty == \A k \in i .. N : Gone(k) => members[k] = {}

IInv ==
    /\ TypeInv
    /\ SearchInv
    /\ Parted
    /\ Covered
    /\ GoneIsEmpty
    /\ out \in Seq(Place) /\ Len(out) = Len(origin)
    /\ pc = "done" => i > N

-----------------------------------------------------------------------------

\* Products and quotients of positive numbers, for the radii.
LEMMA ProductPositive ==
    ASSUME NEW a \in Nat \ {0}, NEW b \in Nat \ {0}
    PROVE  a * b \in Nat \ {0}
<1>1. a * b >= 1 * b
  OBVIOUS
<1>2. QED
  BY <1>1

\* A quotient of naturals.
LEMMA Quotient ==
    ASSUME NEW a \in Nat, NEW m \in Nat \ {0}
    PROVE  a \div m \in Nat /\ (a >= m => a \div m >= 1)
<1> DEFINE q == a \div m
           r == a % m
<1>1. q \in Int /\ r \in 0 .. m - 1 /\ a = m * q + r
  OBVIOUS
<1> HIDE DEF q, r
<1>2. CASE q <= -1
  <2>1. m * q <= m * (-1)
    BY <1>1, <1>2
  <2>2. QED
    BY <2>1, <1>1
<1>3. CASE q = 0
  BY <1>1, <1>3 DEF q
<1>4. CASE q >= 1
  BY <1>1, <1>4 DEF q
<1>5. QED
  BY <1>1, <1>2, <1>3, <1>4

\* The average of rings is a ring of at least radius one.
LEMMA AverageIsPlace ==
    ASSUME sum \in Place, merged \in Nat \ {0}, sum.r >= merged
    PROVE  Average \in Place /\ Average.r >= 1
<1>1. sum.x \in Nat /\ sum.y \in Nat /\ sum.r \in Nat
  BY DEF Place
<1>2. /\ sum.x \div merged \in Nat /\ sum.y \div merged \in Nat
      /\ sum.r \div merged \in Nat /\ sum.r \div merged >= 1
  BY <1>1, Quotient
<1>3. QED
  BY <1>2 DEF Average, Place

\* The list of an image satisfies the invariant.
LEMMA InitInv == Init => IInv
<1> SUFFICES ASSUME Init PROVE IInv
  OBVIOUS
<1>1. PICK n \in 0 .. MaxRings : given \in [1 .. n -> Rings]
  BY DEF Init
<1>2. n \in Nat /\ Len(given) = n
  BY <1>1, ConstantsAssumption
<1>3. \A c \in Coords : c * Unit \in Nat
  BY ConstantsAssumption
<1>4. \A c \in Radii : c * Unit \in Nat \ {0}
  BY ConstantsAssumption, ProductPositive
<1>5. \A g \in Rings : g \in Place /\ g.r # 0
  BY <1>3, <1>4 DEF Rings, Place
<1>6. N = n /\ N \in Nat /\ coord = given /\ coord \in [1 .. N -> Place] /\ \A k \in 1 .. N : ~Gone(k)
  BY <1>1, <1>2, <1>5 DEF Init, N, Gone
<1>7. /\ pc = "outer" /\ i = 1 /\ out = <<>> /\ origin = <<>>
      /\ members = [k \in 1 .. N |-> {k}]
  BY DEF Init
<1>8. TypeInv
  BY <1>6, <1>7 DEF TypeInv
<1>9. SearchInv /\ Parted /\ Covered /\ GoneIsEmpty
  BY <1>6, <1>7 DEF SearchInv, Parted, Covered, GoneIsEmpty
<1>10. QED
  BY <1>7, <1>8, <1>9 DEF IInv

\* One step per action; an action is split by the conjuncts it can disturb.
LEMMA NextInv == IInv /\ [Next]_vars => IInv'
<1> SUFFICES ASSUME IInv, [Next]_vars PROVE IInv'
  OBVIOUS
<1> USE DEF N
<1>1. TypeInv /\ SearchInv /\ Parted /\ Covered /\ GoneIsEmpty
  BY DEF IInv
<1>2. CASE SkipMerged
  <2>1. i <= N /\ Gone(i) /\ i \in Nat /\ N \in Nat
    BY <1>2, <1>1 DEF SkipMerged, TypeInv
  <2>2. /\ pc' = "outer" /\ i' = i + 1
        /\ UNCHANGED <<given, coord, members, origin, out>>
    BY <1>2 DEF SkipMerged
  <2>3. members[i] = {}
    BY <2>1, <1>1 DEF GoneIsEmpty
  <2>4. TypeInv'
    BY <2>1, <2>2, <1>1 DEF TypeInv
  <2>5. Parted' /\ GoneIsEmpty'
    BY <2>1, <2>2, <1>1 DEF Parted, GoneIsEmpty, Gone
  <2>6. Covered'
    <3> SUFFICES ASSUME NEW k \in 1 .. N,
                        NEW l \in i .. N, k \in members[l]
                 PROVE  l \in i + 1 .. N
      BY <2>2, <1>1 DEF Covered
    <3>1. QED
      BY <2>1, <2>3
  <2>7. QED
    BY <2>2, <2>4, <2>5, <2>6 DEF IInv, SearchInv
<1>3. CASE StartSearch
  <2>1. i <= N /\ ~Gone(i) /\ i \in 1 .. N /\ N \in Nat
    BY <1>3, <1>1 DEF StartSearch, TypeInv
  <2>2. /\ pc' = "inner" /\ sum' = coord[i] /\ merged' = 1 /\ j' = i + 1
        /\ UNCHANGED <<given, coord, i, members, origin, out>>
    BY <1>3 DEF StartSearch
  <2>3. coord[i] \in Place /\ coord[i].r >= 1
    BY <2>1, <1>1 DEF TypeInv, Gone, Place
  <2>4. SearchInv'
    BY <2>1, <2>2, <2>3 DEF SearchInv, Gone
  <2>5. TypeInv' /\ Parted' /\ Covered' /\ GoneIsEmpty'
    BY <2>2, <1>1 DEF TypeInv, Parted, Covered, GoneIsEmpty, Gone
  <2>6. QED
    BY <2>2, <2>4, <2>5 DEF IInv
<1>4. CASE PassOver
  <2>1. /\ pc' = "inner" /\ pc = "inner" /\ j <= N /\ j' = j + 1
        /\ UNCHANGED <<given, coord, i, sum, merged, members, origin, out>>
    BY <1>4 DEF PassOver
  <2>2. SearchInv'
    BY <2>1, <1>1 DEF SearchInv, Gone, TypeInv
  <2>3. TypeInv' /\ Parted' /\ Covered' /\ GoneIsEmpty'
    BY <2>1, <1>1 DEF TypeInv, Parted, Covered, GoneIsEmpty, Gone
  <2>4. QED
    BY <2>1, <2>2, <2>3 DEF IInv
<1>5. CASE Add
  <2>1. /\ pc' = "inner" /\ pc = "inner" /\ j <= N /\ ~Gone(j) /\ j' = j + 1
        /\ sum' = [x |-> sum.x + coord[j].x, y |-> sum.y + coord[j].y, r |-> sum.r + coord[j].r]
        /\ coord' = [coord EXCEPT ![j].r = 0]
        /\ merged' = merged + 1
        /\ members' = [members EXCEPT ![i] = @ \cup members[j], ![j] = {}]
        /\ UNCHANGED <<given, i, origin, out>>
    BY <1>5 DEF Add
  <2>2. /\ i \in 1 .. N /\ j \in 1 .. N /\ i < j /\ N \in Nat /\ ~Gone(i)
        /\ merged \in Nat \ {0} /\ sum \in Place /\ sum.r >= merged
    BY <2>1, <1>1 DEF SearchInv, TypeInv
  <2>3. coord[j] \in Place /\ coord[j].r >= 1
    BY <2>1, <2>2, <1>1 DEF TypeInv, Gone, Place
  <2>4. /\ coord' \in [1 .. N -> Place] /\ coord'[j].r = 0
        /\ \A k \in 1 .. N : k # j => coord'[k] = coord[k]
    BY <2>1, <2>2, <2>3, <1>1 DEF TypeInv, Place
  <2>5. /\ members' \in [1 .. N -> SUBSET (1 .. N)]
        /\ members'[i] = members[i] \cup members[j] /\ members'[j] = {}
        /\ \A k \in 1 .. N : k # i /\ k # j => members'[k] = members[k]
    BY <2>1, <2>2, <1>1 DEF TypeInv
  <2>6. TypeInv'
    BY <2>1, <2>4, <2>5, <1>1 DEF TypeInv
  <2>7. SearchInv'
    <3>1. sum' \in Place /\ sum'.r >= merged'
      <4>1. /\ sum.x \in Nat /\ sum.y \in Nat /\ sum.r \in Nat
            /\ coord[j].x \in Nat /\ coord[j].y \in Nat /\ coord[j].r \in Nat
        BY <2>2, <2>3 DEF Place
      <4>2. sum' \in Place
        BY <2>1, <4>1 DEF Place
      <4>3. sum'.r = sum.r + coord[j].r
        BY <2>1
      <4>4. sum.r + coord[j].r >= merged + 1
        BY <4>1, <2>2, <2>3
      <4>5. QED
        BY <2>1, <4>2, <4>3, <4>4
    <3>2. ~Gone(i)'
      BY <2>1, <2>2, <2>4 DEF Gone
    <3>3. QED
      BY <3>1, <3>2, <2>1, <2>2 DEF SearchInv
  <2>8. Parted'
    <3>1. \A k, l \in i .. N : k # l => members'[k] \cap members'[l] = {}
      BY <2>2, <2>5, <1>1 DEF Parted
    <3>2. \A k \in 1 .. Len(origin), l \in i .. N : origin[k] \cap members'[l] = {}
      BY <2>2, <2>5, <1>1 DEF Parted
    <3>3. QED
      BY <3>1, <3>2, <2>1, <1>1 DEF Parted
  <2>9. Covered'
    <3> SUFFICES ASSUME NEW k \in 1 .. N, NEW l \in i .. N, k \in members[l]
                 PROVE  \E m \in i .. N : k \in members'[m]
      BY <2>1, <1>1 DEF Covered
    <3>1. CASE l = j
      BY <3>1, <2>2, <2>5
    <3>2. CASE l # j
      BY <3>2, <2>2, <2>5
    <3>3. QED
      BY <3>1, <3>2
  <2>10. GoneIsEmpty'
    BY <2>1, <2>2, <2>4, <2>5, <1>1 DEF GoneIsEmpty, Gone
  <2>11. QED
    BY <2>1, <2>6, <2>7, <2>8, <2>9, <2>10 DEF IInv
<1>6. CASE SearchAgain
  <2>1. /\ pc' = "outer" /\ coord' = [coord EXCEPT ![i] = Average]
        /\ UNCHANGED <<given, i, members, origin, out>>
    BY <1>6 DEF SearchAgain
  <2>2. i \in 1 .. N /\ Average \in Place /\ Average.r >= 1
    BY <1>6, <1>1, AverageIsPlace DEF SearchAgain, SearchInv, TypeInv
  <2>3. /\ coord' \in [1 .. N -> Place] /\ coord'[i] = Average
        /\ \A k \in 1 .. N : k # i => coord'[k] = coord[k]
    BY <2>1, <2>2, <1>1 DEF TypeInv
  <2>4. GoneIsEmpty'
    BY <2>1, <2>2, <2>3, <1>1 DEF GoneIsEmpty, Gone
  <2>5. TypeInv' /\ Parted' /\ Covered'
    BY <2>1, <2>3, <1>1 DEF TypeInv, Parted, Covered
  <2>6. QED
    BY <2>1, <2>4, <2>5 DEF IInv, SearchInv
<1>7. CASE Emit
  <2>1. /\ pc' = "outer" /\ i' = i + 1
        /\ out' = Append(out, Average) /\ origin' = Append(origin, members[i])
        /\ UNCHANGED <<given, coord, members>>
    BY <1>7 DEF Emit
  <2>2. i \in 1 .. N /\ N \in Nat /\ Average \in Place
    BY <1>7, <1>1, AverageIsPlace DEF Emit, SearchInv, TypeInv
  <2>3. origin \in Seq(SUBSET (1 .. N)) /\ members[i] \in SUBSET (1 .. N)
    BY <2>2, <1>1 DEF TypeInv
  <2>4. /\ origin' \in Seq(SUBSET (1 .. N)) /\ Len(origin') = Len(origin) + 1
        /\ origin'[Len(origin) + 1] = members[i]
        /\ \A k \in 1 .. Len(origin) : origin'[k] = origin[k]
    BY <2>1, <2>3
  <2>5. out' \in Seq(Place) /\ Len(out') = Len(origin')
    BY <2>1, <2>2, <2>4 DEF IInv
  <2>6. TypeInv'
    BY <2>1, <2>2, <2>4, <1>1 DEF TypeInv
  <2>7. Parted'
    <3>1. \A k, l \in 1 .. Len(origin) + 1 : k # l => origin'[k] \cap origin'[l] = {}
      BY <2>2, <2>3, <2>4, <1>1 DEF Parted
    <3>2. \A k \in 1 .. Len(origin) + 1, l \in i + 1 .. N : origin'[k] \cap members[l] = {}
      BY <2>2, <2>3, <2>4, <1>1 DEF Parted
    <3>3. QED
      BY <3>1, <3>2, <2>1, <2>2, <2>4, <1>1 DEF Parted
  <2>8. Covered'
    <3> SUFFICES ASSUME NEW k \in 1 .. N
                 PROVE  \/ \E l \in 1 .. Len(origin) + 1 : k \in origin'[l]
                        \/ \E l \in i + 1 .. N : k \in members[l]
      BY <2>1, <2>4 DEF Covered
    <3>1. CASE \E l \in 1 .. Len(origin) : k \in origin[l]
      BY <3>1, <2>3, <2>4
    <3>2. CASE \E l \in i .. N : k \in members[l]
      <4>1. PICK l \in i .. N : k \in members[l]
        BY <3>2
      <4>2. l = i \/ l \in i + 1 .. N
        BY <2>2
      <4>3. QED
        BY <4>1, <4>2, <2>3, <2>4
    <3>3. QED
      BY <3>1, <3>2, <1>1 DEF Covered
  <2>9. GoneIsEmpty'
    BY <2>1, <2>2, <1>1 DEF GoneIsEmpty, Gone
  <2>10. QED
    BY <2>1, <2>5, <2>6, <2>7, <2>8, <2>9 DEF IInv, SearchInv
<1>8. CASE Return
  <2>1. /\ pc' = "done" /\ i > N
        /\ UNCHANGED <<given, coord, i, members, origin, out>>
    BY <1>8 DEF Return
  <2>2. TypeInv' /\ Parted' /\ Covered' /\ GoneIsEmpty'
    BY <2>1, <1>1 DEF TypeInv, Parted, Covered, GoneIsEmpty, Gone
  <2>3. QED
    BY <2>1, <2>2 DEF IInv, SearchInv
<1>9. CASE UNCHANGED vars
  <2>1. UNCHANGED <<pc, given, coord, i, j, sum, merged, out, members, origin>>
    BY <1>9 DEF vars
  <2>2. TypeInv' /\ SearchInv' /\ Parted' /\ Covered' /\ GoneIsEmpty'
    BY <2>1, <1>1 DEF TypeInv, SearchInv, Parted, Covered, GoneIsEmpty, Gone
  <2>3. QED
    BY <2>1, <2>2 DEF IInv
<1>10. QED
  BY <1>2, <1>3, <1>4, <1>5, <1>6, <1>7, <1>8, <1>9 DEF Next, Finished

\* The rings of the input are always parted between the list that has been made
\* and the rings still to come (merge_rings, lines 107-145).
THEOREM Invariance == Spec => []IInv
<1>1. QED
  BY InitInv, NextInv, PTL DEF Spec

\* The invariant says where each ring went.
LEMMA PartedOnce == IInv => EachRingOnce
<1> SUFFICES ASSUME IInv, pc = "done", NEW k \in 1 .. N
             PROVE  Cardinality({l \in 1 .. Len(out) : k \in origin[l]}) = 1
  BY DEF EachRingOnce
<1>1. i > N /\ i \in Nat /\ N \in Nat /\ Len(out) = Len(origin)
  BY DEF IInv, TypeInv
<1>2. PICK l \in 1 .. Len(origin) : k \in origin[l]
  BY <1>1 DEF IInv, Covered
<1>3. {m \in 1 .. Len(out) : k \in origin[m]} = {l}
  BY <1>1, <1>2 DEF IInv, Parted
<1>4. QED
  BY <1>3, FS_Singleton

\* Every ring of the input is part of exactly one ring of the output, whatever
\* merges, in which order, and however often a ring is searched for again
\* (merge_rings, lines 107-145).
THEOREM RingsKept == Spec => []EachRingOnce
<1>1. QED
  BY Invariance, PartedOnce, PTL

-----------------------------------------------------------------------------
(* What is left of duplicates. *)

\* A ring that stands for itself alone is where it was given; one that has
\* merged stands for two rings at least.
OwnInv ==
    /\ \A l \in i .. N : ~Gone(l) => l \in members[l]
    /\ pc = "inner" => /\ merged = 1 => sum = coord[i]
                       /\ merged > 1 => members[i] # {i}

\* A ring that has not moved is no neighbour of those emitted before, nor, once
\* the search has passed it without a merge, of the ring in hand.
ApartInv ==
    /\ \A k \in 1 .. Len(out), l \in i .. N :
          ~Gone(l) /\ members[l] = {l} => ~Near(out[k], coord[l])
    /\ pc = "inner" /\ merged = 1 =>
          \A l \in i + 1 .. j - 1 : ~Gone(l) => ~Near(coord[l], coord[i])

\* A duplicate of an earlier ring stands for two rings of the input.
MovedInv ==
    \A k, l \in 1 .. Len(out) :
        k < l /\ Near(out[k], out[l]) => \E p, q \in origin[l] : p # q

ResidualInv == OwnInv /\ ApartInv /\ MovedInv

\* Being near goes both ways.
LEMMA NearSymmetric ==
    ASSUME NEW a \in Place, NEW b \in Place
    PROVE  Near(a, b) <=> Near(b, a)
<1>1. /\ a.x \in Nat /\ a.y \in Nat /\ a.r \in Nat
      /\ b.x \in Nat /\ b.y \in Nat /\ b.r \in Nat
  BY DEF Place
<1>2. \A u, v \in Nat : (u - v) * (u - v) = (v - u) * (v - u)
  OBVIOUS
<1>3. /\ Square(a.x - b.x) = Square(b.x - a.x)
      /\ Square(a.y - b.y) = Square(b.y - a.y)
  BY <1>1, <1>2 DEF Square
<1>4. Distance(a.r, b.r) = Distance(b.r, a.r)
  BY <1>1 DEF Distance
<1>5. QED
  BY <1>3, <1>4 DEF Near

\* Nothing has been merged yet.
LEMMA ResidualInit == Init => ResidualInv
<1> SUFFICES ASSUME Init PROVE ResidualInv
  OBVIOUS
<1>1. N \in Nat /\ members = [k \in 1 .. N |-> {k}] /\ pc = "outer" /\ i = 1 /\ out = <<>>
  <2>1. PICK n \in 0 .. MaxRings : given \in [1 .. n -> Rings]
    BY DEF Init
  <2>2. QED
    BY <2>1, ConstantsAssumption DEF Init, N
<1>2. QED
  BY <1>1 DEF ResidualInv, OwnInv, ApartInv, MovedInv

\* Every step keeps what is known of the rings that were passed.
LEMMA ResidualNext == IInv /\ ResidualInv /\ [Next]_vars => ResidualInv'
<1> SUFFICES ASSUME IInv, ResidualInv, [Next]_vars PROVE ResidualInv'
  OBVIOUS
<1> USE DEF N
<1>1. TypeInv /\ SearchInv /\ OwnInv /\ ApartInv /\ MovedInv
  BY DEF IInv, ResidualInv
<1>2. CASE SkipMerged
  <2>1. /\ i \in Nat /\ N \in Nat /\ pc' = "outer" /\ i' = i + 1
        /\ UNCHANGED <<given, coord, members, origin, out>>
    BY <1>2, <1>1 DEF SkipMerged, TypeInv
  <2>2. OwnInv' /\ ApartInv' /\ MovedInv'
    BY <2>1, <1>1 DEF OwnInv, ApartInv, MovedInv, Gone
  <2>3. QED
    BY <2>2 DEF ResidualInv
<1>3. CASE StartSearch
  <2>1. /\ i \in Nat /\ N \in Nat
        /\ pc' = "inner" /\ sum' = coord[i] /\ merged' = 1 /\ j' = i + 1
        /\ UNCHANGED <<given, coord, i, members, origin, out>>
    BY <1>3, <1>1 DEF StartSearch, TypeInv
  <2>2. OwnInv' /\ ApartInv' /\ MovedInv'
    BY <2>1, <1>1 DEF OwnInv, ApartInv, MovedInv, Gone
  <2>3. QED
    BY <2>2 DEF ResidualInv
<1>4. CASE PassOver
  <2>1. /\ pc' = "inner" /\ pc = "inner" /\ j <= N /\ j' = j + 1
        /\ Gone(j) \/ ~Near(coord[j], coord[i])
        /\ i \in Nat /\ j \in Nat /\ N \in Nat
        /\ UNCHANGED <<given, coord, i, sum, merged, members, origin, out>>
    BY <1>4, <1>1 DEF PassOver, SearchInv, TypeInv
  <2>2. ApartInv'
    <3>1. \A l \in i + 1 .. j : l = j \/ l \in i + 1 .. j - 1
      BY <2>1
    <3>2. QED
      BY <3>1, <2>1, <1>1 DEF ApartInv, Gone
  <2>3. OwnInv' /\ MovedInv'
    BY <2>1, <1>1 DEF OwnInv, MovedInv, Gone
  <2>4. QED
    BY <2>2, <2>3 DEF ResidualInv
<1>5. CASE Add
  <2>1. /\ pc' = "inner" /\ pc = "inner" /\ j <= N /\ ~Gone(j) /\ j' = j + 1
        /\ coord' = [coord EXCEPT ![j].r = 0]
        /\ merged' = merged + 1
        /\ members' = [members EXCEPT ![i] = @ \cup members[j], ![j] = {}]
        /\ UNCHANGED <<given, i, origin, out>>
    BY <1>5 DEF Add
  <2>2. /\ i \in 1 .. N /\ j \in 1 .. N /\ i < j /\ N \in Nat /\ ~Gone(i) /\ merged \in Nat \ {0}
    BY <2>1, <1>1 DEF SearchInv, TypeInv
  <2>3. coord[j] \in Place
    BY <2>2, <1>1 DEF TypeInv
  <2>4. /\ coord'[j].r = 0
        /\ \A k \in 1 .. N : k # j => coord'[k] = coord[k]
    BY <2>1, <2>2, <2>3, <1>1 DEF TypeInv, Place
  <2>5. /\ members'[i] = members[i] \cup members[j] /\ members'[j] = {}
        /\ \A k \in 1 .. N : k # i /\ k # j => members'[k] = members[k]
    BY <2>1, <2>2, <1>1 DEF TypeInv
  <2>6. i \in members[i] /\ j \in members[j]
    BY <2>1, <2>2, <1>1 DEF OwnInv
  <2>7. members'[i] # {i}
    BY <2>2, <2>5, <2>6
  <2>8. merged' # 1 /\ merged' > 1
    BY <2>1, <2>2
  <2>9. OwnInv'
    <3>1. ASSUME NEW l \in i .. N, coord'[l].r # 0 PROVE l \in members'[l]
      <4>1. l \in 1 .. N /\ l # j
        BY <3>1, <2>2, <2>4
      <4>2. l \in members[l]
        BY <3>1, <4>1, <2>4, <1>1 DEF OwnInv, Gone
      <4>3. CASE l = i
        BY <4>3, <2>5, <2>6
      <4>4. CASE l # i
        BY <4>1, <4>2, <4>4, <2>5
      <4>5. QED
        BY <4>3, <4>4
    <3>2. QED
      BY <3>1, <2>1, <2>7, <2>8 DEF OwnInv, Gone
  <2>10. ApartInv'
    <3> SUFFICES ASSUME NEW k \in 1 .. Len(out), NEW l \in i .. N,
                        coord'[l].r # 0, members'[l] = {l}
                 PROVE  ~Near(out[k], coord'[l])
      BY <2>1, <2>8 DEF ApartInv, Gone
    <3>1. l # j /\ l # i /\ l \in 1 .. N
      BY <2>2, <2>4, <2>7
    <3>2. QED
      BY <3>1, <2>4, <2>5, <1>1 DEF ApartInv, Gone
  <2>11. MovedInv'
    BY <2>1, <1>1 DEF MovedInv
  <2>12. QED
    BY <2>9, <2>10, <2>11 DEF ResidualInv
<1>6. CASE SearchAgain
  <2>1. /\ pc = "inner" /\ merged > 1 /\ pc' = "outer" /\ coord' = [coord EXCEPT ![i] = Average]
        /\ UNCHANGED <<given, i, members, origin, out>>
    BY <1>6 DEF SearchAgain
  <2>2. i \in 1 .. N /\ N \in Nat /\ ~Gone(i) /\ members[i] # {i} /\ i \in members[i]
    BY <2>1, <1>1 DEF SearchInv, OwnInv, TypeInv
  <2>3. \A k \in 1 .. N : k # i => coord'[k] = coord[k]
    BY <2>1, <2>2, <1>1 DEF TypeInv
  <2>4. OwnInv' /\ ApartInv' /\ MovedInv'
    BY <2>1, <2>2, <2>3, <1>1 DEF OwnInv, ApartInv, MovedInv, Gone
  <2>5. QED
    BY <2>4 DEF ResidualInv
<1>7. CASE Emit
  <2>1. /\ pc = "inner" /\ j > N /\ merged = 1 /\ pc' = "outer" /\ i' = i + 1
        /\ out' = Append(out, Average) /\ origin' = Append(origin, members[i])
        /\ UNCHANGED <<given, coord, members>>
    BY <1>7 DEF Emit
  <2>2. /\ i \in 1 .. N /\ N \in Nat /\ ~Gone(i) /\ j \in Nat /\ coord[i] \in Place
        /\ out \in Seq(Place) /\ origin \in Seq(SUBSET (1 .. N)) /\ Len(out) = Len(origin)
    <3>1. i \in 1 .. N /\ N \in Nat /\ ~Gone(i) /\ j \in Nat
      BY <2>1, <1>1 DEF SearchInv, TypeInv
    <3>2. coord[i] \in Place /\ origin \in Seq(SUBSET (1 .. N))
      BY <3>1, <1>1 DEF TypeInv
    <3>3. out \in Seq(Place) /\ Len(out) = Len(origin)
      BY DEF IInv
    <3>4. QED
      BY <3>1, <3>2, <3>3
  <2>3. Average = coord[i]
    <3>1. sum = coord[i] /\ sum.x \in Nat /\ sum.y \in Nat /\ sum.r \in Nat
      BY <2>1, <2>2, <1>1 DEF OwnInv, Place
    <3>2. \A u \in Nat : u \div 1 = u
      OBVIOUS
    <3>3. Average = [x |-> sum.x, y |-> sum.y, r |-> sum.r]
      BY <3>1, <3>2, <2>1 DEF Average
    <3>4. QED
      BY <3>1, <3>3, <2>2 DEF Place
  <2>4. /\ Len(out') = Len(out) + 1 /\ out'[Len(out) + 1] = coord[i]
        /\ \A k \in 1 .. Len(out) : out'[k] = out[k]
        /\ origin'[Len(out) + 1] = members[i]
        /\ \A k \in 1 .. Len(out) : origin'[k] = origin[k]
    BY <2>1, <2>2, <2>3, <1>1 DEF TypeInv
  <2>5. OwnInv'
    BY <2>1, <2>2, <1>1 DEF OwnInv, Gone
  <2>6. ApartInv'
    <3> SUFFICES ASSUME NEW k \in 1 .. Len(out) + 1, NEW l \in i + 1 .. N,
                        ~Gone(l), members[l] = {l}
                 PROVE  ~Near(out'[k], coord[l])
      BY <2>1, <2>4 DEF ApartInv, Gone
    <3>1. CASE k = Len(out) + 1
      <4>1. l \in i + 1 .. j - 1 /\ coord[l] \in Place
        BY <2>1, <2>2, <1>1 DEF TypeInv
      <4>2. ~Near(coord[l], coord[i])
        BY <4>1, <2>1, <1>1 DEF ApartInv
      <4>3. QED
        BY <4>1, <4>2, <3>1, <2>2, <2>4, NearSymmetric
    <3>2. CASE k # Len(out) + 1
      <4>1. k \in 1 .. Len(out) /\ l \in i .. N
        BY <3>2, <2>2
      <4>2. QED
        BY <4>1, <2>4, <1>1 DEF ApartInv
    <3>3. QED
      BY <3>1, <3>2
  <2>7. MovedInv'
    <3> SUFFICES ASSUME NEW k \in 1 .. Len(out) + 1, NEW l \in 1 .. Len(out) + 1,
                        k < l, Near(out'[k], out'[l])
                 PROVE  \E p, q \in origin'[l] : p # q
      BY <2>4 DEF MovedInv
    <3>1. k \in 1 .. Len(out)
      BY <2>2
    <3>2. CASE l = Len(out) + 1
      <4>1. members[i] # {i}
        BY <3>1, <3>2, <2>2, <2>4, <1>1 DEF ApartInv
      <4>2. i \in members[i]
        BY <2>2, <1>1 DEF OwnInv
      <4>3. QED
        BY <4>1, <4>2, <3>2, <2>4
    <3>3. CASE l # Len(out) + 1
      <4>1. l \in 1 .. Len(out)
        BY <3>3, <2>2
      <4>2. QED
        BY <4>1, <3>1, <2>4, <1>1 DEF MovedInv
    <3>4. QED
      BY <3>2, <3>3
  <2>8. QED
    BY <2>5, <2>6, <2>7 DEF ResidualInv
<1>8. CASE Return
  <2>1. /\ pc' = "done"
        /\ UNCHANGED <<given, coord, i, members, origin, out>>
    BY <1>8 DEF Return
  <2>2. OwnInv' /\ ApartInv' /\ MovedInv'
    BY <2>1, <1>1 DEF OwnInv, ApartInv, MovedInv, Gone
  <2>3. QED
    BY <2>2 DEF ResidualInv
<1>9. CASE UNCHANGED vars
  <2>1. UNCHANGED <<pc, given, coord, i, j, sum, merged, out, members, origin>>
    BY <1>9 DEF vars
  <2>2. OwnInv' /\ ApartInv' /\ MovedInv'
    BY <2>1, <1>1 DEF OwnInv, ApartInv, MovedInv, Gone
  <2>3. QED
    BY <2>2 DEF ResidualInv
<1>10. QED
  BY <1>2, <1>3, <1>4, <1>5, <1>6, <1>7, <1>8, <1>9 DEF Next, Finished

\* A set of two different elements has more than one.
LEMMA TwoElements ==
    ASSUME NEW S, IsFiniteSet(S), NEW p \in S, NEW q \in S, p # q
    PROVE  Cardinality(S) > 1
<1>1. IsFiniteSet({p}) /\ Cardinality({p}) = 1
  BY FS_Singleton
<1>2. Cardinality({p} \cup {q}) = 2
  BY <1>1, FS_AddElement
<1>3. {p} \cup {q} \subseteq S /\ Cardinality(S) \in Nat
  BY FS_CardinalityType
<1>4. Cardinality({p} \cup {q}) <= Cardinality(S)
  BY <1>3, FS_Subset
<1>5. QED
  BY <1>2, <1>3, <1>4

\* A pair that is still near was made near by moving.
LEMMA MovedOnly == IInv /\ ResidualInv => ResidualOnlyByMoving
<1> SUFFICES ASSUME IInv, ResidualInv, NEW k \in 1 .. Len(out), NEW l \in 1 .. Len(out),
                    k < l, Near(out[k], out[l])
             PROVE  Cardinality(origin[l]) > 1
  BY DEF ResidualOnlyByMoving
<1>1. origin[l] \subseteq 1 .. N /\ N \in Nat
  BY DEF IInv, TypeInv
<1>2. IsFiniteSet(1 .. N)
  BY <1>1, FS_Interval
<1>3. IsFiniteSet(origin[l])
  BY <1>1, <1>2, FS_Subset
<1>4. PICK p, q \in origin[l] : p # q
  BY DEF ResidualInv, MovedInv
<1>5. QED
  BY <1>3, <1>4, TwoElements

\* However many rings there are: if two rings of the output are neighbours, the
\* later one moved there by merging.  A ring that merged with nothing is never
\* a duplicate of an earlier one (merge_rings, lines 107-145).
THEOREM DuplicatesHaveMoved == Spec => []ResidualOnlyByMoving
<1>1. IInv /\ ResidualInv /\ [Next]_vars => ResidualInv'
  BY ResidualNext
<1>2. QED
  BY Invariance, ResidualInit, <1>1, MovedOnly, PTL DEF Spec

-----------------------------------------------------------------------------
(* concatenate-result. *)

\* What the properties of the task and the counts of its input admit.
Admitted ==
    /\ Images \subseteq Nat /\ Counts \subseteq Nat /\ RingCounts \subseteq Nat
    /\ MaxCount \in Nat \ {0} /\ FirstRoom \in Nat

Block == [room : Nat, nb_elt : Nat]

CollectTypeInv ==
    /\ phase \in {"idle", "process", "generate", "done", "undefined"}
    /\ size \in Nat /\ idx \in Nat /\ room \in Nat
    /\ data \in [0 .. size - 1 -> Block \cup {None}]
    /\ arrived \in Seq([image : Nat, count : Nat])

\* Every image that has arrived has a place in the table; the result after which
\* the behaviour is undefined had none, or had rings.
InTable ==
    /\ phase = "idle" => arrived = <<>>
    /\ phase # "idle" => size > 0
    /\ phase # "undefined" => \A p \in 1 .. Len(arrived) : arrived[p].image < size
    /\ phase = "undefined" =>
         /\ Len(arrived) > 0
         /\ \A p \in 1 .. Len(arrived) - 1 : arrived[p].image < size
         /\ LET last == arrived[Len(arrived)]
            IN  last.image >= Increased(last.image) \/ last.count \in 1 .. MaxCount

Collecting == phase \in {"process", "generate"}

\* The block of an image that is still arriving is the one the shared index and
\* the shared room speak of.
IsCurrent(b) == b.room = room /\ b.nb_elt = idx /\ idx <= room

BlocksInv ==
    /\ phase # "undefined" => \A k \in DOMAIN data : data[k] # None => k \in Seen
    /\ Collecting /\ Grouped =>
         /\ \A k \in DOMAIN data : data[k] # None => data[k].nb_elt <= data[k].room
         /\ arrived # <<>> =>
              LET k == arrived[Len(arrived)].image
              IN  data[k] # None /\ IsCurrent(data[k])

CollectInv == CollectTypeInv /\ InTable /\ BlocksInv

-----------------------------------------------------------------------------

\* A block before and after a result of n rings.
Counted(b, c, n) == c.nb_elt = IF n <= MaxCount THEN b.nb_elt + n ELSE b.nb_elt

\* initialize_field and the rest of process, on one block.
LEMMA OneBlock ==
    ASSUME Admitted, NEW t, NEW dom, t \in [dom -> Block \cup {None}], NEW k \in dom,
           NEW n \in Nat, idx \in Nat, room \in Nat,
           NEW a, a = Collected(Initialized(t, k), k, n)
    PROVE  /\ a.data \in [dom -> Block \cup {None}]
           /\ a.idx \in Nat /\ a.room \in Nat
           /\ \A q \in dom : q # k => a.data[q] = t[q]
           /\ a.data[k] # None
           /\ Counted(t[k], a.data[k], n)
           /\ t[k] = None \/ IsCurrent(t[k]) =>
                a.data[k].room = a.room /\ a.data[k].nb_elt = a.idx /\ a.idx <= a.room
<1> DEFINE s == Initialized(t, k)
<1>1. FirstRoom \in Nat /\ MaxCount \in Nat /\ None \notin Block
  BY DEF Admitted, None, Block
<1>2. /\ s = [data |-> s.data, idx |-> s.idx, room |-> s.room]
      /\ s.data \in [dom -> Block \cup {None}] /\ s.idx \in Nat /\ s.room \in Nat
      /\ \A q \in dom : q # k => s.data[q] = t[q]
      /\ s.data[k] \in Block /\ s.data[k].nb_elt = t[k].nb_elt
      /\ t[k] = None \/ IsCurrent(t[k]) =>
           s.data[k].room = s.room /\ s.data[k].nb_elt = s.idx /\ s.idx <= s.room
  <2>1. CASE t[k] = None
    <3> DEFINE b == [room |-> FirstRoom, nb_elt |-> 0]
    <3>1. s = [data |-> [t EXCEPT ![k] = b], idx |-> 0, room |-> FirstRoom]
      BY <2>1 DEF Initialized
    <3>2. b \in Block /\ b.room = FirstRoom /\ b.nb_elt = 0 /\ t[k].nb_elt = 0
      BY <2>1, <1>1 DEF Block, None
    <3> HIDE DEF b, s
    <3>3. QED
      BY <3>1, <3>2, <1>1
  <2>2. CASE t[k] # None
    <3>1. s = [data |-> t, idx |-> idx, room |-> room]
      BY <2>2 DEF Initialized
    <3> HIDE DEF s
    <3>2. QED
      BY <3>1, <2>2 DEF IsCurrent
  <2>3. QED
    BY <2>1, <2>2
<1> HIDE DEF s
<1>3. CASE n > MaxCount
  <2>1. a = s
    BY <1>3 DEF Collected, s
  <2>2. t[k].nb_elt \in Nat /\ ~(n <= MaxCount)
    BY <1>1, <1>2, <1>3 DEF Block
  <2>3. Counted(t[k], a.data[k], n)
    BY <2>1, <2>2, <1>2 DEF Counted
  <2>4. QED
    BY <2>1, <2>3, <1>1, <1>2
<1>4. CASE ~(n > MaxCount)
  <2> DEFINE e == Enlarged(s, k, n)
             b == s.data[k]
  <2>1. a = [e EXCEPT !.idx = @ + n, !.data[k].nb_elt = @ + n]
    BY <1>4 DEF Collected, s
  <2>2. /\ e = [data |-> e.data, idx |-> s.idx, room |-> e.room]
        /\ e.data \in [dom -> Block \cup {None}] /\ e.room \in Nat
        /\ \A q \in dom : q # k => e.data[q] = s.data[q]
        /\ e.data[k] \in Block /\ e.data[k].nb_elt = b.nb_elt
        /\ b.room = s.room => e.data[k].room = e.room
        /\ s.idx <= s.room => s.idx + n <= e.room
    <3>1. CASE s.idx + n > s.room
      <4> DEFINE c == [b EXCEPT !.room = s.room + n]
      <4>1. e = [data |-> [s.data EXCEPT ![k] = c], idx |-> s.idx, room |-> s.room + n]
        BY <3>1, <1>2 DEF Enlarged
      <4>2. c \in Block /\ c.room = s.room + n /\ c.nb_elt = b.nb_elt
        BY <1>2 DEF Block
      <4> HIDE DEF c, e, b
      <4>3. QED
        BY <4>1, <4>2, <1>2
    <3>2. CASE ~(s.idx + n > s.room)
      <4>1. e = s
        BY <3>2 DEF Enlarged
      <4>2. QED
        BY <4>1, <3>2, <1>2
    <3>3. QED
      BY <3>1, <3>2
  <2> DEFINE c == [e.data[k] EXCEPT !.nb_elt = @ + n]
  <2> HIDE DEF e
  <2>3. a = [data |-> [e.data EXCEPT ![k] = c], idx |-> s.idx + n, room |-> e.room]
    <3>1. PICK u, v, w : e = [data |-> u, idx |-> v, room |-> w]
      BY <2>2
    <3>2. e.data = u /\ e.idx = v /\ e.room = w /\ v = s.idx /\ c = [u[k] EXCEPT !.nb_elt = @ + n]
      BY <3>1, <2>2 DEF c
    <3>3. a = [data |-> [u EXCEPT ![k].nb_elt = @ + n], idx |-> v + n, room |-> w]
      BY <3>1, <2>1
    <3>4. [u EXCEPT ![k].nb_elt = @ + n] = [u EXCEPT ![k] = c]
      BY <3>2
    <3>5. QED
      BY <3>2, <3>3, <3>4
  <2>4. c \in Block /\ c.room = e.data[k].room /\ c.nb_elt = b.nb_elt + n
    BY <2>2 DEF Block
  <2> HIDE DEF c
  <2>5. /\ a.data = [e.data EXCEPT ![k] = c] /\ a.idx = s.idx + n /\ a.room = e.room
    BY <2>3
  <2>6. /\ a.data \in [dom -> Block \cup {None}] /\ a.data[k] = c
        /\ \A q \in dom : q # k => a.data[q] = t[q]
    BY <2>2, <2>4, <2>5, <1>2
  <2>7. a.idx \in Nat /\ a.room \in Nat /\ a.data[k] # None
    BY <2>2, <2>4, <2>5, <2>6, <1>1, <1>2
  <2>8. ASSUME t[k] = None \/ IsCurrent(t[k])
        PROVE  a.data[k].room = a.room /\ a.data[k].nb_elt = a.idx /\ a.idx <= a.room
    <3>1. b.room = s.room /\ b.nb_elt = s.idx /\ s.idx <= s.room
      BY <2>8, <1>2
    <3>2. QED
      BY <3>1, <2>2, <2>4, <2>5, <2>6
  <2>9. Counted(t[k], a.data[k], n)
    BY <2>4, <2>6, <1>1, <1>2, <1>4 DEF Counted
  <2>10. QED
    BY <2>6, <2>7, <2>8, <2>9, <1>1, <1>4
<1>5. QED
  BY <1>3, <1>4

\* What arrives has an image number.
LEMMA ImageNumber ==
    ASSUME arrived \in Seq([image : Nat, count : Nat]), NEW p \in 1 .. Len(arrived)
    PROVE  arrived[p].image \in Nat
<1>1. arrived[p] \in [image : Nat, count : Nat]
  <2> DEFINE R == [image : Nat, count : Nat]
  <2>1. arrived \in Seq(R) /\ p \in 1 .. Len(arrived)
    OBVIOUS
  <2> HIDE DEF R
  <2>2. arrived[p] \in R
    BY <2>1
  <2>3. QED
    BY <2>2 DEF R
<1>2. QED
  BY <1>1

\* A result that keeps the images together is of the last image, or of a new one.
LEMMA GroupedStep ==
    ASSUME NEW r \in [image : Nat, count : Nat], arrived \in Seq([image : Nat, count : Nat]),
           arrived' = Append(arrived, r), Grouped'
    PROVE  /\ Grouped
           /\ r.image \in Seen => arrived # <<>> /\ arrived[Len(arrived)].image = r.image
           /\ Seen' = Seen \cup {r.image}
<1> DEFINE n == Len(arrived)
<1>1. /\ n \in Nat /\ Len(arrived') = n + 1 /\ arrived'[n + 1] = r
      /\ \A p \in 1 .. n : arrived'[p] = arrived[p]
  OBVIOUS
<1>2. Grouped
  <2> SUFFICES ASSUME NEW p \in 1 .. n, NEW q \in 1 .. n, NEW l \in 1 .. n,
                      p < q, q < l, arrived[p].image = arrived[l].image
               PROVE  arrived[q].image = arrived[p].image
    BY DEF Grouped
  <2>1. p \in 1 .. n + 1 /\ q \in 1 .. n + 1 /\ l \in 1 .. n + 1
    BY <1>1
  <2>2. arrived'[p] = arrived[p] /\ arrived'[q] = arrived[q] /\ arrived'[l] = arrived[l]
    BY <1>1
  <2>3. arrived'[q].image = arrived'[p].image
    BY <2>1, <2>2, <1>1 DEF Grouped
  <2>4. QED
    BY <2>2, <2>3
<1>3. ASSUME r.image \in Seen
      PROVE  arrived # <<>> /\ arrived[Len(arrived)].image = r.image
  <2>1. PICK p \in 1 .. n : arrived[p].image = r.image
    BY <1>3 DEF Seen
  <2>2. CASE p = n
    BY <2>1, <2>2, <1>1
  <2>3. CASE p < n
    <3>1. p \in 1 .. n + 1 /\ n \in 1 .. n + 1 /\ n + 1 \in 1 .. n + 1 /\ p < n /\ n < n + 1
      BY <2>1, <2>3, <1>1
    <3>2. arrived'[p].image = arrived'[n + 1].image
      BY <2>1, <1>1
    <3>3. arrived'[n].image = arrived'[p].image
      BY <3>1, <3>2, <1>1 DEF Grouped
    <3>4. QED
      BY <3>1, <3>3, <2>1, <1>1
  <2>4. QED
    BY <2>1, <2>2, <2>3, <1>1
<1>4. Seen' = Seen \cup {r.image}
  <2>1. \A p \in 1 .. n + 1 : p = n + 1 \/ p \in 1 .. n
    BY <1>1
  <2>2. QED
    BY <2>1, <1>1 DEF Seen
<1>5. QED
  BY <1>2, <1>3, <1>4

\* What arrives has been seen from then on.
LEMMA SeenStep ==
    ASSUME NEW r \in [image : Nat, count : Nat], arrived \in Seq([image : Nat, count : Nat]),
           arrived' = Append(arrived, r)
    PROVE  Seen \subseteq Seen' /\ r.image \in Seen'
<1>1. /\ Len(arrived) \in Nat /\ Len(arrived') = Len(arrived) + 1
      /\ arrived'[Len(arrived) + 1] = r
      /\ \A p \in 1 .. Len(arrived) : arrived'[p] = arrived[p] /\ p \in 1 .. Len(arrived')
  OBVIOUS
<1>2. QED
  BY <1>1 DEF Seen

\* A new collector satisfies the invariant.
LEMMA CollectInitInv == ASSUME CollectInit PROVE CollectInv
<1>1. /\ phase = "idle" /\ size = 0 /\ data = <<>> /\ idx = 0 /\ room = 0 /\ arrived = <<>>
  BY DEF CollectInit
<1>2. DOMAIN data = {} /\ data \in [0 .. size - 1 -> Block \cup {None}]
  BY <1>1
<1>3. QED
  BY <1>1, <1>2 DEF CollectInv, CollectTypeInv, InTable, BlocksInv, Collecting

\* So does one that has put a list in its place.
LEMMA ProcessInv ==
    ASSUME Admitted, CollectInv, NEW k \in Images, NEW n \in Counts, Process(k, n)
    PROVE  CollectInv'
<1> DEFINE larger == Increased(k)
           t == [p \in 0 .. larger - 1 |-> IF p < size THEN data[p] ELSE None]
           a == Collected(Initialized(t, k), k, n)
           r == [image |-> k, count |-> n]
<1>1. /\ phase = "process" /\ phase' = "process" /\ k < larger
      /\ size' = larger /\ data' = a.data /\ idx' = a.idx /\ room' = a.room
      /\ arrived' = Append(arrived, r)
  BY DEF Process
<1>2. CollectTypeInv /\ InTable /\ BlocksInv /\ k \in Nat /\ n \in Nat /\ r \in [image : Nat, count : Nat]
  BY DEF CollectInv, Admitted
<1>3. size \in Nat /\ larger \in Nat /\ size <= larger /\ k \in 0 .. larger - 1 /\ size > 0
  BY <1>1, <1>2 DEF Increased, CollectTypeInv, InTable
<1>4. /\ t \in [0 .. larger - 1 -> Block \cup {None}]
      /\ \A q \in 0 .. larger - 1 : t[q] # None => q \in DOMAIN data /\ t[q] = data[q]
  BY <1>2, <1>3 DEF CollectTypeInv
<1> HIDE DEF larger, t
<1>5. /\ a.data \in [0 .. larger - 1 -> Block \cup {None}]
      /\ a.idx \in Nat /\ a.room \in Nat
      /\ \A q \in 0 .. larger - 1 : q # k => a.data[q] = t[q]
      /\ a.data[k] # None
      /\ t[k] = None \/ IsCurrent(t[k]) =>
           a.data[k].room = a.room /\ a.data[k].nb_elt = a.idx /\ a.idx <= a.room
  <2> DEFINE dom == 0 .. larger - 1
  <2>1. /\ a = Collected(Initialized(t, k), k, n) /\ idx \in Nat /\ room \in Nat
        /\ t \in [dom -> Block \cup {None}] /\ k \in dom /\ n \in Nat
    BY <1>2, <1>3, <1>4 DEF CollectTypeInv
  <2> HIDE DEF dom, a
  <2>2. /\ a.data \in [dom -> Block \cup {None}]
        /\ a.idx \in Nat /\ a.room \in Nat
        /\ \A q \in dom : q # k => a.data[q] = t[q]
        /\ a.data[k] # None
        /\ t[k] = None \/ IsCurrent(t[k]) =>
             a.data[k].room = a.room /\ a.data[k].nb_elt = a.idx /\ a.idx <= a.room
    BY <2>1, OneBlock
  <2>3. QED
    BY <2>2 DEF dom
<1> HIDE DEF a, r
<1>6. arrived \in Seq([image : Nat, count : Nat])
  BY <1>2 DEF CollectTypeInv
<1>7. r.image = k
  BY DEF r
<1>8. /\ Len(arrived) \in Nat /\ Len(arrived') = Len(arrived) + 1
      /\ arrived'[Len(arrived) + 1] = r
      /\ \A p \in 1 .. Len(arrived) : arrived'[p] = arrived[p]
      /\ arrived' \in Seq([image : Nat, count : Nat])
  BY <1>1, <1>2, <1>6
<1>9. CollectTypeInv'
  BY <1>1, <1>3, <1>5, <1>8 DEF CollectTypeInv
<1>10. InTable'
  <2> SUFFICES ASSUME NEW p \in 1 .. Len(arrived') PROVE arrived'[p].image < size'
    BY <1>1, <1>3 DEF InTable
  <2>1. CASE p = Len(arrived) + 1
    BY <2>1, <1>1, <1>7, <1>8
  <2>2. CASE p # Len(arrived) + 1
    <3>1. p \in 1 .. Len(arrived) /\ arrived[p].image < size
      BY <2>2, <1>1, <1>2, <1>8 DEF InTable
    <3>2. arrived[p].image \in Nat
      BY <3>1, <1>6, ImageNumber
    <3>3. arrived'[p] = arrived[p] /\ size' = larger
      BY <3>1, <1>1, <1>8
    <3>4. arrived[p].image < larger
      BY <3>1, <3>2, <1>3
    <3>5. QED
      BY <3>3, <3>4
  <2>3. QED
    BY <2>1, <2>2
<1>11. \A q \in DOMAIN data' : data'[q] # None => q \in Seen'
  <2> SUFFICES ASSUME NEW q \in 0 .. larger - 1, a.data[q] # None PROVE q \in Seen'
    BY <1>1, <1>5
  <2>1. Seen \subseteq Seen' /\ k \in Seen'
    BY <1>1, <1>2, <1>6, <1>7, SeenStep
  <2>2. q = k \/ q \in Seen
    BY <1>1, <1>2, <1>4, <1>5 DEF BlocksInv
  <2>3. QED
    BY <2>1, <2>2
<1>12. ASSUME Grouped'
       PROVE  /\ \A q \in DOMAIN data' : data'[q] # None => data'[q].nb_elt <= data'[q].room
              /\ data'[k] # None
              /\ data'[k].room = room' /\ data'[k].nb_elt = idx' /\ idx' <= room'
  <2>1. /\ Grouped
        /\ k \in Seen => arrived # <<>> /\ arrived[Len(arrived)].image = k
    BY <1>1, <1>2, <1>6, <1>7, <1>12, GroupedStep
  <2>2. t[k] = None \/ IsCurrent(t[k])
    BY <2>1, <1>1, <1>2, <1>3, <1>4 DEF BlocksInv, Collecting
  <2>3. a.data[k].room = a.room /\ a.data[k].nb_elt = a.idx /\ a.idx <= a.room
    BY <2>2, <1>5
  <2>4. \A q \in 0 .. larger - 1 : a.data[q] # None => a.data[q].nb_elt <= a.data[q].room
    BY <2>1, <2>3, <1>1, <1>2, <1>4, <1>5 DEF BlocksInv, Collecting
  <2>5. QED
    BY <2>3, <2>4, <1>1, <1>5
<1>13. BlocksInv'
  <2>1. arrived'[Len(arrived')].image = k
    BY <1>7, <1>8
  <2>2. QED
    BY <2>1, <1>1, <1>11, <1>12 DEF BlocksInv, IsCurrent
<1>14. QED
  BY <1>9, <1>10, <1>13 DEF CollectInv

\* And one whose write was past the end.
LEMMA UndefinedInv ==
    ASSUME Admitted, CollectInv, NEW k \in Images, NEW n \in Counts, Undefined(k, n)
    PROVE  CollectInv'
<1> DEFINE r == [image |-> k, count |-> n]
<1>1. /\ phase = "process" /\ phase' = "undefined"
      /\ k >= Increased(k) \/ n \in 1 .. MaxCount
      /\ arrived' = Append(arrived, r)
      /\ UNCHANGED <<size, data, idx, room>>
  BY DEF Undefined
<1>2. CollectTypeInv /\ InTable /\ k \in Nat /\ n \in Nat /\ r \in [image : Nat, count : Nat]
  BY DEF CollectInv, Admitted
<1>3. /\ Len(arrived) \in Nat /\ Len(arrived') = Len(arrived) + 1
      /\ arrived'[Len(arrived) + 1] = r
      /\ \A p \in 1 .. Len(arrived) : arrived'[p] = arrived[p]
      /\ arrived' \in Seq([image : Nat, count : Nat])
  BY <1>1, <1>2 DEF CollectTypeInv
<1>4. InTable'
  <2>1. \A p \in 1 .. Len(arrived') - 1 : arrived'[p].image < size'
    BY <1>1, <1>2, <1>3 DEF InTable
  <2>2. /\ arrived'[Len(arrived')] = r /\ r.image = k /\ r.count = n
        /\ Increased(k)' = Increased(k)
    BY <1>1, <1>3 DEF Increased
  <2>3. QED
    BY <2>1, <2>2, <1>1, <1>2, <1>3 DEF InTable, Increased
<1>5. CollectTypeInv' /\ BlocksInv'
  BY <1>1, <1>2, <1>3 DEF CollectTypeInv, BlocksInv, Collecting
<1>6. QED
  BY <1>4, <1>5 DEF CollectInv

\* Every step of the collector keeps the invariant.
LEMMA CollectNextInv == ASSUME Admitted, CollectInv, [CollectNext]_collectVars PROVE CollectInv'
<1>1. CollectTypeInv /\ InTable /\ BlocksInv
  BY DEF CollectInv
<1>2. ASSUME NEW n \in RingCounts, SetRingCount(n) PROVE CollectInv'
  <2>1. /\ phase = "idle" /\ size' = n /\ data' = EmptyTable(n) /\ n \in Nat
        /\ UNCHANGED <<phase, idx, room, arrived>>
    BY <1>2 DEF SetRingCount, Admitted
  <2>2. data' \in [0 .. n - 1 -> Block \cup {None}] /\ \A k \in DOMAIN data' : data'[k] = None
    BY <2>1 DEF EmptyTable
  <2>3. QED
    BY <2>1, <2>2, <1>1 DEF CollectInv, CollectTypeInv, InTable, BlocksInv, Collecting
<1>3. CASE Start
  <2>1. /\ phase = "idle" /\ size > 0 /\ phase' = "process" /\ arrived = <<>>
        /\ UNCHANGED <<size, data, idx, room, arrived>>
    BY <1>3, <1>1 DEF Start, InTable
  <2>2. \A k \in DOMAIN data : data[k] = None
    BY <2>1, <1>1 DEF BlocksInv, Seen
  <2>3. QED
    BY <2>1, <2>2, <1>1 DEF CollectInv, CollectTypeInv, InTable, BlocksInv, Seen
<1>4. CASE InputEnds \/ Generate \/ Exhausted \/ UNCHANGED collectVars
  <2>1. /\ UNCHANGED <<size, data, idx, room, arrived>>
        /\ \/ phase' = phase
           \/ phase = "process" /\ phase' = "generate"
           \/ phase = "generate" /\ phase' = "done"
    BY <1>4 DEF InputEnds, Generate, Exhausted, collectVars
  <2>2. Increased(arrived[Len(arrived)].image)' = Increased(arrived[Len(arrived)].image)
    BY <2>1 DEF Increased
  <2>3. CollectTypeInv'
    BY <2>1, <1>1 DEF CollectTypeInv
  <2>4. InTable'
    BY <2>1, <2>2, <1>1 DEF InTable
  <2>5. BlocksInv'
    BY <2>1, <1>1 DEF BlocksInv, Collecting, Seen, Grouped, IsCurrent
  <2>6. QED
    BY <2>3, <2>4, <2>5 DEF CollectInv
<1>5. QED
  BY <1>2, <1>3, <1>4, ProcessInv, UndefinedInv DEF CollectNext, Stopped

\* What the table and the blocks hold, at every point of a run.
THEOREM CollectInvariance == ASSUME Admitted PROVE CollectSpec => []CollectInv
<1>1. CollectInit => CollectInv
  BY CollectInitInv
<1>2. CollectInv /\ [CollectNext]_collectVars => CollectInv'
  BY CollectNextInv
<1>3. QED
  BY <1>1, <1>2, PTL DEF CollectSpec

\* For any number of results, a list is copied from inside its block as long as
\* the results of an image arrive together (generate, line 251).
THEOREM CopyIsInside == ASSUME Admitted PROVE CollectSpec => []CopyInsideBlock
<1>1. CollectInv => CopyInsideBlock
  BY DEF CollectInv, BlocksInv, Collecting, CopyInsideBlock
<1>2. QED
  BY <1>1, CollectInvariance, PTL

\* For any first size of the table, images numbered without gaps stay inside it,
\* doubled at most once per result (process, lines 177-185).
THEOREM TableSuffices == ASSUME Admitted PROVE CollectSpec => []TableLargeEnough
<1>1. CollectInv => TableLargeEnough
  <2> SUFFICES ASSUME CollectInv, Consecutive, phase = "undefined"
               PROVE  LET last == arrived[Len(arrived)]
                      IN  last.image < Increased(last.image) /\ last.count \in 1 .. MaxCount
    BY DEF TableLargeEnough
  <2> DEFINE n == Len(arrived)
             k == arrived[n].image
  <2>1. /\ n \in Nat /\ n > 0 /\ k \in Nat /\ size \in Nat /\ size > 0
        /\ \A p \in 1 .. n - 1 : arrived[p].image < size /\ arrived[p].image \in Nat
        /\ k >= Increased(k) \/ arrived[n].count \in 1 .. MaxCount
    <3>1. CollectTypeInv /\ InTable
      BY DEF CollectInv
    <3>2. arrived \in Seq([image : Nat, count : Nat]) /\ size \in Nat
      BY <3>1 DEF CollectTypeInv
    <3>3. /\ n > 0 /\ size > 0
          /\ \A p \in 1 .. n - 1 : arrived[p].image < size
          /\ k >= Increased(k) \/ arrived[n].count \in 1 .. MaxCount
      BY <3>1 DEF InTable
    <3>4. n \in Nat /\ \A p \in 1 .. n : arrived[p].image \in Nat
      BY <3>2, ImageNumber
    <3>5. QED
      BY <3>2, <3>3, <3>4
  <2>2. k = 0 \/ \E q \in 1 .. n - 1 : arrived[q].image >= k - 1
    BY <2>1 DEF Consecutive
  <2>3. k <= size
    BY <2>1, <2>2
  <2>4. k < Increased(k)
    BY <2>1, <2>3 DEF Increased
  <2>5. Increased(k) \in Nat
    BY <2>1 DEF Increased
  <2>6. QED
    BY <2>1, <2>4, <2>5
<1>2. QED
  BY <1>1, CollectInvariance, PTL

-----------------------------------------------------------------------------
(* The counts of the lists. *)

Result == [image : Nat, count : Nat]

\* A result adds a number of rings.
LEMMA AddedNumber ==
    ASSUME NEW r \in Result, NEW k
    PROVE  Added(r, k) \in Nat
BY DEF Added, Result

\* The rings of image k, one result at a time.
LEMMA AcceptedEquations ==
    ASSUME NEW s \in Seq(Result), NEW k
    PROVE  /\ AcceptedOf(s, k) \in [0 .. Len(s) -> Nat]
           /\ AcceptedOf(s, k)[0] = 0
           /\ \A n \in 1 .. Len(s) :
                AcceptedOf(s, k)[n] = AcceptedOf(s, k)[n - 1] + Added(s[n], k)
<1> DEFINE N0 == Len(s)
           Step(n, v) == v + Added(s[n], k)
           g == [p \in (1 .. N0) \X Nat |-> Step(p[1], p[2])]
           K(f) == [n \in 0 .. N0 |-> IF n = 0 THEN 0 ELSE Step(n, f[n - 1])]
           u == AcceptedOf(s, k)
<1>1. N0 \in Nat
  OBVIOUS
<1>2. \A n \in 1 .. N0, v \in Nat : Step(n, v) \in Nat
  BY AddedNumber
<1>3. u = CHOOSE f : f = K(f)
  BY DEF AcceptedOf
<1> HIDE DEF Step, N0, u
<1>4. g \in [(1 .. N0) \X Nat -> Nat] /\ \A n \in 1 .. N0, v \in Nat : g[<<n, v>>] = Step(n, v)
  BY <1>2
<1> HIDE DEF g
<1>5. PICK f \in [0 .. N0 -> Nat] : Recursive(f, N0, 0, g)
  BY <1>1, <1>4, RecursionExists
<1>6. f = K(f)
  <2>1. ASSUME NEW n \in 0 .. N0 PROVE f[n] = K(f)[n]
    <3>1. CASE n = 0
      BY <1>5, <3>1 DEF Recursive
    <3>2. CASE n # 0
      <4>1. n \in 1 .. N0 /\ f[n - 1] \in Nat
        BY <1>1, <3>2
      <4>2. f[n] = Step(n, f[n - 1])
        BY <1>4, <1>5, <4>1 DEF Recursive
      <4>3. QED
        BY <3>2, <4>2
    <3>3. QED
      BY <3>1, <3>2
  <2>2. QED
    BY <2>1
<1>7. ASSUME NEW h
      PROVE  /\ K(h)[0] = 0 /\ \A n \in 1 .. N0 : K(h)[n] = Step(n, h[n - 1])
             /\ K(h) = [n \in 0 .. N0 |-> K(h)[n]]
  BY <1>1
<1> HIDE DEF K
<1>8. u = K(u)
  BY <1>3, <1>6
<1>9. u[0] = 0 /\ \A n \in 1 .. N0 : u[n] = Step(n, u[n - 1])
  BY <1>7, <1>8
<1>10. u = [n \in 0 .. N0 |-> u[n]]
  BY <1>7, <1>8
<1>11. \A n \in 0 .. N0 : u[n] \in Nat
  <2>1. f[0] = 0 /\ \A n \in 1 .. N0 : f[n] = Step(n, f[n - 1])
    BY <1>6, <1>7
  <2>2. \A n \in 0 .. N0 : u[n] = f[n]
    <3>1. \A n \in 1 .. N0 : u[n - 1] = f[n - 1] => u[n] = f[n]
      BY <1>9, <2>1
    <3>2. u[0] = f[0]
      BY <1>9, <2>1
    <3>3. QED
      BY <1>1, <3>1, <3>2, RecursionUnique
  <2>3. QED
    BY <2>2
<1>12. QED
  BY <1>9, <1>10, <1>11 DEF Step, u, N0

\* One more result.
LEMMA AcceptedAppend ==
    ASSUME NEW s \in Seq(Result), NEW r \in Result, NEW k
    PROVE  /\ AcceptedOf(s, k)[Len(s)] \in Nat
           /\ AcceptedOf(Append(s, r), k)[Len(s) + 1] = AcceptedOf(s, k)[Len(s)] + Added(r, k)
<1> DEFINE q == Append(s, r)
           u == AcceptedOf(s, k)
           v == AcceptedOf(q, k)
<1>1. /\ q \in Seq(Result) /\ Len(q) = Len(s) + 1 /\ Len(s) \in Nat /\ q[Len(s) + 1] = r
      /\ \A n \in 1 .. Len(s) : q[n] = s[n]
  OBVIOUS
<1>2. /\ u \in [0 .. Len(s) -> Nat] /\ u[0] = 0
      /\ \A n \in 1 .. Len(s) : u[n] = u[n - 1] + Added(s[n], k)
  BY AcceptedEquations
<1>3. /\ v[0] = 0
      /\ \A n \in 1 .. Len(q) : v[n] = v[n - 1] + Added(q[n], k)
  BY <1>1, AcceptedEquations
<1> HIDE DEF q, u, v
<1>4. \A n \in 1 .. Len(s) : v[n - 1] = u[n - 1] => v[n] = u[n]
  BY <1>1, <1>2, <1>3
<1>5. \A n \in 0 .. Len(s) : v[n] = u[n]
  <2>1. v[0] = u[0] /\ Len(s) \in Nat
    BY <1>1, <1>2, <1>3
  <2>2. QED
    BY <1>4, <2>1, RecursionUnique
<1>6. /\ v[Len(s) + 1] = v[Len(s)] + Added(r, k)
      /\ v[Len(s)] = u[Len(s)] /\ u[Len(s)] \in Nat
  <2>1. Len(s) + 1 \in 1 .. Len(q) /\ (Len(s) + 1) - 1 = Len(s)
    BY <1>1
  <2>2. v[Len(s) + 1] = v[Len(s)] + Added(r, k)
    BY <1>1, <1>3, <2>1
  <2>3. QED
    BY <1>1, <1>2, <1>5, <2>2
<1>7. QED
  BY <1>6 DEF q, u, v

\* The block of an image counts the rings of its results, whichever other images
\* arrive between them; an image without a block had none.
CountInv ==
    phase # "undefined" =>
        /\ \A k \in Seen : k \in DOMAIN data /\ data[k] # None
        /\ \A k \in Nat : k \in DOMAIN data => Accepted(k) = data[k].nb_elt
        /\ \A k \in Nat : k \notin DOMAIN data => Accepted(k) = 0

\* The blocks before next have been handed out, in their order.
Listed ==
    /\ next \in Nat /\ lists \in Seq(Result)
    /\ \A l \in 1 .. Len(lists) : /\ lists[l].image \in DOMAIN data /\ lists[l].image < next
                                  /\ data[lists[l].image] # None
                                  /\ lists[l].count = data[lists[l].image].nb_elt
    /\ \A k \in DOMAIN data :
         data[k] # None /\ k < next => \E l \in 1 .. Len(lists) : lists[l].image = k
    /\ \A l, l2 \in 1 .. Len(lists) : l < l2 => lists[l].image < lists[l2].image

ListedInv ==
    /\ phase \in {"idle", "process"} => lists = <<>> /\ next = 0
    /\ phase \in {"generate", "done"} => Listed
    /\ phase = "done" => next = size

\* The counts are kept by a result ...
LEMMA CountProcess ==
    ASSUME Admitted, CollectInv, CountInv, NEW k \in Images, NEW n \in Counts, Process(k, n)
    PROVE  CountInv'
<1> DEFINE larger == Increased(k)
           t == [p \in 0 .. larger - 1 |-> IF p < size THEN data[p] ELSE None]
           a == Collected(Initialized(t, k), k, n)
           r == [image |-> k, count |-> n]
<1>1. /\ phase = "process" /\ phase' = "process" /\ k < larger
      /\ data' = a.data /\ arrived' = Append(arrived, r)
  BY DEF Process
<1>2. /\ CollectTypeInv /\ InTable /\ k \in Nat /\ n \in Nat /\ MaxCount \in Nat
      /\ r \in Result /\ arrived \in Seq(Result)
  BY DEF CollectInv, Admitted, Result, CollectTypeInv
<1>3. size \in Nat /\ larger \in Nat /\ size <= larger /\ k \in 0 .. larger - 1 /\ size > 0
  BY <1>1, <1>2 DEF Increased, CollectTypeInv, InTable
<1>4. DOMAIN data = 0 .. size - 1
  BY <1>2 DEF CollectTypeInv
<1>5. /\ t \in [0 .. larger - 1 -> Block \cup {None}]
      /\ \A q \in 0 .. larger - 1 : q \in DOMAIN data => t[q] = data[q]
      /\ \A q \in 0 .. larger - 1 : q \notin DOMAIN data => t[q] = None
  BY <1>2, <1>3, <1>4 DEF CollectTypeInv
<1> HIDE DEF larger, t
<1>6. /\ a.data \in [0 .. larger - 1 -> Block \cup {None}]
      /\ \A q \in 0 .. larger - 1 : q # k => a.data[q] = t[q]
      /\ a.data[k] # None
      /\ Counted(t[k], a.data[k], n)
  <2> DEFINE dom == 0 .. larger - 1
  <2>1. /\ a = Collected(Initialized(t, k), k, n) /\ idx \in Nat /\ room \in Nat
        /\ t \in [dom -> Block \cup {None}] /\ k \in dom /\ n \in Nat
    BY <1>2, <1>3, <1>5 DEF CollectTypeInv
  <2> HIDE DEF dom, a
  <2>2. /\ a.data \in [dom -> Block \cup {None}]
        /\ \A q \in dom : q # k => a.data[q] = t[q]
        /\ a.data[k] # None
        /\ Counted(t[k], a.data[k], n)
    BY <2>1, OneBlock
  <2>3. QED
    BY <2>2 DEF dom
<1>7. /\ r.image = k /\ r.count = n
  OBVIOUS
<1> HIDE DEF a, r
<1>8. DOMAIN data' = 0 .. larger - 1 /\ DOMAIN data \subseteq DOMAIN data'
  BY <1>1, <1>3, <1>4, <1>6
\* Before this result every block counts what was accepted, new ones nothing.
<1>9. \A q \in DOMAIN data' : t[q].nb_elt = Accepted(q) /\ Accepted(q) \in Nat
  <2> TAKE q \in DOMAIN data'
  <2>1. q \in Nat /\ q \in 0 .. larger - 1
    BY <1>3, <1>8
  <2>2. CASE q \in DOMAIN data
    <3>1. t[q] = data[q] /\ Accepted(q) = data[q].nb_elt
      BY <1>1, <1>5, <2>1, <2>2 DEF CountInv
    <3>2. t[q].nb_elt \in Nat
      BY <1>5, <2>1 DEF Block, None
    <3>3. QED
      BY <3>1, <3>2
  <2>3. CASE q \notin DOMAIN data
    BY <1>1, <1>5, <2>1, <2>3 DEF CountInv, None
  <2>4. QED
    BY <2>2, <2>3
<1>10. \A q \in Nat : Accepted(q)' = Accepted(q) + Added(r, q)
  <2> TAKE q \in Nat
  <2>1. Len(arrived') = Len(arrived) + 1
    BY <1>1, <1>2
  <2>2. QED
    BY <1>1, <1>2, <2>1, AcceptedAppend DEF Accepted
<1>11. \A q \in DOMAIN data' : Accepted(q)' = data'[q].nb_elt
  <2> TAKE q \in DOMAIN data'
  <2>1. q \in Nat /\ q \in 0 .. larger - 1
    BY <1>3, <1>8
  <2>2. CASE q = k
    BY <1>1, <1>2, <1>6, <1>7, <1>9, <1>10, <2>1, <2>2 DEF Added, Counted
  <2>3. CASE q # k
    BY <1>1, <1>6, <1>7, <1>9, <1>10, <2>1, <2>3 DEF Added
  <2>4. QED
    BY <2>2, <2>3
<1>12. \A q \in Nat : q \notin DOMAIN data' => Accepted(q)' = 0
  BY <1>1, <1>3, <1>7, <1>8, <1>10 DEF CountInv, Added
<1>13. \A q \in Seen' : q \in DOMAIN data' /\ data'[q] # None
  <2>1. Seen' \subseteq Seen \cup {k}
    <3>1. /\ Len(arrived) \in Nat /\ Len(arrived') = Len(arrived) + 1
          /\ arrived'[Len(arrived) + 1] = r
          /\ \A p \in 1 .. Len(arrived) : arrived'[p] = arrived[p]
      BY <1>1, <1>2
    <3>2. \A p \in 1 .. Len(arrived) + 1 : p = Len(arrived) + 1 \/ p \in 1 .. Len(arrived)
      BY <3>1
    <3>3. QED
      BY <3>1, <3>2, <1>7 DEF Seen
  <2>2. ASSUME NEW q \in Seen, q # k PROVE q \in DOMAIN data' /\ data'[q] # None
    <3>1. q \in DOMAIN data /\ data[q] # None /\ q \in 0 .. larger - 1
      BY <1>1, <1>8, <2>2 DEF CountInv
    <3>2. QED
      BY <3>1, <2>2, <1>1, <1>5, <1>6, <1>8
  <2>3. QED
    BY <2>1, <2>2, <1>1, <1>3, <1>6, <1>8
<1>14. QED
  BY <1>11, <1>12, <1>13 DEF CountInv

\* ... and what is listed by generate.
LEMMA ListedGenerate ==
    ASSUME CollectInv, ListedInv, Generate
    PROVE  ListedInv'
<1>1. PICK k \in NextList :
        /\ \A l \in NextList : k <= l
        /\ lists' = Append(lists, [image |-> k, count |-> data[k].nb_elt])
        /\ next' = k + 1
  BY DEF Generate
<1>2. phase = "generate" /\ phase' = "generate" /\ UNCHANGED <<size, data>>
  BY DEF Generate
<1>3. /\ size \in Nat /\ data \in [0 .. size - 1 -> Block \cup {None}]
      /\ DOMAIN data = 0 .. size - 1
  BY DEF CollectInv, CollectTypeInv
<1>4. /\ next \in Nat /\ lists \in Seq(Result) /\ Len(lists) \in Nat
  BY <1>2 DEF ListedInv, Listed
<1>5. k \in DOMAIN data /\ next <= k /\ data[k] # None /\ k \in Nat
  BY <1>3, <1>4 DEF NextList
<1> DEFINE r == [image |-> k, count |-> data[k].nb_elt]
           n == Len(lists)
<1>6. r \in Result /\ r.image = k /\ r.count = data[k].nb_elt
  BY <1>3, <1>5 DEF Result, Block
<1> HIDE DEF r
<1>7. /\ lists' \in Seq(Result) /\ Len(lists') = n + 1 /\ lists'[n + 1] = r
      /\ \A l \in 1 .. n : lists'[l] = lists[l]
  BY <1>1, <1>4, <1>6 DEF r
<1>8. \A l \in 1 .. n + 1 : l = n + 1 \/ l \in 1 .. n
  BY <1>4
<1>9. \A l \in 1 .. n : /\ lists[l].image \in DOMAIN data /\ lists[l].image < next
                        /\ data[lists[l].image] # None
                        /\ lists[l].count = data[lists[l].image].nb_elt
  BY <1>2 DEF ListedInv, Listed
<1>10. \A l \in 1 .. n + 1 :
         /\ lists'[l].image \in DOMAIN data /\ lists'[l].image < k + 1
         /\ data[lists'[l].image] # None
         /\ lists'[l].count = data[lists'[l].image].nb_elt
  <2> TAKE l \in 1 .. n + 1
  <2>1. CASE l = n + 1
    BY <2>1, <1>5, <1>6, <1>7
  <2>2. CASE l \in 1 .. n
    BY <2>2, <1>3, <1>4, <1>5, <1>7, <1>9
  <2>3. QED
    BY <2>1, <2>2, <1>8
<1>11. ASSUME NEW m \in DOMAIN data, data[m] # None, m < k + 1
       PROVE  \E l \in 1 .. n + 1 : lists'[l].image = m
  <2>1. CASE m < next
    <3>1. PICK l \in 1 .. n : lists[l].image = m
      BY <1>2, <1>11, <2>1 DEF ListedInv, Listed
    <3>2. l \in 1 .. n + 1 /\ lists'[l].image = m
      BY <3>1, <1>4, <1>7
    <3>3. QED
      BY <3>2
  <2>2. CASE m >= next
    <3>1. m \in NextList
      BY <1>3, <1>4, <1>11, <2>2 DEF NextList
    <3>2. m = k
      BY <1>1, <1>3, <1>5, <1>11, <3>1
    <3>3. n + 1 \in 1 .. n + 1
      BY <1>4
    <3>4. QED
      BY <3>2, <3>3, <1>6, <1>7
  <2>3. QED
    BY <2>1, <2>2, <1>3, <1>4
<1>12. ASSUME NEW l \in 1 .. n + 1, NEW l2 \in 1 .. n + 1, l < l2
       PROVE  lists'[l].image < lists'[l2].image
  <2>1. l \in 1 .. n
    BY <1>4, <1>12
  <2>2. CASE l2 = n + 1
    BY <2>1, <2>2, <1>3, <1>4, <1>5, <1>6, <1>7, <1>9
  <2>3. CASE l2 \in 1 .. n
    BY <2>1, <2>3, <1>2, <1>7, <1>12 DEF ListedInv, Listed
  <2>4. QED
    BY <2>2, <2>3, <1>8
<1>13. next' \in Nat /\ next' = k + 1
  BY <1>1, <1>5
<1>14. QED
  BY <1>2, <1>7, <1>10, <1>11, <1>12, <1>13 DEF ListedInv, Listed

\* Both are kept by every step.
LEMMA ListsNextInv ==
    ASSUME Admitted, CollectInv, CountInv, ListedInv, [CollectNext]_collectVars
    PROVE  CountInv' /\ ListedInv'
<1>1. ASSUME NEW n \in RingCounts, SetRingCount(n) PROVE CountInv' /\ ListedInv'
  <2>1. /\ phase = "idle" /\ phase' = "idle" /\ arrived = <<>> /\ n \in Nat
        /\ data' = [k \in 0 .. n - 1 |-> None] /\ UNCHANGED <<next, lists, arrived>>
    BY <1>1 DEF SetRingCount, EmptyTable, CollectInv, InTable, Admitted
  <2>2. ASSUME NEW k \in Nat PROVE Accepted(k) = 0 /\ Accepted(k)' = 0
    <3>1. arrived \in Seq(Result) /\ Len(arrived) = 0
      BY <2>1
    <3>2. AcceptedOf(arrived, k)[0] = 0
      BY <3>1, AcceptedEquations
    <3>3. QED
      BY <2>1, <3>1, <3>2 DEF Accepted
  <2>3. Seen' = {}
    BY <2>1 DEF Seen
  <2>4. CountInv'
    BY <2>1, <2>2, <2>3 DEF CountInv, None
  <2>5. ListedInv'
    BY <2>1 DEF ListedInv
  <2>6. QED
    BY <2>4, <2>5
<1>2. CASE Start \/ InputEnds \/ Generate \/ Exhausted \/ UNCHANGED collectVars
  <2>1. /\ UNCHANGED <<data, arrived>>
        /\ phase' # "undefined" => phase # "undefined"
    BY <1>2 DEF Start, InputEnds, Generate, Exhausted, collectVars
  <2>2. CountInv'
    <3>1. Seen' = Seen /\ \A k \in Nat : Accepted(k)' = Accepted(k)
      BY <2>1 DEF Seen, Accepted
    <3>2. QED
      BY <2>1, <3>1 DEF CountInv
  <2>3. CASE Start \/ UNCHANGED collectVars
    <3>1. UNCHANGED <<size, data, next, lists>>
      BY <2>3 DEF Start, collectVars
    <3>2. Listed' = Listed
      BY <3>1 DEF Listed
    <3>3. (phase = "idle" /\ phase' = "process") \/ phase' = phase
      BY <2>3 DEF Start, collectVars
    <3>4. QED
      BY <2>2, <3>1, <3>2, <3>3 DEF ListedInv
  <2>4. CASE InputEnds
    <3>1. /\ lists' = <<>> /\ next' = 0 /\ phase' = "generate" /\ data' = data
          /\ DOMAIN data = 0 .. size - 1 /\ size \in Nat
      BY <2>4 DEF InputEnds, ListedInv, CollectInv, CollectTypeInv
    <3>2. lists' \in Seq(Result) /\ Len(lists') = 0 /\ \A k \in DOMAIN data' : ~ (k < next')
      BY <3>1
    <3>3. \A l, l2 \in 1 .. Len(lists') : l < l2 => FALSE
      BY <3>2
    <3>4. QED
      BY <2>2, <3>1, <3>2, <3>3 DEF ListedInv, Listed
  <2>5. CASE Exhausted
    <3>1. /\ phase = "generate" /\ phase' = "done" /\ NextList = {} /\ next' = size
          /\ UNCHANGED <<size, data, lists>>
      BY <2>5 DEF Exhausted
    <3>2. size \in Nat /\ DOMAIN data = 0 .. size - 1 /\ next \in Nat
      BY <3>1 DEF CollectInv, CollectTypeInv, ListedInv, Listed
    <3>3. \A k \in DOMAIN data : data[k] # None => k < next
      BY <3>1, <3>2 DEF NextList
    <3>4. \A k \in DOMAIN data : k < next'
      BY <3>1, <3>2
    <3>5. QED
      BY <2>2, <3>1, <3>2, <3>3, <3>4 DEF ListedInv, Listed
  <2>6. QED
    BY <1>2, <2>2, <2>3, <2>4, <2>5, ListedGenerate
<1>3. ASSUME NEW k \in Images, NEW n \in Counts, Process(k, n)
      PROVE  CountInv' /\ ListedInv'
  <2>1. phase = "process" /\ phase' = "process" /\ UNCHANGED <<next, lists>>
    BY <1>3 DEF Process
  <2>2. ListedInv'
    BY <2>1 DEF ListedInv
  <2>3. QED
    BY <1>3, <2>2, CountProcess
<1>4. ASSUME NEW k \in Images, NEW n \in Counts, Undefined(k, n)
      PROVE  CountInv' /\ ListedInv'
  BY <1>4 DEF Undefined, CountInv, ListedInv
<1>5. QED
  BY <1>1, <1>2, <1>3, <1>4 DEF CollectNext, Stopped

\* Every image that had a result gets one list, in the order of the images, with
\* the count of its own rings, however the results of the images interleave
\* (ListsComplete; lines 164-257).
THEOREM ListsAreComplete == ASSUME Admitted PROVE CollectSpec => []ListsComplete
<1>1. CollectInit => CountInv /\ ListedInv
  <2> SUFFICES ASSUME CollectInit PROVE CountInv /\ ListedInv
    OBVIOUS
  <2>1. /\ phase = "idle" /\ arrived = <<>> /\ data = <<>> /\ lists = <<>> /\ next = 0
    BY DEF CollectInit
  <2>2. ASSUME NEW k \in Nat PROVE Accepted(k) = 0
    <3>1. arrived \in Seq(Result) /\ Len(arrived) = 0
      BY <2>1
    <3>2. AcceptedOf(arrived, k)[0] = 0
      BY <3>1, AcceptedEquations
    <3>3. QED
      BY <3>1, <3>2 DEF Accepted
  <2>3. DOMAIN data = {} /\ Seen = {}
    BY <2>1 DEF Seen
  <2>4. QED
    BY <2>1, <2>2, <2>3 DEF CountInv, ListedInv
<1>2. CountInv /\ ListedInv /\ CollectInv /\ [CollectNext]_collectVars => CountInv' /\ ListedInv'
  BY ListsNextInv
<1>3. CollectInv /\ CountInv /\ ListedInv => ListsComplete
  <2> SUFFICES ASSUME CollectInv, CountInv, ListedInv, phase = "done"
               PROVE  /\ {lists[l].image : l \in 1 .. Len(lists)} = Seen
                      /\ \A l, l2 \in 1 .. Len(lists) : l < l2 => lists[l].image < lists[l2].image
                      /\ \A l \in 1 .. Len(lists) : lists[l].count = Accepted(lists[l].image)
    BY DEF ListsComplete
  <2>1. size \in Nat /\ DOMAIN data = 0 .. size - 1 /\ next = size
    BY DEF CollectInv, CollectTypeInv, ListedInv, Listed
  <2>2. \A k \in DOMAIN data : data[k] # None <=> k \in Seen
    BY DEF CollectInv, BlocksInv, CountInv
  <2>3. \A l \in 1 .. Len(lists) : /\ lists[l].image \in DOMAIN data
                                   /\ data[lists[l].image] # None
                                   /\ lists[l].count = data[lists[l].image].nb_elt
    BY DEF ListedInv, Listed
  <2>4. \A k \in Seen : \E l \in 1 .. Len(lists) : lists[l].image = k
    BY <2>1, <2>2 DEF CountInv, ListedInv, Listed
  <2>5. \A l \in 1 .. Len(lists) : lists[l].count = Accepted(lists[l].image)
    BY <2>1, <2>3 DEF CountInv
  <2>6. {lists[l].image : l \in 1 .. Len(lists)} = Seen
    BY <2>2, <2>3, <2>4
  <2>7. QED
    BY <2>5, <2>6 DEF ListedInv, Listed
<1>4. QED
  BY <1>1, <1>2, <1>3, CollectInvariance, PTL DEF CollectSpec

=============================================================================
