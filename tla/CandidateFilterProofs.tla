------------------------ MODULE CandidateFilterProofs ------------------------
(***************************************************************************)
(* TLAPS proofs about CandidateFilter, for lists of any length, any        *)
(* positions and any contrasts.                                            *)
(***************************************************************************)
EXTENDS CandidateFilter, TLAPS

Scanned == pc \in {"unlink", "done"}

\* The sorted list and its contrasts have one element per candidate.
ListInv ==
    Sorted => /\ ring \in [1 .. N -> Rings]
              /\ contrast \in [1 .. N -> Contrasts \cup {0}]
              /\ \A k, l \in 1 .. N : k < l => ring[k].x <= ring[l].x
              /\ \A k \in 1 .. N : contrast[k] \in {0, ring[k].c}

\* The inner loop is at a ring that is still in the list, ahead of it.
LoopInv ==
    pc = "compare" => i <= N /\ i < j /\ contrast[i] # 0

\* The pairs the scan has dealt with.
Covered(k, l) == Scanned \/ k < i \/ (pc = "compare" /\ k = i /\ l < j)

ApartInv ==
    Sorted => \A k, l \in 1 .. N :
        k < l /\ Covered(k, l) /\ contrast[k] # 0 /\ contrast[l] # 0
            => ~ Near(ring[k], ring[l])

PeakInv ==
    Sorted => \A k \in 1 .. N : StrictPeak(k) => contrast[k] = ring[k].c

StrongInv ==
    Sorted => \A l \in 1 .. N : \E k \in 1 .. N : contrast[k] >= ring[l].c

\* What the second loop has kept so far.
OutInv ==
    /\ ~ Scanned => out = <<>>
    /\ Scanned => \A k \in 1 .. N : k \in Kept <=> k < i /\ contrast[k] # 0
    /\ pc = "done" => i = N + 1

\* The part of the invariant that a step removing ring d may disturb.
RemovalInv == ListInv /\ PeakInv /\ RemovedForAReason /\ StrongInv

IInv == TypeOK /\ RemovalInv /\ LoopInv /\ ApartInv /\ OutInv

-----------------------------------------------------------------------------
(* Facts about the operators. *)

\* Being neighbours is symmetric.
LEMMA NearSymmetric ==
    ASSUME NEW a \in Rings, NEW b \in Rings, Near(a, b)
    PROVE  Near(b, a)
BY DEF Near, Distance, Rings

\* Beyond the window in x there are no neighbours, however far one goes on in
\* a sorted list.
LEMMA BeyondWindow ==
    ASSUME NEW a \in Rings, NEW b \in Rings, NEW c \in Rings,
           a.x <= b.x, b.x <= c.x, Distance(a.x, b.x) > Window
    PROVE  ~ Near(a, c)
BY DEF Near, Distance, Rings, Window

\* A function on 1 .. n is a sequence, and the other way round.
LEMMA FunctionIsSeq ==
    ASSUME NEW S, NEW n \in Nat, NEW f \in [1 .. n -> S]
    PROVE  f \in Seq(S)
OBVIOUS

\* ... the elements of a sequence are in its set.
LEMMA SeqIsFunction ==
    ASSUME NEW S, NEW s \in Seq(S)
    PROVE  DOMAIN s = 1 .. Len(s) /\ \A m \in 1 .. Len(s) : s[m] \in S
OBVIOUS

\* A contrast is a natural number, filtered out or not.
LEMMA ContrastsAreNat == \A c \in Contrasts \cup {0} : c \in Nat
<1>1. Contrasts \subseteq Nat
  BY ConstantsAssumption
<1>2. QED
  BY <1>1

\* The number of candidates.
LEMMA NIsNat == TypeOK => N \in Nat
BY DEF TypeOK, N

\* Appending to the output adds one element to what is kept.
LEMMA KeptAppend ==
    ASSUME TypeOK, out' = Append(out, i)
    PROVE  \A k : k \in Kept' <=> k \in Kept \/ k = i
<1>1. out \in Seq(Int)
  BY NIsNat DEF TypeOK
<1>2. Len(out) \in Nat /\ DOMAIN out = 1 .. Len(out)
      /\ DOMAIN out' = 1 .. Len(out) + 1
      /\ out'[Len(out) + 1] = i
      /\ \A m \in 1 .. Len(out) : out'[m] = out[m]
  BY <1>1 DEF TypeOK
<1>3. QED
  BY <1>2 DEF Kept, Range

-----------------------------------------------------------------------------
(* Removing ring d in favour of a neighbour m at least as strong. *)

\* Peaks, reasons and strongest rings survive the removal: what RemoveLater and
\* RemoveCurrent have in common.
LEMMA Removal ==
    ASSUME TypeOK, RemovalInv, Sorted, Sorted',
           UNCHANGED <<stream, ring>>,
           NEW d \in 1 .. N, NEW m \in 1 .. N, d # m,
           Near(ring[d], ring[m]),
           contrast[m] # 0, contrast[d] <= contrast[m],
           contrast' = [contrast EXCEPT ![d] = 0]
    PROVE  RemovalInv' /\ contrast' \in Seq(Contrasts \cup {0})
<1> USE DEF RemovalInv
<1>1. N \in Nat /\ N' = N
  BY NIsNat DEF N
<1>2. /\ ring \in [1 .. N -> Rings]
      /\ contrast \in [1 .. N -> Contrasts \cup {0}]
      /\ \A k \in 1 .. N : contrast[k] \in {0, ring[k].c}
  BY DEF ListInv
<1>3. \A k \in 1 .. N : contrast[k] \in Nat /\ ring[k].c \in Nat /\ contrast[k] <= ring[k].c
  <2> SUFFICES ASSUME NEW k \in 1 .. N
               PROVE  contrast[k] \in Nat /\ ring[k].c \in Nat /\ contrast[k] <= ring[k].c
    OBVIOUS
  <2>1. ring[k].c \in Contrasts
    BY <1>2 DEF Rings
  <2>2. ring[k].c \in Nat
    BY <2>1, ConstantsAssumption
  <2>3. QED
    BY <1>2, <2>2
<1>4. contrast'[d] = 0 /\ \A k \in 1 .. N : k # d => contrast'[k] = contrast[k]
  BY <1>2
<1>5. contrast' \in [1 .. N -> Contrasts \cup {0}]
  BY <1>2
<1>6. contrast' \in Seq(Contrasts \cup {0})
  BY <1>1, <1>5, FunctionIsSeq
<1>7. \A k : Neighbours(k)' = Neighbours(k) /\ (StrictPeak(k)' <=> StrictPeak(k))
  BY <1>1 DEF Neighbours, StrictPeak
<1>8. m \in Neighbours(d)
  BY DEF Neighbours
<1>9. ListInv'
  BY <1>1, <1>2, <1>4, <1>5 DEF ListInv
<1>10. PeakInv'
  <2>1. ~ StrictPeak(d)
    <3>1. ASSUME StrictPeak(d)
          PROVE  FALSE
      <4>1. contrast[d] = ring[d].c
        BY <3>1 DEF PeakInv
      <4>2. ring[m].c < ring[d].c
        BY <1>8, <3>1 DEF StrictPeak
      <4>3. QED
        BY <1>3, <4>1, <4>2
    <3>2. QED
      BY <3>1
  <2>2. QED
    BY <1>1, <1>4, <1>7, <2>1 DEF PeakInv
<1>11. RemovedForAReason'
  <2>1. \A k \in 1 .. N : contrast'[k] = 0 => \E l \in Neighbours(k) : ring[l].c >= ring[k].c
    <3>1. contrast[d] # 0 => ring[m].c >= ring[d].c
      BY <1>2, <1>3
    <3>2. \E l \in Neighbours(d) : ring[l].c >= ring[d].c
      BY <1>8, <3>1 DEF RemovedForAReason
    <3>3. QED
      BY <1>4, <3>2 DEF RemovedForAReason
  <2>2. QED
    BY <1>1, <1>7, <2>1 DEF RemovedForAReason
<1>12. StrongInv'
  <2>1. ASSUME NEW l \in 1 .. N
        PROVE  \E k \in 1 .. N : contrast'[k] >= ring[l].c
    <3>1. PICK k \in 1 .. N : contrast[k] >= ring[l].c
      BY DEF StrongInv
    <3>2. CASE k = d
      <4>1. contrast'[m] >= ring[l].c
        BY <1>3, <1>4, <3>1, <3>2
      <4>2. QED
        BY <4>1
    <3>3. CASE k # d
      BY <1>4, <3>1, <3>3
    <3>4. QED
      BY <3>2, <3>3
  <2>2. QED
    BY <1>1, <2>1 DEF StrongInv
<1>13. QED
  BY <1>6, <1>9, <1>10, <1>11, <1>12

\* A step that leaves the list and its contrasts alone.
LEMMA NoRemoval ==
    ASSUME RemovalInv, Sorted, UNCHANGED <<stream, ring, contrast>>
    PROVE  RemovalInv'
<1>1. N' = N /\ \A k : Neighbours(k)' = Neighbours(k) /\ (StrictPeak(k)' <=> StrictPeak(k))
  BY DEF N, Neighbours, StrictPeak
<1>2. QED
  BY <1>1 DEF RemovalInv, ListInv, PeakInv, RemovedForAReason, StrongInv

-----------------------------------------------------------------------------
(* The invariant. *)

\* The invariant holds before the first statement.
LEMMA InitInv == Init => IInv
<1> SUFFICES ASSUME Init
             PROVE  IInv
  OBVIOUS
<1>n. PICK n \in 0 .. MaxCand :
        \E pos \in Injection(1 .. n, Positions), con \in [1 .. n -> Contrasts] :
          stream = [k \in 1 .. n |->
                      [x |-> pos[k][1], y |-> pos[k][2], r |-> pos[k][3], c |-> con[k]]]
  BY DEF Init
<1>1. PICK pos \in Injection(1 .. n, Positions), con \in [1 .. n -> Contrasts] :
        stream = [k \in 1 .. n |->
                    [x |-> pos[k][1], y |-> pos[k][2], r |-> pos[k][3], c |-> con[k]]]
  BY <1>n
<1>2. n \in Nat /\ pos \in [1 .. n -> Positions]
  BY ConstantsAssumption DEF Injection
<1>3. \A k \in 1 .. n : pos[k][1] \in Nat /\ pos[k][2] \in Nat /\ pos[k][3] \in Nat
  BY <1>2, ConstantsAssumption
<1>4. stream \in [1 .. n -> Rings]
  BY <1>1, <1>3 DEF Rings
<1>5. stream \in Seq(Rings) /\ N \in Nat
  BY <1>2, <1>4 DEF N
<1>6. TypeOK
  BY <1>5 DEF Init, TypeOK
<1>7. RemovalInv /\ LoopInv /\ ApartInv /\ OutInv
  BY DEF Init, RemovalInv, ListInv, PeakInv, RemovedForAReason, StrongInv, LoopInv,
         ApartInv, OutInv, Sorted, Scanned
<1>8. QED
  BY <1>6, <1>7 DEF IInv

\* The list is built, sorted, and everything is still in it.
LEMMA SortStep ==
    ASSUME IInv, Sort
    PROVE  IInv'
<1> USE DEF IInv
<1>1. N \in Nat /\ N' = N /\ stream \in [1 .. N -> Rings] /\ stream' = stream
  BY NIsNat DEF TypeOK, N, Sort
<1>2. PICK p \in Bijection(1 .. N, 1 .. N) :
        /\ \A k, l \in 1 .. N : k < l =>
              \/ Before(stream[p[k]], stream[p[l]])
              \/ NotAfter(stream[p[k]], stream[p[l]]) /\ p[k] < p[l]
        /\ ring' = [k \in 1 .. N |-> stream[p[k]]]
        /\ contrast' = [k \in 1 .. N |-> stream[p[k]].c]
  BY Zenon DEF Sort
<1>3. p \in [1 .. N -> 1 .. N]
  BY <1>2 DEF Bijection, Injection
<1>4. \A k \in 1 .. N : stream[p[k]] \in Rings /\ ring'[k] = stream[p[k]]
                        /\ contrast'[k] = ring'[k].c /\ contrast'[k] \in Contrasts
  BY <1>1, <1>2, <1>3 DEF Rings
<1>5. ring' \in [1 .. N -> Rings] /\ contrast' \in [1 .. N -> Contrasts \cup {0}]
  BY <1>2, <1>4
<1>6. ring' \in Seq(Rings) /\ contrast' \in Seq(Contrasts \cup {0})
  BY <1>1, <1>5
<1>7. /\ pc = "sort" /\ pc' = "scan" /\ i' = 1 /\ UNCHANGED <<stream, j, out>>
  BY DEF Sort
<1>8. TypeOK'
  BY <1>1, <1>6, <1>7 DEF TypeOK
<1>9. ListInv'
  <2>1. \A k, l \in 1 .. N : k < l => ring'[k].x <= ring'[l].x
    <3> SUFFICES ASSUME NEW k \in 1 .. N, NEW l \in 1 .. N, k < l
                 PROVE  ring'[k].x <= ring'[l].x
      OBVIOUS
    <3>1. NotAfter(stream[p[k]], stream[p[l]])
      BY <1>2 DEF Before
    <3>2. QED
      BY <1>4, <3>1 DEF NotAfter, Rings
  <2>2. QED
    BY <1>1, <1>4, <1>5, <2>1 DEF ListInv
<1>10. PeakInv' /\ RemovedForAReason' /\ StrongInv'
  <2>1. \A k \in 1 .. N : contrast'[k] # 0 /\ contrast'[k] \in Nat
    BY <1>4, ConstantsAssumption
  <2>2. QED
    BY <1>1, <1>4, <2>1 DEF PeakInv, RemovedForAReason, StrongInv
<1>11. LoopInv' /\ ApartInv' /\ OutInv'
  BY <1>1, <1>7 DEF LoopInv, ApartInv, OutInv, Covered, Scanned
<1>12. QED
  BY <1>8, <1>9, <1>10, <1>11 DEF RemovalInv

\* Every step keeps it.
LEMMA NextStep ==
    ASSUME IInv, [Next]_vars
    PROVE  IInv'
<1> USE DEF IInv
<1>1. N \in Nat
  BY NIsNat
<1>2. CASE Convert
  <2>1. /\ pc = "convert" /\ pc' = "sort" /\ UNCHANGED <<ring, contrast, i, j, out>>
        /\ stream' = [k \in 1 .. N |-> [stream[k] EXCEPT !.r = Radius(@)]]
    BY <1>2 DEF Convert
  <2>2. stream \in [1 .. N -> Rings]
    BY <1>1 DEF TypeOK, N
  <2>3. \A k \in 1 .. N : [stream[k] EXCEPT !.r = Radius(@)] \in Rings
    <3>1. \A z \in Nat : Radius(z) \in Nat
      BY ConstantsAssumption DEF Radius
    <3>2. QED
      BY <2>2, <3>1 DEF Rings
  <2>4. stream' \in [1 .. N -> Rings]
    BY <2>1, <2>3
  <2>5. stream' \in Seq(Rings) /\ N' = N
    BY <1>1, <2>4, FunctionIsSeq DEF N
  <2>6. TypeOK'
    BY <2>1, <2>5 DEF TypeOK
  <2>7. QED
    BY <2>1, <2>6 DEF RemovalInv, ListInv, PeakInv, RemovedForAReason, StrongInv, LoopInv,
                      ApartInv, OutInv, Sorted, Scanned
<1>3. CASE Sort
  BY <1>3, SortStep
<1>4. CASE SkipRemoved
  <2>1. /\ pc = "scan" /\ i <= N /\ contrast[i] = 0 /\ i' = i + 1
        /\ UNCHANGED <<pc, stream, ring, contrast, j, out>> /\ N' = N
    BY <1>4 DEF SkipRemoved, N
  <2>2. RemovalInv'
    BY <2>1, NoRemoval DEF Sorted
  <2>3. TypeOK' /\ LoopInv' /\ OutInv'
    BY <1>1, <2>1 DEF TypeOK, LoopInv, OutInv, Scanned
  <2>4. ApartInv'
    <3>1. \A k \in 1 .. N : k < i + 1 /\ contrast[k] # 0 => k < i
      BY <1>1, <2>1 DEF TypeOK
    <3>2. QED
      BY <2>1, <3>1 DEF ApartInv, Covered, Scanned, Sorted
  <2>5. QED
    BY <2>2, <2>3, <2>4
<1>5. CASE StartInner
  <2>1. /\ pc = "scan" /\ pc' = "compare" /\ i <= N /\ contrast[i] # 0 /\ j' = i + 1
        /\ UNCHANGED <<stream, ring, contrast, i, out>> /\ N' = N
    BY <1>5 DEF StartInner, N
  <2>2. RemovalInv'
    BY <2>1, NoRemoval DEF Sorted
  <2>3. TypeOK' /\ LoopInv' /\ OutInv'
    BY <1>1, <2>1 DEF TypeOK, LoopInv, OutInv, Scanned
  <2>4. ApartInv'
    BY <1>1, <2>1 DEF ApartInv, Covered, Scanned, Sorted, TypeOK
  <2>5. QED
    BY <2>2, <2>3, <2>4
<1>6. CASE InnerExhausted
  <2>1. /\ pc = "compare" /\ pc' = "scan" /\ i' = i + 1
        /\ UNCHANGED <<stream, ring, contrast, j, out>> /\ N' = N
        /\ j <= N => Distance(ring[i].x, ring[j].x) > Window
    BY <1>1, <1>6 DEF InnerExhausted, LeaveInner, N, TypeOK
  <2>2. RemovalInv'
    BY <2>1, NoRemoval DEF Sorted
  <2>3. TypeOK' /\ LoopInv' /\ OutInv'
    BY <1>1, <2>1 DEF TypeOK, LoopInv, OutInv, Scanned
  <2>4. ASSUME NEW l \in 1 .. N, j <= l
        PROVE  ~ Near(ring[i], ring[l])
    <3>1. /\ i \in 1 .. N /\ j \in 1 .. N /\ i < j /\ (j = l \/ j < l)
          /\ ring[i] \in Rings /\ ring[j] \in Rings /\ ring[l] \in Rings
      BY <1>1, <2>1, <2>4 DEF TypeOK, LoopInv, RemovalInv, ListInv, Sorted
    <3>2. ring[i].x <= ring[j].x /\ ring[j].x <= ring[l].x
      BY <2>1, <3>1 DEF RemovalInv, ListInv, Sorted, Rings
    <3>3. QED
      BY <2>1, <3>1, <3>2, BeyondWindow
  <2>5. ApartInv'
    <3>1. ASSUME NEW k \in 1 .. N, NEW l \in 1 .. N, k < l, k < i + 1,
                 contrast[k] # 0, contrast[l] # 0
          PROVE  ~ Near(ring[k], ring[l])
      <4>1. CASE k < i \/ l < j
        BY <1>1, <2>1, <3>1, <4>1 DEF ApartInv, Covered, Scanned, Sorted, TypeOK
      <4>2. CASE ~ (k < i \/ l < j)
        <5>1. k = i /\ j <= l
          BY <1>1, <3>1, <4>2 DEF TypeOK
        <5>2. QED
          BY <2>4, <5>1
      <4>3. QED
        BY <4>1, <4>2
    <3>2. QED
      BY <2>1, <3>1 DEF ApartInv, Covered, Scanned
  <2>6. QED
    BY <2>2, <2>3, <2>5
<1>7. CASE NotNear
  <2>1. /\ pc = "compare" /\ j <= N /\ ~ Near(ring[i], ring[j]) /\ j' = j + 1
        /\ UNCHANGED <<pc, stream, ring, contrast, i, out>> /\ N' = N
    BY <1>7 DEF NotNear, N
  <2>2. RemovalInv'
    BY <2>1, NoRemoval DEF Sorted
  <2>3. TypeOK' /\ LoopInv' /\ OutInv'
    BY <1>1, <2>1 DEF TypeOK, LoopInv, OutInv, Scanned
  <2>4. ApartInv'
    BY <1>1, <2>1 DEF ApartInv, Covered, Scanned, Sorted, TypeOK
  <2>5. QED
    BY <2>2, <2>3, <2>4
<1>8. CASE RemoveLater
  <2>1. /\ pc = "compare" /\ j <= N /\ Near(ring[i], ring[j])
        /\ contrast[i] > contrast[j] /\ contrast' = [contrast EXCEPT ![j] = 0]
        /\ j' = j + 1 /\ UNCHANGED <<pc, stream, ring, i, out>> /\ N' = N
    BY <1>8 DEF RemoveLater, N
  <2>2. /\ i \in 1 .. N /\ j \in 1 .. N /\ i < j /\ contrast[i] # 0
        /\ ring[i] \in Rings /\ ring[j] \in Rings
        /\ contrast \in [1 .. N -> Contrasts \cup {0}]
    BY <1>1, <2>1 DEF TypeOK, LoopInv, RemovalInv, ListInv, Sorted
  <2>3. contrast[i] \in Nat /\ contrast[j] \in Nat
    <3>1. contrast[i] \in Contrasts \cup {0} /\ contrast[j] \in Contrasts \cup {0}
      BY <2>2
    <3>2. QED
      BY <3>1, ContrastsAreNat
  <2>4. RemovalInv' /\ contrast' \in Seq(Contrasts \cup {0})
    <3>1. Near(ring[j], ring[i])
      BY <2>1, <2>2, NearSymmetric
    <3>2. contrast[j] <= contrast[i] /\ i # j
      BY <2>1, <2>2, <2>3
    <3>3. Sorted /\ Sorted' /\ UNCHANGED <<stream, ring>>
      BY <2>1 DEF Sorted
    <3>4. QED
      BY <2>1, <2>2, <3>1, <3>2, <3>3, Removal
  <2>5. TypeOK' /\ LoopInv' /\ OutInv'
    BY <1>1, <2>1, <2>2, <2>4 DEF TypeOK, LoopInv, OutInv, Scanned
  <2>6. ApartInv'
    <3>1. contrast'[j] = 0 /\ \A k \in 1 .. N : k # j => contrast'[k] = contrast[k]
      BY <2>1, <2>2
    <3>2. QED
      BY <1>1, <2>1, <2>2, <3>1 DEF ApartInv, Covered, Scanned, Sorted, TypeOK
  <2>7. QED
    BY <2>4, <2>5, <2>6
<1>9. CASE RemoveCurrent
  <2>1. /\ pc = "compare" /\ pc' = "scan" /\ j <= N /\ Near(ring[i], ring[j])
        /\ contrast[i] <= contrast[j] /\ contrast' = [contrast EXCEPT ![i] = 0]
        /\ i' = i + 1 /\ UNCHANGED <<stream, ring, j, out>> /\ N' = N
    BY <1>9 DEF RemoveCurrent, LeaveInner, N
  <2>2. /\ i \in 1 .. N /\ j \in 1 .. N /\ i < j /\ contrast[i] # 0
        /\ contrast \in [1 .. N -> Contrasts \cup {0}]
    BY <1>1, <2>1 DEF TypeOK, LoopInv, RemovalInv, ListInv, Sorted
  <2>3. contrast[i] \in Nat /\ contrast[j] \in Nat
    <3>1. contrast[i] \in Contrasts \cup {0} /\ contrast[j] \in Contrasts \cup {0}
      BY <2>2
    <3>2. QED
      BY <3>1, ContrastsAreNat
  <2>4. RemovalInv' /\ contrast' \in Seq(Contrasts \cup {0})
    <3>1. contrast[j] # 0 /\ i # j
      BY <2>1, <2>2, <2>3
    <3>2. Sorted /\ Sorted' /\ UNCHANGED <<stream, ring>>
      BY <2>1 DEF Sorted
    <3>3. QED
      BY <2>1, <2>2, <3>1, <3>2, Removal
  <2>5. TypeOK' /\ LoopInv' /\ OutInv'
    BY <1>1, <2>1, <2>2, <2>4 DEF TypeOK, LoopInv, OutInv, Scanned
  <2>6. ApartInv'
    <3>1. contrast'[i] = 0 /\ \A k \in 1 .. N : k # i => contrast'[k] = contrast[k]
      BY <2>1, <2>2
    <3>2. QED
      BY <1>1, <2>1, <2>2, <3>1 DEF ApartInv, Covered, Scanned, Sorted, TypeOK
  <2>7. QED
    BY <2>4, <2>5, <2>6
<1>10. CASE ScanDone
  <2>1. /\ pc = "scan" /\ pc' = "unlink" /\ i > N /\ i' = 1
        /\ UNCHANGED <<stream, ring, contrast, j, out>> /\ N' = N
    BY <1>10 DEF ScanDone, N
  <2>2. RemovalInv'
    BY <2>1, NoRemoval DEF Sorted
  <2>3. TypeOK' /\ LoopInv'
    BY <1>1, <2>1 DEF TypeOK, LoopInv
  <2>4. OutInv'
    <3>1. out = <<>> /\ Kept' = {}
      BY <2>1 DEF OutInv, Scanned, Kept, Range
    <3>2. QED
      BY <2>1, <3>1 DEF OutInv, Scanned
  <2>5. ApartInv'
    BY <1>1, <2>1 DEF ApartInv, Covered, Scanned, Sorted, TypeOK
  <2>6. QED
    BY <2>2, <2>3, <2>4, <2>5
<1>11. CASE Unlink
  <2>1. /\ pc = "unlink" /\ i <= N /\ contrast[i] = 0 /\ i' = i + 1
        /\ UNCHANGED <<pc, stream, ring, contrast, j, out>> /\ N' = N /\ Kept' = Kept
    BY <1>11 DEF Unlink, N, Kept, Range
  <2>2. RemovalInv' /\ TypeOK' /\ LoopInv' /\ ApartInv'
    BY <1>1, <2>1, NoRemoval DEF Sorted, TypeOK, LoopInv, ApartInv, Covered, Scanned
  <2>3. OutInv'
    BY <1>1, <2>1 DEF OutInv, Scanned, TypeOK
  <2>4. QED
    BY <2>2, <2>3
<1>12. CASE Keep
  <2>1. /\ pc = "unlink" /\ i <= N /\ contrast[i] # 0 /\ i' = i + 1 /\ out' = Append(out, i)
        /\ UNCHANGED <<pc, stream, ring, contrast, j>> /\ N' = N
    BY <1>12 DEF Keep, N
  <2>2. out' \in Seq(1 .. N)
    BY <1>1, <2>1 DEF TypeOK
  <2>3. RemovalInv' /\ TypeOK' /\ LoopInv' /\ ApartInv'
    BY <1>1, <2>1, <2>2, NoRemoval DEF Sorted, TypeOK, LoopInv, ApartInv, Covered, Scanned
  <2>4. \A k : k \in Kept' <=> k \in Kept \/ k = i
    BY <2>1, KeptAppend
  <2>5. OutInv'
    BY <1>1, <2>1, <2>4 DEF OutInv, Scanned, TypeOK
  <2>6. QED
    BY <2>3, <2>5
<1>13. CASE Return
  <2>1. /\ pc = "unlink" /\ pc' = "done" /\ i > N
        /\ UNCHANGED <<stream, ring, contrast, i, j, out>> /\ N' = N /\ Kept' = Kept
    BY <1>13 DEF Return, N, Kept, Range
  <2>2. RemovalInv' /\ TypeOK' /\ LoopInv' /\ ApartInv'
    BY <1>1, <2>1, NoRemoval DEF Sorted, TypeOK, LoopInv, ApartInv, Covered, Scanned
  <2>3. OutInv'
    BY <1>1, <2>1 DEF OutInv, Scanned, TypeOK
  <2>4. QED
    BY <2>2, <2>3
<1>14. CASE UNCHANGED vars
  <2>1. UNCHANGED <<pc, stream, ring, contrast, i, j, out>> /\ N' = N /\ Kept' = Kept
    BY <1>14 DEF vars, N, Kept, Range
  <2>2. TypeOK' /\ LoopInv' /\ ApartInv' /\ OutInv'
    BY <2>1 DEF TypeOK, LoopInv, ApartInv, OutInv, Covered, Scanned, Sorted
  <2>3. RemovalInv'
    <3>1. CASE Sorted
      BY <2>1, <3>1, NoRemoval
    <3>2. CASE ~ Sorted
      BY <2>1, <3>2 DEF RemovalInv, ListInv, PeakInv, RemovedForAReason, StrongInv, Sorted
    <3>3. QED
      BY <3>1, <3>2
  <2>4. QED
    BY <2>2, <2>3
<1>15. QED
  BY <1>2, <1>3, <1>4, <1>5, <1>6, <1>7, <1>8, <1>9, <1>10, <1>11, <1>12, <1>13, <1>14
     DEF Next, Finished

\* The inductive invariant holds in every behaviour.
THEOREM Invariance == Spec => []IInv
<1>1. IInv /\ [Next]_vars => IInv'
  BY NextStep
<1>2. QED
  BY <1>1, InitInv, PTL DEF Spec

-----------------------------------------------------------------------------
(* What the invariant gives. *)

\* Type correctness.
THEOREM TypeCorrect == Spec => []TypeOK
<1>1. IInv => TypeOK
  BY DEF IInv
<1>2. QED
  BY <1>1, Invariance, PTL

\* When process () returns, the kept rings are those with a contrast left.
LEMMA KeptRings ==
    ASSUME IInv, pc = "done"
    PROVE  \A k : k \in Kept <=> k \in 1 .. N /\ contrast[k] # 0
<1>1. N \in Nat /\ i = N + 1
  BY NIsNat DEF IInv, OutInv
<1>2. Kept \subseteq 1 .. N
  <2>1. out \in Seq(1 .. N)
    BY DEF IInv, TypeOK
  <2>2. DOMAIN out = 1 .. Len(out) /\ \A m \in 1 .. Len(out) : out[m] \in 1 .. N
    BY <2>1, SeqIsFunction
  <2>3. QED
    BY <2>2 DEF Kept, Range
<1>3. \A k \in 1 .. N : k \in Kept <=> contrast[k] # 0
  BY <1>1 DEF IInv, OutInv, Scanned
<1>4. QED
  BY <1>2, <1>3

\* The scan leaves no two neighbours in the list (SurvivorsApart).
THEOREM NoNeighboursLeft == Spec => []SurvivorsApart
<1>1. ASSUME IInv, pc = "done", NEW k \in Kept, NEW l \in Kept, k # l
      PROVE  ~ Near(ring[k], ring[l])
  <2>1. k \in 1 .. N /\ l \in 1 .. N /\ contrast[k] # 0 /\ contrast[l] # 0
    BY <1>1, KeptRings
  <2>2. ring[k] \in Rings /\ ring[l] \in Rings
    BY <1>1, <2>1 DEF IInv, RemovalInv, ListInv, Sorted
  <2>3. \A a, b \in 1 .. N : a < b /\ contrast[a] # 0 /\ contrast[b] # 0
            => ~ Near(ring[a], ring[b])
    BY <1>1 DEF IInv, ApartInv, Covered, Scanned, Sorted
  <2>4. k < l \/ l < k
    BY <1>1, <2>1
  <2>5. QED
    BY <2>1, <2>2, <2>3, <2>4, NearSymmetric
<1>2. IInv => SurvivorsApart
  BY <1>1 DEF SurvivorsApart
<1>3. QED
  BY <1>2, Invariance, PTL

\* A ring stronger than all its neighbours is never lost (StrictPeaksSurvive).
THEOREM PeaksAreKept == Spec => []StrictPeaksSurvive
<1>1. ASSUME IInv, pc = "done", NEW k \in 1 .. N, StrictPeak(k)
      PROVE  k \in Kept
  <2>1. contrast[k] = ring[k].c /\ ring[k] \in Rings
    BY <1>1 DEF IInv, RemovalInv, ListInv, PeakInv, Sorted
  <2>2. contrast[k] # 0
    BY <2>1, ConstantsAssumption DEF Rings
  <2>3. QED
    BY <1>1, <2>2, KeptRings
<1>2. IInv => StrictPeaksSurvive
  BY <1>1 DEF StrictPeaksSurvive, IInv, RemovalInv, PeakInv
<1>3. QED
  BY <1>2, Invariance, PTL

\* A ring goes only because of a neighbour at least as strong.
THEOREM ReasonForRemoval == Spec => []RemovedForAReason
<1>1. IInv => RemovedForAReason
  BY DEF IInv, RemovalInv
<1>2. QED
  BY <1>1, Invariance, PTL

\* For every candidate a survivor is at least as strong (StrongestSurvives).
THEOREM StrongestIsKept == Spec => []StrongestSurvives
<1>1. ASSUME IInv, pc = "done", NEW l \in 1 .. N
      PROVE  \E k \in Kept : ring[k].c >= ring[l].c
  <2>1. PICK k \in 1 .. N : contrast[k] >= ring[l].c
    BY <1>1 DEF IInv, RemovalInv, StrongInv, Sorted
  <2>2. /\ ring[k].c \in Contrasts /\ ring[l].c \in Contrasts
        /\ contrast[k] \in {0, ring[k].c}
    BY <1>1 DEF IInv, RemovalInv, ListInv, Sorted, Rings
  <2>3. ring[k].c \in Nat /\ ring[l].c \in Nat /\ ring[l].c # 0
    BY <2>2, ConstantsAssumption
  <2>4. contrast[k] # 0 /\ ring[k].c >= ring[l].c
    BY <2>1, <2>2, <2>3
  <2>5. QED
    BY <1>1, <2>4, KeptRings
<1>2. IInv => StrongestSurvives
  BY <1>1 DEF StrongestSurvives
<1>3. QED
  BY <1>2, Invariance, PTL

=============================================================================
