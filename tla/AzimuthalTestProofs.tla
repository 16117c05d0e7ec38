------------------------- MODULE AzimuthalTestProofs -------------------------
(***************************************************************************)
(* TLAPS proofs about AzimuthalTest, for any set of workers, any number of *)
(* rings and any image: the in-place updates of the pool leave exactly the *)
(* rings a sequential pass would compute.                                  *)
(***************************************************************************)
EXTENDS AzimuthalTest, InductionLemmas, TLAPS

Waiting == pc \in {"wait", "filter", "done"}
Held(r) == \E w \in Workers : job[w] = r

\* How far the task thread is, and how many jobs it has pushed.
PhaseInv ==
    /\ pc = "scale" => pushed = 0
    /\ pc = "push" => pushed = k - 1
    /\ Waiting => pushed = N
    /\ closed <=> Waiting
    /\ pc \in {"filter", "done"} => Drained
    /\ pc = "done" => k = N + 1

\* A worker's result is for the ring it holds.
FoundInv ==
    \A w \in Workers : found[w] # None => job[w] # 0 /\ found[w] = Tested(job[w])

\* Ring r before the pool exists, before and while a worker has it, and after.
ScaleInv ==
    pc = "scale" =>
        \A r \in 1 .. N : cand[r] = IF r < k THEN Scaled(r) ELSE given[r]
RingInv ==
    pc # "scale" =>
        \A r \in 1 .. N :
            cand[r] = IF r > taken \/ Held(r) THEN Scaled(r) ELSE Tested(r)

\* The filter loop has kept the passing rings it has seen.
OutInv ==
    pc \in {"filter", "done"} =>
        \A r \in 1 .. N : r < k /\ Passes(cand[r]) =>
            \E m \in 1 .. Len(out) : out[m] = cand[r]

IInv ==
    /\ TypeOK
    /\ PhaseInv
    /\ OneWorkerPerRing
    /\ FoundInv
    /\ ScaleInv
    /\ RingInv
    /\ OutInv

-----------------------------------------------------------------------------
(* Facts about the operators. *)

\* The likelihood kernel writes rings.
LEMMA GivenAreRings == GivenRings \subseteq Rings
<1> SUFFICES ASSUME NEW g \in GivenRings
             PROVE  g \in Rings
  OBVIOUS
<1>1. PICK x \in Places, c \in Contrasts : g = [x |-> x, contrast |-> c, intensity |-> 1]
  BY DEF GivenRings
<1>2. x \in Int /\ c \in Nat
  BY ConstantsAssumption
<1>3. QED
  BY <1>1, <1>2 DEF Rings

\* A scaled ring is a ring, at a position the image is defined at.
LEMMA ScaledRing ==
    ASSUME TypeOK, NEW r \in 1 .. N
    PROVE  Scaled(r) \in Rings /\ Scaled(r).x \in Positions
<1>1. given[r] \in GivenRings
  BY DEF TypeOK, N
<1>2. given[r] \in Rings /\ given[r].x \in Places
  <2>1. GivenRings \subseteq Rings
    BY GivenAreRings
  <2>2. given[r].x \in Places
    BY <1>1 DEF GivenRings
  <2>3. QED
    BY <1>1, <2>1, <2>2
<1>3. Scaled(r).x = IF scale = 2 THEN 2 * given[r].x ELSE given[r].x
  BY <1>2 DEF Scaled, ScaleRing, Rings
<1>4. Scaled(r).x \in Positions
  BY <1>2, <1>3 DEF Positions, TypeOK
<1>5. Scaled(r) \in Rings
  BY <1>2 DEF Scaled, ScaleRing, Rings
<1>6. QED
  BY <1>4, <1>5

\* So is a tested one.
LEMMA TestedRing ==
    ASSUME TypeOK, NEW r \in 1 .. N
    PROVE  Tested(r) \in Rings /\ Tested(r) # None
<1>1. Scaled(r) \in Rings /\ Scaled(r).x \in Positions
  BY ScaledRing
<1>2. image[Scaled(r).x] \in Findings \cup {None}
  BY <1>1 DEF TypeOK
<1>3. CASE image[Scaled(r).x] = None
  BY <1>1, <1>3, NoneAssumption DEF Tested, Improve
<1>4. CASE image[Scaled(r).x] # None
  <2>1. image[Scaled(r).x] \in [shift : Int, snr : Int]
    BY <1>2, <1>4, ConstantsAssumption
  <2>2. Tested(r) \in Rings
    BY <1>1, <1>4, <2>1 DEF Tested, Improve, Rings
  <2>3. QED
    BY <2>2, NoneAssumption
<1>5. QED
  BY <1>3, <1>4

\* Neither depends on what a step changes.
LEMMA InputsFixed ==
    [Next]_vars =>
        /\ UNCHANGED <<given, scale, image>>
        /\ N' = N
        /\ \A r : Scaled(r)' = Scaled(r) /\ Tested(r)' = Tested(r)
<1> SUFFICES ASSUME [Next]_vars
             PROVE  /\ UNCHANGED <<given, scale, image>>
                    /\ N' = N
                    /\ \A r : Scaled(r)' = Scaled(r) /\ Tested(r)' = Tested(r)
  OBVIOUS
<1>1. UNCHANGED <<given, scale, image>>
  BY DEF Next, Main, Worker, Scale, StartPool, Push, ClosePool, PoolFreed, Filter,
         Return, Finished, TakeJob, Search, StoreRing, vars
<1>2. QED
  BY <1>1 DEF N, Scaled, Tested, ScaleRing, Improve

\* The condition is monotone off the thresholds.
LEMMA PassesMonotone ==
    ASSUME NEW r \in Rings, NEW s \in Rings, Passes(s),
           r.contrast >= s.contrast, r.intensity >= s.intensity,
           r.contrast # ThldLikelihood, r.intensity # ThldAzimu
    PROVE  Passes(r)
BY ConstantsAssumption DEF Passes, Rings

-----------------------------------------------------------------------------
(* The invariant holds initially and is kept by the task thread ... *)

\* The invariant holds when process () is called.
LEMMA InitInv == Init => IInv
<1> SUFFICES ASSUME Init
             PROVE  IInv
  OBVIOUS
<1>1. PICK n \in 0 .. MaxCand : given \in [1 .. n -> GivenRings]
  BY DEF Init
<1>2. given \in Seq(GivenRings) /\ N = n /\ N \in Nat
  BY <1>1, ConstantsAssumption DEF N
<1>3. GivenRings \subseteq Rings
  BY GivenAreRings
<1>4. cand \in [1 .. N -> Rings]
  BY <1>1, <1>2, <1>3 DEF Init
<1>5. TypeOK
  <2>1. job \in [Workers -> 0 .. taken] /\ found \in [Workers -> Rings \cup {None}]
    BY DEF Init
  <2>2. k \in 1 .. N + 1 /\ pushed \in 0 .. N /\ taken \in 0 .. pushed /\ out \in Seq(Rings)
    BY <1>2 DEF Init
  <2>3. pc = "scale" /\ scale \in Scales /\ closed \in BOOLEAN
        /\ image \in [Positions -> Findings \cup {None}]
    BY DEF Init
  <2>4. QED
    BY <1>2, <1>4, <2>1, <2>2, <2>3 DEF TypeOK
<1>6. PhaseInv /\ OneWorkerPerRing /\ FoundInv
  BY DEF Init, PhaseInv, Waiting, OneWorkerPerRing, FoundInv
<1>7. ScaleInv /\ RingInv /\ OutInv
  BY <1>2 DEF Init, ScaleInv, RingInv, OutInv
<1>8. QED
  BY <1>5, <1>6, <1>7 DEF IInv

\* Nothing a ring's place in the pool depends on has changed.
LEMMA PoolUnchanged ==
    ASSUME IInv, [Next]_vars, UNCHANGED <<taken, job, found>>
    PROVE  /\ OneWorkerPerRing' /\ FoundInv'
           /\ \A r : Held(r)' = Held(r)
           /\ Drained' <=> (taken = pushed' /\ \A w \in Workers : job[w] = 0)
BY InputsFixed DEF IInv, OneWorkerPerRing, FoundInv, Held, Drained

\* Each statement of the task thread keeps it.
LEMMA MainStep ==
    ASSUME IInv, Main
    PROVE  IInv'
<1> USE DEF IInv
<1>1. [Next]_vars
  BY DEF Next
<1>2. /\ UNCHANGED <<given, scale, image>> /\ N' = N
      /\ \A r : Scaled(r)' = Scaled(r) /\ Tested(r)' = Tested(r)
  BY <1>1, InputsFixed
<1>3. N \in Nat
  BY DEF TypeOK, N
<1>4. UNCHANGED <<taken, job, found>>
  BY DEF Main, Scale, StartPool, Push, ClosePool, PoolFreed, Filter, Return, pool
<1>5. OneWorkerPerRing' /\ FoundInv' /\ \A r : Held(r)' = Held(r)
  BY <1>1, <1>4, PoolUnchanged
<1>6. CASE Scale
  <2>1. k \in 1 .. N /\ k' = k + 1 /\ cand' = [cand EXCEPT ![k] = ScaleRing(@)]
    BY <1>3, <1>6 DEF Scale, TypeOK
  <2>2. cand[k] = given[k]
    BY <1>6, <2>1 DEF Scale, ScaleInv
  <2>3. cand' = [cand EXCEPT ![k] = Scaled(k)]
    BY <2>1, <2>2 DEF Scaled
  <2>4. TypeOK'
    <3>1. cand' \in [1 .. N -> Rings]
      BY <2>1, <2>3, ScaledRing DEF TypeOK
    <3>2. k' \in 1 .. N + 1
      BY <1>3, <2>1
    <3>3. UNCHANGED <<pc, pool, out>>
      BY <1>6 DEF Scale
    <3>4. QED
      BY <1>2, <3>1, <3>2, <3>3 DEF TypeOK, pool
  <2>5. PhaseInv'
    BY <1>6 DEF Scale, PhaseInv, Waiting, pool
  <2>6. ScaleInv'
    BY <1>2, <1>6, <2>1, <2>3 DEF Scale, ScaleInv, TypeOK
  <2>7. RingInv' /\ OutInv'
    BY <1>6 DEF Scale, RingInv, OutInv
  <2>8. QED
    BY <1>5, <2>4, <2>5, <2>6, <2>7
<1>7. CASE StartPool
  <2>1. TypeOK'
    BY <1>2, <1>3, <1>7 DEF StartPool, TypeOK, pool
  <2>2. PhaseInv'
    BY <1>7 DEF StartPool, PhaseInv, Waiting, pool
  <2>3. taken = 0 /\ taken' = 0
    BY <1>7 DEF StartPool, PhaseInv, TypeOK, pool
  <2>4. RingInv'
    <3>1. \A r \in 1 .. N : cand'[r] = Scaled(r)
      BY <1>3, <1>7 DEF StartPool, ScaleInv, TypeOK
    <3>2. QED
      BY <1>2, <2>3, <3>1 DEF RingInv
  <2>5. ScaleInv' /\ OutInv'
    BY <1>7 DEF StartPool, ScaleInv, OutInv
  <2>6. QED
    BY <1>5, <2>1, <2>2, <2>4, <2>5
<1>8. CASE Push
  <2>1. TypeOK'
    BY <1>2, <1>3, <1>8 DEF Push, TypeOK, PhaseInv
  <2>2. PhaseInv'
    BY <1>8 DEF Push, PhaseInv, Waiting, TypeOK
  <2>3. RingInv' /\ ScaleInv' /\ OutInv'
    BY <1>2, <1>5, <1>8 DEF Push, RingInv, ScaleInv, OutInv
  <2>4. QED
    BY <1>5, <2>1, <2>2, <2>3
<1>9. CASE ClosePool
  <2>1. TypeOK'
    BY <1>2, <1>3, <1>9 DEF ClosePool, TypeOK
  <2>2. PhaseInv'
    BY <1>2, <1>3, <1>9 DEF ClosePool, PhaseInv, Waiting, TypeOK
  <2>3. RingInv' /\ ScaleInv' /\ OutInv'
    BY <1>2, <1>5, <1>9 DEF ClosePool, RingInv, ScaleInv, OutInv
  <2>4. QED
    BY <1>5, <2>1, <2>2, <2>3
<1>10. CASE PoolFreed
  <2>1. TypeOK'
    BY <1>2, <1>3, <1>10 DEF PoolFreed, TypeOK, pool
  <2>2. PhaseInv'
    BY <1>2, <1>10 DEF PoolFreed, PhaseInv, Waiting, Drained, pool
  <2>3. RingInv' /\ ScaleInv' /\ OutInv'
    BY <1>2, <1>5, <1>10 DEF PoolFreed, RingInv, ScaleInv, OutInv, pool
  <2>4. QED
    BY <1>5, <2>1, <2>2, <2>3
<1>11. CASE Filter
  <2>1. k \in 1 .. N /\ k' = k + 1 /\ cand' = cand /\ cand[k] \in Rings /\ out \in Seq(Rings)
    BY <1>3, <1>11 DEF Filter, TypeOK
  <2>2. out' = IF Passes(cand[k]) THEN Append(out, cand[k]) ELSE out
    BY <1>11 DEF Filter
  <2>3. out' \in Seq(Rings)
    BY <2>1, <2>2
  <2>4. TypeOK'
    <3>1. k' \in 1 .. N + 1
      BY <1>3, <2>1
    <3>2. UNCHANGED <<pc, pool>>
      BY <1>11 DEF Filter
    <3>3. QED
      BY <1>2, <2>1, <2>3, <3>1, <3>2 DEF TypeOK, pool
  <2>5. PhaseInv'
    BY <1>2, <1>11 DEF Filter, PhaseInv, Waiting, Drained, pool
  <2>6. RingInv' /\ ScaleInv'
    BY <1>2, <1>5, <1>11 DEF Filter, RingInv, ScaleInv, pool
  <2>7. OutInv'
    <3>1. ASSUME NEW r \in 1 .. N, r < k', Passes(cand[r])
          PROVE  \E m \in 1 .. Len(out') : out'[m] = cand[r]
      <4>1. CASE r = k
        <5>1. out' = Append(out, cand[k])
          BY <2>2, <3>1, <4>1
        <5>2. Len(out') = Len(out) + 1 /\ out'[Len(out) + 1] = cand[k] /\ Len(out) \in Nat
          BY <2>1, <5>1
        <5>3. QED
          BY <4>1, <5>2
      <4>2. CASE r # k
        <5>1. PICK m \in 1 .. Len(out) : out[m] = cand[r]
          BY <1>11, <2>1, <3>1, <4>2 DEF Filter, OutInv
        <5>2. m \in 1 .. Len(out') /\ out'[m] = out[m]
          BY <2>1, <2>2, <5>1
        <5>3. QED
          BY <5>1, <5>2
      <4>3. QED
        BY <4>1, <4>2
    <3>2. Passes(cand[k])' = Passes(cand'[k'])
      BY DEF Passes
    <3>3. QED
      BY <1>2, <2>1, <3>1 DEF OutInv, Passes
  <2>8. QED
    BY <1>5, <2>4, <2>5, <2>6, <2>7
<1>12. CASE Return
  <2>1. TypeOK'
    BY <1>2, <1>12 DEF Return, TypeOK, pool
  <2>2. PhaseInv'
    BY <1>2, <1>3, <1>12 DEF Return, PhaseInv, Waiting, Drained, pool, TypeOK
  <2>3. RingInv' /\ ScaleInv'
    BY <1>2, <1>5, <1>12 DEF Return, RingInv, ScaleInv, pool
  <2>4. OutInv'
    BY <1>2, <1>12 DEF Return, OutInv, Passes
  <2>5. QED
    BY <1>5, <2>1, <2>2, <2>3, <2>4
<1>13. QED
  BY <1>6, <1>7, <1>8, <1>9, <1>10, <1>11, <1>12 DEF Main

\* ... and by the workers.
LEMMA WorkerStep ==
    ASSUME IInv, NEW w \in Workers, Worker(w)
    PROVE  IInv'
<1> USE DEF IInv
<1>1. [Next]_vars
  BY DEF Next
<1>2. /\ UNCHANGED <<given, scale, image>> /\ N' = N
      /\ \A r : Scaled(r)' = Scaled(r) /\ Tested(r)' = Tested(r)
  BY <1>1, InputsFixed
<1>3. N \in Nat
  BY DEF TypeOK, N
<1>4. UNCHANGED <<pc, k, pushed, closed, out>>
  BY DEF Worker, TakeJob, Search, StoreRing
\* A worker that has or takes a job works between Push and PoolFreed.
<1>5. pc \in {"push", "wait"}
  <2>1. job[w] # 0 \/ taken < pushed
    BY DEF Worker, TakeJob, Search, StoreRing
  <2>2. pushed # 0 /\ ~ Drained
    BY <2>1 DEF TypeOK, Drained
  <2>3. QED
    BY <2>2 DEF PhaseInv, TypeOK
<1>6. PhaseInv' /\ ScaleInv' /\ OutInv'
  <2>1. PhaseInv'
    BY <1>2, <1>4, <1>5 DEF PhaseInv, Waiting
  <2>2. QED
    BY <1>4, <1>5, <2>1 DEF ScaleInv, OutInv
<1>7. CASE TakeJob(w)
  <2>1. /\ job[w] = 0 /\ taken < pushed /\ taken' = taken + 1
        /\ job' = [job EXCEPT ![w] = taken + 1]
        /\ UNCHANGED <<cand, found>>
    BY <1>7 DEF TakeJob
  <2>2. taken \in Nat /\ pushed \in Nat /\ \A v \in Workers : job[v] \in 0 .. taken
    BY <1>3 DEF TypeOK
  <2>3. TypeOK'
    <3>1. taken' \in 0 .. pushed /\ job' \in [Workers -> 0 .. taken']
      BY <2>1, <2>2 DEF TypeOK
    <3>2. QED
      BY <1>2, <1>4, <2>1, <3>1 DEF TypeOK
  <2>4. job'[w] = taken + 1 /\ \A v \in Workers : v # w => job'[v] = job[v]
    BY <2>1 DEF TypeOK
  <2>5. OneWorkerPerRing'
    BY <2>2, <2>4 DEF OneWorkerPerRing
  <2>6. FoundInv'
    BY <1>2, <2>1, <2>4 DEF FoundInv
  <2>7. RingInv'
    <3>1. ASSUME NEW r \in 1 .. N
          PROVE  (r > taken' \/ Held(r)') <=> (r > taken \/ Held(r))
      BY <2>1, <2>2, <2>4, <3>1 DEF Held
    <3>2. QED
      BY <1>2, <1>5, <2>1, <3>1 DEF RingInv
  <2>8. QED
    BY <1>6, <2>3, <2>5, <2>6, <2>7
<1>8. CASE Search(w)
  <2>1. /\ job[w] # 0
        /\ found' = [found EXCEPT ![w] = Improve(cand[job[w]])]
        /\ UNCHANGED <<taken, job, cand>>
    BY <1>8 DEF Search
  <2>2. job[w] \in 1 .. N
    BY <1>3, <2>1 DEF TypeOK
  <2>3. cand[job[w]] = Scaled(job[w])
    BY <1>5, <2>2 DEF RingInv, Held
  <2>4. found' = [found EXCEPT ![w] = Tested(job[w])]
    BY <2>1, <2>3 DEF Tested
  <2>5. TypeOK'
    <3>1. found' \in [Workers -> Rings \cup {None}]
      BY <2>2, <2>4, TestedRing DEF TypeOK
    <3>2. QED
      BY <1>2, <1>4, <2>1, <3>1 DEF TypeOK
  <2>6. FoundInv'
    BY <1>2, <2>1, <2>4 DEF FoundInv, TypeOK
  <2>7. OneWorkerPerRing' /\ RingInv'
    BY <1>2, <1>4, <2>1 DEF OneWorkerPerRing, RingInv, Held
  <2>8. QED
    BY <1>6, <2>5, <2>6, <2>7
<1>9. CASE StoreRing(w)
  <2>1. /\ job[w] # 0 /\ found[w] # None
        /\ cand' = [cand EXCEPT ![job[w]] = found[w]]
        /\ job' = [job EXCEPT ![w] = 0]
        /\ found' = [found EXCEPT ![w] = None]
        /\ UNCHANGED taken
    BY <1>9 DEF StoreRing
  <2>2. job[w] \in 1 .. N /\ job[w] \in 1 .. taken /\ taken \in Nat
    BY <1>3, <2>1 DEF TypeOK
  <2>3. found[w] = Tested(job[w]) /\ found[w] \in Rings
    BY <2>1, <2>2, TestedRing DEF FoundInv
  <2>4. job'[w] = 0 /\ found'[w] = None
        /\ \A v \in Workers : v # w => job'[v] = job[v] /\ found'[v] = found[v]
    BY <2>1 DEF TypeOK
  <2>5. TypeOK'
    <3>1. cand' \in [1 .. N -> Rings]
      BY <2>1, <2>2, <2>3 DEF TypeOK
    <3>2. job' \in [Workers -> 0 .. taken] /\ found' \in [Workers -> Rings \cup {None}]
      BY <2>1, <2>2 DEF TypeOK
    <3>3. QED
      BY <1>2, <1>4, <2>1, <3>1, <3>2 DEF TypeOK
  <2>6. OneWorkerPerRing'
    BY <2>4 DEF OneWorkerPerRing
  <2>7. FoundInv'
    BY <1>2, <2>4 DEF FoundInv
  <2>8. RingInv'
    <3>1. ASSUME NEW r \in 1 .. N
          PROVE  cand'[r] = IF r > taken \/ Held(r)' THEN Scaled(r) ELSE Tested(r)
      <4>1. CASE r = job[w]
        <5>1. ~ Held(r)'
          BY <2>1, <2>4, <4>1 DEF Held, OneWorkerPerRing
        <5>2. cand'[r] = Tested(r)
          BY <2>1, <2>2, <2>3, <4>1 DEF TypeOK
        <5>3. ~ (r > taken)
          BY <2>2, <4>1
        <5>4. QED
          BY <5>1, <5>2, <5>3
      <4>2. CASE r # job[w]
        <5>1. Held(r)' <=> Held(r)
          BY <2>4, <4>2, <3>1 DEF Held
        <5>2. cand'[r] = cand[r]
          BY <2>1, <4>2 DEF TypeOK
        <5>3. QED
          BY <1>5, <5>1, <5>2 DEF RingInv
      <4>3. QED
        BY <4>1, <4>2
    <3>2. QED
      BY <1>2, <2>1, <3>1 DEF RingInv
  <2>9. QED
    BY <1>6, <2>5, <2>6, <2>7, <2>8
<1>10. QED
  BY <1>7, <1>8, <1>9 DEF Worker

\* The inductive invariant holds in every behaviour.
THEOREM Invariance == Spec => []IInv
<1>1. IInv /\ [Next]_vars => IInv'
  <2> SUFFICES ASSUME IInv, [Next]_vars
               PROVE  IInv'
    OBVIOUS
  <2>1. ASSUME NEW w \in Workers, Worker(w)
        PROVE  IInv'
    BY <2>1, WorkerStep
  <2>2. CASE UNCHANGED vars
    BY <2>2 DEF vars, IInv, TypeOK, PhaseInv, Waiting, Drained, OneWorkerPerRing, FoundInv,
                ScaleInv, RingInv, OutInv, Held, N, Scaled, Tested, ScaleRing, Improve, Passes
  <2>3. QED
    BY <2>1, <2>2, MainStep DEF Next, Finished
<1>2. QED
  BY <1>1, InitInv, PTL DEF Spec

-----------------------------------------------------------------------------
(* What the invariant gives. *)

\* Type correctness.
THEOREM TypeCorrect == Spec => []TypeOK
<1>1. IInv => TypeOK
  BY DEF IInv
<1>2. QED
  BY <1>1, Invariance, PTL

\* No two workers ever hold the same ring (OneWorkerPerRing).
THEOREM RingHasOneWorker == Spec => []OneWorkerPerRing
<1>1. IInv => OneWorkerPerRing
  BY DEF IInv
<1>2. QED
  BY <1>1, Invariance, PTL

\* When process () is past the wait the pool holds nothing.
THEOREM PoolIsDrained == Spec => []PoolDrainedBeforeFilter
<1>1. IInv => PoolDrainedBeforeFilter
  BY DEF IInv, PhaseInv, Waiting, Drained, PoolDrainedBeforeFilter
<1>2. QED
  BY <1>1, Invariance, PTL

\* Whatever the order of the workers, the filter reads the rings a sequential
\* pass would have computed (FilterReadsTestedRings).
THEOREM SequentialRings == Spec => []FilterReadsTestedRings
<1>1. ASSUME IInv, pc \in {"filter", "done"}, NEW r \in 1 .. N
      PROVE  cand[r] = Tested(r)
  <2>1. taken = N /\ \A w \in Workers : job[w] = 0
    BY <1>1 DEF IInv, PhaseInv, Waiting, Drained
  <2>2. N \in Nat
    BY <1>1 DEF IInv, TypeOK, N
  <2>3. ~ (r > taken) /\ ~ Held(r)
    BY <2>1, <2>2 DEF Held
  <2>4. QED
    BY <1>1, <2>3 DEF IInv, RingInv
<1>2. IInv => FilterReadsTestedRings
  BY <1>1 DEF FilterReadsTestedRings
<1>3. QED
  BY <1>2, Invariance, PTL

\* The rings kept of the first n, one ring at a time.
LEMMA KeptEquations ==
    ASSUME TypeOK
    PROVE  /\ Kept[0] = <<>>
           /\ \A n \in 1 .. N :
                Kept[n] = IF Passes(Tested(n)) THEN Append(Kept[n - 1], Tested(n))
                          ELSE Kept[n - 1]
<1> DEFINE S == Seq(Rings)
           Step(n, s) == IF Passes(Tested(n)) THEN Append(s, Tested(n)) ELSE s
           g == [p \in (1 .. N) \X S |-> Step(p[1], p[2])]
           K(f) == [n \in 0 .. N |-> IF n = 0 THEN <<>> ELSE Step(n, f[n - 1])]
<1>1. N \in Nat
  BY DEF TypeOK, N
<1>2. <<>> \in S /\ \A n \in 1 .. N, s \in S : Step(n, s) \in S
  BY TestedRing
<1>3. Kept = CHOOSE f : f = K(f)
  BY DEF Kept
<1> HIDE DEF Step, S
<1>4. g \in [(1 .. N) \X S -> S] /\ \A n \in 1 .. N, s \in S : g[<<n, s>>] = Step(n, s)
  BY <1>2
<1> HIDE DEF g
<1>5. PICK f \in [0 .. N -> S] : Recursive(f, N, <<>>, g)
  BY <1>1, <1>2, <1>4, RecursionExists
<1>6. f = K(f)
  <2>1. ASSUME NEW n \in 0 .. N PROVE f[n] = K(f)[n]
    <3>1. CASE n = 0
      BY <1>5, <3>1 DEF Recursive
    <3>2. CASE n # 0
      <4>1. n \in 1 .. N /\ f[n - 1] \in S
        BY <1>1, <3>2
      <4>2. f[n] = Step(n, f[n - 1])
        BY <1>4, <1>5, <4>1 DEF Recursive
      <4>3. QED
        BY <3>2, <4>2
    <3>3. QED
      BY <3>1, <3>2
  <2>2. QED
    BY <2>1
<1>7. ASSUME NEW h
      PROVE  K(h)[0] = <<>> /\ \A n \in 1 .. N : K(h)[n] = Step(n, h[n - 1])
  BY <1>1
<1> HIDE DEF K
<1>8. Kept = K(Kept)
  BY <1>3, <1>6
<1>9. Kept[0] = <<>> /\ \A n \in 1 .. N : Kept[n] = Step(n, Kept[n - 1])
  BY <1>7, <1>8
<1>10. QED
  BY <1>9 DEF Step

\* The filter loop has kept what the sequential pass keeps of the rings before k.
SequenceInv == out = IF pc \in {"filter", "done"} THEN Kept[k - 1] ELSE <<>>

\* Whatever the order of the workers, process () returns the passing rings in
\* the order of the stream (OutputIsDeterministic).
THEOREM OutputDeterministic == Spec => []OutputIsDeterministic
<1>1. Init => SequenceInv
  BY DEF Init, SequenceInv
<1>2. IInv /\ FilterReadsTestedRings /\ SequenceInv /\ [Next]_vars => SequenceInv'
  <2> SUFFICES ASSUME IInv, FilterReadsTestedRings, SequenceInv, [Next]_vars
               PROVE  SequenceInv'
    OBVIOUS
  <2>1. UNCHANGED <<given, scale, image>> /\ N' = N
        /\ \A r : Scaled(r)' = Scaled(r) /\ Tested(r)' = Tested(r)
    BY InputsFixed
  <2>2. TypeOK /\ N \in Nat
    BY DEF IInv, TypeOK, N
  <2>3. /\ Kept[0] = <<>>
        /\ \A n \in 1 .. N :
             Kept[n] = IF Passes(Tested(n)) THEN Append(Kept[n - 1], Tested(n))
                       ELSE Kept[n - 1]
    BY <2>2, KeptEquations
  <2>4. Kept' = Kept
    BY <2>1 DEF Kept, Passes
  <2>5. CASE PoolFreed
    <3>1. k' - 1 = 0 /\ out' = <<>> /\ pc' = "filter"
      BY <2>5 DEF PoolFreed, SequenceInv
    <3>2. QED
      BY <2>3, <2>4, <3>1 DEF SequenceInv
  <2>6. CASE Filter
    <3>1. /\ k \in 1 .. N /\ k' = k + 1 /\ out = Kept[k - 1] /\ cand[k] = Tested(k)
          /\ out' = IF Passes(cand[k]) THEN Append(out, cand[k]) ELSE out
          /\ pc' = "filter"
      BY <2>2, <2>6 DEF Filter, FilterReadsTestedRings, SequenceInv, TypeOK
    <3>2. out' = Kept[k]
      BY <2>3, <3>1
    <3>3. k' - 1 = k
      BY <3>1
    <3>4. QED
      BY <2>4, <3>1, <3>2, <3>3 DEF SequenceInv
  <2>7. CASE pc' \notin {"filter", "done"}
    <3>1. pc \notin {"filter", "done"} /\ out' = out
      BY <2>7 DEF Next, Main, Worker, Scale, StartPool, Push, ClosePool, PoolFreed, Filter,
                  Return, Finished, TakeJob, Search, StoreRing, vars
    <3>2. QED
      BY <2>7, <3>1 DEF SequenceInv
  <2>8. CASE pc' \in {"filter", "done"} /\ ~ PoolFreed /\ ~ Filter
    <3>1. pc \in {"filter", "done"} /\ UNCHANGED <<k, out>>
      BY <2>8 DEF Next, Main, Worker, Scale, StartPool, Push, ClosePool, Return,
                  Finished, TakeJob, Search, StoreRing, vars
    <3>2. QED
      BY <2>4, <2>8, <3>1 DEF SequenceInv
  <2>9. QED
    BY <2>5, <2>6, <2>7, <2>8
<1>3. IInv /\ SequenceInv => OutputIsDeterministic
  BY DEF IInv, PhaseInv, SequenceInv, OutputIsDeterministic, TypeOK, N
<1>4. QED
  BY <1>1, <1>2, <1>3, Invariance, SequentialRings, PTL DEF Spec

\* A ring at least as good in both scores as one that is kept is kept, off the
\* thresholds (StrongerRingKept).
THEOREM StrongerIsKept == Spec => []StrongerRingKept
<1>1. ASSUME IInv, pc = "done", NEW r \in 1 .. N, NEW s \in 1 .. N,
             Passes(cand[s]),
             cand[r].contrast >= cand[s].contrast, cand[r].intensity >= cand[s].intensity,
             cand[r].contrast # ThldLikelihood, cand[r].intensity # ThldAzimu
      PROVE  \E m \in 1 .. Len(out) : out[m] = cand[r]
  <2>1. cand[r] \in Rings /\ cand[s] \in Rings
    BY <1>1 DEF IInv, TypeOK
  <2>2. Passes(cand[r])
    BY <1>1, <2>1, PassesMonotone
  <2>3. r < k
    BY <1>1 DEF IInv, PhaseInv, TypeOK, N
  <2>4. QED
    BY <1>1, <2>2, <2>3 DEF IInv, OutInv
<1>2. IInv => StrongerRingKept
  BY <1>1 DEF StrongerRingKept
<1>3. QED
  BY <1>2, Invariance, PTL

\* A ring is changed by the task thread alone, or by its worker
\* (RingChangedByOwner).
THEOREM OwnerChangesRing == Spec => RingChangedByOwner
<1>1. IInv /\ [Next]_vars =>
        [\A r \in 1 .. N : cand'[r] # cand[r] =>
            \/ pc = "scale" /\ pushed = 0
            \/ \E w \in Workers : job[w] = r /\ job'[w] = 0]_vars
  <2> SUFFICES ASSUME IInv, Next, NEW r \in 1 .. N, cand'[r] # cand[r]
               PROVE  \/ pc = "scale" /\ pushed = 0
                      \/ \E w \in Workers : job[w] = r /\ job'[w] = 0
    OBVIOUS
  <2>1. CASE Scale
    BY <2>1 DEF Scale, IInv, PhaseInv
  <2>2. ASSUME NEW w \in Workers, StoreRing(w)
        PROVE  job[w] = r /\ job'[w] = 0
    BY <2>2 DEF StoreRing, IInv, TypeOK
  <2>3. Scale \/ \E w \in Workers : StoreRing(w)
    BY DEF Next, Main, Worker, StartPool, Push, ClosePool, PoolFreed, Filter, Return,
           Finished, TakeJob, Search, vars
  <2>4. QED
    BY <2>1, <2>2, <2>3
<1>2. QED
  BY <1>1, Invariance, PTL DEF Spec, RingChangedByOwner

=============================================================================
