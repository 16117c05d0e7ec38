---------------------------- MODULE AzimuthalTest ----------------------------
(***************************************************************************)
(* The azimuthal-test task (src_hough/ufo-azimuthal-test-task.c): the task *)
(* thread scales the candidate rings in place, pushes one job per ring     *)
(* into a GThreadPool of its own, waits for the pool, and then filters the *)
(* rings by their two scores.  A job (gaussian_thread) reads its ring and  *)
(* may overwrite it with a better one.                                     *)
(*                                                                         *)
(* A ring's x, y and r are one number here; what a job finds in the image  *)
(* at a position is chosen once per image.  The pool's queue is first-in   *)
(* first-out over jobs pushed in the order 1, 2, ...: two counters.        *)
(***************************************************************************)
EXTENDS Integers, Sequences

CONSTANTS
    Workers,       \* the threads of the pool, priv->thread of them
    Places,        \* positions of candidate rings before scaling
    Contrasts,     \* their likelihoods
    Findings,      \* [shift, snr]: an averaged ring a job may find
    Scales,        \* the scale candidate-filter may write into the stream
    MaxCand,       \* bound: candidates of an image
    ThldLikelihood, ThldAzimu,   \* the task's properties
    None           \* no finding; no ring

ASSUME ConstantsAssumption ==
    /\ Workers # {}
    /\ Places \subseteq Nat
    /\ Contrasts \subseteq Nat
    /\ Findings \subseteq [shift : Int, snr : Int]
    /\ Scales \subseteq Nat
    /\ MaxCand \in Nat
    /\ ThldLikelihood \in Nat /\ ThldAzimu \in Nat

Rings == [x : Int, contrast : Nat, intensity : Int]

ASSUME NoneAssumption == None \notin Findings /\ None \notin Rings

VARIABLES
    pc,       \* where process () is
    given,    \* the candidate stream as it came in
    scale,    \* cand_stream[1]
    image,    \* position -> what the azimuthal search finds there
    cand,     \* cand[]: the rings, updated in place
    k,        \* loop index of process ()
    pushed,   \* jobs 1 .. pushed have been given to the pool
    taken,    \* jobs 1 .. taken have been handed to a worker
    closed,   \* g_thread_pool_free has been called
    job,      \* the ring a worker works on
    found,    \* the ring0 a worker has computed and not yet stored
    out       \* rings[0 .. num - 1] of the output

vars == <<pc, given, scale, image, cand, k, pushed, taken, closed, job, found, out>>
pool == <<pushed, taken, closed, job, found>>

N == Len(given)

\* Lines 404-409: only a scale of two is applied.
ScaleRing(r) == IF scale = 2 THEN [r EXCEPT !.x = 2 * @] ELSE r

\* Lines 371-377: a job that finds nothing near the ring leaves it alone,
\* with the intensity the likelihood kernel gave it.
Improve(r) ==
    IF image[r.x] = None THEN r
    ELSE [x |-> r.x + image[r.x].shift, contrast |-> r.contrast,
          intensity |-> image[r.x].snr]

\* Mutant: a strong likelihood does not lower the bar for the intensity.
PassesTwice(r) ==
    \/ r.contrast > ThldLikelihood /\ r.intensity > 2 * ThldAzimu
    \/ r.contrast < ThldLikelihood /\ r.intensity > 2 * ThldAzimu
    \/ r.intensity < ThldAzimu /\ r.contrast > 2 * ThldLikelihood

\* The condition of lines 433-438.
Passes(r) ==
    \/ r.contrast > ThldLikelihood /\ r.intensity > ThldAzimu
    \/ r.contrast < ThldLikelihood /\ r.intensity > 2 * ThldAzimu
    \/ r.intensity < ThldAzimu /\ r.contrast > 2 * ThldLikelihood

\* Where a ring may be once it is scaled.
Positions == {IF s = 2 THEN 2 * x ELSE x : x \in Places, s \in Scales}

\* A ring as the likelihood kernel writes it, with intensity 1 (hough.cl 120).
GivenRings == [x : Places, contrast : Contrasts, intensity : {1}]

Init ==
    /\ pc = "scale"
    /\ \E n \in 0 .. MaxCand : given \in [1 .. n -> GivenRings]
    /\ scale \in Scales
    /\ image \in [Positions -> Findings \cup {None}]
    /\ cand = given
    /\ k = 1
    /\ pushed = 0 /\ taken = 0 /\ closed = FALSE
    /\ job = [w \in Workers |-> 0]
    /\ found = [w \in Workers |-> None]
    /\ out = <<>>

-----------------------------------------------------------------------------
(* The task thread. *)

Scale ==
    /\ pc = "scale"
    /\ k <= N
    /\ cand' = [cand EXCEPT ![k] = ScaleRing(@)]
    /\ k' = k + 1
    /\ UNCHANGED <<pc, given, scale, image, pool, out>>

StartPool ==
    /\ pc = "scale"
    /\ k > N
    /\ pc' = "push"
    /\ k' = 1
    /\ UNCHANGED <<given, scale, image, cand, pool, out>>

Push ==
    /\ pc = "push"
    /\ k <= N
    /\ pushed' = k
    /\ k' = k + 1
    /\ UNCHANGED <<pc, given, scale, image, cand, taken, closed, job, found, out>>

\* g_thread_pool_free (pool, FALSE, TRUE): no more jobs ...
ClosePool ==
    /\ pc = "push"
    /\ k > N
    /\ pc' = "wait"
    /\ closed' = TRUE
    /\ UNCHANGED <<given, scale, image, cand, k, pushed, taken, job, found, out>>

\* ... and it returns when the queued jobs are done and every worker is idle.
Drained == taken = pushed /\ \A w \in Workers : job[w] = 0

\* Mutant: g_thread_pool_free (pool, FALSE, FALSE).
PoolFreedWithoutWait ==
    /\ pc = "wait"
    /\ pc' = "filter"
    /\ k' = 1
    /\ UNCHANGED <<given, scale, image, cand, pool, out>>

PoolFreed ==
    /\ pc = "wait"
    /\ Drained
    /\ pc' = "filter"
    /\ k' = 1
    /\ UNCHANGED <<given, scale, image, cand, pool, out>>

\* Mutant: the output is built from the front.
FilterPrepends ==
    /\ pc = "filter"
    /\ k <= N
    /\ out' = IF Passes(cand[k]) THEN <<cand[k]>> \o out ELSE out
    /\ k' = k + 1
    /\ UNCHANGED <<pc, given, scale, image, cand, pool>>

Filter ==
    /\ pc = "filter"
    /\ k <= N
    /\ out' = IF Passes(cand[k]) THEN Append(out, cand[k]) ELSE out
    /\ k' = k + 1
    /\ UNCHANGED <<pc, given, scale, image, cand, pool>>

Return ==
    /\ pc = "filter"
    /\ k > N
    /\ pc' = "done"
    /\ UNCHANGED <<given, scale, image, cand, k, pool, out>>

Finished == pc = "done" /\ UNCHANGED vars

Main == Scale \/ StartPool \/ Push \/ ClosePool \/ PoolFreed \/ Filter \/ Return

-----------------------------------------------------------------------------
(* The workers. *)

TakeJob(w) ==
    /\ job[w] = 0
    /\ taken < pushed
    /\ taken' = taken + 1
    /\ job' = [job EXCEPT ![w] = taken + 1]
    /\ UNCHANGED <<pc, given, scale, image, cand, k, pushed, closed, found, out>>

\* Mutant: a search without a result is repeated.
SearchUntilFound(w) ==
    /\ job[w] # 0
    /\ found[w] = None
    /\ found' = IF image[cand[job[w]].x] = None THEN found
                ELSE [found EXCEPT ![w] = Improve(cand[job[w]])]
    /\ UNCHANGED <<pc, given, scale, image, cand, k, pushed, taken, closed, job, out>>

\* gaussian_thread reads the ring and searches the image around it.
Search(w) ==
    /\ job[w] # 0
    /\ found[w] = None
    /\ found' = [found EXCEPT ![w] = Improve(cand[job[w]])]
    /\ UNCHANGED <<pc, given, scale, image, cand, k, pushed, taken, closed, job, out>>

\* *ring = ring0, and the thread is ready for the next job.
StoreRing(w) ==
    /\ job[w] # 0
    /\ found[w] # None
    /\ cand' = [cand EXCEPT ![job[w]] = found[w]]
    /\ job' = [job EXCEPT ![w] = 0]
    /\ found' = [found EXCEPT ![w] = None]
    /\ UNCHANGED <<pc, given, scale, image, k, pushed, taken, closed, out>>

Worker(w) == TakeJob(w) \/ Search(w) \/ StoreRing(w)

Next == Main \/ (\E w \in Workers : Worker(w)) \/ Finished

Spec == Init /\ [][Next]_vars

\* The task thread and the threads of the pool are operating system threads;
\* a worker with a job finishes it.  That some worker takes a waiting job is
\* the pool's promise, whichever it is.
Fairness ==
    /\ WF_vars(Main)
    /\ WF_vars(\E w \in Workers : TakeJob(w))
    /\ \A w \in Workers : WF_vars(Search(w) \/ StoreRing(w))
FairSpec == Spec /\ Fairness

-----------------------------------------------------------------------------
(* Properties. *)

TypeOK ==
    /\ pc \in {"scale", "push", "wait", "filter", "done"}
    /\ given \in Seq(GivenRings)
    /\ scale \in Scales
    /\ image \in [Positions -> Findings \cup {None}]
    /\ cand \in [1 .. N -> Rings]
    /\ k \in 1 .. N + 1
    /\ pushed \in 0 .. N
    /\ taken \in 0 .. pushed
    /\ closed \in BOOLEAN
    /\ job \in [Workers -> 0 .. taken]
    /\ found \in [Workers -> Rings \cup {None}]
    /\ out \in Seq(Rings)

Scaled(r) == ScaleRing(given[r])
Tested(r) == Improve(Scaled(r))

\* No two workers ever hold the same ring.
OneWorkerPerRing ==
    \A v, w \in Workers : job[v] = job[w] /\ job[v] # 0 => v = w

\* The filter never looks at a ring while a job may still overwrite it: when
\* process () is past g_thread_pool_free the pool holds nothing (line 426).
PoolDrainedBeforeFilter ==
    pc \in {"filter", "done"} => closed /\ taken = N /\ Drained

\* Every ring is scaled once and searched once, from its scaled position, in
\* spite of the in-place updates: whatever the workers' order, the rings the
\* filter reads are the image of the stream under scale and search.
FilterReadsTestedRings ==
    pc \in {"filter", "done"} => \A r \in 1 .. N : cand[r] = Tested(r)

\* The rings a sequential pass keeps of the first n, in the order of the stream.
Kept[n \in 0 .. N] ==
    IF n = 0 THEN <<>>
    ELSE IF Passes(Tested(n)) THEN Append(Kept[n - 1], Tested(n))
    ELSE Kept[n - 1]

\* What process () returns does not depend on the interleaving: the passing
\* rings in the order of the stream.
OutputIsDeterministic == pc = "done" => out = Kept[N]

\* A ring is changed only by the task thread before there is a pool, or by
\* the one worker it was handed to.
RingChangedByOwner ==
    [][\A r \in 1 .. N : cand'[r] # cand[r] =>
          \/ pc = "scale" /\ pushed = 0
          \/ \E w \in Workers : job[w] = r /\ job'[w] = 0]_vars

\* The three-way condition keeps a ring that is at least as good in both
\* scores as one it keeps -- except on the thresholds themselves, which none
\* of its three cases includes (lines 433-438).
StrongerRingKept ==
    pc = "done" =>
        \A r, s \in 1 .. N :
            /\ Passes(cand[s])
            /\ cand[r].contrast >= cand[s].contrast
            /\ cand[r].intensity >= cand[s].intensity
            /\ cand[r].contrast # ThldLikelihood
            /\ cand[r].intensity # ThldAzimu
            => \E m \in 1 .. Len(out) : out[m] = cand[r]

\* process () returns, for any number of rings and of workers.
Returns == <>(pc = "done")

=============================================================================
