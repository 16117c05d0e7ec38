--------------------------- MODULE CandidateFilter ---------------------------
(***************************************************************************)
(* The candidate-filter task (src_hough/ufo-candidate-filter-task.c): it   *)
(* turns the ring number of every candidate into a radius, sorts the       *)
(* candidates by position and thins out neighbours, one pair at a time.    *)
(*                                                                         *)
(* The candidates arrive in the order in which the work-items of the       *)
(* likelihood kernel claimed their records: in any order.  A radius is     *)
(* kept in units of 1/Scale pixels, so that line 192 is exact.             *)
(***************************************************************************)
EXTENDS Integers, Sequences, Functions

CONSTANTS
    Positions,   \* the <<x, y, z>> of the Hough space a candidate may have
    Contrasts,   \* the likelihoods above the threshold
    MaxCand,     \* bound: candidates of an image
    RingStart, RingStep, Scale   \* the task's properties

ASSUME ConstantsAssumption ==
    /\ Positions \subseteq Nat \X Nat \X Nat
    /\ Contrasts \subseteq Nat \ {0}
    /\ MaxCand \in Nat
    /\ RingStart \in Nat /\ RingStep \in Nat /\ Scale \in Nat \ {0}

Window == 5     \* neighbours are at most this far apart, in x, in y and in r

VARIABLES
    pc,
    stream,    \* the records of the input buffer, in the order of the kernel
    ring,      \* the k-th element of cand_list, as it was sorted
    contrast,  \* its contrast from then on: 0 once it is filtered out
    i, j,      \* the elements `current' and `l' stand at
    out        \* the elements of the output, as indices of ring

vars == <<pc, stream, ring, contrast, i, j, out>>

Distance(a, b) == IF a < b THEN b - a ELSE a - b

\* The comparison lines 146-148 make for a pair of rings.
Near(a, b) ==
    /\ Distance(a.x, b.x) <= Window
    /\ Distance(a.y, b.y) <= Window
    /\ Distance(a.r, b.r) <= Window * Scale

Radius(z) == RingStart + RingStep * z

\* compare_func: by x, then by y.  The list keeps the order of equals.
NotAfter(a, b) == a.x < b.x \/ (a.x = b.x /\ a.y <= b.y)
Before(a, b)   == NotAfter(a, b) /\ ~NotAfter(b, a)

N == Len(stream)

Init ==
    /\ pc = "convert"
    /\ \E n \in 0 .. MaxCand :
         \E pos \in Injection(1 .. n, Positions), con \in [1 .. n -> Contrasts] :
            stream = [k \in 1 .. n |->
                        [x |-> pos[k][1], y |-> pos[k][2], r |-> pos[k][3], c |-> con[k]]]
    /\ ring = <<>> /\ contrast = <<>> /\ out = <<>>
    /\ i = 1 /\ j = 1

\* Every ring number of the input buffer becomes a radius, in place.
Convert ==
    /\ pc = "convert"
    /\ pc' = "sort"
    /\ stream' = [k \in 1 .. N |-> [stream[k] EXCEPT !.r = Radius(@)]]
    /\ UNCHANGED <<ring, contrast, i, j, out>>

\* Mutant: the list is left in the order of the kernel.
SortSkipped ==
    /\ pc = "sort"
    /\ pc' = "scan"
    /\ ring' = stream
    /\ contrast' = [k \in 1 .. N |-> stream[k].c]
    /\ i' = 1
    /\ UNCHANGED <<stream, j, out>>

\* g_list_sort: the one stable permutation that puts the list in order.
Sort ==
    /\ pc = "sort"
    /\ pc' = "scan"
    /\ \E p \in Bijection(1 .. N, 1 .. N) :
         /\ \A k, l \in 1 .. N : k < l =>
                \/ Before(stream[p[k]], stream[p[l]])
                \/ NotAfter(stream[p[k]], stream[p[l]]) /\ p[k] < p[l]
         /\ ring' = [k \in 1 .. N |-> stream[p[k]]]
         /\ contrast' = [k \in 1 .. N |-> stream[p[k]].c]
    /\ i' = 1
    /\ UNCHANGED <<stream, j, out>>

\* The outer loop moves past an element that is already filtered out ...
SkipRemoved ==
    /\ pc = "scan"
    /\ i <= N
    /\ contrast[i] = 0
    /\ i' = i + 1
    /\ UNCHANGED <<pc, stream, ring, contrast, j, out>>

\* ... and starts the inner loop at the successor of any other.
StartInner ==
    /\ pc = "scan"
    /\ i <= N
    /\ contrast[i] # 0
    /\ pc' = "compare"
    /\ j' = i + 1
    /\ UNCHANGED <<stream, ring, contrast, i, out>>

LeaveInner == pc' = "scan" /\ i' = i + 1

\* The end of the list, or more than a window ahead of ring i in x.
InnerExhausted ==
    /\ pc = "compare"
    /\ \/ j > N
       \/ j <= N /\ Distance(ring[i].x, ring[j].x) > Window
    /\ LeaveInner
    /\ UNCHANGED <<stream, ring, contrast, j, out>>

\* Mutant: the inner loop continues without moving on.
NotNearStuck ==
    /\ pc = "compare"
    /\ j <= N
    /\ Distance(ring[i].x, ring[j].x) <= Window
    /\ ~Near(ring[i], ring[j])
    /\ UNCHANGED vars

\* In reach in x but no neighbour.
NotNear ==
    /\ pc = "compare"
    /\ j <= N
    /\ Distance(ring[i].x, ring[j].x) <= Window
    /\ ~Near(ring[i], ring[j])
    /\ j' = j + 1
    /\ UNCHANGED <<pc, stream, ring, contrast, i, out>>

\* Ring i is the stronger of two neighbours: ring j goes.
RemoveLater ==
    /\ pc = "compare"
    /\ j <= N
    /\ Near(ring[i], ring[j])
    /\ contrast[i] > contrast[j]
    /\ contrast' = [contrast EXCEPT ![j] = 0]
    /\ j' = j + 1
    /\ UNCHANGED <<pc, stream, ring, i, out>>

\* Mutant: the contrasts are not compared.
RemoveCurrentAlways ==
    /\ pc = "compare"
    /\ j <= N
    /\ Near(ring[i], ring[j])
    /\ contrast' = [contrast EXCEPT ![i] = 0]
    /\ LeaveInner
    /\ UNCHANGED <<stream, ring, j, out>>

\* Mutant: of two equals both go.
RemoveCurrentAndEqual ==
    /\ pc = "compare"
    /\ j <= N
    /\ Near(ring[i], ring[j])
    /\ contrast[i] <= contrast[j]
    /\ contrast' = [contrast EXCEPT ![i] = 0,
                                    ![j] = IF @ = contrast[i] THEN 0 ELSE @]
    /\ LeaveInner
    /\ UNCHANGED <<stream, ring, j, out>>

\* Ring i is not: it goes, and its inner loop ends.
RemoveCurrent ==
    /\ pc = "compare"
    /\ j <= N
    /\ Near(ring[i], ring[j])
    /\ contrast[i] <= contrast[j]
    /\ contrast' = [contrast EXCEPT ![i] = 0]
    /\ LeaveInner
    /\ UNCHANGED <<stream, ring, j, out>>

\* The scan is over; a second loop walks the list from its start.
ScanDone ==
    /\ pc = "scan"
    /\ i > N
    /\ pc' = "unlink"
    /\ i' = 1
    /\ UNCHANGED <<stream, ring, contrast, j, out>>

\* It unlinks an element with contrast 0 ...
Unlink ==
    /\ pc = "unlink"
    /\ i <= N
    /\ contrast[i] = 0
    /\ i' = i + 1
    /\ UNCHANGED <<pc, stream, ring, contrast, j, out>>

\* ... and leaves any other, which is copied to the output.
Keep ==
    /\ pc = "unlink"
    /\ i <= N
    /\ contrast[i] # 0
    /\ out' = Append(out, i)
    /\ i' = i + 1
    /\ UNCHANGED <<pc, stream, ring, contrast, j>>

Return ==
    /\ pc = "unlink"
    /\ i > N
    /\ pc' = "done"
    /\ UNCHANGED <<stream, ring, contrast, i, j, out>>

\* process () has returned.
Finished == pc = "done" /\ UNCHANGED vars

Next ==
    \/ Convert
    \/ Sort
    \/ SkipRemoved
    \/ StartInner
    \/ InnerExhausted
    \/ NotNear
    \/ RemoveLater
    \/ RemoveCurrent
    \/ ScanDone
    \/ Unlink
    \/ Keep
    \/ Return
    \/ Finished

Spec == Init /\ [][Next]_vars
FairSpec == Spec /\ WF_vars(Next)

-----------------------------------------------------------------------------
(* Properties. *)

Rings == [x : Nat, y : Nat, r : Nat, c : Contrasts]

TypeOK ==
    /\ pc \in {"convert", "sort", "scan", "compare", "unlink", "done"}
    /\ stream \in Seq(Rings)
    /\ ring \in Seq(Rings)
    /\ contrast \in Seq(Contrasts \cup {0})
    /\ i \in 1 .. N + 1
    /\ j \in 1 .. N + 1
    /\ out \in Seq(1 .. N)

Sorted == pc \in {"scan", "compare", "unlink", "done"}
Kept   == Range(out)

\* Ring k is stronger than each of its neighbours.
Neighbours(k) == {l \in 1 .. N \ {k} : Near(ring[k], ring[l])}
StrictPeak(k) == \A l \in Neighbours(k) : ring[l].c < ring[k].c

\* The pairwise scan, which stops early in x and abandons a ring as soon as it
\* is beaten, leaves no two neighbours in the list (lines 141-156).
SurvivorsApart ==
    pc = "done" =>
        \A k, l \in Kept : k # l => ~Near(ring[k], ring[l])

\* A ring stronger than all its neighbours is never lost.
StrictPeaksSurvive ==
    /\ Sorted => \A k \in 1 .. N : StrictPeak(k) => contrast[k] = ring[k].c
    /\ pc = "done" => \A k \in 1 .. N : StrictPeak(k) => k \in Kept

\* A ring is filtered out only because of a neighbour at least as strong --
\* which may itself be filtered out later.
RemovedForAReason ==
    Sorted => \A k \in 1 .. N : contrast[k] = 0 =>
        \E l \in Neighbours(k) : ring[l].c >= ring[k].c

\* No candidate is lost without a trace: some survivor is at least as strong,
\* ties or not.  So an image with candidates keeps one of its strongest.
StrongestSurvives ==
    pc = "done" => \A l \in 1 .. N : \E k \in Kept : ring[k].c >= ring[l].c

\* The scan ends for every list.
Terminates == <>(pc = "done")

=============================================================================
