----------------------------- MODULE CombineTest -----------------------------
(***************************************************************************)
(* The combine-test task (src_hough/ufo-combine-test-task.c): keeps, of a  *)
(* stack of detections, those that a neighbouring plane of the stack has   *)
(* at the same pixel.  The stack is one flat array, plane after plane, and *)
(* a value above 0 is TRUE.  The kernel `combine' is loaded by nobody.     *)
(***************************************************************************)
EXTENDS Integers, Sequences

CONSTANT PlaneSize      \* mem_size_p: pixels of a plane

Pixels == 0 .. PlaneSize - 1

and_op(mem, i, k) == [p \in Pixels |-> mem[i * PlaneSize + p] /\ mem[k * PlaneSize + p]]

or_op(u, v) == [p \in Pixels |-> u[p] \/ v[p]]

\* Mutant: what a plane shares with the one before it is not carried on.
CombinePlaneStale(mem, s, i) ==
    LET tmp2 == and_op(mem, i, i + 1)
    IN  [out |-> Append(s.out, or_op(s.tmp1, tmp2)), tmp1 |-> s.tmp1]

\* One round of the loop: tmp1 is what plane i shares with the one before it.
CombinePlane(mem, s, i) ==
    LET tmp2 == and_op(mem, i, i + 1)
    IN  [out |-> Append(s.out, or_op(s.tmp1, tmp2)), tmp1 |-> tmp2]

\* process, for a stack of two planes or more: with fewer the first and_op
\* already reads past the input.  Loop[i]: after round i.
Combined(mem, planes) ==
    LET first == and_op(mem, 0, 1)
        Loop[i \in 0 .. planes - 2] ==
            IF i = 0 THEN [out |-> <<first>>, tmp1 |-> first]
            ELSE CombinePlane(mem, Loop[i - 1], i)
        last  == Loop[planes - 2]
    IN  Append(last.out, last.tmp1)

-----------------------------------------------------------------------------

\* A pixel is on in plane i of the output exactly if it is on in plane i of the
\* input and in the one before or the one after, be plane i the first, the last
\* or between (lines 122-141).
CombineExact(mem, planes, out) ==
    LET On(i, p) == i \in 0 .. planes - 1 /\ mem[i * PlaneSize + p]
    IN  /\ Len(out) = planes
        /\ \A i \in 0 .. planes - 1, p \in Pixels :
              out[i + 1][p] <=> On(i, p) /\ (On(i - 1, p) \/ On(i + 1, p))

=============================================================================
