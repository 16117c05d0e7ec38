----------------------------- MODULE MCRingRadii -----------------------------
(* The default data set for TLC; the other instances are in MCHoughGraph. *)
EXTENDS RingRadii

MCShifts == -1 .. 1

\* hough_SampleC.cfg with fewer rings.
SampleC == {[start |-> 5, end |-> 12, step |-> 2, scale |-> 2]}

=============================================================================
