-------------------------- MODULE MCCandidateFilter --------------------------
(* Instances of CandidateFilter for TLC: coordinates that are a window apart *)
(* (0 and 5), just outside it (0 and 6) and chained (0, 5, 6).               *)
EXTENDS CandidateFilter

MCPositions == {0, 5, 6} \X {0, 6} \X {0, 6}

\* Four pixels in a line, each in reach of the next, at two ring numbers.
LinePositions == {0, 4, 8, 12} \X {0} \X {0, 4}

=============================================================================
