--------------------------- MODULE MCAzimuthalTest ---------------------------
(* An instance of AzimuthalTest for TLC. *)
EXTENDS AzimuthalTest

\* A search that finds nothing is None; the others move the ring and measure
\* an intensity below, on, and above once and twice the threshold 2.
MCFindings == {[shift |-> 1, snr |-> n] : n \in {-1, 2, 3, 5}}

\* Up to MaxCand rings with one likelihood in an image with one strong and one
\* weak response, to interleave the workers; and up to two rings with scores
\* below, on and above both thresholds, at the scale that is not applied, to
\* exercise the filter.
ManyRings ==
    /\ \A r \in 1 .. N : given[r].contrast = 3
    /\ \A x \in DOMAIN image : image[x] # None => image[x].snr \in {-1, 5}
EdgeScores == N <= 2 /\ scale = 1

MCInit == Init /\ (ManyRings \/ EdgeScores)

\* Init, and with it Spec, are restricted to these initial states; the actions
\* and the fairness are those of the specification.
MCSpec == MCInit /\ [][Next]_vars /\ Fairness

=============================================================================
