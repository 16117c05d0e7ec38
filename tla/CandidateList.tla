---------------------------- MODULE CandidateList ----------------------------
(***************************************************************************)
(* What the tasks after hough-likelihood rely on: for every image the      *)
(* likelihood task hands over the list of all its candidates, each once,   *)
(* in no particular order -- or, when there are more than the output has   *)
(* room for, a list nobody may read.  HoughLikelihood implements this.     *)
(***************************************************************************)
EXTENDS Integers, FiniteSets, Functions

CONSTANTS Pixels, MaxCand, MaxImages

Overflow == "overflow"

VARIABLES
    image,   \* number of the image being processed
    busy,    \* process () is working on it
    hot,     \* its pixels above the threshold
    list     \* 1 .. number of candidates -> candidate

vars == <<image, busy, hot, list>>

Init == image = 0 /\ ~busy /\ hot = {} /\ list = <<>>

Take ==
    /\ ~busy
    /\ image < MaxImages
    /\ image' = image + 1
    /\ busy' = TRUE
    /\ hot' \in SUBSET Pixels
    /\ list' = <<>>

Deliver ==
    /\ busy
    /\ busy' = FALSE
    /\ IF Cardinality(hot) <= MaxCand
         THEN list' \in Bijection(1 .. Cardinality(hot), hot)
         ELSE list' = Overflow
    /\ UNCHANGED <<image, hot>>

Next == Take \/ Deliver

Spec == Init /\ [][Next]_vars
FairSpec == Spec /\ WF_vars(Next)

=============================================================================
