------------------------------ MODULE MCResults ------------------------------
(***************************************************************************)
(* The two tasks that handle rings image by image, GetDupCirc and          *)
(* ConcatenateResult, for TLC.  No script of the repository connects them: *)
(* a behaviour runs one of them, and the other stays in an initial state.  *)
(***************************************************************************)
EXTENDS MCGetDupCirc, ConcatenateResult

VARIABLE unit    \* the task that runs: "merge" or "collect"

ASSUME CollectAssumption ==
    /\ Images \subseteq Nat /\ Counts \subseteq Nat /\ RingCounts \subseteq Nat
    /\ MaxCount \in Nat \ {0} /\ FirstRoom \in Nat /\ MaxResults \in Nat

MCInit ==
    /\ Init /\ CollectInit
    /\ \/ unit = "merge"
       \/ unit = "collect" /\ given = <<>>

Merge   == unit = "merge" /\ Next /\ UNCHANGED <<unit, collectVars>>
Collect == unit = "collect" /\ CollectNext /\ UNCHANGED <<unit, vars>>

MCSpec == MCInit /\ [][Merge \/ Collect]_<<unit, vars, collectVars>> /\ WF_<<unit, vars, collectVars>>(Merge)

\* Terminates of GetDupCirc, in the behaviours in which it runs.
MergeTerminates == unit = "merge" => Terminates

=============================================================================
