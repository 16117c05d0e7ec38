------------------------------- MODULE MCTasks -------------------------------
(***************************************************************************)
(* Single tasks, for TLC.  A behaviour is the life of one task object      *)
(* (TaskObject), or what process () of one task computes (TaskProcess).    *)
(* The other module stays in an initial state.                             *)
(***************************************************************************)
EXTENDS MCProcess, TaskObject

VARIABLE part    \* what runs: "object" or "process"

\* A part that does not run has one state.
SomeTask  == task = "log"
SomeInput == unit = "rings" /\ input = [c |-> <<0, 0>>, min_r |-> 1, more |-> 0]

MCInit ==
    \/ part = "object" /\ SomeInput /\ output = [done |-> FALSE, value |-> Unset]
                       /\ second = FALSE /\ ObjectInit
    \/ part = "process" /\ Init /\ SomeTask /\ ObjectInit

Live    == part = "object" /\ ObjectNext /\ UNCHANGED <<part, vars>>
Compute == part = "process" /\ Next /\ UNCHANGED <<part, objectVars>>

MCSpec == MCInit /\ [][Live \/ Compute]_<<part, vars, objectVars>>

=============================================================================
