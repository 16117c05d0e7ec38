----------------------------- MODULE MCHoughGraph -----------------------------
(***************************************************************************)
(* The Hough graph for TLC, seen in two ways that share nothing but the    *)
(* number of patterns: a ring's radius from the configuration to the file  *)
(* (RingRadii), and the buffers of several images in the threads and       *)
(* queues (TaskGraph).  A behaviour is one of the two; the other one stays *)
(* in an initial state.                                                    *)
(***************************************************************************)
EXTENDS RingRadii, TaskGraph

VARIABLE unit    \* "ring" or "images"

ASSUME RadiiAssumption ==
    /\ Bits \in Nat
    /\ Parameters \subseteq [start : 1 .. 2^Bits - 1, end : 1 .. 2^Bits - 1,
                             step : 1 .. 2^Bits - 1, scale : 1 .. 2]
    /\ \A p \in Parameters : p.step >= p.scale /\ p.start >= p.scale
                             /\ p.end >= p.start + p.step
    /\ Graphs \subseteq {"azimu", "candidate"}
    /\ Places \subseteq Nat /\ Shifts \subseteq Int
    /\ MaxPatterns \in Nat

\* All parameters up to 12 the properties of the tasks and the script admit.
SmallParameters ==
    {p \in [start : 1 .. 6, end : 3 .. 12, step : 1 .. 4, scale : 1 .. 2] :
        p.step >= p.scale /\ p.start >= p.scale /\ p.end >= p.start + p.step}

MCShifts == -1 .. 1

\* The unit that does not run has one state.
SomeRing ==
    /\ parm = [start |-> 2, end |-> 6, step |-> 2, scale |-> 1]
    /\ graph = "azimu" /\ cand = [x |-> 0, z |-> 0]
SomeGraph == wiring = "contrast" /\ number = 1 /\ capacity = 1

MCInit ==
    /\ Init /\ GraphInit
    /\ \/ unit = "ring" /\ SomeGraph
       \/ unit = "images" /\ SomeRing

Ring   == unit = "ring" /\ Next /\ UNCHANGED <<unit, graphVars>>
Images == unit = "images" /\ GraphNext /\ UNCHANGED <<unit, vars>>

MCSpec ==
    MCInit /\ [][Ring \/ Images]_<<unit, vars, graphVars>> /\ WF_<<unit, vars, graphVars>>(Images)

\* EveryImageWritten, in the behaviours in which the graph runs.
ImagesWritten == unit = "images" => EveryImageWritten

=============================================================================
