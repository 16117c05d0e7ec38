------------------------------ MODULE RingRadii ------------------------------
(***************************************************************************)
(* The radius of a ring on its way through the Hough graph: the script     *)
(* configures the pattern generator and the candidate filter from the same *)
(* parameters (bin/piv-hough.py), the generator emits one pattern per      *)
(* radius (src_hough/ufo-ring-pattern-task.c), a ring found in slice z of  *)
(* the stack of patterns becomes a candidate numbered z, candidate-filter  *)
(* turns z back into a radius, azimuthal-test and ring-writer turn that    *)
(* into pixels of the full image.  Nothing but these conventions ties the  *)
(* number in the file to the pattern that found the ring.                  *)
(*                                                                         *)
(* Half pixels make a division by a scale of two exact.  Pixels of the     *)
(* patterns, scores, and rings that a task drops are left out.             *)
(***************************************************************************)
EXTENDS Integers, Sequences

CONSTANTS
    Parameters,     \* [start, end, step, scale] of the configuration files
    Graphs,         \* "azimu" and "candidate", of piv-test.py
    Places,         \* x of a candidate in the reduced image
    Shifts,         \* how far azimuthal-test moves a ring, in pixels
    Bits,           \* width of `unsigned'
    MaxPatterns     \* bound: patterns observed of one generator

VARIABLES
    pc,
    parm,      \* the parameters of the configuration file
    graph,     \* the graph that is run
    todo,      \* properties of the generator not yet set
    task,      \* UfoRingPatternTaskPrivate
    radii,     \* the radii of the patterns generated, in order
    cand,      \* where and in which slice a ring is found
    stream,    \* the candidate as it passes from task to task
    shift,     \* how azimuthal-test moved it
    line       \* what is printed, in half pixels

vars == <<pc, parm, graph, todo, task, radii, cand, stream, shift, line>>

Setters == {"start", "end", "step"}

\* load_filters: the number of slices of the stack.
RingNumber == (parm.end - parm.start) \div parm.step

\* load_filters: the generator works on the reduced image.
Reduced(f) == parm[f] \div parm.scale

Init ==
    /\ pc = "configure"
    /\ parm \in Parameters
    /\ graph \in Graphs
    /\ todo = Setters
    /\ task = [start |-> 5, end |-> 5, current |-> 5, step |-> 2]
    /\ radii = <<>>
    /\ cand \in [x : Places, z : 0 .. RingNumber - 1]
    /\ stream = <<>> /\ shift = 0 /\ line = <<>>

\* Mutant: the setter of start leaves ring_current where init put it.
SetStartOnly(f) ==
    /\ pc = "configure"
    /\ f \in todo
    /\ todo' = todo \ {f}
    /\ task' = [task EXCEPT ![f] = Reduced(f)]
    /\ UNCHANGED <<pc, parm, graph, radii, cand, stream, shift, line>>

\* set_properties (**prop) goes through a dictionary: in any order.
SetProperty(f) ==
    /\ pc = "configure"
    /\ f \in todo
    /\ todo' = todo \ {f}
    /\ task' = IF f = "start"
                 THEN [task EXCEPT !.start = Reduced(f), !.current = Reduced(f)]
                 ELSE [task EXCEPT ![f] = Reduced(f)]
    /\ UNCHANGED <<pc, parm, graph, radii, cand, stream, shift, line>>

Run ==
    /\ pc = "configure"
    /\ todo = {}
    /\ pc' = "generate"
    /\ UNCHANGED <<parm, graph, todo, task, radii, cand, stream, shift, line>>

\* Mutant: the step is added twice.
GenerateEverySecond ==
    /\ pc = "generate"
    /\ task.current <= task.end
    /\ Len(radii) < MaxPatterns
    /\ radii' = Append(radii, task.current)
    /\ task' = [task EXCEPT !.current = (@ + 2 * task.step) % 2^Bits]
    /\ UNCHANGED <<pc, parm, graph, todo, cand, stream, shift, line>>

\* generate (): a pattern of radius ring_current, then ring_current moves on.
Generate ==
    /\ pc = "generate"
    /\ task.current <= task.end
    /\ Len(radii) < MaxPatterns
    /\ radii' = Append(radii, task.current)
    /\ task' = [task EXCEPT !.current = (@ + task.step) % 2^Bits]
    /\ UNCHANGED <<pc, parm, graph, todo, cand, stream, shift, line>>

\* generate () returns FALSE.
Exhausted ==
    /\ pc = "generate"
    /\ task.current > task.end
    /\ pc' = "detect"
    /\ UNCHANGED <<parm, graph, todo, task, radii, cand, stream, shift, line>>

\* The likelihood kernel finds a ring; z is its slice of the stack.  The scale
\* of its stream, output[1], is never written.
Detect ==
    /\ pc = "detect"
    /\ pc' = "filter"
    /\ stream' = [x |-> 2 * cand.x, r |-> 2 * cand.z, scale |-> 0]
    /\ UNCHANGED <<parm, graph, todo, task, radii, cand, shift, line>>

\* candidate-filter: ring numbers become radii, and the scale is announced.
Convert ==
    /\ pc = "filter"
    /\ pc' = graph
    /\ stream' = [stream EXCEPT
                    !.r = (2 * parm.start + parm.step * @) \div parm.scale,
                    !.scale = parm.scale]
    /\ UNCHANGED <<parm, graph, todo, task, radii, cand, shift, line>>

\* Mutant: the scale is passed on as it came.
AzimuthalKeepsScale ==
    LET factor == IF stream.scale = 2 THEN 2 ELSE 1 IN
    /\ pc = "azimu"
    /\ pc' = "candidate"
    /\ shift' \in Shifts
    /\ stream' = [x |-> factor * stream.x + 2 * shift', r |-> factor * stream.r + 2 * shift',
                  scale |-> stream.scale]
    /\ UNCHANGED <<parm, graph, todo, task, radii, cand, line>>

\* azimuthal-test: a scale of two is applied, the ring may move, and from here
\* on the stream is in pixels of the full image.
Azimuthal ==
    LET factor == IF stream.scale = 2 THEN 2 ELSE 1 IN
    /\ pc = "azimu"
    /\ pc' = "candidate"
    /\ shift' \in Shifts
    /\ stream' = [x |-> factor * stream.x + 2 * shift', r |-> factor * stream.r + 2 * shift',
                  scale |-> 1]
    /\ UNCHANGED <<parm, graph, todo, task, radii, cand, line>>

\* ring-writer: a scale of zero means two.
Write ==
    LET scale == IF stream.scale = 0 THEN 2 ELSE stream.scale IN
    /\ pc = "candidate"
    /\ pc' = "written"
    /\ line' = [x |-> stream.x * scale, r |-> stream.r * scale]
    /\ UNCHANGED <<parm, graph, todo, task, radii, cand, stream, shift>>

Finished == pc = "written" /\ UNCHANGED vars

Next ==
    \/ \E f \in Setters : SetProperty(f)
    \/ Run
    \/ Generate
    \/ Exhausted
    \/ Detect
    \/ Convert
    \/ Azimuthal
    \/ Write
    \/ Finished

Spec == Init /\ [][Next]_vars

-----------------------------------------------------------------------------
(* Properties. *)

\* "give starting radius size", "give ending radius size" (ring-pattern, lines
\* 300-319): in whatever order the properties are set, the patterns go from
\* start in steps to end, and no further.
RadiiExact ==
    /\ \A n \in 1 .. Len(radii) :
         /\ radii[n] = Reduced("start") + (n - 1) * Reduced("step")
         /\ radii[n] <= Reduced("end")
    /\ pc \notin {"configure", "generate"} =>
         Reduced("start") + Len(radii) * Reduced("step") > Reduced("end")

\* The generator, which divides each parameter by the scale, makes at least as
\* many patterns as the script, which does not, tells the stack to wait for
\* (piv-hough.py 44 and 99).  The stack of the first image is always filled.
StackIsFilled ==
    pc \notin {"configure", "generate"} => Len(radii) >= RingNumber

\* The scale divides the radii, as in hough_SampleA and hough_SampleB.
Aligned == parm.start % parm.scale = 0 /\ parm.step % parm.scale = 0

RadiusOfPattern == 2 * parm.scale * radii[cand.z + 1]

\* In every graph and for either scale the file has the ring in pixels of the
\* full image: where it was found, and with the radius of its pattern.
LineIsTheRing ==
    pc = "written" =>
        /\ line.x = 2 * (parm.scale * cand.x + shift)
        /\ Aligned => line.r = RadiusOfPattern + 2 * shift

\* The radius in the file is that of the pattern -- for the default data set
\* hough_SampleC, whose ring_start is odd, too.
RadiusIsPattern ==
    pc = "written" => line.r = RadiusOfPattern + 2 * shift

=============================================================================
