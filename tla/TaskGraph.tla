------------------------------ MODULE TaskGraph ------------------------------
(***************************************************************************)
(* The task graphs of bin/piv-hough.py (which is "azimu" here) and         *)
(* bin/piv-test.py, wired with branch and merge_branch of                  *)
(* upiv/ufo_extension.py, and run: every task has a thread and a bounded   *)
(* queue per input.  The scheduler and the tasks of ufo-filters (read,     *)
(* crop, rescale, fft, stack, loop, write and the copy task) are not in    *)
(* the repository: they are modelled as the scripts use them.              *)
(*                                                                         *)
(* A buffer is the set of the images it was computed from and its number   *)
(* of dimensions.  What the tasks declare of their inputs and outputs is   *)
(* read from TaskTable.                                                    *)
(***************************************************************************)
EXTENDS TaskTable, Sequences, FiniteSets

CONSTANTS
    Wirings,      \* the graphs of piv-test.py to look at
    Numbers,      \* parms.number: images to read
    Patterns,     \* patterns the generator makes
    StackSize,    \* parms.ring_number: patterns of a stack
    Capacities    \* buffers a queue may hold

\* As many patterns as RingRadii shows there are (StackIsFilled), or more.
ASSUME GraphAssumption ==
    /\ Wirings \subseteq {"azimu", "azimu2", "candidate", "likelihood", "hough", "contrast"}
    /\ Numbers \subseteq Nat \ {0} /\ Capacities \subseteq Nat \ {0}
    /\ StackSize \in Nat \ {0} /\ Patterns \in StackSize .. 2 * StackSize - 1

VARIABLES
    wiring, number,   \* the graph, and how many images
    capacity,         \* of every queue
    queue,            \* the input queues, by edge
    state,            \* of each task: "input", "output", "stopped"
    held,             \* what a generator or reductor still has to make, or has
    written           \* what reached the sink, in order

graphVars == <<wiring, number, capacity, queue, state, held, written>>

-----------------------------------------------------------------------------
(* upiv/ufo_extension.py. *)

\* branch and _connect_branch: a chain, into port 0 of each task.
Branch(b) == {<<b[i], b[i + 1], 0>> : i \in 1 .. Len(b) - 1}

\* Mutant: the two branches are connected the other way round.
MergeSwapped(b1, b2, b3) ==
    Branch(b1) \cup Branch(b2) \cup Branch(b3)
        \cup {<<b1[Len(b1)], b3[1], 1>>, <<b2[Len(b2)], b3[1], 0>>}

\* merge_branch: the ends of two branches are the inputs of a third.
MergeBranch(b1, b2, b3) ==
    Branch(b1) \cup Branch(b2) \cup Branch(b3)
        \cup {<<b1[Len(b1)], b3[1], 0>>, <<b2[Len(b2)], b3[1], 1>>}

-----------------------------------------------------------------------------
(* The scripts. *)

InputBranch    == <<"read", "crop", "contrast", "rescale", "input_fft">>
RingBranch     == <<"ring_pattern", "ring_stack", "ring_fft", "ring_loop">>
Candidates     == <<"ring_convolution", "ifft", "likelihood", "cand">>
Test           == <<"azimu", "ring_writer">>

\* Edges of a graph, <<from, to, port>>; setup_graph by its flag.
EdgesOf == [
    azimu |->
        MergeBranch(<<"read", "crop", "contrast", "bc_image", "rescale", "input_fft">>, RingBranch, Candidates)
            \cup MergeBranch(<<"bc_image">>, Candidates, Test),
    azimu2 |->
        MergeBranch(<<"read", "crop", "bc_image", "contrast", "rescale", "input_fft">>, RingBranch, Candidates)
            \cup MergeBranch(<<"bc_image">>, Candidates, Test),
    candidate |-> MergeBranch(InputBranch, RingBranch, Candidates \o <<"ring_writer">>),
    likelihood |->
        MergeBranch(InputBranch, RingBranch, <<"ring_convolution", "ifft", "likelihood_image", "write">>),
    hough |-> MergeBranch(InputBranch, RingBranch, <<"ring_convolution", "ifft", "write">>),
    contrast |-> Branch(<<"read", "crop", "contrast", "write">>)]

\* add_task, get_task: the plugin behind a name, and its interface.
Interface == [
    contrast         |-> PivContrastInterface,
    ring_pattern     |-> RingPatternInterface,
    ring_convolution |-> ComplexMultInterface,
    likelihood       |-> HoughLikelihoodInterface,
    likelihood_image |-> HoughLikelihoodImageInterface,
    cand             |-> CandidateFilterInterface,
    azimu            |-> AzimuthalTestInterface,
    ring_writer      |-> RingWriterInterface,
    read             |-> Generator(Dims(2)),
    crop             |-> Processor(<<2>>, Like(1)),
    bc_image         |-> Processor(<<AnyDim>>, Like(1)),
    rescale          |-> Processor(<<2>>, Like(1)),
    input_fft        |-> Processor(<<AnyDim>>, Like(1)),
    ring_fft         |-> Processor(<<AnyDim>>, Like(1)),
    ifft             |-> Processor(<<AnyDim>>, Like(1)),
    ring_stack       |-> Reductor(<<2>>, Dims(3)),
    ring_loop        |-> Reductor(<<AnyDim>>, Like(1)),
    write            |-> Sink(<<AnyDim>>)]

Edges == EdgesOf[wiring]
Nodes == {e[1] : e \in Edges} \cup {e[2] : e \in Edges}
In(n)  == {e \in Edges : e[2] = n}
Out(n) == {e \in Edges : e[1] = n}
Mode(n) == Interface[n].mode

-----------------------------------------------------------------------------

End == [images |-> {}, dims |-> -2]     \* the last buffer of a queue

\* Mutant: the stack of patterns is repeated once too few.
InitialShort(n) ==
    CASE n = "read" -> number
      [] n = "ring_pattern" -> Patterns
      [] n = "ring_loop" -> number - 1
      [] OTHER -> 0

\* What a generator will make; what a loop will repeat (count = parms.number).
Initial(n) ==
    CASE n = "read" -> number
      [] n = "ring_pattern" -> Patterns
      [] n = "ring_loop" -> number
      [] OTHER -> 0

GraphInit ==
    /\ wiring \in Wirings /\ number \in Numbers /\ capacity \in Capacities
    /\ queue = [e \in Edges |-> <<>>]
    /\ state = [n \in Nodes |-> IF Mode(n) = "generator" THEN "output" ELSE "input"]
    /\ held = [n \in Nodes |-> Initial(n)]
    /\ written = <<>>

Room(n) == \A e \in Out(n) : Len(queue[e]) < capacity

\* One buffer off every input queue, and one into every output queue.
Moved(taken, n, b) ==
    [e \in Edges |->
        IF e \in taken THEN Tail(queue[e])
        ELSE IF e \in Out(n) THEN Append(queue[e], b)
        ELSE queue[e]]

Ready(n) == \A e \in In(n) : queue[e] # <<>>
Front(n) == {Head(queue[e]) : e \in In(n)}

\* The buffer at a port of a task.
At(n, port) == Head(queue[CHOOSE e \in In(n) : e[3] = port])

OutputOf(n) ==
    [images |-> UNION {b.images : b \in Front(n)},
     dims |-> LET out == Interface[n].output
              IN  IF out.like = 0 THEN out.dims ELSE At(n, out.like - 1).dims]

\* Mutant: the buffer of the first input is used again for the next round.
ProcessKeepsFirst(n) ==
    /\ Mode(n) = "processor" /\ state[n] = "input"
    /\ Ready(n) /\ End \notin Front(n) /\ Room(n)
    /\ queue' = Moved({e \in In(n) : e[3] = 1 \/ Len(queue[e]) > 1 \/ Cardinality(In(n)) = 1},
                      n, OutputOf(n))
    /\ UNCHANGED <<wiring, number, capacity, state, held, written>>

\* A processor takes a buffer from each input and makes one.
Process(n) ==
    /\ Mode(n) = "processor" /\ state[n] = "input"
    /\ Ready(n) /\ End \notin Front(n) /\ Room(n)
    /\ queue' = Moved(In(n), n, OutputOf(n))
    /\ UNCHANGED <<wiring, number, capacity, state, held, written>>

\* read: the images in order; ring_pattern: see RingRadii.
Produce(n) ==
    /\ Mode(n) = "generator" /\ state[n] = "output"
    /\ held[n] > 0 /\ Room(n)
    /\ queue' = Moved({}, n, [images |-> IF n = "read" THEN {number - held[n] + 1} ELSE {},
                              dims |-> Interface[n].output.dims])
    /\ held' = [held EXCEPT ![n] = @ - 1]
    /\ UNCHANGED <<wiring, number, capacity, state, written>>

\* stack: a pattern more; a full stack goes on.  What is left over at the end is
\* taken to be dropped.
Stack(n) ==
    /\ n = "ring_stack" /\ state[n] = "input"
    /\ Ready(n) /\ End \notin Front(n)
    /\ IF held[n] + 1 < StackSize
       THEN /\ queue' = [e \in Edges |-> IF e \in In(n) THEN Tail(queue[e]) ELSE queue[e]]
            /\ held' = [held EXCEPT ![n] = @ + 1]
       ELSE /\ Room(n)
            /\ queue' = Moved(In(n), n, [images |-> {}, dims |-> 3])
            /\ held' = [held EXCEPT ![n] = 0]
    /\ UNCHANGED <<wiring, number, capacity, state, written>>

\* loop takes its input first ...
LoopIn(n) ==
    /\ n = "ring_loop" /\ state[n] = "input" /\ Ready(n)
    /\ queue' = [e \in Edges |-> IF e \in In(n) THEN Tail(queue[e]) ELSE queue[e]]
    /\ state' = [state EXCEPT ![n] = IF End \in Front(n) THEN "output" ELSE "input"]
    /\ UNCHANGED <<wiring, number, capacity, held, written>>

\* ... and then repeats it.
LoopOut(n) ==
    /\ n = "ring_loop" /\ state[n] = "output"
    /\ held[n] > 0 /\ Room(n)
    /\ queue' = Moved({}, n, [images |-> {}, dims |-> 3])
    /\ held' = [held EXCEPT ![n] = @ - 1]
    /\ UNCHANGED <<wiring, number, capacity, state, written>>

Consume(n) ==
    /\ Mode(n) = "sink" /\ state[n] = "input"
    /\ Ready(n) /\ End \notin Front(n)
    /\ written' = Append(written, OutputOf(n).images)
    /\ queue' = Moved(In(n), n, End)
    /\ UNCHANGED <<wiring, number, capacity, state, held>>

\* A task that has nothing more to make, or one input of which has ended, tells
\* the tasks behind it.  What its other inputs still hold stays there.
Stop(n) ==
    /\ \/ state[n] = "output" /\ held[n] = 0
       \/ state[n] = "input" /\ n # "ring_loop" /\ In(n) # {} /\ Ready(n) /\ End \in Front(n)
    /\ Room(n)
    /\ queue' = Moved({}, n, End)
    /\ state' = [state EXCEPT ![n] = "stopped"]
    /\ UNCHANGED <<wiring, number, capacity, held, written>>

\* The thread of a task.
RunThread(n) ==
    \/ Process(n)
    \/ Produce(n)
    \/ Stack(n)
    \/ LoopIn(n)
    \/ LoopOut(n)
    \/ Consume(n)
    \/ Stop(n)

AllStopped == (\A n \in Nodes : state[n] = "stopped") /\ UNCHANGED graphVars

GraphNext ==
    \/ \E n \in DOMAIN Interface : n \in Nodes /\ RunThread(n)
    \/ AllStopped

\* The scheduler runs some thread that can run: every behaviour is finite, and
\* more is not needed.
GraphSpec == GraphInit /\ [][GraphNext]_graphVars /\ WF_graphVars(GraphNext)

-----------------------------------------------------------------------------
(* Properties. *)

\* A buffer that waits at an input has the number of dimensions the task behind
\* it declares there (get_num_dimensions), in every graph of the scripts.
DimensionsAccepted ==
    \A e \in Edges : \A i \in 1 .. Len(queue[e]) :
        LET declared == Interface[e[2]].inputs[e[3] + 1]
        IN  queue[e][i] # End => declared \in {AnyDim, queue[e][i].dims}

\* Two branches of a broadcast meet again with the same image: whatever runs
\* ahead, nothing is ever computed from two images (piv-hough.py 173-180).
ImagesNeverMix ==
    \A e \in Edges : \A i \in 1 .. Len(queue[e]) : Cardinality(queue[e][i].images) <= 1

\* Every image reaches the sink, once and in order: no task waits for ever for
\* room in a queue or for a stack of patterns, with queues of any length.
EveryImageWritten == <>[](written = [i \in 1 .. number |-> {i}])

=============================================================================
