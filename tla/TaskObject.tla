----------------------------- MODULE TaskObject -----------------------------
(***************************************************************************)
(* The life of one task object, for every task of TaskTable: it is made    *)
(* with the values of its init, its properties are set in any order, it is *)
(* set up for each run of a scheduler, the scheduler asks for its inputs   *)
(* and its output, lets it work, and in the end it is finalized.           *)
(*                                                                         *)
(* held has, for each OpenCL object or file the task has a field for,      *)
(* whether the field is set, how many references the task has taken on     *)
(* what the field refers to, and whether the resources of the run lend it: *)
(* they own the kernels and the context, and may go with the run.  A       *)
(* kernel may be missing.  GObject refuses a value outside the declared    *)
(* range before set_property is called.                                    *)
(***************************************************************************)
EXTENDS TaskTable, Rounding, Sequences

CONSTANTS
    MaxSets,    \* bound on the values set in a behaviour
    MaxRuns     \* bound on the runs of a scheduler

ASSUME BoundsAssumption == MaxSets \in Nat /\ MaxRuns \in Nat

\* The sizes given are ones ceil_power_of_two can round: above, it does not end.
ASSUME SizesAssumption == Large <= Bit[Width - 1]

VARIABLES
    task,       \* which of the tasks this is
    phase,      \* "idle", "ready", "running", "finalized"
    priv,       \* the private field of each property
    current,    \* ring_current of the tasks that have one
    given,      \* history: the value each property was last given
    held,
    asked,      \* history: the output was asked for since the last setup
    flag, produced,     \* of hessian-kernel; history: kernels made in this run
    sets, runs          \* values set, setups

objectVars == <<task, phase, priv, current, given, held, asked, flag, produced, sets, runs>>

Row0 == Tasks[task]
Properties == DOMAIN Row0.properties
OnDemand == {Row0.requisition[i].object : i \in DOMAIN Row0.requisition}
Objects == {Row0.setup[i].object : i \in DOMAIN Row0.setup} \cup OnDemand

\* What is asked of the resources by name; the context is always there.
Kernels == {Row0.setup[i].object :
                i \in {j \in DOMAIN Row0.setup : Row0.setup[j].do \in {"take", "borrow"}}} \ {"context"}

\* A field that is NULL.  overdrawn and null are history: what it refers to was
\* released with no reference left, or NULL was.
Null == [set |-> FALSE, refs |-> 0, lent |-> FALSE, overdrawn |-> FALSE, null |-> FALSE]

InRange(p) == Row0.properties[p].lo .. Row0.properties[p].hi

\* The values tried: both ends of the range, their neighbours, the default.
Samples(p) ==
    LET s == Row0.properties[p]
    IN  {s.lo, s.lo + 1, s.declared, s.hi - 1, s.hi} \cap InRange(p)

ObjectInit ==
    /\ task \in DOMAIN Tasks
    /\ phase = "idle"
    /\ priv = [p \in Properties |-> Row0.properties[p].initial]
    /\ current = [p \in {q \in Properties : Row0.properties[q].stored = "also current"} |->
                    Row0.properties[p].initial]
    /\ given = priv
    /\ held = [o \in Objects |-> Null]
    /\ asked = FALSE
    /\ flag = FALSE /\ produced = 0
    /\ sets = 0 /\ runs = 0

\* What set_property keeps of a value.
Stored(how, old, v) ==
    CASE how = "odd" -> IF v % 2 # 1 THEN v - 1 ELSE v
      [] how = "power of two" -> ceil_power_of_two(v)
      [] how = "not at all" -> old
      [] OTHER -> v

\* Mutant: the field of another property is set, too.
SetAlsoOther(p, v) ==
    /\ phase = "idle" /\ sets < MaxSets
    /\ priv' = [q \in Properties |->
                    IF q = p \/ (p = "ring_step" /\ q = "ring_end")
                    THEN Stored(Row0.properties[q].stored, priv[q], v) ELSE priv[q]]
    /\ current' = [q \in DOMAIN current |-> IF q = p THEN v ELSE current[q]]
    /\ given' = [given EXCEPT ![p] = v]
    /\ sets' = sets + 1
    /\ UNCHANGED <<task, phase, held, asked, flag, produced, runs>>

Set(p, v) ==
    /\ phase = "idle" /\ sets < MaxSets
    /\ priv' = [priv EXCEPT ![p] = Stored(Row0.properties[p].stored, @, v)]
    /\ current' = [q \in DOMAIN current |-> IF q = p THEN v ELSE current[q]]
    /\ given' = [given EXCEPT ![p] = v]
    /\ sets' = sets + 1
    /\ UNCHANGED <<task, phase, held, asked, flag, produced, runs>>

\* Mutant: a kernel is fetched and not retained.
ChangedWithoutRetain(f, do, there) ==
    CASE do \in {"take", "borrow"} -> [f EXCEPT !.set = there, !.refs = 0, !.lent = there]
      [] do = "create" -> [f EXCEPT !.set = TRUE, !.refs = 1, !.lent = FALSE]
      [] do = "clear"  -> [f EXCEPT !.set = FALSE, !.refs = 0, !.lent = FALSE]
      [] OTHER -> IF ~ f.set THEN [f EXCEPT !.null = TRUE]
                  ELSE IF f.refs = 0 THEN [f EXCEPT !.overdrawn = TRUE]
                  ELSE [f EXCEPT !.refs = @ - 1]

\* What a step makes of the field it is about.  A field that is written anew
\* has only the references taken since.
Changed(f, do, there) ==
    CASE do = "take"   -> [f EXCEPT !.set = there, !.refs = IF there THEN 1 ELSE 0, !.lent = there]
      [] do = "borrow" -> [f EXCEPT !.set = there, !.refs = 0, !.lent = there]
      [] do = "create" -> [f EXCEPT !.set = TRUE, !.refs = 1, !.lent = FALSE]
      [] do = "clear"  -> [f EXCEPT !.set = FALSE, !.refs = 0, !.lent = FALSE]
      [] OTHER -> IF ~ f.set THEN [f EXCEPT !.null = TRUE]
                  ELSE IF f.refs = 0 THEN [f EXCEPT !.overdrawn = TRUE]
                  ELSE [f EXCEPT !.refs = @ - 1]

Applies(s, step) == (\A p \in step.on : s[p].set) /\ (\A p \in step.off : ~ s[p].set)

Step(s, step, missing) ==
    IF Applies(s, step)
    THEN [s EXCEPT ![step.object] = Changed(@, step.do, step.object \notin missing)]
    ELSE s

\* After[k]: after the first k of the steps.
Perform(steps, missing) ==
    LET After[k \in 0 .. Len(steps)] ==
            IF k = 0 THEN held ELSE Step(After[k - 1], steps[k], missing)
    IN  After[Len(steps)]

\* A missing kernel is an error of setup: the run does not start.
Setup ==
    /\ phase = "idle" /\ runs < MaxRuns
    /\ \E missing \in SUBSET Kernels :
          /\ held' = Perform(Row0.setup, missing)
          /\ phase' = IF missing = {} THEN "ready" ELSE "idle"
    /\ asked' = FALSE
    /\ priv' = [p \in Properties |->
                  IF Row0.properties[p].stored = "power of two in setup"
                  THEN pow2round(priv[p]) ELSE priv[p]]
    /\ runs' = runs + 1
    /\ UNCHANGED <<task, current, given, flag, produced, sets>>

\* Mutant: the query has no side effect.
GetNumInputsPure ==
    /\ phase = "ready"
    /\ phase' = "running"
    /\ produced' = 0
    /\ UNCHANGED <<task, priv, current, given, held, asked, flag, sets, runs>>

\* get_num_inputs, which the scheduler calls once per run after setup.  That of
\* hessian-kernel resets the flag of its generator.
GetNumInputs ==
    /\ phase = "ready"
    /\ phase' = "running"
    /\ flag' = (flag /\ task # "hessian_kernel")
    /\ produced' = 0
    /\ UNCHANGED <<task, priv, current, given, held, asked, sets, runs>>

\* get_requisition, before each output.
GetRequisition ==
    /\ phase = "running"
    /\ held' = Perform(Row0.requisition, {})
    /\ asked' = TRUE
    /\ UNCHANGED <<task, phase, priv, current, given, flag, produced, sets, runs>>

\* generate of hessian-kernel while it returns TRUE; the other generators are in
\* RingRadii.
Generate ==
    /\ phase = "running" /\ task = "hessian_kernel"
    /\ ~ flag
    /\ flag' = TRUE
    /\ produced' = produced + 1
    /\ UNCHANGED <<task, phase, priv, current, given, held, asked, sets, runs>>

\* The run ends: a generator returned FALSE, or a processor had no more input.
\* Nothing is lent any longer.
EndRun ==
    /\ phase = "running"
    /\ task = "hessian_kernel" => flag
    /\ phase' = "idle"
    /\ held' = [o \in Objects |-> [held[o] EXCEPT !.lent = FALSE]]
    /\ UNCHANGED <<task, priv, current, given, asked, flag, produced, sets, runs>>

Finalize ==
    /\ phase = "idle"
    /\ phase' = "finalized"
    /\ held' = Perform(Row0.finalize, {})
    /\ UNCHANGED <<task, priv, current, given, asked, flag, produced, sets, runs>>

Finalized == phase = "finalized" /\ UNCHANGED objectVars

ObjectNext ==
    \/ \E p \in Properties : \E v \in Samples(p) : Set(p, v)
    \/ Setup
    \/ GetNumInputs
    \/ GetRequisition
    \/ Generate
    \/ EndRun
    \/ Finalize
    \/ Finalized

ObjectSpec == ObjectInit /\ [][ObjectNext]_objectVars

-----------------------------------------------------------------------------
(* Properties. *)

\* What get_property returns for a value that was given: the value, the odd
\* number below, or the power of two above, now or after the next setup.
ReadBack(p) ==
    LET how == Row0.properties[p].stored
    IN  CASE how = "odd" -> priv[p] \in {given[p], given[p] - 1} /\ priv[p] % 2 = 1
          [] how = "power of two" -> LeastPowerOfTwo(given[p], priv[p])
          [] how = "power of two in setup" ->
                \/ LeastPowerOfTwo(given[p], priv[p])
                \/ priv[p] = given[p] /\ phase \in {"idle", "finalized"}
          [] how = "not at all" -> priv[p] = Row0.properties[p].initial
          [] OTHER -> priv[p] = given[p]

\* No property is touched by setting another, in any order, and a generator of
\* rings starts at its first radius even if that was set last.
PropertiesIndependent ==
    /\ \A p \in Properties : ReadBack(p)
    /\ \A p \in DOMAIN current : current[p] = priv[p]

Usable(o) == held[o].set /\ (held[o].refs > 0 \/ held[o].lent)

\* A task that runs has every object its setup is for, and once it was asked for
\* its output also those made on demand: by a reference of its own, or lent for
\* this run.  It releases nothing it has no reference on, although lent objects
\* may go between two runs and a setup may find no kernel; and it releases NULL
\* for an object made on demand only, if it was not asked since its last setup
\* (finalize of fftconvolution, 496-506).  The likelihood task is exempt from
\* its second setup on: see ReleasesSucceed.
ReferencesSound ==
    (task = "hough_likelihood" => runs < 2) =>
        /\ phase \in {"ready", "running"} => \A o \in Objects \ OnDemand : Usable(o)
        /\ phase = "running" /\ asked => \A o \in OnDemand : Usable(o)
        /\ \A o \in Objects :
              /\ ~ held[o].overdrawn
              /\ held[o].null => o \in OnDemand /\ ~ asked

\* Every release finds a reference, as the UFO_RESOURCES_CHECK_CLERR around it
\* expects.  In the likelihood task the one on the mask (lines 109 and 275) does
\* not, after a second setup has released the new mask for the old counter (115).
ReleasesSucceed == \A o \in Objects : ~ held[o].overdrawn

\* Every run has exactly one Hessian kernel: the flag of an earlier run does not
\* suppress it, and nothing produces it again.
OneKernelPerRun ==
    /\ produced <= 1
    /\ phase = "running" /\ task = "hessian_kernel" /\ flag => produced = 1

=============================================================================
