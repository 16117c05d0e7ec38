-------------------------- MODULE HoughGraphProofs --------------------------
(***************************************************************************)
(* Proofs about the Hough graph, seen in the two ways of MCHoughGraph.     *)
(*                                                                         *)
(* RingRadii: for all parameters a configuration may hold, any scale of    *)
(* the patterns and any graph, the generator makes the radii it was asked  *)
(* for, and enough of them for the stack; for the scales the later tasks   *)
(* know, the line of a ring is right.                                      *)
(*                                                                         *)
(* TaskGraph: in every graph of the scripts, for any number of images and  *)
(* patterns, the branches of a broadcast meet with the same image, and     *)
(* every buffer has the dimensions the task that takes it declares.        *)
(***************************************************************************)
EXTENDS RingRadii, TaskGraph, FiniteSetTheorems, TLAPS

\* What the properties of the tasks and the script admit.
Admitted ==
    /\ Parameters \subseteq [start : Nat \ {0}, end : Nat \ {0}, step : Nat \ {0}, scale : Nat \ {0}]
    /\ \A p \in Parameters : p.step >= p.scale /\ p.start >= p.scale /\ p.end >= p.start
    /\ Graphs \subseteq {"azimu", "candidate"}
    /\ Places \subseteq Nat /\ Shifts \subseteq Int

\* The width of the counter, and a configuration that stays a step below it.
NoWrap ==
    /\ 2 ^ Bits \in Nat \ {0}
    /\ \A p \in Parameters : p.end + p.step < 2 ^ Bits

\* The parameters of the generator, as the script computes them.
S == Reduced("start")
E == Reduced("end")
D == Reduced("step")

Before == pc \in {"configure", "generate"}

TypeInv ==
    /\ pc \in {"configure", "generate", "detect", "filter", "azimu", "candidate", "written"}
    /\ parm \in Parameters
    /\ graph \in Graphs
    /\ todo \subseteq Setters
    /\ task \in [start : Nat, end : Nat, step : Nat, current : Nat]
    /\ radii \in Seq(Nat)
    /\ cand \in [x : Places, z : 0 .. RingNumber - 1]

\* The properties that have been set, in whatever order.
SettersInv ==
    /\ "start" \notin todo => task.start = S /\ (pc = "configure" => task.current = S)
    /\ "end" \notin todo => task.end = E
    /\ "step" \notin todo => task.step = D
    /\ pc = "configure" => radii = <<>>
    /\ pc # "configure" => todo = {}

\* Where the generator stands.
CounterInv ==
    pc # "configure" =>
        /\ task.current = S + Len(radii) * D
        /\ \A n \in 1 .. Len(radii) : radii[n] = S + (n - 1) * D /\ radii[n] <= E
        /\ ~Before => task.current > E

-----------------------------------------------------------------------------

\* Integer division, from below.
LEMMA Division ==
    ASSUME NEW a \in Nat, NEW m \in Nat \ {0}
    PROVE  /\ a \div m \in Nat
           /\ m * (a \div m) <= a /\ a < m * (a \div m) + m
<1> DEFINE q == a \div m
           r == a % m
<1>1. q \in Int /\ r \in 0 .. m - 1 /\ a = m * q + r
  OBVIOUS
<1> HIDE DEF q, r
<1>2. CASE q <= -1
  <2>1. m * q <= m * (-1)
    BY <1>1, <1>2
  <2>2. QED
    BY <2>1, <1>1
<1>3. CASE q >= 0
  BY <1>1, <1>3 DEF q
<1>4. QED
  BY <1>1, <1>2, <1>3

\* What the bounds on the parameters give.
LEMMA ParmFacts ==
    ASSUME Admitted, parm \in Parameters
    PROVE  /\ parm.start \in Nat \ {0} /\ parm.end \in Nat \ {0}
           /\ parm.step \in Nat \ {0} /\ parm.scale \in Nat \ {0}
           /\ parm.step >= parm.scale /\ parm.start >= parm.scale /\ parm.end >= parm.start
  BY DEF Admitted

\* The generator's parameters are the configured ones, divided and rounded down.
LEMMA ReducedFacts ==
    ASSUME Admitted, parm \in Parameters
    PROVE  /\ S \in Nat /\ E \in Nat /\ D \in Nat \ {0}
           /\ parm.scale * S <= parm.start /\ parm.start < parm.scale * S + parm.scale
           /\ parm.scale * E <= parm.end /\ parm.end < parm.scale * E + parm.scale
           /\ parm.scale * D <= parm.step /\ parm.step < parm.scale * D + parm.scale
<1> DEFINE c == parm.scale
<1>1. c \in Nat \ {0} /\ parm.step >= c
  BY ParmFacts
<1>2. parm.start \in Nat /\ parm.end \in Nat /\ parm.step \in Nat
  BY ParmFacts
<1>3. S = parm.start \div c /\ E = parm.end \div c /\ D = parm.step \div c
  BY DEF S, E, D, Reduced
<1>4. S \in Nat /\ c * S <= parm.start /\ parm.start < c * S + c
  BY <1>1, <1>2, <1>3, Division
<1>5. E \in Nat /\ c * E <= parm.end /\ parm.end < c * E + c
  BY <1>1, <1>2, <1>3, Division
<1>6. D \in Nat /\ c * D <= parm.step /\ parm.step < c * D + c
  BY <1>1, <1>2, <1>3, Division
<1>7. D # 0
  <2>1. c * 0 = 0
    BY <1>1
  <2>2. D = 0 => parm.step < 0 + c
    BY <1>6, <2>1
  <2>3. QED
    BY <1>1, <1>2, <2>2
<1>8. QED
  BY <1>4, <1>5, <1>6, <1>7

\* A step past the end still fits the counter.
LEMMA ReducedFits ==
    ASSUME Admitted, NoWrap, parm \in Parameters
    PROVE  E + D < 2 ^ Bits
<1> DEFINE c == parm.scale
<1>1. c \in Nat \ {0} /\ parm.end \in Nat /\ parm.step \in Nat /\ parm.end + parm.step < 2 ^ Bits
  BY ParmFacts DEF NoWrap
<1>2. E \in Nat /\ D \in Nat /\ c * E <= parm.end /\ c * D <= parm.step
  BY ReducedFacts
<1> HIDE DEF c
<1>3. E <= c * E /\ D <= c * D
  BY <1>1, <1>2
<1>4. 2 ^ Bits \in Nat
  BY DEF NoWrap
<1>5. QED
  BY <1>1, <1>2, <1>3, <1>4

-----------------------------------------------------------------------------

IInv == TypeInv /\ SettersInv /\ CounterInv

\* A new pattern generator satisfies the invariant.
LEMMA InitInv == ASSUME Admitted, Init PROVE IInv
<1>1. TypeInv /\ pc = "configure" /\ todo = Setters /\ radii = <<>>
  BY DEF Init, TypeInv
<1>2. QED
  BY <1>1 DEF IInv, SettersInv, CounterInv, Setters

\* The parameters do not change, and with them what the script computes.
LEMMA SetPropertyInv ==
    ASSUME Admitted, IInv, NEW f \in Setters, SetProperty(f)
    PROVE  IInv'
<1>1. /\ pc = "configure" /\ f \in todo /\ todo' = todo \ {f}
      /\ task' = IF f = "start"
                   THEN [task EXCEPT !.start = Reduced(f), !.current = Reduced(f)]
                   ELSE [task EXCEPT ![f] = Reduced(f)]
      /\ UNCHANGED <<pc, parm, graph, radii, cand, stream, shift, line>>
  BY DEF SetProperty
<1>2. TypeInv /\ SettersInv /\ parm \in Parameters
  BY DEF IInv, TypeInv
<1>3. S \in Nat /\ E \in Nat /\ D \in Nat
  BY <1>2, ReducedFacts
<1>4. S' = S /\ E' = E /\ D' = D /\ RingNumber' = RingNumber
  BY <1>1 DEF S, E, D, Reduced, RingNumber
<1>5. CASE f = "start"
  <2>1. task' = [task EXCEPT !.start = S, !.current = S]
    BY <1>1, <1>5 DEF S
  <2>2. /\ task' \in [start : Nat, end : Nat, step : Nat, current : Nat]
        /\ task'.start = S /\ task'.current = S /\ task'.end = task.end /\ task'.step = task.step
    BY <2>1, <1>2, <1>3 DEF TypeInv
  <2>3. QED
    BY <2>2, <1>1, <1>2, <1>4, <1>5 DEF IInv, TypeInv, SettersInv, CounterInv, Setters
<1>6. CASE f = "end"
  <2>1. task' = [task EXCEPT !.end = E]
    BY <1>1, <1>6 DEF E
  <2>2. /\ task' \in [start : Nat, end : Nat, step : Nat, current : Nat]
        /\ task'.start = task.start /\ task'.current = task.current /\ task'.end = E /\ task'.step = task.step
    BY <2>1, <1>2, <1>3 DEF TypeInv
  <2>3. QED
    BY <2>2, <1>1, <1>2, <1>4, <1>6 DEF IInv, TypeInv, SettersInv, CounterInv, Setters
<1>7. CASE f = "step"
  <2>1. task' = [task EXCEPT !.step = D]
    BY <1>1, <1>7 DEF D
  <2>2. /\ task' \in [start : Nat, end : Nat, step : Nat, current : Nat]
        /\ task'.start = task.start /\ task'.current = task.current /\ task'.end = task.end /\ task'.step = D
    BY <2>1, <1>2, <1>3 DEF TypeInv
  <2>3. QED
    BY <2>2, <1>1, <1>2, <1>4, <1>7 DEF IInv, TypeInv, SettersInv, CounterInv, Setters
<1>8. QED
  BY <1>5, <1>6, <1>7 DEF Setters

\* A ring is generated while the radius is inside the range, and the next is one step up.
LEMMA GenerateInv ==
    ASSUME Admitted, NoWrap, IInv, Generate
    PROVE  IInv'
<1>1. /\ pc = "generate" /\ pc' = "generate" /\ task.current <= task.end
      /\ radii' = Append(radii, task.current)
      /\ task' = [task EXCEPT !.current = (@ + task.step) % 2 ^ Bits]
      /\ UNCHANGED <<parm, graph, todo, cand>>
  BY DEF Generate
<1>2. TypeInv /\ SettersInv /\ CounterInv /\ parm \in Parameters
  BY DEF IInv, TypeInv
<1>3. S' = S /\ E' = E /\ D' = D /\ RingNumber' = RingNumber
  BY <1>1 DEF S, E, D, Reduced, RingNumber
<1>4. S \in Nat /\ E \in Nat /\ D \in Nat /\ E + D < 2 ^ Bits /\ 2 ^ Bits \in Nat
  BY <1>2, ReducedFacts, ReducedFits DEF NoWrap
<1>5. /\ task.start = S /\ task.end = E /\ task.step = D
      /\ task.current = S + Len(radii) * D
      /\ task \in [start : Nat, end : Nat, step : Nat, current : Nat]
      /\ radii \in Seq(Nat)
  BY <1>1, <1>2 DEF SettersInv, CounterInv, TypeInv
<1>6. (task.current + task.step) % 2 ^ Bits = task.current + D
  <2> DEFINE w == 2 ^ Bits
             a == task.current + D
  <2>1. a \in Nat /\ w \in Nat \ {0} /\ a < w
    BY <1>1, <1>4, <1>5
  <2> HIDE DEF w, a
  <2>2. a % w = a
    BY <2>1
  <2>3. QED
    BY <2>2, <1>5 DEF w, a
<1>7. /\ task' \in [start : Nat, end : Nat, step : Nat, current : Nat]
      /\ task'.start = S /\ task'.end = E /\ task'.step = D
      /\ task'.current = task.current + D
  <2>1. task' = [task EXCEPT !.current = task.current + D]
    BY <1>1, <1>6
  <2>2. task.current + D \in Nat
    BY <1>4, <1>5
  <2>3. QED
    BY <2>1, <2>2, <1>5
<1>8. /\ radii' \in Seq(Nat) /\ Len(radii') = Len(radii) + 1
      /\ radii'[Len(radii) + 1] = task.current
      /\ \A n \in 1 .. Len(radii) : radii'[n] = radii[n]
  BY <1>1, <1>5
<1>9. task'.current = S + Len(radii') * D
  <2> DEFINE n == Len(radii)
  <2>1. n \in Nat
    BY <1>5
  <2> HIDE DEF n
  <2>2. (n + 1) * D = n * D + D /\ n * D \in Nat
    BY <2>1, <1>4
  <2>3. QED
    BY <2>2, <1>4, <1>5, <1>7, <1>8 DEF n
<1>10. \A n \in 1 .. Len(radii') : radii'[n] = S + (n - 1) * D /\ radii'[n] <= E
  <2> SUFFICES ASSUME NEW n \in 1 .. Len(radii')
               PROVE  radii'[n] = S + (n - 1) * D /\ radii'[n] <= E
    OBVIOUS
  <2>1. CASE n = Len(radii) + 1
    <3>1. n - 1 = Len(radii)
      BY <2>1, <1>5
    <3>2. QED
      BY <3>1, <2>1, <1>1, <1>5, <1>8
  <2>2. CASE n # Len(radii) + 1
    <3>1. n \in 1 .. Len(radii)
      BY <2>2, <1>5, <1>8
    <3>2. QED
      BY <3>1, <1>1, <1>2, <1>8 DEF CounterInv
  <2>3. QED
    BY <2>1, <2>2
<1>11. CounterInv'
  BY <1>1, <1>3, <1>9, <1>10 DEF CounterInv, Before
<1>12. QED
  BY <1>1, <1>2, <1>3, <1>7, <1>8, <1>11 DEF IInv, TypeInv, SettersInv

\* Every other step leaves the generator as it is.
LEMMA OtherInv ==
    ASSUME Admitted, IInv,
           Run \/ Exhausted \/ Detect \/ Convert \/ Azimuthal \/ Write \/ UNCHANGED vars
    PROVE  IInv'
<1>1. TypeInv /\ SettersInv /\ CounterInv /\ parm \in Parameters /\ S \in Nat /\ D \in Nat
  BY ReducedFacts DEF IInv, TypeInv
<1>2. UNCHANGED <<parm, graph, todo, task, radii, cand>>
  BY DEF Run, Exhausted, Detect, Convert, Azimuthal, Write, vars
<1>3. S' = S /\ E' = E /\ D' = D /\ RingNumber' = RingNumber
  BY <1>2 DEF S, E, D, Reduced, RingNumber
<1>4. graph \in {"azimu", "candidate"}
  BY <1>1 DEF TypeInv, Admitted
<1>5. TypeInv'
  BY <1>1, <1>2, <1>3, <1>4 DEF TypeInv, Run, Exhausted, Detect, Convert, Azimuthal, Write, vars
<1>6. CASE Run
  <2>1. 0 * D = 0 /\ Len(<<>>) = 0 /\ S + 0 = S
    BY <1>1
  <2>2. /\ pc = "configure" /\ todo = {} /\ pc' = "generate"
        /\ radii = <<>> /\ task.current = S /\ task.start = S /\ task.end = E /\ task.step = D
    BY <1>6, <1>1 DEF Run, SettersInv
  <2>3. CounterInv'
    BY <2>1, <2>2, <1>2, <1>3 DEF CounterInv, Before
  <2>4. SettersInv'
    BY <2>2, <1>2, <1>3 DEF SettersInv
  <2>5. QED
    BY <2>3, <2>4, <1>5 DEF IInv
<1>7. CASE Exhausted
  <2>1. pc = "generate" /\ pc' = "detect" /\ task.current > task.end /\ task.end = E
    BY <1>7, <1>1 DEF Exhausted, SettersInv
  <2>2. CounterInv' /\ SettersInv'
    BY <2>1, <1>1, <1>2, <1>3 DEF CounterInv, SettersInv, Before
  <2>3. QED
    BY <2>2, <1>5 DEF IInv
<1>8. CASE Detect \/ Convert \/ Azimuthal \/ Write
  <2>1. pc \notin {"configure", "generate"} /\ pc' \notin {"configure", "generate"}
    BY <1>8, <1>4 DEF Detect, Convert, Azimuthal, Write
  <2>2. CounterInv' /\ SettersInv'
    BY <2>1, <1>1, <1>2, <1>3 DEF CounterInv, SettersInv, Before
  <2>3. QED
    BY <2>2, <1>5 DEF IInv
<1>9. CASE UNCHANGED vars
  <2>1. pc' = pc
    BY <1>9 DEF vars
  <2>2. CounterInv' /\ SettersInv'
    BY <2>1, <1>1, <1>2, <1>3 DEF CounterInv, SettersInv, Before
  <2>3. QED
    BY <2>2, <1>5 DEF IInv
<1>10. QED
  BY <1>6, <1>7, <1>8, <1>9

\* Every step of the generator keeps the invariant.
LEMMA NextInv == ASSUME Admitted, NoWrap, IInv, [Next]_vars PROVE IInv'
  BY SetPropertyInv, GenerateInv, OtherInv DEF Next, Finished

\* The generator and its counter, in whatever order the properties are set.
THEOREM Invariance == ASSUME Admitted, NoWrap PROVE Spec => []IInv
<1>1. Init => IInv
  BY InitInv
<1>2. IInv /\ [Next]_vars => IInv'
  BY NextInv
<1>3. QED
  BY <1>1, <1>2, PTL DEF Spec

\* For every configuration that stays a step below the width of the counter, and
\* every scale, the patterns have exactly the radii asked for (generate, lines
\* 118-199, and set_property, lines 201-236).
THEOREM RadiiAsAsked == ASSUME Admitted, NoWrap PROVE Spec => []RadiiExact
<1>1. IInv => RadiiExact
  <2> SUFFICES ASSUME IInv PROVE RadiiExact
    OBVIOUS
  <2>1. radii = <<>> \/ pc # "configure"
    BY DEF IInv, SettersInv
  <2>2. QED
    BY <2>1 DEF IInv, SettersInv, CounterInv, RadiiExact, Before, S, E, D
<1>2. QED
  BY <1>1, Invariance, PTL

\* The script's number of slices, from the parameters of the full image, is
\* reached by the patterns, made from the reduced ones.
LEMMA EnoughPatterns ==
    ASSUME Admitted, parm \in Parameters, NEW n \in Nat, S + n * D > E
    PROVE  n >= RingNumber
<1> DEFINE c == parm.scale
           k == RingNumber
           s == S
           e == E
           d == D
<1>1. /\ c \in Nat \ {0} /\ parm.step \in Nat \ {0} /\ parm.step >= c
      /\ parm.start \in Nat /\ parm.end \in Nat /\ parm.end >= parm.start
  BY ParmFacts
<1>2. /\ s \in Nat /\ e \in Nat /\ d \in Nat
      /\ c * s <= parm.start /\ parm.end < c * e + c /\ c * d <= parm.step
      /\ s + n * d >= e + 1
  BY ReducedFacts
<1>3. k \in Nat /\ parm.step * k <= parm.end - parm.start
  <2>1. parm.end - parm.start \in Nat
    BY <1>1
  <2>2. QED
    BY <2>1, <1>1, Division DEF RingNumber
<1> HIDE DEF c, k, s, e, d
<1>4. SUFFICES ASSUME n < k PROVE FALSE
  BY <1>3 DEF k
<1>5. c * (s + n * d) >= c * (e + 1)
  <2>1. s + n * d \in Nat /\ e + 1 \in Nat
    BY <1>2
  <2>2. \A u, v \in Nat : u >= v => c * u >= c * v
    BY <1>1
  <2>3. QED
    BY <2>1, <2>2, <1>2
<1>6. c * (s + n * d) = c * s + n * (c * d) /\ c * (e + 1) = c * e + c
  BY <1>1, <1>2
<1>7. n * (c * d) <= n * parm.step
  <2>1. c * d \in Nat
    BY <1>1, <1>2
  <2>2. \A u, v \in Nat : u <= v => n * u <= n * v
    OBVIOUS
  <2>3. QED
    BY <2>1, <2>2, <1>1, <1>2
<1>8. n * parm.step <= parm.step * k
  <2>1. n * parm.step = parm.step * n
    BY <1>1
  <2>2. \A u, v \in Nat : u <= v => parm.step * u <= parm.step * v
    BY <1>1
  <2>3. QED
    BY <2>1, <2>2, <1>3, <1>4
<1>9. c * s + n * (c * d) <= parm.end
  <2>1. n * (c * d) \in Nat /\ c * s \in Nat /\ n * parm.step \in Nat /\ parm.step * k \in Nat
    BY <1>1, <1>2, <1>3
  <2>2. QED
    BY <2>1, <1>1, <1>2, <1>3, <1>7, <1>8
<1>10. c * e \in Nat /\ c * (s + n * d) \in Nat
  BY <1>1, <1>2
<1>11. QED
  BY <1>1, <1>2, <1>5, <1>6, <1>9, <1>10

\* The stack of the first image is always filled, for every configuration and
\* scale (src/bin/piv-hough.py, lines 44 and 99).
THEOREM StackFills == ASSUME Admitted, NoWrap PROVE Spec => []StackIsFilled
<1>1. IInv => StackIsFilled
  <2> SUFFICES ASSUME IInv, pc \notin {"configure", "generate"}
               PROVE  Len(radii) >= RingNumber
    BY DEF StackIsFilled
  <2>1. Len(radii) \in Nat /\ parm \in Parameters /\ S + Len(radii) * D > E
    BY DEF IInv, TypeInv, CounterInv, Before
  <2>2. QED
    BY <2>1, EnoughPatterns
<1>2. QED
  BY <1>1, Invariance, PTL

-----------------------------------------------------------------------------
(* From the candidate to the line. *)

\* The scales azimuthal-test and ring-writer know.
KnownScales == \A p \in Parameters : p.scale \in {1, 2}

\* The radius candidate-filter gives a ring, in half pixels.
Filtered == (2 * parm.start + parm.step * (2 * cand.z)) \div parm.scale

\* What ring-writer will make of the stream.
Factor == IF stream.scale = 0 THEN 2 ELSE stream.scale

StreamInv ==
    /\ ~Before => Len(radii) >= RingNumber
    /\ pc \in {"configure", "generate", "detect", "filter", "azimu"} => shift = 0
    /\ pc = "filter" => stream = [x |-> 2 * cand.x, r |-> 2 * cand.z, scale |-> 0]
    /\ pc = "azimu" => stream = [x |-> 2 * cand.x, r |-> Filtered, scale |-> parm.scale]
    /\ pc = "candidate" =>
         /\ shift \in Int
         /\ stream.x * Factor = 2 * (parm.scale * cand.x + shift)
         /\ stream.r * Factor = parm.scale * Filtered + 2 * shift
    /\ pc = "written" =>
         /\ shift \in Int
         /\ line.x = 2 * (parm.scale * cand.x + shift)
         /\ line.r = parm.scale * Filtered + 2 * shift

\* A candidate is a place and a slice of the stack.
LEMMA CandFacts ==
    ASSUME Admitted, TypeInv
    PROVE  /\ cand.x \in Nat /\ cand.z \in Nat /\ Filtered \in Nat
           /\ RingNumber \in Nat /\ cand.z < RingNumber
<1>1. /\ parm.end - parm.start \in Nat /\ parm.step \in Nat \ {0} /\ parm.start \in Nat
      /\ parm.scale \in Nat \ {0}
  BY ParmFacts DEF TypeInv
<1>2. RingNumber \in Nat
  BY <1>1, Division DEF RingNumber
<1>3. cand.x \in Nat /\ cand.z \in Nat /\ cand.z < RingNumber
  <2>1. cand.x \in Places /\ cand.z \in 0 .. RingNumber - 1
    BY DEF TypeInv
  <2>2. Places \subseteq Nat
    BY DEF Admitted
  <2>3. \A n \in Nat : \A z \in 0 .. n - 1 : z \in Nat /\ z < n
    OBVIOUS
  <2>4. cand.x \in Nat
    BY <2>1, <2>2
  <2>5. cand.z \in Nat /\ cand.z < RingNumber
    BY <2>1, <2>3, <1>2
  <2>6. QED
    BY <2>4, <2>5
<1>4. 2 * parm.start + parm.step * (2 * cand.z) \in Nat
  BY <1>1, <1>3
<1>5. QED
  BY <1>1, <1>2, <1>3, <1>4, Division DEF Filtered

\* No pattern has been sent yet.
LEMMA StreamInit == ASSUME Admitted, Init PROVE StreamInv
  BY DEF Init, StreamInv, Before

\* Every pattern sent is the next radius of the run, and the stream ends where it should.
LEMMA StreamNext ==
    ASSUME Admitted, NoWrap, KnownScales, IInv, IInv', StreamInv, [Next]_vars
    PROVE  StreamInv'
<1>1. /\ TypeInv /\ parm \in Parameters /\ parm.scale \in {1, 2}
      /\ graph \in {"azimu", "candidate"}
  BY DEF IInv, TypeInv, KnownScales, Admitted
<1>2. cand.x \in Nat /\ cand.z \in Nat /\ Filtered \in Nat
  BY <1>1, CandFacts
<1>3. UNCHANGED <<parm, graph, cand>>
  BY DEF Next, SetProperty, Run, Generate, Exhausted, Detect, Convert, Azimuthal, Write, Finished, vars
<1>4. Filtered' = Filtered /\ RingNumber' = RingNumber
  BY <1>3 DEF Filtered, RingNumber
<1>5. (~Before)' => (Len(radii) >= RingNumber)'
  <2> SUFFICES ASSUME ~Before' PROVE Len(radii') >= RingNumber'
    OBVIOUS
  <2>1. parm' \in Parameters /\ Len(radii') \in Nat /\ (S + Len(radii) * D > E)'
    BY DEF IInv, TypeInv, CounterInv, Before
  <2>2. S' = S /\ E' = E /\ D' = D
    BY <1>3 DEF S, E, D, Reduced
  <2>3. QED
    BY <2>1, <2>2, <1>1, <1>4, EnoughPatterns
<1>6. CASE \/ \E f \in Setters : SetProperty(f)
           \/ Run \/ Generate \/ Exhausted
  <2>1. /\ pc \in {"configure", "generate"} /\ pc' \in {"configure", "generate", "detect"}
        /\ shift' = shift
    BY <1>6 DEF SetProperty, Run, Generate, Exhausted
  <2>2. QED
    BY <2>1, <1>5 DEF StreamInv
<1>7. CASE Detect
  BY <1>7, <1>3, <1>5 DEF Detect, StreamInv
<1>8. CASE Convert
  <2>1. /\ pc = "filter" /\ pc' = graph /\ shift' = shift /\ shift = 0
        /\ stream = [x |-> 2 * cand.x, r |-> 2 * cand.z, scale |-> 0]
        /\ stream' = [stream EXCEPT
                        !.r = (2 * parm.start + parm.step * @) \div parm.scale,
                        !.scale = parm.scale]
    BY <1>8 DEF Convert, StreamInv
  <2>2. stream' = [x |-> 2 * cand.x, r |-> Filtered, scale |-> parm.scale]
    BY <2>1 DEF Filtered
  <2>3. Factor' = parm.scale
    BY <2>2, <1>1 DEF Factor
  <2>4. /\ (2 * cand.x) * parm.scale = 2 * (parm.scale * cand.x + 0)
        /\ Filtered * parm.scale = parm.scale * Filtered + 2 * 0
    <3>1. \A u \in Nat : /\ (2 * u) * 1 = 2 * (1 * u + 0) /\ (2 * u) * 2 = 2 * (2 * u + 0)
                        /\ u * 1 = 1 * u + 2 * 0 /\ u * 2 = 2 * u + 2 * 0
      OBVIOUS
    <3>2. QED
      BY <3>1, <1>1, <1>2
  <2>5. /\ stream'.x * Factor' = 2 * (parm.scale * cand.x + shift')
        /\ stream'.r * Factor' = parm.scale * Filtered + 2 * shift'
    <3>1. shift' = 0 /\ stream'.x = 2 * cand.x /\ stream'.r = Filtered
      <4>1. shift' = 0
        BY <2>1
      <4>2. stream'.x = 2 * cand.x
        BY <2>2
      <4>3. stream'.r = Filtered
        BY <2>2
      <4>4. QED
        BY <4>1, <4>2, <4>3
    <3>2. stream'.x * Factor' = (2 * cand.x) * parm.scale
      BY <3>1, <2>3, Zenon
    <3>3. stream'.r * Factor' = Filtered * parm.scale
      BY <3>1, <2>3, Zenon
    <3>4. QED
      BY <3>1, <3>2, <3>3, <2>4, Zenon
  <2>6. pc' \in {"azimu", "candidate"} /\ shift' \in Int /\ shift' = 0
    BY <2>1, <1>1
  <2>7. QED
    BY <2>2, <2>5, <2>6, <1>3, <1>4, <1>5 DEF StreamInv
<1>9. CASE Azimuthal
  <2>1. /\ pc = "azimu" /\ pc' = "candidate" /\ shift' \in Shifts
        /\ stream = [x |-> 2 * cand.x, r |-> Filtered, scale |-> parm.scale]
    BY <1>9 DEF Azimuthal, StreamInv
  <2>2. shift' \in Int
    BY <2>1 DEF Admitted
  <2>3. /\ stream'.x = parm.scale * (2 * cand.x) + 2 * shift'
        /\ stream'.r = parm.scale * Filtered + 2 * shift'
        /\ stream'.scale = 1
    BY <1>9, <2>1, <1>1 DEF Azimuthal
  <2>4. /\ stream'.x * Factor' = 2 * (parm.scale * cand.x + shift')
        /\ stream'.r * Factor' = parm.scale * Filtered + 2 * shift'
    BY <2>2, <2>3, <1>1, <1>2 DEF Factor
  <2>5. QED
    BY <2>1, <2>2, <2>4, <1>3, <1>4, <1>5 DEF StreamInv
<1>10. CASE Write
  <2>1. /\ pc = "candidate" /\ pc' = "written" /\ shift' = shift
        /\ line' = [x |-> stream.x * Factor, r |-> stream.r * Factor]
    BY <1>10 DEF Write, Factor
  <2>2. QED
    BY <2>1, <1>3, <1>4, <1>5 DEF StreamInv
<1>11. CASE UNCHANGED vars
  <2>1. UNCHANGED <<pc, parm, cand, radii, stream, shift, line>>
    BY <1>11 DEF vars
  <2>2. Factor' = Factor
    BY <2>1 DEF Factor
  <2>3. QED
    BY <2>1, <2>2, <1>4, <1>5 DEF StreamInv
<1>12. QED
  BY <1>6, <1>7, <1>8, <1>9, <1>10, <1>11 DEF Next, Finished

\* Where the scale divides start and step, nothing is rounded.
LEMMA FilteredIsPattern ==
    ASSUME Admitted, KnownScales, IInv, ~Before, Len(radii) >= RingNumber, Aligned
    PROVE  parm.scale * Filtered = RadiusOfPattern
<1>1. TypeInv /\ CounterInv /\ parm \in Parameters /\ parm.scale \in {1, 2}
  BY DEF IInv, TypeInv, KnownScales
<1>2. cand.z \in Nat /\ cand.z + 1 \in 1 .. Len(radii)
  <2>1. cand.z \in Nat /\ cand.z < RingNumber /\ Len(radii) \in Nat /\ RingNumber \in Nat
    BY <1>1, CandFacts DEF TypeInv
  <2>2. QED
    BY <2>1
<1>3. radii[cand.z + 1] = S + cand.z * D
  <2>1. (cand.z + 1) - 1 = cand.z
    BY <1>2
  <2>2. QED
    BY <2>1, <1>1, <1>2 DEF CounterInv, Before
<1>4. S \in Nat /\ D \in Nat /\ parm.start \in Nat /\ parm.step \in Nat
  BY <1>1, ReducedFacts, ParmFacts
<1> DEFINE t == cand.z * D
<1>5. t \in Nat
  BY <1>2, <1>4
<1>6. parm.start = parm.scale * S /\ parm.step = parm.scale * D
  BY <1>1, <1>4 DEF Aligned, S, D, Reduced
<1>7. 2 * parm.start + parm.step * (2 * cand.z) = parm.scale * (2 * S + 2 * t)
  <2>1. D * (2 * cand.z) = 2 * t /\ (2 * D) * (2 * cand.z) = 4 * t
    BY <1>2, <1>4
  <2> HIDE DEF t
  <2>2. CASE parm.scale = 1
    BY <2>1, <2>2, <1>4, <1>5, <1>6
  <2>3. CASE parm.scale = 2
    BY <2>1, <2>3, <1>4, <1>5, <1>6
  <2>4. QED
    BY <2>2, <2>3, <1>1
<1> HIDE DEF t
<1>8. Filtered = 2 * S + 2 * t
  <2>1. \A v \in Nat : (1 * v) \div 1 = v /\ (2 * v) \div 2 = v
    OBVIOUS
  <2>2. 2 * S + 2 * t \in Nat
    BY <1>4, <1>5
  <2>3. QED
    BY <2>1, <2>2, <1>1, <1>7 DEF Filtered
<1>9. RadiusOfPattern = 2 * parm.scale * (S + t)
  BY <1>3 DEF RadiusOfPattern, t
<1>10. QED
  BY <1>1, <1>4, <1>5, <1>8, <1>9

\* In every graph, for every configuration of a known scale, the file has the
\* ring where it was found and with the radius of its pattern, wherever the
\* scale divides the radii (candidate-filter 186-206, azimuthal-test 404-409,
\* ring-writer 103-115).
THEOREM LineIsRight == ASSUME Admitted, NoWrap, KnownScales PROVE Spec => []LineIsTheRing
<1>1. Init => StreamInv
  BY StreamInit
<1>2. IInv /\ IInv' /\ StreamInv /\ [Next]_vars => StreamInv'
  BY StreamNext
<1>3. IInv /\ StreamInv => LineIsTheRing
  <2> SUFFICES ASSUME IInv, StreamInv, pc = "written"
               PROVE  /\ line.x = 2 * (parm.scale * cand.x + shift)
                      /\ Aligned => line.r = RadiusOfPattern + 2 * shift
    BY DEF LineIsTheRing
  <2>1. ~Before
    BY DEF Before
  <2>2. Aligned => parm.scale * Filtered = RadiusOfPattern
    BY <2>1, FilteredIsPattern DEF StreamInv
  <2>3. QED
    BY <2>2 DEF StreamInv
<1>4. QED
  BY <1>1, <1>2, <1>3, Invariance, PTL DEF Spec

-----------------------------------------------------------------------------
(* The buffers in the queues of a graph, for any number of images, of       *)
(* patterns, and of places in a queue.                                      *)

\* A queue behind m buffers made and t of them taken, which are of a set Bufs:
\* buffer k belongs to image k or to none.
QueueCount(s, m, t, Bufs) ==
    /\ s \in Seq(Bufs)
    /\ Len(s) = m - t
    /\ \A k \in 1 .. Len(s) : s[k].images \subseteq {t + k}

\* made[n]: the buffers task n has put into its output queues; taken[n]: those
\* it has taken from its input queues.
QueuesCount(q, made, taken, Bufs) ==
    \A e \in Edges : QueueCount(q[e], made[e[1]], taken[e[2]], Bufs)

\* A task that makes one buffer of one from each input keeps step with them.
TasksCount(made, taken) ==
    \A n \in Nodes :
        state[n] # "stopped" =>
            /\ Mode(n) \in {"processor", "sink"} => made[n] = taken[n]
            /\ n = "read" => made[n] = number - held[n]

GraphTypes ==
    /\ wiring \in Wirings
    /\ number \in Nat
    /\ DOMAIN queue = Edges
    /\ DOMAIN state = Nodes
    /\ held \in [Nodes -> Int]

CountedBy(made, taken, Bufs) ==
    /\ made \in [Nodes -> Int] /\ taken \in [Nodes -> Int]
    /\ QueuesCount(queue, made, taken, Bufs)
    /\ TasksCount(made, taken)

StepInv == GraphTypes /\ \E made, taken, Bufs : CountedBy(made, taken, Bufs)

-----------------------------------------------------------------------------
(* The graphs. *)

\* The dimensions of what a task makes.
DimsOf(n) ==
    CASE n \in {"likelihood", "cand", "azimu"} -> 1
      [] n \in {"ring_stack", "ring_fft", "ring_loop", "ring_convolution", "ifft", "likelihood_image"} -> 3
      [] OTHER -> 2

\* A task m before port p of another one, n: n takes what m makes, and if its
\* output is to be like this input, it makes the same.
Fits(m, n, p) ==
    /\ m # n
    /\ Interface[n].inputs[p + 1] \in {AnyDim, DimsOf(m)}
    /\ Interface[n].output.like = p + 1 => DimsOf(n) = DimsOf(m)

\* If the output of n is to be like an input at all, it is the one at port p.
LikePort(n, p) == Mode(n) = "processor" => Interface[n].output.like \in {0, p + 1}

\* A branch: each task fits the one before it.
Chain(b) == \A k \in 1 .. Len(b) - 1 : Fits(b[k], b[k + 1], 0) /\ LikePort(b[k + 1], 0)

\* The input that the output of n is to be like is there.
Fed(G, n) ==
    Mode(n) = "processor" /\ Interface[n].output.like # 0 =>
        \E e \in G : e[2] = n /\ e[3] = Interface[n].output.like - 1

\* What the edges F of a graph G must be.
Sound(G, F) ==
    \A e \in F : Fits(e[1], e[2], e[3]) /\ Fed(G, e[1]) /\ Fed(G, e[2])

\* A chain of tasks that fit one another is sound if its first task is fed.
LEMMA BranchSound ==
    ASSUME NEW b, NEW G, Chain(b), Branch(b) \subseteq G, Len(b) \in Nat, Fed(G, b[1])
    PROVE  Sound(G, Branch(b)) /\ \A k \in 1 .. Len(b) : Fed(G, b[k])
<1>1. ASSUME NEW k \in 1 .. Len(b) PROVE Fed(G, b[k])
  <2>1. CASE k = 1
    BY <2>1
  <2>2. CASE k # 1
    <3>1. k - 1 \in 1 .. Len(b) - 1 /\ (k - 1) + 1 = k
      BY <2>2
    <3>2. <<b[k - 1], b[k], 0>> \in Branch(b) /\ LikePort(b[k], 0)
      BY <3>1 DEF Branch, Chain
    <3> DEFINE e == <<b[k - 1], b[k], 0>>
    <3>3. e \in G /\ e[2] = b[k] /\ e[3] = 0
      BY <3>2
    <3> HIDE DEF e
    <3>4. QED
      BY <3>2, <3>3 DEF Fed, LikePort
  <2>3. QED
    BY <2>1, <2>2
<1>2. ASSUME NEW e \in Branch(b) PROVE Fits(e[1], e[2], e[3]) /\ Fed(G, e[1]) /\ Fed(G, e[2])
  <2>1. PICK k \in 1 .. Len(b) - 1 : e = <<b[k], b[k + 1], 0>>
    BY DEF Branch
  <2>2. e[1] = b[k] /\ e[2] = b[k + 1] /\ e[3] = 0
    BY <2>1
  <2>3. k \in 1 .. Len(b) /\ k + 1 \in 1 .. Len(b)
    OBVIOUS
  <2>4. QED
    BY <1>1, <2>2, <2>3 DEF Chain
<1>3. QED
  BY <1>1, <1>2 DEF Sound

\* So are two chains that meet in the two inputs of the first task of a third.
LEMMA MergeSound ==
    ASSUME NEW b1, NEW b2, NEW b3, NEW G, MergeBranch(b1, b2, b3) \subseteq G,
           Len(b1) \in Nat \ {0}, Len(b2) \in Nat \ {0}, Len(b3) \in Nat \ {0},
           Chain(b1), Chain(b2), Chain(b3), Fed(G, b1[1]), Fed(G, b2[1]),
           Fits(b1[Len(b1)], b3[1], 0), Fits(b2[Len(b2)], b3[1], 1), LikePort(b3[1], 1)
    PROVE  Sound(G, MergeBranch(b1, b2, b3)) /\ \A k \in 1 .. Len(b1) : Fed(G, b1[k])
<1> DEFINE u == <<b1[Len(b1)], b3[1], 0>>
           v == <<b2[Len(b2)], b3[1], 1>>
<1>1. MergeBranch(b1, b2, b3) = Branch(b1) \cup Branch(b2) \cup Branch(b3) \cup {u, v}
  BY DEF MergeBranch
<1>2. /\ u[1] = b1[Len(b1)] /\ u[2] = b3[1] /\ u[3] = 0
      /\ v[1] = b2[Len(b2)] /\ v[2] = b3[1] /\ v[3] = 1
  OBVIOUS
<1> HIDE DEF u, v
<1>3. Fed(G, b3[1])
  BY <1>1, <1>2 DEF Fed, LikePort
<1>4. /\ Sound(G, Branch(b1)) /\ \A k \in 1 .. Len(b1) : Fed(G, b1[k])
      /\ Sound(G, Branch(b2)) /\ \A k \in 1 .. Len(b2) : Fed(G, b2[k])
      /\ Sound(G, Branch(b3))
  BY <1>1, <1>3, BranchSound
<1>5. Fed(G, u[1]) /\ Fed(G, u[2]) /\ Fed(G, v[1]) /\ Fed(G, v[2])
  BY <1>2, <1>3, <1>4
<1>6. Fits(u[1], u[2], u[3]) /\ Fits(v[1], v[2], v[3])
  BY <1>2
<1>7. QED
  BY <1>1, <1>4, <1>5, <1>6 DEF Sound

\* The modes of the tasks at the ends of the graphs.
LEMMA Modes ==
    /\ Mode("read") = "generator"
    /\ Mode("ring_pattern") = "generator"
    /\ Mode("ring_stack") = "reductor"
    /\ Mode("ring_loop") = "reductor"
  BY DEF Mode, Interface, Generator, Reductor, RingPatternInterface

\* What the tasks declare, by their place in the graphs.
LEMMA InputTasks ==
    /\ \A m \in {"read", "crop", "bc_image", "contrast"} :
          \A n \in {"crop", "bc_image", "contrast", "rescale"} :
             m # n => Fits(m, n, 0) /\ LikePort(n, 0)
    /\ \A m \in {"rescale", "bc_image"} : Fits(m, "input_fft", 0) /\ LikePort("input_fft", 0)
    /\ \A m \in {"contrast", "ifft", "likelihood_image"} : Fits(m, "write", 0) /\ LikePort("write", 0)
  BY DEF Fits, LikePort, Mode, Interface, DimsOf, Processor, Sink, Dims, Like, AnyDim,
         PivContrastInterface

\* The branch of the ring patterns fits together.
LEMMA RingTasks ==
    /\ Fits("ring_pattern", "ring_stack", 0) /\ LikePort("ring_stack", 0)
    /\ Fits("ring_stack", "ring_fft", 0) /\ LikePort("ring_fft", 0)
    /\ Fits("ring_fft", "ring_loop", 0) /\ LikePort("ring_loop", 0)
  BY DEF Fits, LikePort, Mode, Interface, DimsOf, Processor, Reductor, Dims, Like, AnyDim

\* So do the tasks behind the convolution.
LEMMA HoughTasks ==
    /\ Fits("input_fft", "ring_convolution", 0) /\ Fits("ring_loop", "ring_convolution", 1)
    /\ LikePort("ring_convolution", 1)
    /\ Fits("ring_convolution", "ifft", 0) /\ LikePort("ifft", 0)
    /\ Fits("ifft", "likelihood", 0) /\ LikePort("likelihood", 0)
    /\ Fits("ifft", "likelihood_image", 0) /\ LikePort("likelihood_image", 0)
    /\ Fits("likelihood", "cand", 0) /\ LikePort("cand", 0)
  BY DEF Fits, LikePort, Mode, Interface, DimsOf, Processor, Reductor, Dims, Like, AnyDim,
         ComplexMultInterface, HoughLikelihoodInterface, HoughLikelihoodImageInterface,
         CandidateFilterInterface

\* And those that test and write the candidates.
LEMMA TestTasks ==
    /\ Fits("bc_image", "azimu", 0) /\ Fits("cand", "azimu", 1) /\ LikePort("azimu", 1)
    /\ \A m \in {"azimu", "cand"} : Fits(m, "ring_writer", 0) /\ LikePort("ring_writer", 0)
  BY DEF Fits, LikePort, Mode, Interface, DimsOf, Processor, Sink, Dims, Like, AnyDim,
         AzimuthalTestInterface, RingWriterInterface

\* Every edge of every graph fits, and every task is fed.
LEMMA GraphsSound == wiring \in Wirings => Sound(Edges, Edges)
<1> SUFFICES ASSUME wiring \in Wirings PROVE Sound(Edges, Edges)
  OBVIOUS
<1>g. Fed(Edges, "read") /\ Fed(Edges, "ring_pattern")
  BY Modes DEF Fed
<1>1. /\ Chain(RingBranch) /\ Len(RingBranch) = 4
      /\ RingBranch[1] = "ring_pattern" /\ RingBranch[Len(RingBranch)] = "ring_loop"
  BY RingTasks DEF Chain, RingBranch
<1>2. /\ Chain(InputBranch) /\ Len(InputBranch) = 5
      /\ InputBranch[1] = "read" /\ InputBranch[Len(InputBranch)] = "input_fft"
  BY InputTasks DEF Chain, InputBranch
<1>3. /\ Chain(Candidates) /\ Len(Candidates) = 4
      /\ Candidates[1] = "ring_convolution" /\ Candidates[Len(Candidates)] = "cand"
  BY HoughTasks DEF Chain, Candidates
<1>4. /\ Chain(Test) /\ Len(Test) = 2 /\ Test[1] = "azimu"
  BY TestTasks DEF Chain, Test
\* A chain to input_fft, and one behind ring_convolution.
<1>5. ASSUME NEW b1, NEW b3, Len(b1) \in Nat \ {0}, Len(b3) \in Nat \ {0}, Chain(b1), Chain(b3),
             b1[1] = "read", b1[Len(b1)] = "input_fft", b3[1] = "ring_convolution",
             MergeBranch(b1, RingBranch, b3) \subseteq Edges
      PROVE  Sound(Edges, MergeBranch(b1, RingBranch, b3)) /\ \A k \in 1 .. Len(b1) : Fed(Edges, b1[k])
  <2> DEFINE r == RingBranch
  <2>1. /\ Chain(r) /\ Len(r) \in Nat \ {0} /\ Fed(Edges, r[1])
        /\ MergeBranch(b1, r, b3) \subseteq Edges /\ Fed(Edges, b1[1])
    BY <1>5, <1>g, <1>1
  <2>2. /\ Fits(b1[Len(b1)], b3[1], 0) /\ Fits(r[Len(r)], b3[1], 1)
        /\ LikePort(b3[1], 1)
    BY <1>5, <1>1, HoughTasks
  <2> HIDE DEF r
  <2>3. Sound(Edges, MergeBranch(b1, r, b3)) /\ \A k \in 1 .. Len(b1) : Fed(Edges, b1[k])
    BY <1>5, <2>1, <2>2, MergeSound
  <2>4. QED
    BY <2>3 DEF r
\* The second merge, of a task bc_image of the first one.
<1>6. ASSUME MergeBranch(<<"bc_image">>, Candidates, Test) \subseteq Edges, Fed(Edges, "bc_image"),
             Fed(Edges, "ring_convolution")
      PROVE  Sound(Edges, MergeBranch(<<"bc_image">>, Candidates, Test))
  <2> DEFINE b == <<"bc_image">>
  <2>1. Chain(b) /\ Len(b) = 1 /\ b[1] = "bc_image" /\ b[Len(b)] = "bc_image"
    BY DEF Chain
  <2>2. MergeBranch(b, Candidates, Test) \subseteq Edges
    BY <1>6
  <2> DEFINE c == Candidates
             t == Test
  <2>3. /\ Chain(c) /\ Len(c) \in Nat \ {0} /\ Fed(Edges, c[1])
        /\ Chain(t) /\ Len(t) \in Nat \ {0}
        /\ Fits(c[Len(c)], t[1], 1) /\ LikePort(t[1], 1)
    BY <1>3, <1>4, <1>6, TestTasks
  <2>4. Fits(b[Len(b)], t[1], 0) /\ Fed(Edges, b[1]) /\ Len(b) \in Nat \ {0}
    BY <1>4, <1>6, <2>1, TestTasks
  <2> HIDE DEF b, c, t
  <2>5. Sound(Edges, MergeBranch(b, c, t))
    BY <2>1, <2>2, <2>3, <2>4, MergeSound DEF c, t
  <2>6. QED
    BY <2>5 DEF b, c, t
<1>7. ASSUME NEW b, Len(b) \in Nat \ {0}, Chain(b), b[1] = "read", b[Len(b)] = "input_fft",
             \E k \in 1 .. Len(b) : b[k] = "bc_image",
             Edges = MergeBranch(b, RingBranch, Candidates)
                        \cup MergeBranch(<<"bc_image">>, Candidates, Test)
      PROVE  Sound(Edges, Edges)
  <2>1. Sound(Edges, MergeBranch(b, RingBranch, Candidates)) /\ \A k \in 1 .. Len(b) : Fed(Edges, b[k])
    <3> DEFINE c == Candidates
    <3>1. Len(c) \in Nat \ {0} /\ Chain(c) /\ c[1] = "ring_convolution"
      BY <1>3
    <3>2. MergeBranch(b, RingBranch, c) \subseteq Edges
      BY <1>7
    <3> HIDE DEF c
    <3>3. Sound(Edges, MergeBranch(b, RingBranch, c)) /\ \A k \in 1 .. Len(b) : Fed(Edges, b[k])
      BY <1>5, <1>7, <3>1, <3>2
    <3>4. QED
      BY <3>3 DEF c
  <2>2. Fed(Edges, "bc_image")
    BY <1>7, <2>1
  <2>3. Fed(Edges, "ring_convolution")
    <3> DEFINE e == <<b[Len(b)], Candidates[1], 0>>
    <3>1. e \in MergeBranch(b, RingBranch, Candidates) /\ e[2] = "ring_convolution"
      BY <1>3 DEF MergeBranch
    <3> HIDE DEF e
    <3>2. QED
      BY <2>1, <3>1 DEF Sound
  <2>4. Sound(Edges, MergeBranch(<<"bc_image">>, Candidates, Test))
    BY <1>6, <1>7, <2>2, <2>3
  <2>5. QED
    BY <1>7, <2>1, <2>4 DEF Sound
<1>8. CASE wiring = "azimu"
  <2> DEFINE b == <<"read", "crop", "contrast", "bc_image", "rescale", "input_fft">>
  <2>1. /\ Len(b) = 6 /\ Chain(b) /\ b[1] = "read" /\ b[Len(b)] = "input_fft"
        /\ \E k \in 1 .. Len(b) : b[k] = "bc_image"
    <3>1. Len(b) = 6 /\ Chain(b) /\ b[1] = "read" /\ b[Len(b)] = "input_fft" /\ b[4] = "bc_image"
      BY InputTasks DEF Chain
    <3> HIDE DEF b
    <3>2. 4 \in 1 .. Len(b)
      BY <3>1
    <3>3. QED
      BY <3>1, <3>2
  <2>2. Edges = MergeBranch(b, RingBranch, Candidates)
                    \cup MergeBranch(<<"bc_image">>, Candidates, Test)
    BY <1>8 DEF Edges, EdgesOf
  <2> HIDE DEF b
  <2>3. Len(b) \in Nat \ {0}
    BY <2>1
  <2>4. QED
    BY <1>7, <2>1, <2>2, <2>3
<1>9. CASE wiring = "azimu2"
  <2> DEFINE b == <<"read", "crop", "bc_image", "contrast", "rescale", "input_fft">>
  <2>1. /\ Len(b) = 6 /\ Chain(b) /\ b[1] = "read" /\ b[Len(b)] = "input_fft"
        /\ \E k \in 1 .. Len(b) : b[k] = "bc_image"
    <3>1. Len(b) = 6 /\ Chain(b) /\ b[1] = "read" /\ b[Len(b)] = "input_fft" /\ b[3] = "bc_image"
      BY InputTasks DEF Chain
    <3> HIDE DEF b
    <3>2. 3 \in 1 .. Len(b)
      BY <3>1
    <3>3. QED
      BY <3>1, <3>2
  <2>2. Edges = MergeBranch(b, RingBranch, Candidates)
                    \cup MergeBranch(<<"bc_image">>, Candidates, Test)
    BY <1>9 DEF Edges, EdgesOf
  <2> HIDE DEF b
  <2>3. Len(b) \in Nat \ {0}
    BY <2>1
  <2>4. QED
    BY <1>7, <2>1, <2>2, <2>3
<1>10. CASE wiring = "candidate"
  <2> DEFINE b == Candidates \o <<"ring_writer">>
  <2>1. Chain(b) /\ Len(b) = 5 /\ b[1] = "ring_convolution"
    BY HoughTasks, TestTasks DEF Chain, Candidates
  <2>2. Edges = MergeBranch(InputBranch, RingBranch, b)
    BY <1>10 DEF Edges, EdgesOf
  <2> HIDE DEF b
  <2>3. Len(b) \in Nat \ {0} /\ Len(InputBranch) \in Nat \ {0}
    BY <1>2, <2>1
  <2>4. MergeBranch(InputBranch, RingBranch, b) \subseteq Edges
    BY <2>2
  <2>5. QED
    BY <1>2, <1>5, <2>1, <2>2, <2>3, <2>4
<1>11. CASE wiring = "likelihood"
  <2> DEFINE b == <<"ring_convolution", "ifft", "likelihood_image", "write">>
  <2>1. Chain(b) /\ Len(b) = 4 /\ b[1] = "ring_convolution"
    BY HoughTasks, InputTasks DEF Chain
  <2>2. Edges = MergeBranch(InputBranch, RingBranch, b)
    BY <1>11 DEF Edges, EdgesOf
  <2> HIDE DEF b
  <2>3. Len(b) \in Nat \ {0} /\ Len(InputBranch) \in Nat \ {0}
    BY <1>2, <2>1
  <2>4. MergeBranch(InputBranch, RingBranch, b) \subseteq Edges
    BY <2>2
  <2>5. QED
    BY <1>2, <1>5, <2>1, <2>2, <2>3, <2>4
<1>12. CASE wiring = "hough"
  <2> DEFINE b == <<"ring_convolution", "ifft", "write">>
  <2>1. Chain(b) /\ Len(b) = 3 /\ b[1] = "ring_convolution"
    BY HoughTasks, InputTasks DEF Chain
  <2>2. Edges = MergeBranch(InputBranch, RingBranch, b)
    BY <1>12 DEF Edges, EdgesOf
  <2> HIDE DEF b
  <2>3. Len(b) \in Nat \ {0} /\ Len(InputBranch) \in Nat \ {0}
    BY <1>2, <2>1
  <2>4. MergeBranch(InputBranch, RingBranch, b) \subseteq Edges
    BY <2>2
  <2>5. QED
    BY <1>2, <1>5, <2>1, <2>2, <2>3, <2>4
<1>13. CASE wiring = "contrast"
  <2> DEFINE b == <<"read", "crop", "contrast", "write">>
  <2>1. Chain(b) /\ Len(b) = 4 /\ b[1] = "read"
    BY InputTasks DEF Chain
  <2>2. Edges = Branch(b)
    BY <1>13 DEF Edges, EdgesOf
  <2> HIDE DEF b
  <2>3. QED
    BY <1>g, <2>1, <2>2, BranchSound
<1>14. QED
  BY <1>8, <1>9, <1>10, <1>11, <1>12, <1>13, GraphAssumption

\* No task is behind itself.
NoLoops == \A e \in Edges : e[1] # e[2]

\* No edge leads from a task to itself.
LEMMA Loops == wiring \in Wirings => NoLoops
  BY GraphsSound DEF Sound, Fits, NoLoops

\* What a task makes that decides itself.
LEMMA Made ==
    ASSUME NEW n \in DOMAIN Interface, Mode(n) \in {"processor", "generator"}
    PROVE  /\ Interface[n].output.like \in 0 .. 2
           /\ Interface[n].output.like = 0 => Interface[n].output.dims = DimsOf(n)
           /\ Mode(n) = "generator" => Interface[n].output.like = 0
  BY DEF Mode, Interface, DimsOf, Processor, Generator, Reductor, Sink, Dims, Like,
         PivContrastInterface, RingPatternInterface, ComplexMultInterface,
         HoughLikelihoodInterface, HoughLikelihoodImageInterface, CandidateFilterInterface,
         AzimuthalTestInterface, RingWriterInterface

\* The ends of an edge are tasks.
LEMMA Ends == \A e \in Edges : e[1] \in Nodes /\ e[2] \in Nodes
  BY DEF Nodes

-----------------------------------------------------------------------------
(* What a step does to the queues. *)

\* A queue does not mind a buffer that is elsewhere.
LEMMA QueueGrows ==
    ASSUME NEW s, NEW m, NEW t, NEW Bufs, NEW b, QueueCount(s, m, t, Bufs)
    PROVE  QueueCount(s, m, t, Bufs \cup {b})
  BY DEF QueueCount

\* Taking the head of a queue takes the next image.
LEMMA QueueTaken ==
    ASSUME NEW s, NEW m \in Int, NEW t \in Int, NEW Bufs, QueueCount(s, m, t, Bufs), s # <<>>
    PROVE  /\ QueueCount(Tail(s), m, t + 1, Bufs)
           /\ Head(s).images \subseteq {t + 1}
<1>1. s \in Seq(Bufs) /\ Len(s) = m - t /\ Len(s) >= 1
  BY DEF QueueCount
<1>2. Tail(s) \in Seq(Bufs) /\ Len(Tail(s)) = m - (t + 1)
  BY <1>1
<1>3. ASSUME NEW k \in 1 .. Len(Tail(s)) PROVE Tail(s)[k].images \subseteq {(t + 1) + k}
  <2>1. k + 1 \in 1 .. Len(s) /\ Tail(s)[k] = s[k + 1]
    BY <1>1, <1>2
  <2>2. s[k + 1].images \subseteq {t + (k + 1)}
    BY <2>1 DEF QueueCount
  <2>3. t + (k + 1) = (t + 1) + k
    OBVIOUS
  <2>4. QED
    BY <2>1, <2>2, <2>3
<1>4. Head(s) = s[1] /\ s[1].images \subseteq {t + 1}
  BY <1>1 DEF QueueCount
<1>5. QED
  BY <1>2, <1>3, <1>4 DEF QueueCount

\* A buffer put at the end of a queue is the next that was made.
LEMMA QueuePut ==
    ASSUME NEW s, NEW m \in Int, NEW t \in Int, NEW Bufs, QueueCount(s, m, t, Bufs),
           NEW b, b.images \subseteq {m + 1}
    PROVE  QueueCount(Append(s, b), m + 1, t, Bufs \cup {b})
<1> DEFINE r == Append(s, b)
<1>1. s \in Seq(Bufs) /\ Len(s) = m - t
  BY DEF QueueCount
<1>2. r \in Seq(Bufs \cup {b}) /\ Len(r) = (m + 1) - t /\ Len(r) = Len(s) + 1
  BY <1>1
<1>3. ASSUME NEW k \in 1 .. Len(r) PROVE r[k].images \subseteq {t + k}
  <2>1. CASE k = Len(r)
    <3>1. r[k] = b /\ t + k = m + 1
      BY <2>1, <1>1, <1>2
    <3>2. QED
      BY <3>1
  <2>2. CASE k # Len(r)
    <3>1. k \in 1 .. Len(s) /\ r[k] = s[k]
      BY <2>2, <1>1, <1>2
    <3>2. QED
      BY <3>1 DEF QueueCount
  <2>3. QED
    BY <2>1, <2>2
<1>4. QED
  BY <1>2, <1>3 DEF QueueCount

\* A task takes a buffer from each of its inputs (or from none) and puts one
\* behind itself (or none).
Moves(q, n, b, in, out) ==
    /\ DOMAIN q = Edges
    /\ \A e \in Edges :
          q[e] = IF e \in In(n) /\ in = 1 THEN Tail(queue[e])
                 ELSE IF e \in Out(n) /\ out = 1 THEN Append(queue[e], b)
                 ELSE queue[e]

\* A task that takes at most one buffer of each input and makes at most one keeps all counts.
LEMMA Moving ==
    ASSUME NoLoops, NEW q, NEW made \in [Nodes -> Int], NEW taken \in [Nodes -> Int], NEW Bufs,
           QueuesCount(queue, made, taken, Bufs),
           NEW n \in Nodes, NEW b,
           NEW in \in {0, 1}, NEW out \in {0, 1},
           in = 1 => Ready(n),
           out = 1 => b.images \subseteq {made[n] + 1},
           Moves(q, n, b, in, out),
           NEW m, m = [made EXCEPT ![n] = @ + out],
           NEW t, t = [taken EXCEPT ![n] = @ + in]
    PROVE  QueuesCount(q, m, t, Bufs \cup {b})
<1> SUFFICES ASSUME NEW e \in Edges
             PROVE  QueueCount(q[e], m[e[1]], t[e[2]], Bufs \cup {b})
  BY DEF QueuesCount
<1>1. QueueCount(queue[e], made[e[1]], taken[e[2]], Bufs)
  BY DEF QueuesCount
<1>2. /\ e[1] \in Nodes /\ e[2] \in Nodes /\ e[1] # e[2]
      /\ made[e[1]] \in Int /\ taken[e[2]] \in Int
  BY Ends DEF NoLoops
<1>3. CASE e[2] = n /\ in = 1
  <2>1. e \in In(n) /\ queue[e] # <<>> /\ q[e] = Tail(queue[e])
    BY <1>3 DEF In, Ready, Moves
  <2>2. QueueCount(Tail(queue[e]), made[e[1]], taken[e[2]] + 1, Bufs)
    BY <1>1, <1>2, <2>1, QueueTaken
  <2>3. m[e[1]] = made[e[1]] /\ t[e[2]] = taken[e[2]] + 1
    BY <1>2, <1>3
  <2>4. QED
    BY <2>1, <2>2, <2>3, QueueGrows
<1>4. CASE e[1] = n /\ out = 1
  <2>1. e \in Out(n) /\ e \notin In(n) /\ q[e] = Append(queue[e], b)
    BY <1>2, <1>4 DEF In, Out, Moves
  <2>2. QueueCount(Append(queue[e], b), made[e[1]] + 1, taken[e[2]], Bufs \cup {b})
    BY <1>1, <1>2, <1>4, QueuePut
  <2>3. m[e[1]] = made[e[1]] + 1 /\ t[e[2]] = taken[e[2]]
    BY <1>2, <1>4
  <2>4. QED
    BY <2>1, <2>2, <2>3
<1>5. CASE ~(e[2] = n /\ in = 1) /\ ~(e[1] = n /\ out = 1)
  <2>1. q[e] = queue[e]
    BY <1>5 DEF In, Out, Moves
  <2>2. m[e[1]] = made[e[1]] /\ t[e[2]] = taken[e[2]]
    BY <1>2, <1>5
  <2>3. QED
    BY <1>1, <2>1, <2>2, QueueGrows
<1>6. QED
  BY <1>3, <1>4, <1>5

\* What a task makes of the buffers it takes is of their image.
LEMMA Together ==
    ASSUME NEW made \in [Nodes -> Int], NEW taken \in [Nodes -> Int], NEW Bufs,
           QueuesCount(queue, made, taken, Bufs), NEW n \in Nodes, Ready(n)
    PROVE  OutputOf(n).images \subseteq {taken[n] + 1}
<1>1. ASSUME NEW e \in In(n) PROVE Head(queue[e]).images \subseteq {taken[n] + 1}
  <2>1. e \in Edges /\ e[2] = n /\ e[1] \in Nodes /\ queue[e] # <<>>
    BY <1>1, Ends DEF In, Ready
  <2>2. QueueCount(queue[e], made[e[1]], taken[n], Bufs) /\ made[e[1]] \in Int /\ taken[n] \in Int
    BY <2>1 DEF QueuesCount
  <2>3. QED
    BY <2>1, <2>2, QueueTaken
<1>2. OutputOf(n).images = UNION {c.images : c \in Front(n)}
  BY DEF OutputOf
<1>3. QED
  BY <1>1, <1>2 DEF Front

OthersRest(n) ==
    /\ DOMAIN state' = Nodes /\ held' \in [Nodes -> Int]
    /\ \A k \in Nodes \ {n} : state'[k] = state[k] /\ held'[k] = held[k]

\* A step of one task: what it takes and puts, and what it must keep.
LEMMA Counted ==
    ASSUME GraphTypes, wiring' = wiring, number' = number,
           NEW made, NEW taken, NEW Bufs, CountedBy(made, taken, Bufs),
           NEW n \in Nodes, NEW b,
           NEW in \in {0, 1}, NEW out \in {0, 1},
           in = 1 => Ready(n),
           out = 1 => b.images \subseteq {made[n] + 1},
           Moves(queue', n, b, in, out),
           OthersRest(n),
           state'[n] # "stopped" =>
               /\ Mode(n) \in {"processor", "sink"} => made[n] + out = taken[n] + in
               /\ n = "read" => made[n] + out = number - held'[n]
    PROVE  StepInv'
<1> DEFINE m == [made EXCEPT ![n] = @ + out]
           t == [taken EXCEPT ![n] = @ + in]
<1>1. Edges' = Edges /\ Nodes' = Nodes
  BY DEF Edges, Nodes
<1>2. GraphTypes'
  BY <1>1 DEF GraphTypes, Moves, OthersRest
<1>3. NoLoops
  BY Loops DEF GraphTypes
<1>4. made \in [Nodes -> Int] /\ taken \in [Nodes -> Int] /\ QueuesCount(queue, made, taken, Bufs)
  BY DEF CountedBy
<1>5. m \in [Nodes -> Int] /\ t \in [Nodes -> Int]
  BY <1>4
<1>6. QueuesCount(queue', m, t, Bufs \cup {b})
  <2>1. m = [made EXCEPT ![n] = @ + out] /\ t = [taken EXCEPT ![n] = @ + in]
    OBVIOUS
  <2> HIDE DEF m, t
  <2>2. QED
    BY <1>3, <1>4, <2>1, Moving
<1>7. QueuesCount(queue, m, t, Bufs \cup {b})'
  BY <1>1, <1>6 DEF QueuesCount
<1>8. TasksCount(m, t)'
  <2>1. SUFFICES ASSUME NEW k \in Nodes, state'[k] # "stopped"
                 PROVE  /\ Mode(k) \in {"processor", "sink"} => m[k] = t[k]
                        /\ k = "read" => m[k] = number - held'[k]
    BY <1>1 DEF TasksCount
  <2>2. CASE k = n
    BY <2>1, <2>2, <1>4
  <2>3. CASE k # n
    <3>1. m[k] = made[k] /\ t[k] = taken[k] /\ state[k] # "stopped" /\ held'[k] = held[k]
      BY <2>1, <2>3, <1>4 DEF OthersRest
    <3>2. QED
      BY <3>1 DEF CountedBy, TasksCount
  <2>4. QED
    BY <2>2, <2>3
<1>9. CountedBy(m, t, Bufs \cup {b})'
  BY <1>1, <1>5, <1>7, <1>8 DEF CountedBy
<1>10. QED
  BY <1>2, <1>9 DEF StepInv

-----------------------------------------------------------------------------
(* The images of a buffer. *)

\* Before anything moves nothing has been counted.
LEMMA CountsStart == GraphInit => StepInv
<1> SUFFICES ASSUME GraphInit PROVE StepInv
  OBVIOUS
<1> DEFINE z == [n \in Nodes |-> 0]
<1>1. \A n : Initial(n) \in Int
  BY GraphAssumption DEF Initial, GraphInit
<1>2. GraphTypes
  BY <1>1, GraphAssumption DEF GraphTypes, GraphInit
<1>3. z \in [Nodes -> Int]
  OBVIOUS
<1>4. QueuesCount(queue, z, z, {})
  BY Ends DEF QueuesCount, QueueCount, GraphInit
<1>5. TasksCount(z, z)
  <2>1. "read" \in Nodes => held["read"] = number
    BY DEF GraphInit, Initial
  <2>2. number \in Int
    BY <1>2 DEF GraphTypes
  <2>3. QED
    BY <2>1, <2>2 DEF TasksCount
<1>6. QED
  BY <1>2, <1>3, <1>4, <1>5 DEF StepInv, CountedBy

\* Every step of the graph keeps the counts.
LEMMA CountsKept == StepInv /\ [GraphNext]_graphVars => StepInv'
<1> SUFFICES ASSUME StepInv, [GraphNext]_graphVars PROVE StepInv'
  OBVIOUS
<1>t. GraphTypes /\ DOMAIN queue = Edges /\ DOMAIN state = Nodes /\ held \in [Nodes -> Int]
      /\ number \in Int
  BY DEF StepInv, GraphTypes
<1> PICK made, taken, Bufs : CountedBy(made, taken, Bufs)
  BY DEF StepInv
<1>m. made \in [Nodes -> Int] /\ taken \in [Nodes -> Int] /\ QueuesCount(queue, made, taken, Bufs)
  BY DEF CountedBy
<1>1. CASE UNCHANGED graphVars
  <2>1. Edges' = Edges /\ Nodes' = Nodes
    BY <1>1 DEF Edges, Nodes, graphVars
  <2>2. GraphTypes'
    BY <1>1, <1>t, <2>1 DEF GraphTypes, graphVars
  <2>3. CountedBy(made, taken, Bufs)'
    <3>1. QueuesCount(queue, made, taken, Bufs)'
      BY <1>1, <1>m, <2>1 DEF QueuesCount, graphVars
    <3>2. TasksCount(made, taken)'
      BY <1>1, <2>1 DEF CountedBy, TasksCount, graphVars
    <3>3. QED
      BY <1>m, <2>1, <3>1, <3>2 DEF CountedBy
  <2>4. QED
    BY <2>2, <2>3 DEF StepInv
<1>2. ASSUME NEW n \in Nodes, RunThread(n) PROVE StepInv'
  <2>k. state[n] # "stopped" =>
            /\ Mode(n) \in {"processor", "sink"} => made[n] = taken[n]
            /\ n = "read" => made[n] = number - held[n]
    BY DEF CountedBy, TasksCount
  <2>n. made[n] \in Int /\ taken[n] \in Int /\ held[n] \in Int
    BY <1>m, <1>t
  <2>1. CASE Process(n)
    <3>1. OutputOf(n).images \subseteq {made[n] + 1}
      BY <1>m, <2>1, <2>k, Together DEF Process
    <3>2. n # "read"
      BY <2>1, Modes DEF Process
    <3>3. /\ Ready(n) /\ wiring' = wiring /\ number' = number /\ held' = held /\ state' = state
          /\ queue' = Moved(In(n), n, OutputOf(n)) /\ state[n] = "input"
      BY <2>1 DEF Process
    <3>4. made[n] + 1 = taken[n] + 1 \/ Mode(n) \notin {"processor", "sink"}
      BY <2>k, <3>3
    <3> DEFINE b == OutputOf(n)
    <3>5. Moves(queue', n, b, 1, 1)
      BY <3>3 DEF Moved, Moves
    <3> HIDE DEF b
    <3>6. QED
      BY <1>t, <3>1, <3>2, <3>3, <3>4, <3>5, Counted DEF b, OthersRest
  <2>2. CASE Produce(n)
    <3> DEFINE b == [images |-> IF n = "read" THEN {number - held[n] + 1} ELSE {},
                     dims |-> Interface[n].output.dims]
    <3>1. /\ wiring' = wiring /\ number' = number /\ state' = state
          /\ held' = [held EXCEPT ![n] = @ - 1]
          /\ queue' = Moved({}, n, b) /\ state[n] = "output" /\ Mode(n) = "generator"
      BY <2>2 DEF Produce
    <3>2. b.images \subseteq {made[n] + 1}
      BY <2>k, <2>n, <3>1
    <3>3. Moves(queue', n, b, 0, 1)
      BY <3>1 DEF Moved, Moves
    <3> HIDE DEF b
    <3>4. /\ held' \in [Nodes -> Int] /\ held'[n] = held[n] - 1
          /\ \A k \in Nodes \ {n} : held'[k] = held[k]
      BY <1>t, <2>n, <3>1
    <3>5. n = "read" => made[n] + 1 = number - held'[n]
      BY <1>t, <2>k, <2>n, <3>1, <3>4
    <3>6. QED
      BY <1>t, <3>1, <3>2, <3>3, <3>4, <3>5, Counted DEF OthersRest
  <2>3. CASE Stack(n)
    <3>1. /\ wiring' = wiring /\ number' = number /\ state' = state
          /\ n # "read" /\ Mode(n) = "reductor" /\ Ready(n)
      BY <2>3, Modes DEF Stack
    <3>2. /\ held' \in [Nodes -> Int]
          /\ \A k \in Nodes \ {n} : held'[k] = held[k]
      <4>1. held' = [held EXCEPT ![n] = @ + 1] \/ held' = [held EXCEPT ![n] = 0]
        BY <2>3 DEF Stack
      <4>2. QED
        BY <1>t, <2>n, <4>1
    <3> DEFINE b == [images |-> {}, dims |-> 3]
    <3>3. CASE held[n] + 1 < StackSize
      <4>1. Moves(queue', n, b, 1, 0)
        BY <2>3, <3>3 DEF Stack, Moves
      <4> HIDE DEF b
      <4>2. QED
        BY <1>t, <3>1, <3>2, <4>1, Counted DEF OthersRest
    <3>4. CASE ~(held[n] + 1 < StackSize)
      <4>1. Moves(queue', n, b, 1, 1)
        BY <2>3, <3>4 DEF Stack, Moved, Moves
      <4>2. b.images \subseteq {made[n] + 1}
        OBVIOUS
      <4> HIDE DEF b
      <4>3. QED
        BY <1>t, <3>1, <3>2, <4>1, <4>2, Counted DEF OthersRest
    <3>5. QED
      BY <3>3, <3>4
  <2>4. CASE LoopIn(n)
    <3>1. /\ wiring' = wiring /\ number' = number /\ held' = held
          /\ n # "read" /\ Mode(n) = "reductor" /\ Ready(n)
      BY <2>4, Modes DEF LoopIn
    <3>2. DOMAIN state' = Nodes /\ \A k \in Nodes \ {n} : state'[k] = state[k]
      BY <1>t, <2>4 DEF LoopIn
    <3>3. Moves(queue', n, End, 1, 0)
      BY <2>4 DEF LoopIn, Moves
    <3>4. QED
      BY <1>t, <3>1, <3>2, <3>3, Counted DEF OthersRest
  <2>5. CASE LoopOut(n)
    <3> DEFINE b == [images |-> {}, dims |-> 3]
    <3>1. /\ wiring' = wiring /\ number' = number /\ state' = state
          /\ n # "read" /\ Mode(n) = "reductor"
          /\ held' = [held EXCEPT ![n] = @ - 1] /\ queue' = Moved({}, n, b)
      BY <2>5, Modes DEF LoopOut
    <3>2. Moves(queue', n, b, 0, 1)
      BY <3>1 DEF Moved, Moves
    <3>3. b.images \subseteq {made[n] + 1}
      OBVIOUS
    <3> HIDE DEF b
    <3>4. held' \in [Nodes -> Int] /\ \A k \in Nodes \ {n} : held'[k] = held[k]
      BY <1>t, <2>n, <3>1
    <3>5. QED
      BY <1>t, <3>1, <3>2, <3>3, <3>4, Counted DEF OthersRest
  <2>6. CASE Consume(n)
    <3>1. /\ wiring' = wiring /\ number' = number /\ state' = state /\ held' = held
          /\ Mode(n) = "sink" /\ state[n] = "input" /\ Ready(n)
          /\ queue' = Moved(In(n), n, End) /\ n # "read"
      BY <2>6, Modes DEF Consume
    <3>2. Moves(queue', n, End, 1, 1)
      BY <3>1 DEF Moved, Moves
    <3>3. End.images \subseteq {made[n] + 1}
      BY DEF End
    <3>4. made[n] + 1 = taken[n] + 1
      BY <2>k, <3>1
    <3>5. QED
      BY <1>t, <3>1, <3>2, <3>3, <3>4, Counted DEF OthersRest
  <2>7. CASE Stop(n)
    <3>1. /\ wiring' = wiring /\ number' = number /\ held' = held
          /\ state' = [state EXCEPT ![n] = "stopped"] /\ queue' = Moved({}, n, End)
      BY <2>7 DEF Stop
    <3>2. Moves(queue', n, End, 0, 1)
      BY <3>1 DEF Moved, Moves
    <3>3. End.images \subseteq {made[n] + 1}
      BY DEF End
    <3>4. DOMAIN state' = Nodes /\ state'[n] = "stopped"
          /\ \A k \in Nodes \ {n} : state'[k] = state[k]
      BY <1>t, <3>1
    <3>5. QED
      BY <1>t, <3>1, <3>2, <3>3, <3>4, Counted DEF OthersRest
  <2>8. QED
    BY <1>2, <2>1, <2>2, <2>3, <2>4, <2>5, <2>6, <2>7 DEF RunThread
<1>3. QED
  BY <1>1, <1>2 DEF GraphNext, AllStopped

\* Where the counts agree, the inputs of a task are of one image.
LEMMA OneImage == StepInv => ImagesNeverMix
<1> SUFFICES ASSUME StepInv, NEW e \in Edges, NEW k \in 1 .. Len(queue[e])
             PROVE  Cardinality(queue[e][k].images) <= 1
  BY DEF ImagesNeverMix
<1> PICK made, taken, Bufs : CountedBy(made, taken, Bufs)
  BY DEF StepInv
<1> DEFINE i == taken[e[2]] + k
           x == queue[e][k].images
<1>1. x \subseteq {i}
  BY DEF CountedBy, QueuesCount, QueueCount
<1>2. x = {} \/ x = {i}
  BY <1>1
<1> HIDE DEF x, i
<1>3. x = {} => Cardinality(x) = 0
  BY FS_EmptySet
<1>4. x = {i} => Cardinality(x) = 1
  BY FS_Singleton
<1>5. Cardinality(x) <= 1
  BY <1>2, <1>3, <1>4
<1>6. QED
  BY <1>5 DEF x

\* For any number of images and patterns, stacks and queues of any size: two
\* branches of a broadcast meet again with the same image (merge_branch,
\* piv-hough.py 173-180).
THEOREM BranchesMeet == GraphSpec => []ImagesNeverMix
<1>1. GraphSpec => []StepInv
  <2>1. GraphInit => StepInv
    BY CountsStart
  <2>2. StepInv /\ [GraphNext]_graphVars => StepInv'
    BY CountsKept
  <2>3. QED
    BY <2>1, <2>2, PTL DEF GraphSpec
<1>2. StepInv => ImagesNeverMix
  BY OneImage
<1>3. QED
  BY <1>1, <1>2, PTL

-----------------------------------------------------------------------------
(* The dimensions of a buffer. *)

\* A queue behind a task that makes buffers of d dimensions.
Shaped(s, d) == \A k \in 1 .. Len(s) : s[k] = End \/ s[k].dims = d

DimsInv == \A e \in Edges : Shaped(queue[e], DimsOf(e[1]))

\* Taking from a queue and putting in what the task makes.
LEMMA ShapeTaken ==
    ASSUME NEW B, NEW s \in Seq(B), NEW d, Shaped(s, d), s # <<>>
    PROVE  Shaped(Tail(s), d) /\ (Head(s) = End \/ Head(s).dims = d)
<1>1. ASSUME NEW k \in 1 .. Len(Tail(s)) PROVE Tail(s)[k] = End \/ Tail(s)[k].dims = d
  <2>1. k + 1 \in 1 .. Len(s) /\ Tail(s)[k] = s[k + 1]
    OBVIOUS
  <2>2. QED
    BY <2>1 DEF Shaped
<1>2. Head(s) = s[1] /\ 1 \in 1 .. Len(s)
  OBVIOUS
<1>3. QED
  BY <1>1, <1>2 DEF Shaped

\* A queue keeps its dimensions if the new buffer has them.
LEMMA ShapePut ==
    ASSUME NEW B, NEW s \in Seq(B), NEW d, Shaped(s, d), NEW b, b = End \/ b.dims = d
    PROVE  Shaped(Append(s, b), d)
<1> DEFINE r == Append(s, b)
<1>1. Len(r) = Len(s) + 1 /\ r[Len(s) + 1] = b /\ \A k \in 1 .. Len(s) : r[k] = s[k]
  OBVIOUS
<1>2. ASSUME NEW k \in 1 .. Len(s) + 1 PROVE r[k] = End \/ r[k].dims = d
  <2>1. k = Len(s) + 1 \/ k \in 1 .. Len(s)
    OBVIOUS
  <2> HIDE DEF r
  <2>2. QED
    BY <1>1, <2>1 DEF Shaped
<1> HIDE DEF r
<1>3. Shaped(r, d)
  BY <1>1, <1>2 DEF Shaped
<1>4. QED
  BY <1>3 DEF r

\* A task whose buffer has the dimensions DimsOf gives it.
LEMMA Shaping ==
    ASSUME StepInv, DimsInv, wiring' = wiring, NEW n \in Nodes, NEW b,
           NEW in \in {0, 1}, NEW out \in {0, 1},
           in = 1 => Ready(n), out = 1 => b = End \/ b.dims = DimsOf(n),
           Moves(queue', n, b, in, out)
    PROVE  DimsInv'
<1>1. Edges' = Edges
  BY DEF Edges
<1> PICK made, taken, Bufs : CountedBy(made, taken, Bufs)
  BY DEF StepInv
<1>2. ASSUME NEW e \in Edges PROVE Shaped(queue'[e], DimsOf(e[1]))
  <2>1. queue[e] \in Seq(Bufs) /\ Shaped(queue[e], DimsOf(e[1]))
    BY DEF CountedBy, QueuesCount, QueueCount, DimsInv
  <2>2. CASE e \in In(n) /\ in = 1
    <3>1. queue'[e] = Tail(queue[e]) /\ queue[e] # <<>>
      BY <2>2 DEF Moves, Ready
    <3>2. QED
      BY <2>1, <3>1, ShapeTaken
  <2>3. CASE ~(e \in In(n) /\ in = 1) /\ e \in Out(n) /\ out = 1
    <3>1. queue'[e] = Append(queue[e], b) /\ e[1] = n
      BY <2>3 DEF Moves, Out
    <3>2. QED
      BY <2>1, <2>3, <3>1, ShapePut
  <2>4. CASE ~(e \in In(n) /\ in = 1) /\ ~(e \in Out(n) /\ out = 1)
    BY <2>1, <2>4 DEF Moves
  <2>5. QED
    BY <2>2, <2>3, <2>4
<1>3. QED
  BY <1>1, <1>2 DEF DimsInv

\* What comes out of a processor: its own dimensions, or those of the input its
\* output is to be like.
LEMMA ProcessorDims ==
    ASSUME StepInv, DimsInv, NEW n \in DOMAIN Interface, n \in Nodes, Process(n)
    PROVE  OutputOf(n).dims = DimsOf(n)
<1> DEFINE out == Interface[n].output
<1>1. Mode(n) = "processor" /\ Ready(n) /\ End \notin Front(n)
  BY DEF Process
<1>2. OutputOf(n).dims = IF out.like = 0 THEN out.dims ELSE At(n, out.like - 1).dims
  BY DEF OutputOf
<1>3. CASE out.like = 0
  BY <1>1, <1>2, <1>3, Made
<1>4. CASE out.like # 0
  <2>1. Sound(Edges, Edges)
    BY GraphsSound DEF StepInv, GraphTypes
  <2>2. Fed(Edges, n)
    BY <2>1 DEF Nodes, Sound
  <2> DEFINE port == out.like - 1
             e == CHOOSE x \in In(n) : x[3] = port
  <2>3. \E x \in In(n) : x[3] = port
    BY <1>1, <1>4, <2>2 DEF Fed, In
  <2>4. e \in In(n) /\ e[3] = port
    BY <2>3
  <2>5. At(n, port) = Head(queue[e])
    BY DEF At
  <2>6. out.like \in Int
    BY <1>1, Made
  <2> HIDE DEF e
  <2>7. e \in Edges /\ e[2] = n /\ queue[e] # <<>> /\ Head(queue[e]) # End
    BY <1>1, <2>4 DEF In, Ready, Front
  <2> PICK made, taken, Bufs : CountedBy(made, taken, Bufs)
    BY DEF StepInv
  <2>8. queue[e] \in Seq(Bufs) /\ Shaped(queue[e], DimsOf(e[1]))
    BY <2>7 DEF CountedBy, QueuesCount, QueueCount, DimsInv
  <2>9. Head(queue[e]).dims = DimsOf(e[1])
    BY <2>7, <2>8, ShapeTaken
  <2>10. Fits(e[1], n, port)
    BY <2>1, <2>4, <2>7 DEF Sound
  <2>11. DimsOf(n) = DimsOf(e[1])
    <3>1. port + 1 = out.like
      BY <2>6
    <3>2. QED
      BY <2>10, <3>1 DEF Fits
  <2>12. QED
    BY <1>2, <1>4, <2>5, <2>9, <2>11
<1>5. QED
  BY <1>3, <1>4

\* An empty queue has any dimensions.
LEMMA DimsStart == GraphInit => DimsInv
  BY DEF GraphInit, DimsInv, Shaped

\* Every step of the graph keeps the dimensions of the queues.
LEMMA DimsKept == StepInv /\ DimsInv /\ [GraphNext]_graphVars => DimsInv'
<1> SUFFICES ASSUME StepInv, DimsInv, [GraphNext]_graphVars PROVE DimsInv'
  OBVIOUS
<1>1. CASE UNCHANGED graphVars
  BY <1>1 DEF DimsInv, Edges, graphVars
<1>2. ASSUME NEW n \in Nodes, n \in DOMAIN Interface, RunThread(n) PROVE DimsInv'
  <2> DEFINE three == [images |-> {}, dims |-> 3]
  <2>1. CASE Process(n)
    <3>1. wiring' = wiring /\ Ready(n) /\ queue' = Moved(In(n), n, OutputOf(n))
      BY <2>1 DEF Process
    <3>2. OutputOf(n).dims = DimsOf(n)
      BY <1>2, <2>1, ProcessorDims
    <3> DEFINE b == OutputOf(n)
    <3>3. Moves(queue', n, b, 1, 1)
      BY <3>1 DEF Moved, Moves
    <3> HIDE DEF b
    <3>4. QED
      BY <3>1, <3>2, <3>3, Shaping DEF b
  <2>2. CASE Produce(n)
    <3> DEFINE b == [images |-> IF n = "read" THEN {number - held[n] + 1} ELSE {},
                     dims |-> Interface[n].output.dims]
    <3>1. wiring' = wiring /\ queue' = Moved({}, n, b) /\ Mode(n) = "generator"
      BY <2>2 DEF Produce
    <3>2. b.dims = DimsOf(n)
      BY <1>2, <3>1, Made
    <3>3. Moves(queue', n, b, 0, 1)
      BY <3>1 DEF Moved, Moves
    <3> HIDE DEF b
    <3>4. QED
      BY <3>1, <3>2, <3>3, Shaping
  <2>3. CASE Stack(n)
    <3>1. wiring' = wiring /\ Ready(n) /\ three.dims = DimsOf(n)
      BY <2>3 DEF Stack, DimsOf
    <3>2. CASE held[n] + 1 < StackSize
      <4>1. Moves(queue', n, three, 1, 0)
        BY <2>3, <3>2 DEF Stack, Moves
      <4> HIDE DEF three
      <4>2. QED
        BY <3>1, <4>1, Shaping
    <3>3. CASE ~(held[n] + 1 < StackSize)
      <4>1. Moves(queue', n, three, 1, 1)
        BY <2>3, <3>3 DEF Stack, Moved, Moves
      <4> HIDE DEF three
      <4>2. QED
        BY <3>1, <4>1, Shaping
    <3>4. QED
      BY <3>2, <3>3
  <2>4. CASE LoopIn(n)
    <3>1. wiring' = wiring /\ Ready(n) /\ Moves(queue', n, End, 1, 0)
      BY <2>4 DEF LoopIn, Moves
    <3>2. QED
      BY <3>1, Shaping
  <2>5. CASE LoopOut(n)
    <3>1. wiring' = wiring /\ three.dims = DimsOf(n) /\ Moves(queue', n, three, 0, 1)
      BY <2>5 DEF LoopOut, DimsOf, Moved, Moves
    <3> HIDE DEF three
    <3>2. QED
      BY <3>1, Shaping
  <2>6. CASE Consume(n)
    <3>1. wiring' = wiring /\ Ready(n) /\ Moves(queue', n, End, 1, 1)
      BY <2>6 DEF Consume, Moved, Moves
    <3>2. QED
      BY <3>1, Shaping
  <2>7. CASE Stop(n)
    <3>1. wiring' = wiring /\ Moves(queue', n, End, 0, 1)
      BY <2>7 DEF Stop, Moved, Moves
    <3>2. QED
      BY <3>1, Shaping
  <2>8. QED
    BY <1>2, <2>1, <2>2, <2>3, <2>4, <2>5, <2>6, <2>7 DEF RunThread
<1>3. QED
  BY <1>1, <1>2 DEF GraphNext, AllStopped

\* In every graph of the scripts, for any number of images and patterns: what
\* waits at an input has the dimensions its task declares there
\* (get_num_dimensions and get_requisition of the tasks).
THEOREM DimensionsAgree == GraphSpec => []DimensionsAccepted
<1>1. StepInv /\ DimsInv => DimensionsAccepted
  <2> SUFFICES ASSUME StepInv, DimsInv, NEW e \in Edges, NEW k \in 1 .. Len(queue[e]),
                      queue[e][k] # End
               PROVE  Interface[e[2]].inputs[e[3] + 1] \in {AnyDim, queue[e][k].dims}
    BY DEF DimensionsAccepted
  <2>1. Sound(Edges, Edges)
    BY GraphsSound DEF StepInv, GraphTypes
  <2>2. Interface[e[2]].inputs[e[3] + 1] \in {AnyDim, DimsOf(e[1])}
    BY <2>1 DEF Sound, Fits
  <2>3. queue[e][k].dims = DimsOf(e[1])
    BY DEF DimsInv, Shaped
  <2>4. QED
    BY <2>2, <2>3
<1>2. GraphInit => StepInv /\ DimsInv
  BY CountsStart, DimsStart
<1>3. (StepInv /\ DimsInv) /\ [GraphNext]_graphVars => (StepInv /\ DimsInv)'
  BY CountsKept, DimsKept
<1>4. QED
  BY <1>1, <1>2, <1>3, PTL DEF GraphSpec

=============================================================================
