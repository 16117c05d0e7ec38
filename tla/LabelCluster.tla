----------------------------- MODULE LabelCluster -----------------------------
(***************************************************************************)
(* The label-cluster task (src_hough/ufo-label-cluster-task.c): numbers    *)
(* the clusters of an image of zeros and ones by a flood fill of bounded   *)
(* size, and blots out the rectangle around a cluster of the wrong shape.  *)
(*                                                                         *)
(* An image is [w, h, on], on being its pixels of value 1.  The seeds      *)
(* are looked for in a square of w by w pixels: the images are at least as *)
(* high as they are wide, else the loop reads past the image.              *)
(***************************************************************************)
EXTENDS Integers, FiniteSets

CONSTANTS
    MaxDepth,            \* explore stops beyond this many pixels: 100
    MinArea, MaxArea,    \* of the rectangle around a cluster: 4 and 50
    MaxSkew              \* its sides may differ by this much: 2

PixelsOf(img) == (0 .. img.w - 1) \X (0 .. img.h - 1)

Least(a, b) == IF a < b THEN a ELSE b
Most(a, b)  == IF a > b THEN a ELSE b

East(q)  == <<q[1] + 1, q[2]>>
West(q)  == <<q[1] - 1, q[2]>>
Above(q) == <<q[1], q[2] - 1>>
Below(q) == <<q[1], q[2] + 1>>

\* The early returns of explore.
Enters(s, q, label, img) ==
    s.depth <= MaxDepth /\ q \in img.on /\ s.out[q] # label

Fills(img) == [out : [PixelsOf(img) -> Int], depth : Nat,
               minx : Int, maxx : Int, miny : Int, maxy : Int]

\* The pixel is labelled and the rectangle extended to it.
Filled(s, q, label) ==
    [out  |-> [s.out EXCEPT ![q] = label], depth |-> s.depth + 1,
     minx |-> Least(q[1], s.minx), maxx |-> Most(q[1], s.maxx),
     miny |-> Least(q[2], s.miny), maxy |-> Most(q[2], s.maxy)]

\* The recursion, from a pixel on.  Call[k] is a call with room for k calls one
\* inside the other: each has labelled a pixel, so that there are never more than
\* MaxDepth + 1 under way.
explore(fill, seed, label, img) ==
    LET Call[k \in 0 .. MaxDepth + 1] ==
            [c \in Fills(img) \X (Int \X Int) |->
                LET s == c[1]
                    q == c[2]
                    east  == Call[k - 1][<<Filled(s, q, label), East(q)>>]
                    west  == Call[k - 1][<<east, West(q)>>]
                    above == Call[k - 1][<<west, Above(q)>>]
                IN  IF k = 0 \/ ~ Enters(s, q, label, img) THEN s
                    ELSE Call[k - 1][<<above, Below(q)>>]]
    IN  Call[MaxDepth + 1][<<fill, seed>>]

\* Mutant: the rectangle is blotted out without its last column.
BoxShort(f) == (f.minx .. f.maxx - 1) \X (f.miny .. f.maxy)

Box(f) == (f.minx .. f.maxx) \X (f.miny .. f.maxy)

Rejected(f) ==
    LET dx == f.maxx - f.minx
        dy == f.maxy - f.miny
        csize == (dx + 1) * (dy + 1)
    IN  csize < MinArea \/ csize > MaxArea \/ dx - dy > MaxSkew \/ dy - dx > MaxSkew

\* One round of the loop over the seeds.
Visit(s, q, img) ==
    IF q \notin img.on \/ s.out[q] # 0 THEN s
    ELSE LET f == explore([out |-> s.out, depth |-> 0, minx |-> img.w, maxx |-> 0,
                           miny |-> img.h, maxy |-> 0], q, s.label + 1, img)
         IN  [label |-> s.label + 1,
              out   |-> IF Rejected(f)
                        THEN [p \in PixelsOf(img) |-> IF p \in Box(f) THEN -1 ELSE f.out[p]]
                        ELSE f.out]

\* The loops: ix outside, iy inside, both up to dimx.
Seeds(img) == [k \in 1 .. img.w * img.w |-> <<(k - 1) \div img.w, (k - 1) % img.w>>]

\* The logarithm at the end: it keeps the order of the labels and takes 1 to 0.
Logarithm(label) == IF label > 0 THEN label - 1 ELSE label

\* After[k]: after k rounds.
Labelled(img) ==
    LET After[k \in 0 .. img.w * img.w] ==
            IF k = 0 THEN [out |-> [p \in PixelsOf(img) |-> 0], label |-> 0]
            ELSE Visit(After[k - 1], Seeds(img)[k], img)
    IN  [p \in PixelsOf(img) |-> Logarithm(After[img.w * img.w].out[p])]

-----------------------------------------------------------------------------
(* Reference: the pixels that hang together with p. *)

Next4(q) == {East(q), West(q), Above(q), Below(q)}

\* Reach[k]: the pixels at most k steps from p.
Cluster(p, img) ==
    LET Reach[k \in 0 .. Cardinality(img.on)] ==
            IF k = 0 THEN {p}
            ELSE LET S == Reach[k - 1]
                 IN  S \cup (img.on \cap UNION {Next4(q) : q \in S})
    IN  Reach[Cardinality(img.on)]

\* The least rectangle around the pixels C.
Around(C, img) ==
    [minx |-> CHOOSE v \in 0 .. img.w : (\E q \in C : q[1] = v) /\ \A q \in C : v <= q[1],
     maxx |-> CHOOSE v \in 0 .. img.w : (\E q \in C : q[1] = v) /\ \A q \in C : v >= q[1],
     miny |-> CHOOSE v \in 0 .. img.h : (\E q \in C : q[2] = v) /\ \A q \in C : v <= q[2],
     maxy |-> CHOOSE v \in 0 .. img.h : (\E q \in C : q[2] = v) /\ \A q \in C : v >= q[2]]

\* Off the pixels that were blotted out, two pixels have the same number exactly
\* if they hang together, and a number stands for a cluster of an accepted
\* shape: neither the rectangles of rejected neighbours, which undo labels, nor
\* a second fill over them mixes clusters (lines 112-154).  Clusters are not
\* larger than the fill reaches.
LabelsSound(img, out) ==
    (\A p \in img.on : Cardinality(Cluster(p, img)) <= MaxDepth + 1) =>
        \A p \in PixelsOf(img) : out[p] > 0 =>
            LET C == Cluster(p, img) IN
            /\ p \in img.on
            /\ \A q \in PixelsOf(img) : out[q] = out[p] => q \in C
            /\ \A q \in C : out[q] \in {-1, out[p]}
            /\ ~ Rejected(Around(C, img))

=============================================================================
