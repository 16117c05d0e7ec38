------------------------------ MODULE MCProcess ------------------------------
(***************************************************************************)
(* TaskProcess for TLC, with small inputs of each task.                    *)
(***************************************************************************)
EXTENDS TaskProcess

CONSTANT MaxPlanes     \* planes of a stack

MCStacks == UNION {[mem : [0 .. n * PlaneSize - 1 -> BOOLEAN], planes : {n}] : n \in 2 .. MaxPlanes}

MCClusterImages == [w : {3}, h : {4}, on : SUBSET ((0 .. 2) \X (0 .. 3))]

\* A border of one value around three by two pixels: all clear, none, or those
\* in every other column.
MaximaImage(f, b, c) ==
    [w |-> 5, h |-> 4, clear |-> c,
     val |-> [p \in (0 .. 4) \X (0 .. 3) |-> IF p \in DOMAIN f THEN f[p] ELSE b]]

MCMaximaImages ==
    LET all == (1 .. 3) \X (1 .. 2) IN
    {MaximaImage(f, b, all) : f \in [all -> {0, 1, 3}], b \in {0, 3}}
        \cup {MaximaImage(f, 0, c) : f \in [all -> {0, 3}], c \in {{}, {p \in all : p[1] # 2}}}

\* Before the first image the buffer holds anything.
MCOldBuffer == [count |-> 3, at |-> [k \in 1 .. 6 |-> <<0, 0>>]]

MCHistograms == {[v \in 0 .. 6 |-> IF v \in {0, 6} THEN 1 ELSE f[v]] : f \in [1 .. 5 -> 0 .. 5]}

MCRingInputs == [c : {0, 3, 12, 20} \X {0, 9, 13}, min_r : 1 .. 10, more : {0, 3, 6}]

\* Nine bins; the last two are empty or low.
MCProfiles ==
    {[k \in 0 .. HistLen - 1 |-> IF k < HistLen - 2 THEN f[k] ELSE b] :
        f \in [0 .. HistLen - 3 -> 0 .. 3], b \in {0, 2}}

\* All blobs in four by three and three by four pixels, and images of seven by
\* four that need up to three pairs.
SmallBlobs ==
    [nr : {4}, nc : {3}, on : SUBSET ((0 .. 3) \X (0 .. 2))]
        \cup [nr : {3}, nc : {4}, on : SUBSET ((0 .. 2) \X (0 .. 3))]

Rows(s) == {<<i - 1, j - 1>> : i \in DOMAIN s, j \in 1 .. 4}

\* Three arms that meet in the second column, with some pixels left open.
Arms == {<<0, 2>>, <<0, 3>>, <<1, 1>>, <<1, 2>>, <<1, 3>>, <<2, 1>>, <<2, 2>>, <<2, 3>>,
         <<3, 0>>, <<3, 1>>, <<3, 3>>, <<4, 2>>, <<4, 3>>, <<5, 2>>, <<5, 3>>,
         <<6, 0>>, <<6, 1>>, <<6, 2>>, <<6, 3>>}
OpenPixels == {<<0, 2>>, <<1, 3>>, <<2, 2>>, <<3, 0>>, <<3, 3>>, <<4, 3>>, <<6, 0>>, <<6, 3>>}

ThreePairs == {[nr |-> 7, nc |-> 4, on |-> (Arms \ OpenPixels) \cup S] : S \in SUBSET OpenPixels}

AllBlobs == SmallBlobs \cup ThreePairs

=============================================================================
