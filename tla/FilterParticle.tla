---------------------------- MODULE FilterParticle ----------------------------
(***************************************************************************)
(* pfind of the filter-particle task (src_ordfilt/ufo-filter-particle-     *)
(* task.c): numbers the blobs of an image in two passes, column by column, *)
(* with a list of pairs of numbers that turned out to be one blob.         *)
(*                                                                         *)
(* An image is [nr, nc, on]: rows, columns and the pixels <<i, j>> above   *)
(* the threshold.  The tables have room for 100000 entries, more than a    *)
(* small image can need.                                                   *)
(***************************************************************************)
EXTENDS Integers, FiniteSets, Sequences

PixelsOf(img) == (0 .. img.nr - 1) \X (0 .. img.nc - 1)

\* j outside, i inside.
Columns(img) == [k \in 1 .. img.nr * img.nc |-> <<(k - 1) % img.nr, (k - 1) \div img.nr>>]

Place(img, q) == q[2] * img.nr + q[1]

Left(q)       == <<q[1], q[2] - 1>>
Right(q)      == <<q[1], q[2] + 1>>
Top(q)        == <<q[1] - 1, q[2]>>
Bottom(q)     == <<q[1] + 1, q[2]>>
BottomLeft(q) == <<q[1] + 1, q[2] - 1>>
Beside(q)     == {Left(q), Right(q), Top(q), Bottom(q)}

\* The pixel a number is taken from, if any: left, top, or lower left under a
\* pixel below.
CopiesFrom(img, q) ==
    IF Left(q) \in img.on THEN {Left(q)}
    ELSE IF Top(q) \in img.on THEN {Top(q)}
    ELSE IF {Bottom(q), BottomLeft(q)} \subseteq img.on THEN {BottomLeft(q)}
    ELSE {}

\* Mutant: the pair is missed where the pixel has something on its right.
MeetsNarrow(img, q) ==
    {Top(q), Bottom(q), BottomLeft(q)} \subseteq img.on /\ {Left(q), Right(q)} \cap img.on = {}

\* Two numbers meet in the column: the one from the top and the one at the
\* lower left.
Meets(img, q) ==
    {Top(q), Bottom(q), BottomLeft(q)} \subseteq img.on /\ Left(q) \notin img.on

\* The first pass at pixel q.  A pixel with nothing beside it is dropped.
Number(img, s, q) ==
    IF q \notin img.on \/ Beside(q) \cap img.on = {} THEN s
    ELSE LET new  == CopiesFrom(img, q) = {}
             k1   == IF new THEN s.pc + 1 ELSE s.out[CHOOSE p \in CopiesFrom(img, q) : TRUE]
             k2   == s.out[BottomLeft(q)]
         IN  [pc  |-> IF new THEN s.pc + 1 ELSE s.pc,
              out |-> [s.out EXCEPT ![q] = k1],
              dup |-> IF Meets(img, q)
                      THEN Append(s.dup, IF k1 > k2 THEN <<k2, k1>> ELSE <<k1, k2>>)
                      ELSE s.dup]

\* After[k]: after k pixels.
FirstPass(img) ==
    LET After[k \in 0 .. img.nr * img.nc] ==
            IF k = 0 THEN [pc |-> 0, out |-> [p \in PixelsOf(img) |-> 0], dup |-> <<>>]
            ELSE Number(img, After[k - 1], Columns(img)[k])
    IN  After[img.nr * img.nc]

\* binloc: the first place, by columns, of a number.
binloc(img, out, k) ==
    LET places == {Place(img, q) : q \in {p \in PixelsOf(img) : out[p] = k}}
    IN  CHOOSE v \in places : \A u \in places : v <= u

\* One comparison of the sort: by the place of the first number, then of the
\* second.
Exchange(loc, dup, k, j) ==
    IF loc[dup[k][1]] > loc[dup[j][1]] THEN [dup EXCEPT ![k] = dup[j], ![j] = dup[k]]
    ELSE IF dup[k][1] = dup[j][1] /\ loc[dup[k][2]] > loc[dup[j][2]]
    THEN [dup EXCEPT ![k][2] = dup[j][2], ![j][2] = dup[k][2]]
    ELSE dup

\* The inner loop of the sort: entry k against those behind it.
Compared(loc, dup, k) ==
    LET Turn[d \in 0 .. Len(dup) - k] ==
            IF d = 0 THEN dup ELSE Exchange(loc, Turn[d - 1], k, k + d)
    IN  Turn[Len(dup) - k]

\* Every pair begins with the number that comes first; then the sort.
SortedPairs(loc, dup) ==
    LET Row[k \in 0 .. Len(dup)] ==
            IF k = 0
            THEN [i \in 1 .. Len(dup) |-> IF loc[dup[i][1]] > loc[dup[i][2]]
                                          THEN <<dup[i][2], dup[i][1]>> ELSE dup[i]]
            ELSE Compared(loc, Row[k - 1], k)
    IN  Row[Len(dup)]

\* Pair j has a number in common with the second one of pair k.
Join(dup, index, k, j) ==
    IF dup[k][2] \in {dup[j][1], dup[j][2]}
    THEN [index EXCEPT ![dup[j][1]] = index[dup[k][1]], ![dup[j][2]] = index[dup[k][1]]]
    ELSE index

\* Pair k with itself and those behind it.
JoinedWith(dup, index, k) ==
    LET Turn[d \in 0 .. Len(dup) - k + 1] ==
            IF d = 0 THEN index ELSE Join(dup, Turn[d - 1], k, k + d - 1)
    IN  Turn[Len(dup) - k + 1]

\* dupindex: the new number of each.
Joined(pc, dup) ==
    LET Row[k \in 0 .. Len(dup)] ==
            IF k = 0 THEN [l \in 0 .. pc |-> l] ELSE JoinedWith(dup, Row[k - 1], k)
    IN  Row[Len(dup)]

\* The numbers that are left, made consecutive.
Renumbered(index) ==
    [k \in DOMAIN index |->
        Cardinality({index[l] : l \in DOMAIN index} \cap 1 .. index[k])]

\* pfind: the blob of every pixel and the number of blobs.
pfind(img) ==
    LET first == FirstPass(img)
        loc   == [k \in 1 .. first.pc |-> binloc(img, first.out, k)]
        index == Renumbered(Joined(first.pc, SortedPairs(loc, first.dup)))
    IN  [blob   |-> [p \in PixelsOf(img) |-> index[first.out[p]]],
         pcount |-> Cardinality({index[k] : k \in 1 .. first.pc}),
         pairs  |-> Len(first.dup)]

-----------------------------------------------------------------------------
(* Properties. *)

\* Reach[k]: the pixels of the blob at most k steps from p.
Blob(p, img) ==
    LET Reach[k \in 0 .. Cardinality(img.on)] ==
            IF k = 0 THEN {p}
            ELSE LET S == Reach[k - 1]
                 IN  S \cup (img.on \cap UNION {Beside(q) : q \in S})
    IN  Reach[Cardinality(img.on)]

\* Pixels beside each other have the same number.
WholeBlobs(img, res) ==
    \A p \in img.on : \A q \in Beside(p) \cap img.on : res.blob[p] = res.blob[q]

\* A number is only given to pixels that hang together, the numbers are 1 up to
\* pcount without a gap, and as long as at most two pairs of numbers met, every
\* blob of more than one pixel has one number of its own (lines 200-432).
BlobsLabelled(img, res) ==
    /\ {res.blob[p] : p \in PixelsOf(img)} \ {0} = 1 .. res.pcount
    /\ \A p \in PixelsOf(img) : res.blob[p] > 0 =>
          p \in img.on /\ \A q \in PixelsOf(img) : res.blob[q] = res.blob[p] => q \in Blob(p, img)
    /\ \A p \in img.on : res.blob[p] = 0 <=> Blob(p, img) = {p}
    /\ res.pairs <= 2 => WholeBlobs(img, res)

\* The comments of the last steps: pairs of numbers that met become one, "Make
\* all duplicates have the same ID", however many there are.
DuplicatesJoined(img, res) == WholeBlobs(img, res)

=============================================================================
