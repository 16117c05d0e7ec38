----------------------------- MODULE RingProfile -----------------------------
(***************************************************************************)
(* What azimuthal-test (compute_histogram, search_peaks and the choice of  *)
(* a peak in gaussian_thread, src_hough/ufo-azimuthal-test-task.c) and     *)
(* multi-search (get_coords, compute_intensity, src_hough/ufo-multi-       *)
(* search-task.c) read of an image around a centre.                        *)
(*                                                                         *)
(* A pixel stands for its value.  Roots are compared in squares: the root  *)
(* of a whole number is never halfway between two.                         *)
(***************************************************************************)
EXTENDS Integers, Sequences

CONSTANTS
    ImageWidth, ImageHeight,
    HistLen,       \* MAX_HIST_LEN: 32
    FitSize        \* FIT_DATA_SIZE: 5

Most(a, b)  == IF a > b THEN a ELSE b
Least(a, b) == IF a < b THEN a ELSE b

\* get_coords of both tasks: the square around the centre, inside the image.
Box(c, rad) == [left |-> Most(c[1] - rad, 0), right |-> Least(c[1] + rad, ImageWidth - 1),
                top  |-> Most(c[2] - rad, 0), bot   |-> Least(c[2] + rad, ImageHeight - 1)]

DistanceSq(p, c) == (p[1] - c[1]) * (p[1] - c[1]) + (p[2] - c[2]) * (p[2] - c[2])

\* compute_intensity: fabs (sqrtf (d2) - r) < 0.5, last row and column included.
compute_intensity(c, r) ==
    LET b == Box(c, r)
    IN  {p \in (b.left .. b.right) \X (b.top .. b.bot) :
            /\ 4 * DistanceSq(p, c) > (2 * r - 1) * (2 * r - 1)
            /\ 4 * DistanceSq(p, c) < (2 * r + 1) * (2 * r + 1)}

\* roundf (sqrt (d2)).
RoundedRoot(d2) == IF d2 = 0 THEN 0 ELSE CHOOSE r \in 1 .. d2 : r * r - r < d2 /\ d2 <= r * r + r

\* Mutant: the square that is passed over reaches outside the smallest ring.
SkippedWide(p, c, min_r) ==
    \A i \in 1 .. 2 : 10 * (p[i] - c[i]) < 9 * min_r /\ 10 * (c[i] - p[i]) < 9 * min_r

\* abs (ii) < 0.7*min_r && abs (jj) < 0.7*min_r.
Skipped(p, c, min_r) ==
    \A i \in 1 .. 2 : 10 * (p[i] - c[i]) < 7 * min_r /\ 10 * (c[i] - p[i]) < 7 * min_r

\* compute_histogram: the pixels of bin r - min_r.
compute_histogram(c, min_r, max_r) ==
    LET b == Box(c, max_r)
        counted == {p \in (b.left .. b.right - 1) \X (b.top .. b.bot - 1) : ~ Skipped(p, c, min_r)}
    IN  [r \in min_r .. max_r |-> {p \in counted : RoundedRoot(DistanceSq(p, c)) = r}]

-----------------------------------------------------------------------------
(* search_peaks, over a histogram 0 .. HistLen - 1. *)

FirstFrom(P(_), a, b) ==
    IF \E j \in a .. b - 1 : P(j) THEN CHOOSE j \in a .. b - 1 : P(j) /\ \A k \in a .. j - 1 : ~ P(k)
    ELSE b

\* Mutant: the end of the rise may be flat.
RiseEndFlat(data, i, wlen) == FirstFrom(LAMBDA j : data[j] > data[j + 1], i, i + wlen - 1)

\* Both inner loops: where data stops to rise, and where it then stops to fall.
RiseEnd(data, i, wlen) == FirstFrom(LAMBDA j : data[j] >= data[j + 1], i, i + wlen - 1)
FallEnd(data, i, wlen) == FirstFrom(LAMBDA j : data[j] <= data[j + 1], RiseEnd(data, i, wlen), i + wlen - 1)

\* Peaks[i]: of the first i starts.
search_peaks(data, wlen) ==
    LET Found(i) == /\ RiseEnd(data, i, wlen) = i + wlen \div 2
                    /\ FallEnd(data, i, wlen) = i + wlen - 1
                    /\ data[i + wlen - 1] # 0 /\ data[i] # 0
        Peaks[i \in 0 .. HistLen - wlen - 1] ==
            IF i = 0 THEN <<>>
            ELSE IF Found(i - 1) THEN Append(Peaks[i - 1], i - 1 + wlen \div 2)
            ELSE Peaks[i - 1]
    IN  Peaks[HistLen - wlen - 1]

\* The choice of a peak: the first of the highest; 0 stands for none.
Highest(data, peaks) ==
    LET Best[k \in 0 .. Len(peaks)] ==
            IF k = 0 THEN [p |-> -1, r |-> 0]
            ELSE IF data[peaks[k]] > Best[k - 1].p THEN [p |-> data[peaks[k]], r |-> peaks[k]]
            ELSE Best[k - 1]
    IN  Best[Len(peaks)].r

\* The bins whose values are added up for the score.
ScoreBins(r) == r .. r + FitSize - 1

-----------------------------------------------------------------------------
(* Properties. *)

OnDiagonal(p, c) == p[1] - c[1] \in {p[2] - c[2], c[2] - p[2]}

\* Both tasks mean the same pixels by a ring of radius r, but for the last row
\* and column of the square, which azimuthal-test leaves out.  No pixel is in
\* two rings, and the shortcut over the middle of the square takes at most the
\* four pixels on the diagonals off the smallest ring, as it does for radius 3
\* and 6 (compute_histogram 128-163 against compute_intensity 154-184).
RingsExact(c, min_r, max_r, bins) ==
    LET b == Box(c, max_r) IN
    \A r \in min_r .. max_r :
        LET inside == {p \in compute_intensity(c, r) : p[1] < b.right /\ p[2] < b.bot}
        IN  /\ bins[r] \subseteq inside
            /\ \A p \in inside \ bins[r] : r = min_r /\ OnDiagonal(p, c)
            /\ \A q \in min_r .. r - 1 : bins[q] \cap bins[r] = {}

\* A peak is a bin between two that rise to it and two that fall from it, none
\* of them empty; the highest one found is no lower than any such bin, and its
\* score stays inside the histogram (search_peaks 189-206, gaussian_thread
\* 315-340).
PeaksFound(data, best) ==
    LET Tent(p) == /\ data[p - 2] # 0 /\ data[p + 2] # 0
                   /\ data[p - 2] < data[p - 1] /\ data[p - 1] < data[p]
                   /\ data[p] > data[p + 1] /\ data[p + 1] > data[p + 2]
        tents == {p \in 2 .. HistLen - FitSize : Tent(p)}
    IN  IF best = 0 THEN tents = {}
        ELSE /\ best \in tents
             /\ \A p \in tents : data[p] < data[best] \/ (data[p] = data[best] /\ best <= p)
             /\ ScoreBins(best) \subseteq 0 .. HistLen - 1

=============================================================================
