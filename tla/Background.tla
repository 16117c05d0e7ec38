------------------------------ MODULE Background ------------------------------
(***************************************************************************)
(* approx_bg of the piv-contrast task (src_hough/ufo-piv-contrast-task.c): *)
(* mean and deviation of the background of an image, from the pixels that  *)
(* are left when those two deviations off the mean are cut, again and      *)
(* again.                                                                  *)
(*                                                                         *)
(* counts[v] is the number of pixels of value v.  The cuts are kept as the *)
(* set of the values between them, which is all that they decide; a mean   *)
(* is sum / n, a deviation the root of var over n.                         *)
(***************************************************************************)
EXTENDS Integers, Sequences

CONSTANTS
    Levels,     \* the values of pixels are 0 .. Levels - 1
    Rounds      \* the loop ends after this many: 10

\* Over the pixels with a value in S: Total[k] is that of the values below k.
Added(f, S) ==
    LET Total[k \in 0 .. Levels] ==
            IF k = 0 THEN 0 ELSE Total[k - 1] + (IF k - 1 \in S THEN f[k - 1] ELSE 0)
    IN  Total[Levels]

N(counts, S)   == Added(counts, S)
Sum(counts, S) == Added([v \in 0 .. Levels - 1 |-> v * counts[v]], S)
Sq(counts, S)  == Added([v \in 0 .. Levels - 1 |-> v * v * counts[v]], S)
Var(counts, S) == N(counts, S) * Sq(counts, S) - Sum(counts, S) * Sum(counts, S)

Present(counts) == {v \in DOMAIN counts : counts[v] > 0}

\* array_mean and array_std take what is strictly between the cuts, which are
\* the least and the largest value at first.
Inner(counts) ==
    {v \in Present(counts) : \E u, w \in Present(counts) : u < v /\ v < w}

\* Mutant: one deviation for two.
KeptNarrow(counts, S) ==
    {v \in S : (N(counts, S) * v - Sum(counts, S)) * (N(counts, S) * v - Sum(counts, S))
                    < Var(counts, S)}

\* Less than two deviations off the mean.
Kept(counts, S) ==
    {v \in S : (N(counts, S) * v - Sum(counts, S)) * (N(counts, S) * v - Sum(counts, S))
                    < 4 * Var(counts, S)}

\* fabs (std - std_old) / std < 0.05, in squares; a division by 0 is not below.
Settled(counts, S, old) ==
    LET new == [var |-> Var(counts, S), n |-> N(counts, S)]
    IN  /\ new.var > 0
        /\ 361 * new.var * old.n * old.n < 400 * old.var * new.n * new.n
        /\ 400 * old.var * new.n * new.n < 441 * new.var * old.n * old.n

\* One round.  Without a pixel the mean is 0 / 0, and so is all that follows.
Round(counts, s) ==
    IF s.settled THEN s
    ELSE IF N(counts, s.between) = 0 THEN [s EXCEPT !.defined = FALSE]
    ELSE [between |-> Kept(counts, s.between),
          old     |-> [var |-> Var(counts, s.between), n |-> N(counts, s.between)],
          settled |-> Settled(counts, s.between, s.old),
          defined |-> TRUE,
          used    |-> Append(s.used, s.between)]

\* used: the values the mean and the deviation of each round were taken from;
\* the last of them are the result.  After[k]: after k rounds.
approx_bg(counts) ==
    LET After[k \in 0 .. Rounds] ==
            IF k = 0
            THEN [between |-> Inner(counts), old |-> [var |-> 0, n |-> 1],
                  settled |-> FALSE, defined |-> TRUE, used |-> <<>>]
            ELSE Round(counts, After[k - 1])
    IN  After[Rounds]

-----------------------------------------------------------------------------

\* The result is a number unless all pixels that some round took had one value:
\* the cuts never remove all pixels of a background with two values or more
\* (lines 170-198).  A flat background has no result: its deviation is 0.
BackgroundDefined(counts, res) ==
    ~ res.defined => \/ Inner(counts) = {}
                     \/ \E k \in 1 .. Len(res.used) : \E v \in 0 .. Levels - 1 : res.used[k] = {v}

=============================================================================
