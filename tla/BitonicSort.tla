------------------------------ MODULE BitonicSort ------------------------------
(***************************************************************************)
(* One work-group of the kernel `bitonic_ordfilt' (kernels/ordfilt.cl): it *)
(* sorts the pixels under the ring pattern around one pixel in local       *)
(* memory, and its first work-item takes two ordinals of them.  Each work- *)
(* item compares and exchanges one pair of keys per round; a barrier       *)
(* separates the rounds.                                                   *)
(*                                                                         *)
(* Reading a pair and writing it back are two steps.  The sort is a fixed  *)
(* network of comparisons, so keys of two values tell whether it sorts.    *)
(***************************************************************************)
EXTENDS Integers, FiniteSets

CONSTANTS
    LogLength,   \* arrayLength = 2^LogLength
    Counts,      \* num_elements: the ones of the pattern
    Values,      \* what a pixel may be
    Pad          \* more than any pixel: 0xFFFF

\* 1 shifted to the left.
Pow2[n \in 0 .. LogLength] == IF n = 0 THEN 1 ELSE 2 * Pow2[n - 1]

Length    == Pow2[LogLength]
SortCells == 0 .. Length - 1
SortItems == 0 .. (Length \div 2) - 1      \* get_local_id (0)

\* What the host passes to the kernel.
TileSizes ==
    /\ LogLength \in Nat \ {0}
    /\ Pad \in Nat /\ Values \subseteq 0 .. Pad - 1
    \* ceil_power_of_two (num_elements) = arrayLength (ufo-ordfilt-task.c 137).
    /\ \A n \in Counts : n \in (Length \div 2) + 1 .. Length

VARIABLES
    source,   \* 0 .. num_elements - 1 -> pixel, at d_SrcKey
    key,      \* s_key
    round,    \* the rounds a work-item has behind it; loading is round 0
    pair,     \* the two keys a work-item has read and not yet written back
    result    \* low_p and high_p

sortVars == <<source, key, round, pair, result>>

NumElements == Cardinality(DOMAIN source)

Rounds == (LogLength * (LogLength + 1)) \div 2

\* Round r merges runs of 2^s keys and compares keys 2^t apart: s counts the
\* outer loop and the block after it, t the inner loop downwards.  Loading leaves
\* runs of one key.
Round[r \in 0 .. Rounds] ==
    IF r = 0 THEN [s |-> 0, t |-> 0]
    ELSE IF Round[r - 1].t = 0 THEN [s |-> Round[r - 1].s + 1, t |-> Round[r - 1].s]
    ELSE [s |-> Round[r - 1].s, t |-> Round[r - 1].t - 1]

Low(p, r)  == 2 * p - (p % Pow2[Round[r].t])
High(p, r) == Low(p, r) + Pow2[Round[r].t]

\* Mutant: every run is sorted upwards.
AlwaysAscending(p, r) == TRUE

\* ddd; in the last merge no work-item has the bit of size / 2.
Ascending(p, r) == (p \div Pow2[Round[r].s - 1]) % 2 = 0

SortInit ==
    /\ \E n \in Counts : source \in [0 .. n - 1 -> Values]
    /\ key = [c \in SortCells |-> Pad]
    /\ round = [p \in SortItems |-> -1]
    /\ pair = [p \in SortItems |-> <<>>]
    /\ result = <<>>

\* Mutant: the padding is left out.
LoadKeysUnpadded(p) ==
    /\ round[p] = -1
    /\ round' = [round EXCEPT ![p] = 0]
    /\ key' = [key EXCEPT ![p] = source[p],
                          ![p + (Length \div 2)] =
                             source[IF p + (Length \div 2) < NumElements THEN p + (Length \div 2) ELSE NumElements - 1]]
    /\ UNCHANGED <<source, pair, result>>

\* A key of the lower half and one of the upper half, padded at the end.
LoadKeys(p) ==
    LET next == p + (Length \div 2) IN
    /\ round[p] = -1
    /\ round' = [round EXCEPT ![p] = 0]
    /\ key' = [key EXCEPT ![p] = source[p],
                          ![next] = IF next < NumElements THEN source[next] ELSE Pad]
    /\ UNCHANGED <<source, pair, result>>

\* Mutant: no barrier between the rounds of a merge.
BarrierOnlyFirst(p) == round[p] > 0 \/ \A q \in SortItems : round[q] >= round[p]

\* barrier (CLK_LOCAL_MEM_FENCE): every work-item has finished this round.
Barrier(p) == \A q \in SortItems : round[q] >= round[p]

ReadPair(p) ==
    /\ round[p] \in 0 .. Rounds - 1
    /\ pair[p] = <<>>
    /\ Barrier(p)
    /\ pair' = [pair EXCEPT ![p] = <<key[Low(p, round[p] + 1)], key[High(p, round[p] + 1)]>>]
    /\ UNCHANGED <<source, key, round, result>>

\* compare_and_exchange.
WritePair(p) ==
    LET r == round[p] + 1
        exchange == (pair[p][1] > pair[p][2]) = Ascending(p, r)
    IN
    /\ pair[p] # <<>>
    /\ key' = IF exchange
                THEN [key EXCEPT ![Low(p, r)] = pair[p][2], ![High(p, r)] = pair[p][1]]
                ELSE key
    /\ pair' = [pair EXCEPT ![p] = <<>>]
    /\ round' = [round EXCEPT ![p] = r]
    /\ UNCHANGED <<source, result>>

\* (int) (num_elements * low_threshold - 1) for thresholds 1/4 and 1/2.
LowIndex  == IF NumElements < 4 THEN 0 ELSE (NumElements \div 4) - 1
HighIndex == (NumElements \div 2) - 1

\* After the last barrier the first work-item computes the pixel.
Store ==
    /\ round[0] = Rounds
    /\ Barrier(0)
    /\ result = <<>>
    /\ result' = [low |-> key[LowIndex], high |-> key[HighIndex]]
    /\ UNCHANGED <<source, key, round, pair>>

SortFinished == result # <<>> /\ UNCHANGED sortVars

SortNext ==
    \/ \E p \in SortItems : LoadKeys(p) \/ ReadPair(p) \/ WritePair(p)
    \/ Store
    \/ SortFinished

SortSpec == SortInit /\ [][SortNext]_sortVars

-----------------------------------------------------------------------------
(* Properties. *)

\* Between its read and its write-back nobody else stores into a work-item's
\* pair: the pairs of a round are disjoint and rounds do not overlap.
PairUntouched ==
    \A p \in SortItems : pair[p] # <<>> =>
        pair[p] = <<key[Low(p, round[p] + 1)], key[High(p, round[p] + 1)]>>

\* v is the k-th smallest pixel, counting from 0.
IsOrdinal(v, k) ==
    /\ Cardinality({a \in DOMAIN source : source[a] < v}) <= k
    /\ Cardinality({a \in DOMAIN source : source[a] <= v}) > k

\* "sorts neighboring elements, picks the low_threshold and high_threshold
\* pixel" (lines 4-5): the two values the first work-item takes are ordinals of
\* the pixels under the pattern, never of the padding.
ResultIsOrdinal ==
    result # <<>> => IsOrdinal(result.low, LowIndex) /\ IsOrdinal(result.high, HighIndex)

\* When the last work-item is through, the whole tile is sorted with the
\* padding at its end, whatever the order of the items within the rounds.
SortedAtEnd ==
    (\A p \in SortItems : round[p] = Rounds) =>
        /\ \A a \in 0 .. Length - 2 : key[a] <= key[a + 1]
        /\ \A v \in Values :
             Cardinality({c \in SortCells : key[c] = v}) =
             Cardinality({a \in DOMAIN source : source[a] = v})

=============================================================================
