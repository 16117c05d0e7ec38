--------------------------- MODULE ConcatenateResult ---------------------------
(***************************************************************************)
(* The concatenate-result task (src_ordfilt/ufo-concatenate-result-task.c):*)
(* a reductor that collects the rings of every pattern, image by image,    *)
(* and hands out one list per image when its input has ended.              *)
(*                                                                         *)
(* A list is a block of memory: one float for the count and room for rings.*)
(* The write index and the room are fields of the task, not of the list.   *)
(* What is stored is lost: coord is a member of URCS that nobody sets      *)
(* (include/ufo-ring-coordinates.h 13), so a store goes wherever the bytes *)
(* of a new block point to.  Only the counts reach the output.             *)
(***************************************************************************)
EXTENDS Integers, Sequences

CONSTANTS
    Images,       \* the values piv_file_idx takes
    Counts,       \* nb_coord: rings of one result
    RingCounts,   \* values of the property ring_count
    MaxCount,     \* the property max_count
    FirstRoom,    \* rings a new block has room for: 16
    MaxResults    \* bound: results that arrive

None == [room |-> -1, nb_elt |-> 0]     \* a NULL pointer in the table

VARIABLES
    phase,       \* "idle", "process", "generate", "done", "undefined"
    size,        \* img_alloc_size
    data,        \* the table: 0 .. size - 1 -> a block or None
    idx,         \* the write index of all images
    room,        \* alloc_size
    next,        \* current_output_idx
    lists,       \* what was handed out: image and count
    arrived      \* history: the results in their order

collectVars == <<phase, size, data, idx, room, next, lists, arrived>>

CollectInit ==
    /\ phase = "idle"
    /\ size = 0 /\ data = <<>>
    /\ idx = 0 /\ room = 0 /\ next = 0
    /\ lists = <<>> /\ arrived = <<>>

EmptyTable(n) == [k \in 0 .. n - 1 |-> None]

\* set_property: the table starts anew.
SetRingCount(n) ==
    /\ phase = "idle"
    /\ size' = n
    /\ data' = EmptyTable(n)
    /\ UNCHANGED <<phase, idx, room, next, lists, arrived>>

\* The assertion of process: ring_count has been set.
Start ==
    /\ phase = "idle" /\ size > 0
    /\ phase' = "process"
    /\ UNCHANGED <<size, data, idx, room, next, lists, arrived>>

\* Mutant: the first index outside the table is taken for one inside.
IncreasedLate(k) == IF k > size THEN 2 * size ELSE size

\* increase_buffer_size: doubled, once.
Increased(k) == IF k >= size THEN 2 * size ELSE size

\* initialize_field.
Initialized(t, k) ==
    IF t[k] = None
    THEN [data |-> [t EXCEPT ![k] = [room |-> FirstRoom, nb_elt |-> 0]], idx |-> 0, room |-> FirstRoom]
    ELSE [data |-> t, idx |-> idx, room |-> room]

\* Mutant: the block is made larger only where the count alone exceeds it.
EnlargedByCount(s, k, n) ==
    IF n > s.room
    THEN [s EXCEPT !.room = @ + n, !.data[k].room = s.room + n]
    ELSE s

\* A block too short for n more rings is made larger.
Enlarged(s, k, n) ==
    IF s.idx + n > s.room
    THEN [s EXCEPT !.room = @ + n, !.data[k].room = s.room + n]
    ELSE s

\* Mutant: too many rings are counted before they are refused.
CollectedBeforeTest(s, k, n) ==
    LET e == Enlarged(s, k, n)
    IN  [e EXCEPT !.idx = @ + (IF n > MaxCount THEN 0 ELSE n), !.data[k].nb_elt = @ + n]

\* The rest of process: a result of too many rings is ignored.
Collected(s, k, n) ==
    IF n > MaxCount THEN s
    ELSE LET e == Enlarged(s, k, n)
         IN  [e EXCEPT !.idx = @ + n, !.data[k].nb_elt = @ + n]

\* process: the table, the block and the write index, in this order.
Process(k, n) ==
    LET larger == Increased(k)
        table  == [i \in 0 .. larger - 1 |-> IF i < size THEN data[i] ELSE None]
        after  == Collected(Initialized(table, k), k, n)
    IN
    /\ phase = "process" /\ Len(arrived) < MaxResults
    /\ k < larger
    /\ size' = larger
    /\ data' = after.data /\ idx' = after.idx /\ room' = after.room
    /\ arrived' = Append(arrived, [image |-> k, count |-> n])
    /\ UNCHANGED <<phase, next, lists>>

\* An index beyond the doubled table, or a store through coord.
Undefined(k, n) ==
    /\ phase = "process" /\ Len(arrived) < MaxResults
    /\ k >= Increased(k) \/ n \in 1 .. MaxCount
    /\ phase' = "undefined"
    /\ arrived' = Append(arrived, [image |-> k, count |-> n])
    /\ UNCHANGED <<size, data, idx, room, next, lists>>

InputEnds ==
    /\ phase = "process"
    /\ phase' = "generate"
    /\ UNCHANGED <<size, data, idx, room, next, lists, arrived>>

\* find_next_idx_for_output: from where the last list was found.
NextList == {k \in next .. size - 1 : data[k] # None}

\* generate: the next list that there is, copied by its count.
Generate ==
    /\ phase = "generate"
    /\ \E k \in NextList :
        /\ \A l \in NextList : k <= l
        /\ lists' = Append(lists, [image |-> k, count |-> data[k].nb_elt])
        /\ next' = k + 1
    /\ UNCHANGED <<phase, size, data, idx, room, arrived>>

\* generate returns FALSE.
Exhausted ==
    /\ phase = "generate"
    /\ NextList = {}
    /\ next' = size
    /\ phase' = "done"
    /\ UNCHANGED <<size, data, idx, room, lists, arrived>>

Stopped == phase \in {"done", "undefined"} /\ UNCHANGED collectVars

CollectNext ==
    \/ \E n \in RingCounts : SetRingCount(n)
    \/ Start
    \/ \E k \in Images, n \in Counts : Process(k, n) \/ Undefined(k, n)
    \/ InputEnds
    \/ Generate
    \/ Exhausted
    \/ Stopped

CollectSpec == CollectInit /\ [][CollectNext]_collectVars

-----------------------------------------------------------------------------
(* Properties. *)

\* The results of an image arrive together, as they do when one reader feeds one
\* chain of tasks.
Grouped ==
    \A i, j, l \in 1 .. Len(arrived) :
        i < j /\ j < l /\ arrived[i].image = arrived[l].image
            => arrived[j].image = arrived[i].image

\* A new image is numbered next to the highest before it.
Consecutive ==
    \A i \in 1 .. Len(arrived) :
        arrived[i].image = 0 \/ \E j \in 1 .. i - 1 : arrived[j].image >= arrived[i].image - 1

Seen == {arrived[i].image : i \in 1 .. Len(arrived)}

\* The rings of image k that result r adds, unless it is refused.
Added(r, k) == IF r.image = k /\ r.count <= MaxCount THEN r.count ELSE 0

\* The rings of image k in the first 0, 1, ... results of s.
AcceptedOf(s, k) ==
    LET upto[n \in 0 .. Len(s)] == IF n = 0 THEN 0 ELSE upto[n - 1] + Added(s[n], k)
    IN  upto
Accepted(k) == AcceptedOf(arrived, k)[Len(arrived)]

\* Every image that had a result, be it a refused one, gets one list, in the
\* order of the images, and the list has the count of its own rings only,
\* although the results of several images may interleave (lines 164-257).
ListsComplete ==
    phase = "done" =>
        /\ {lists[l].image : l \in 1 .. Len(lists)} = Seen
        /\ \A l, l2 \in 1 .. Len(lists) : l < l2 => lists[l].image < lists[l2].image
        /\ \A l \in 1 .. Len(lists) : lists[l].count = Accepted(lists[l].image)

\* The copy of generate stays inside the block (line 251), as long as no image
\* comes back after another one: the room was made for the shared index.
CopyInsideBlock ==
    Grouped /\ phase \in {"process", "generate"} =>
        \A k \in DOMAIN data : data[k] # None => data[k].nb_elt <= data[k].room

\* Images numbered without gaps never leave the table, which is doubled at most
\* once per result: only the stores through coord are undefined (line 180).
TableLargeEnough ==
    Consecutive /\ phase = "undefined" =>
        LET last == arrived[Len(arrived)]
        IN  last.image < Increased(last.image) /\ last.count \in 1 .. MaxCount
=============================================================================
