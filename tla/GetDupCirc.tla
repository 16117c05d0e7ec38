------------------------------ MODULE GetDupCirc ------------------------------
(***************************************************************************)
(* The get-dup-circ task (src_ordfilt/ufo-get-dup-circ-task.c): rings that *)
(* different patterns found at nearly the same place are merged into their *)
(* average.  A ring that has merged with others is searched for again, at  *)
(* its new place, before the scan moves on.                                *)
(*                                                                         *)
(* Coordinates are integers, multiples of Unit at first, so that every     *)
(* average of averages the scan can form is exact.                         *)
(***************************************************************************)
EXTENDS Integers, Sequences, FiniteSets

CONSTANTS
    Coords,      \* the x and the y a ring may have, in steps of Unit
    Radii,       \* the radii, in steps of Unit
    Threshold,   \* the task's property, in steps of Unit
    MaxRings,    \* bound: rings of an image
    Unit         \* divisible by every product of the group sizes of a scan

ASSUME ConstantsAssumption ==
    /\ Coords \subseteq Nat /\ Radii \subseteq Nat \ {0}
    /\ Threshold \in Nat
    /\ MaxRings \in Nat
    /\ Unit \in Nat \ {0}

VARIABLES
    pc,
    given,    \* the list as it came in
    coord,    \* priv->coord, the private copy
    i, j,     \* the loop indices
    sum,      \* coord[nb_coord] of the output while rings are added to it
    merged,   \* nb_merged_elt
    out,      \* coord[0 .. nb_coord - 1] of the output
    members,  \* the given rings that coord[k] is made of
    origin    \* the given rings that out[k] is made of

vars == <<pc, given, coord, i, j, sum, merged, out, members, origin>>

N == Len(given)

Distance(a, b) == IF a < b THEN b - a ELSE a - b
Square(a)      == a * a

\* The condition of line 125, with both sides squared.
Near(a, b) ==
    /\ Square(a.x - b.x) + Square(a.y - b.y) < Square(Threshold * Unit)
    /\ Distance(a.r, b.r) < Threshold * Unit

\* A radius of 0 marks a ring that has been merged into another.
Gone(k) == coord[k].r = 0

Rings == [x : {c * Unit : c \in Coords}, y : {c * Unit : c \in Coords}, r : {c * Unit : c \in Radii}]

Init ==
    /\ pc = "outer"
    /\ \E n \in 0 .. MaxRings : given \in [1 .. n -> Rings]
    /\ coord = given
    /\ i = 1 /\ j = 1
    /\ sum = <<>> /\ merged = 1
    /\ out = <<>>
    /\ members = [k \in 1 .. N |-> {k}]
    /\ origin = <<>>

SkipMerged ==
    /\ pc = "outer"
    /\ i <= N
    /\ Gone(i)
    /\ i' = i + 1
    /\ UNCHANGED <<pc, given, coord, j, sum, merged, out, members, origin>>

\* A fresh search for neighbours of ring i among the rings after it.
StartSearch ==
    /\ pc = "outer"
    /\ i <= N
    /\ ~Gone(i)
    /\ pc' = "inner"
    /\ sum' = coord[i]
    /\ merged' = 1
    /\ j' = i + 1
    /\ UNCHANGED <<given, coord, i, out, members, origin>>

PassOver ==
    /\ pc = "inner"
    /\ j <= N
    /\ Gone(j) \/ ~Near(coord[j], coord[i])
    /\ j' = j + 1
    /\ UNCHANGED <<pc, given, coord, i, sum, merged, out, members, origin>>

\* Mutant: the radius of the merged ring is left as it is.
AddNotMarked ==
    /\ pc = "inner"
    /\ j <= N
    /\ ~Gone(j) /\ Near(coord[j], coord[i])
    /\ sum' = [x |-> sum.x + coord[j].x, y |-> sum.y + coord[j].y, r |-> sum.r + coord[j].r]
    /\ merged' = merged + 1
    /\ members' = [members EXCEPT ![i] = @ \cup members[j]]
    /\ j' = j + 1
    /\ UNCHANGED <<pc, given, coord, i, out, origin>>

\* Ring j is compared with ring i where it was, not with the running sum.
Add ==
    /\ pc = "inner"
    /\ j <= N
    /\ ~Gone(j) /\ Near(coord[j], coord[i])
    /\ sum' = [x |-> sum.x + coord[j].x, y |-> sum.y + coord[j].y, r |-> sum.r + coord[j].r]
    /\ coord' = [coord EXCEPT ![j].r = 0]
    /\ merged' = merged + 1
    /\ members' = [members EXCEPT ![i] = @ \cup members[j], ![j] = {}]
    /\ j' = j + 1
    /\ UNCHANGED <<pc, given, i, out, origin>>

Average == [x |-> sum.x \div merged, y |-> sum.y \div merged, r |-> sum.r \div merged]

\* Mutant: the average is found but the scan moves on.
SearchAgainNever ==
    /\ pc = "inner"
    /\ j > N
    /\ merged > 1
    /\ pc' = "outer"
    /\ coord' = [coord EXCEPT ![i] = Average]
    /\ i' = i + 1
    /\ out' = Append(out, Average)
    /\ origin' = Append(origin, members[i])
    /\ UNCHANGED <<given, j, sum, merged, members>>

\* "When merging occurs, search again for new candidates": --i, then ++i.
SearchAgain ==
    /\ pc = "inner"
    /\ j > N
    /\ merged > 1
    /\ pc' = "outer"
    /\ coord' = [coord EXCEPT ![i] = Average]
    /\ UNCHANGED <<given, i, j, sum, merged, out, members, origin>>

\* Mutant: the index of the output stays where it is.
EmitOverwrites ==
    /\ pc = "inner"
    /\ j > N
    /\ merged = 1
    /\ pc' = "outer"
    /\ out' = <<Average>>
    /\ origin' = <<members[i]>>
    /\ i' = i + 1
    /\ UNCHANGED <<given, coord, j, sum, merged, members>>

Emit ==
    /\ pc = "inner"
    /\ j > N
    /\ merged = 1
    /\ pc' = "outer"
    /\ out' = Append(out, Average)
    /\ origin' = Append(origin, members[i])
    /\ i' = i + 1
    /\ UNCHANGED <<given, coord, j, sum, merged, members>>

\* *res = nb_coord.
Return ==
    /\ pc = "outer"
    /\ i > N
    /\ pc' = "done"
    /\ UNCHANGED <<given, coord, i, j, sum, merged, out, members, origin>>

Finished == pc = "done" /\ UNCHANGED vars

Next ==
    \/ SkipMerged
    \/ StartSearch
    \/ PassOver
    \/ Add
    \/ SearchAgain
    \/ Emit
    \/ Return
    \/ Finished

Spec == Init /\ [][Next]_vars
FairSpec == Spec /\ WF_vars(Next)

-----------------------------------------------------------------------------
(* Properties. *)

\* Every ring of the input ends up in exactly one ring of the output, however
\* often a ring is merged, moved and searched for again (lines 110-145).
EachRingOnce ==
    pc = "done" =>
        \A k \in 1 .. N : Cardinality({l \in 1 .. Len(out) : k \in origin[l]}) = 1

\* If duplicates remain in the output at all, the later of the two moved there
\* by merging after the earlier one had been searched for: a ring that merged
\* with nothing is never a duplicate of an earlier one.
ResidualOnlyByMoving ==
    pc = "done" =>
        \A k, l \in 1 .. Len(out) :
            k < l /\ Near(out[k], out[l]) => Cardinality(origin[l]) > 1

\* Searching again after each merge comes to an end.
Terminates == <>(pc = "done")

\* "Merge list of ring coordinates from different patterns into one unique list
\* of coordinates" (lines 29-30): no two rings of the output would be merged.
UniqueList ==
    pc = "done" =>
        \A k, l \in 1 .. Len(out) : k # l => ~Near(out[k], out[l])

=============================================================================
