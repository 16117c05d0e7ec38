---------------------------- MODULE LikelihoodTile ----------------------------
(***************************************************************************)
(* One work-group of the kernel `likelihood' (kernels/hough.cl): its work- *)
(* items copy their pixel and a halo of Shift pixels around the group into *)
(* local memory, meet at a barrier, and then each reads the window of its  *)
(* mask from that tile.  The kernel `likelihood_image' does the same.      *)
(*                                                                         *)
(* The tile is a flat array; a pixel of one plane of the image stands for  *)
(* its value.                                                              *)
(***************************************************************************)
EXTENDS Integers, Sequences

CONSTANTS
    GroupX, GroupY,   \* l_work_size: 32 x 16 in the code
    Shift,            \* width of the halo: 6 in the code
    Half,             \* masksize_h = (masksize - 1) / 2
    Groups            \* the image is Groups x Groups work-groups

Sizes ==
    /\ GroupX \in Nat /\ GroupY \in Nat /\ Shift \in Nat \ {0}
    /\ Shift <= GroupX /\ Shift <= GroupY
    /\ Half \in Nat \ {0}
    /\ Groups \in Nat \ {0}

Items == (0 .. GroupX - 1) \X (0 .. GroupY - 1)    \* <<loc_x, loc_y>>

Width  == GroupX + 2 * Shift      \* loc_mem_size_x
Height == GroupY + 2 * Shift
Cells  == 0 .. Width * Height - 1
CellAt(x, y) == y * Width + x     \* local_tmp_id

Clamp(v, size) == IF v < 0 THEN 0 ELSE IF v >= size THEN size - 1 ELSE v

\* read_imagef with CLK_ADDRESS_CLAMP_TO_EDGE.
Pixel(x, y) == <<Clamp(x, GroupX * Groups), Clamp(y, GroupY * Groups)>>

Unset == <<>>

VARIABLES
    group,    \* the coordinates of this work-group
    pc,
    next,     \* the load the work-item is at
    tile,     \* local_mem
    window    \* what a work-item has read through its mask

vars == <<group, pc, next, tile, window>>

\* The nine loads of lines 31-72 in their order, each named by the direction
\* in which it reads: a multiple of Shift in x and in y.
Loads == << <<0, 0>>, <<-1, 0>>, <<0, -1>>, <<1, 0>>, <<0, 1>>,
            <<-1, -1>>, <<1, -1>>, <<-1, 1>>, <<1, 1>> >>

\* The condition on one coordinate of a load: near that side of the group.
AtSide(d, l, size) ==
    \/ d = 0
    \/ d = -1 /\ l < Shift
    \/ d = 1 /\ l + Shift >= size

Loading(p, d) == AtSide(d[1], p[1], GroupX) /\ AtSide(d[2], p[2], GroupY)

\* Mutant: the far halo overlaps the group's own pixels.
TargetInside(p, d) ==
    CellAt(p[1] + Shift + d[1] * (Shift - 1), p[2] + Shift + d[2] * Shift)

Target(p, d) == CellAt(p[1] + Shift + d[1] * Shift, p[2] + Shift + d[2] * Shift)

GlobalX(p) == group[1] * GroupX + p[1]
GlobalY(p) == group[2] * GroupY + p[2]

Init ==
    /\ group \in (0 .. Groups - 1) \X (0 .. Groups - 1)
    /\ pc = [p \in Items |-> "load"]
    /\ next = [p \in Items |-> 1]
    /\ tile = [c \in Cells |-> Unset]
    /\ window = [p \in Items |-> <<>>]

\* One load, or its condition does not hold and it is passed over.
Load(p) ==
    LET d == Loads[next[p]] IN
    /\ pc[p] = "load"
    /\ tile' = IF Loading(p, d)
                 THEN [tile EXCEPT ![Target(p, d)] =
                         Pixel(GlobalX(p) + d[1] * Shift, GlobalY(p) + d[2] * Shift)]
                 ELSE tile
    /\ IF next[p] < Len(Loads)
         THEN next' = [next EXCEPT ![p] = @ + 1] /\ UNCHANGED pc
         ELSE pc' = [pc EXCEPT ![p] = "barrier"] /\ UNCHANGED next
    /\ UNCHANGED <<group, window>>

\* barrier (CLK_LOCAL_MEM_FENCE): nobody passes before everybody is there.
PassBarrier(p) ==
    /\ pc[p] = "barrier"
    /\ \A q \in Items : pc[q] # "load"
    /\ pc' = [pc EXCEPT ![p] = "read"]
    /\ UNCHANGED <<group, next, tile, window>>

Offsets == (-Half .. Half) \X (-Half .. Half)

\* The cell lines 80 and 88 compute for an offset <<a, b>> of the mask.
MaskCell(p, o) == CellAt(p[1] + Shift + o[1], p[2] + Shift + o[2])

\* The two loops over the mask.  A cell outside local memory holds anything.
ReadWindow(p) ==
    /\ pc[p] = "read"
    /\ pc' = [pc EXCEPT ![p] = "done"]
    /\ window' = [window EXCEPT ![p] =
                    [o \in Offsets |->
                        IF MaskCell(p, o) \in Cells THEN tile[MaskCell(p, o)] ELSE Unset]]
    /\ UNCHANGED <<group, next, tile>>

GroupFinished == (\A p \in Items : pc[p] = "done") /\ UNCHANGED vars

Next ==
    \/ \E p \in Items : Load(p) \/ PassBarrier(p) \/ ReadWindow(p)
    \/ GroupFinished

Spec == Init /\ [][Next]_vars

-----------------------------------------------------------------------------
(* Properties. *)

\* Every work-item sees, through its mask, exactly the pixels around its own,
\* repeated at the edge of the image, whatever the order in which the group's
\* work-items filled the tile (lines 31-74 against 78-92).
WindowExact ==
    \A p \in Items : pc[p] = "done" =>
        \A o \in Offsets :
            window[p][o] = Pixel(GlobalX(p) + o[1], GlobalY(p) + o[2])

=============================================================================
