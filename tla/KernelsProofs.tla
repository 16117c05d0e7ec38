---------------------------- MODULE KernelsProofs -----------------------------
(***************************************************************************)
(* TLAPS proofs about the GPU kernels.                                     *)
(*                                                                         *)
(* LikelihoodTile: the tile of the likelihood kernel.                      *)
(*                                                                         *)
(* OrdfiltChunks: the passes of ordfilt over the rows of an image.         *)
(*                                                                         *)
(* BitonicSort, for tiles of any size, any number of pixels and any values *)
(* below the padding: the barriers keep the rounds apart, every            *)
(* interleaving computes what the network of comparisons computes round by *)
(* round, and the network sorts.                                           *)
(***************************************************************************)
EXTENDS LikelihoodTile, OrdfiltChunks, BitonicSort, InductionLemmas,
        FiniteSetTheorems, FunctionTheorems, TLAPS

-----------------------------------------------------------------------------
(* The tile of the likelihood kernel. *)

MaskFits == Sizes /\ Half <= Shift

Directions == {-1, 0, 1}

\* What the cell at <<x, y>> of the tile has to hold.
Wanted(x, y) == Pixel(group[1] * GroupX + x - Shift, group[2] * GroupY + y - Shift)

TypeInv ==
    /\ group \in (0 .. Groups - 1) \X (0 .. Groups - 1)
    /\ pc \in [Items -> {"load", "barrier", "read", "done"}]
    /\ next \in [Items -> 1 .. 9]
    /\ DOMAIN tile = Cells
    /\ DOMAIN window = Items

\* A work-item is past its load number k.
Past(p, k) == pc[p] # "load" \/ k < next[p]

\* A load, once made, stays in the tile: a later one of the same cell is equal.
Loaded ==
    \A p \in Items, k \in 1 .. 9 :
        Past(p, k) /\ Loading(p, Loads[k]) =>
            tile[Target(p, Loads[k])] =
                Wanted(p[1] + Shift + Loads[k][1] * Shift, p[2] + Shift + Loads[k][2] * Shift)

BehindBarrier ==
    (\E p \in Items : pc[p] \in {"read", "done"}) => \A q \in Items : pc[q] # "load"

IInv == TypeInv /\ Loaded /\ BehindBarrier /\ WindowExact

-----------------------------------------------------------------------------
(* The tile is a flat array. *)

\* What the sizes of group and mask give.
LEMMA SizeFacts ==
    ASSUME MaskFits
    PROVE  /\ GroupX \in Nat /\ GroupY \in Nat /\ Shift \in Nat \ {0} /\ Half \in Nat \ {0}
           /\ Shift <= GroupX /\ Shift <= GroupY /\ Half <= Shift /\ Groups \in Nat \ {0}
           /\ Width \in Nat \ {0} /\ Height \in Nat \ {0}
           /\ Width = GroupX + 2 * Shift /\ Height = GroupY + 2 * Shift
  BY DEF MaskFits, Sizes, Width, Height

\* Row by row, an index has one column and one row.
LEMMA RowMajor ==
    ASSUME NEW w \in Nat \ {0}, NEW x \in 0 .. w - 1, NEW u \in 0 .. w - 1,
           NEW y \in Int, NEW v \in Int, y * w + x = v * w + u
    PROVE  x = u /\ y = v
<1>1. (y - v) * w = u - x
  OBVIOUS
<1>2. CASE y - v >= 1
  <2>1. (y - v) * w >= 1 * w
    BY <1>2
  <2>2. QED
    BY <1>1, <2>1
<1>3. CASE y - v <= -1
  <2>1. (y - v) * w <= (-1) * w
    BY <1>3
  <2>2. QED
    BY <1>1, <2>1
<1>4. CASE y = v
  BY <1>1, <1>4
<1>5. QED
  BY <1>2, <1>3, <1>4

\* A cell of the tile is inside local memory.
LEMMA CellInside ==
    ASSUME MaskFits, NEW x \in 0 .. Width - 1, NEW y \in 0 .. Height - 1
    PROVE  CellAt(x, y) \in Cells
<1>1. Width \in Nat \ {0} /\ Height \in Nat \ {0}
  BY SizeFacts
<1> DEFINE w == Width
           h == Height
<1>2. w \in Nat \ {0} /\ h \in Nat \ {0} /\ x \in 0 .. w - 1 /\ y \in 0 .. h - 1
  BY <1>1
<1> HIDE DEF w, h
<1>3. y * w >= 0 /\ (h - 1 - y) * w >= 0
  BY <1>2
<1>4. y * w <= (h - 1) * w /\ (h - 1) * w = w * h - w
  BY <1>2, <1>3
<1>5. y * w + x \in 0 .. w * h - 1
  BY <1>2, <1>3, <1>4
<1>6. QED
  BY <1>5 DEF CellAt, Cells, w, h

\* Two places of the tile are two cells.
LEMMA CellUnique ==
    ASSUME MaskFits, NEW x \in 0 .. Width - 1, NEW u \in 0 .. Width - 1,
           NEW y \in Int, NEW v \in Int, CellAt(x, y) = CellAt(u, v)
    PROVE  x = u /\ y = v
<1>1. Width \in Nat \ {0}
  BY SizeFacts
<1>2. QED
  BY <1>1, RowMajor DEF CellAt

\* The nine loads of a work-item go in every direction.
LEMMA LoadList ==
    /\ Len(Loads) = 9
    /\ \A k \in 1 .. 9 : Loads[k][1] \in Directions /\ Loads[k][2] \in Directions
    /\ \A a, b \in Directions : \E k \in 1 .. 9 : Loads[k] = <<a, b>>
<1>1. Len(Loads) = 9
  BY DEF Loads
<1>2. /\ Loads[1] = <<0, 0>> /\ Loads[2] = <<-1, 0>> /\ Loads[3] = <<0, -1>>
      /\ Loads[4] = <<1, 0>> /\ Loads[5] = <<0, 1>> /\ Loads[6] = <<-1, -1>>
      /\ Loads[7] = <<1, -1>> /\ Loads[8] = <<-1, 1>> /\ Loads[9] = <<1, 1>>
  BY DEF Loads
<1>3. \A k \in 1 .. 9 : Loads[k][1] \in Directions /\ Loads[k][2] \in Directions
  <2> SUFFICES ASSUME NEW k \in 1 .. 9
               PROVE  Loads[k][1] \in Directions /\ Loads[k][2] \in Directions
    OBVIOUS
  <2>1. k = 1 \/ k = 2 \/ k = 3 \/ k = 4 \/ k = 5 \/ k = 6 \/ k = 7 \/ k = 8 \/ k = 9
    OBVIOUS
  <2> HIDE DEF Loads
  <2>2. QED
    BY <1>2, <2>1 DEF Directions
<1>4. \A a, b \in Directions : \E k \in 1 .. 9 : Loads[k] = <<a, b>>
  BY <1>2 DEF Directions
<1>5. QED
  BY <1>1, <1>3, <1>4

\* Along one coordinate, the loads of a group reach every cell of the tile.
LEMMA Reached ==
    ASSUME NEW s \in Nat \ {0}, NEW size \in Nat, s <= size, NEW x \in 0 .. size + 2 * s - 1
    PROVE  \E d \in Directions, l \in 0 .. size - 1 :
               /\ \/ d = 0
                  \/ d = -1 /\ l < s
                  \/ d = 1 /\ l + s >= size
               /\ x = l + s + d * s
<1>1. CASE x < s
  <2>1. x \in 0 .. size - 1 /\ x < s /\ x = x + s + (-1) * s
    BY <1>1
  <2>2. QED
    BY <2>1 DEF Directions
<1>2. CASE x >= s /\ x < size + s
  <2>1. x - s \in 0 .. size - 1 /\ x = (x - s) + s + 0 * s
    BY <1>2
  <2>2. QED
    BY <2>1 DEF Directions
<1>3. CASE x >= size + s
  <2>1. x - 2 * s \in 0 .. size - 1 /\ (x - 2 * s) + s >= size /\ x = (x - 2 * s) + s + 1 * s
    BY <1>3
  <2>2. QED
    BY <2>1 DEF Directions
<1>4. QED
  BY <1>1, <1>2, <1>3

\* The target of a load lies in the tile.
LEMMA TargetInTile ==
    ASSUME MaskFits, NEW p \in Items, NEW k \in 1 .. 9, Loading(p, Loads[k])
    PROVE  /\ p[1] + Shift + Loads[k][1] * Shift \in 0 .. Width - 1
           /\ p[2] + Shift + Loads[k][2] * Shift \in 0 .. Height - 1
<1>1. /\ Loads[k][1] \in Directions /\ Loads[k][2] \in Directions
      /\ p[1] \in 0 .. GroupX - 1 /\ p[2] \in 0 .. GroupY - 1
  BY LoadList DEF Items
<1> DEFINE a == Loads[k][1]
           b == Loads[k][2]
<1>2. /\ a \in {-1, 0, 1} /\ b \in {-1, 0, 1}
      /\ AtSide(a, p[1], GroupX) /\ AtSide(b, p[2], GroupY)
  BY <1>1 DEF Directions, Loading
<1> HIDE DEF a, b
<1>3. p[1] + Shift + a * Shift \in 0 .. Width - 1
  BY <1>1, <1>2, SizeFacts DEF AtSide
<1>4. p[2] + Shift + b * Shift \in 0 .. Height - 1
  BY <1>1, <1>2, SizeFacts DEF AtSide
<1>5. QED
  BY <1>3, <1>4 DEF a, b

-----------------------------------------------------------------------------

\* Nothing is loaded at first.
LEMMA InitInv == ASSUME MaskFits, Init PROVE IInv
<1>1. TypeInv
  BY DEF Init, TypeInv
<1>2. Loaded /\ BehindBarrier /\ WindowExact
  BY DEF Init, Loaded, Past, BehindBarrier, WindowExact
<1>3. QED
  BY <1>1, <1>2 DEF IInv

\* A load fills the cell it is meant to.
LEMMA LoadInv ==
    ASSUME MaskFits, IInv, NEW p \in Items, Load(p)
    PROVE  IInv'
<1> DEFINE n == next[p]
           d == Loads[n]
           X(q, k) == q[1] + Shift + Loads[k][1] * Shift
           Y(q, k) == q[2] + Shift + Loads[k][2] * Shift
<1>1. /\ pc[p] = "load"
      /\ group' = group /\ window' = window
      /\ tile' = IF Loading(p, d)
                   THEN [tile EXCEPT ![Target(p, d)] =
                           Pixel(GlobalX(p) + d[1] * Shift, GlobalY(p) + d[2] * Shift)]
                   ELSE tile
      /\ IF n < Len(Loads)
           THEN next' = [next EXCEPT ![p] = @ + 1] /\ UNCHANGED pc
           ELSE pc' = [pc EXCEPT ![p] = "barrier"] /\ UNCHANGED next
  BY DEF Load
<1>2. TypeInv /\ Loaded /\ BehindBarrier /\ WindowExact /\ n \in 1 .. 9 /\ Len(Loads) = 9
  BY LoadList DEF IInv, TypeInv
<1>3. TypeInv'
  BY <1>1, <1>2 DEF TypeInv
<1>4. Pixel(GlobalX(p) + d[1] * Shift, GlobalY(p) + d[2] * Shift) = Wanted(X(p, n), Y(p, n))
  <2>1. /\ p[1] \in Int /\ p[2] \in Int /\ d[1] \in Int /\ d[2] \in Int /\ Shift \in Int
        /\ group[1] \in Int /\ group[2] \in Int /\ GroupX \in Int /\ GroupY \in Int
    BY <1>2, LoadList, SizeFacts DEF Items, TypeInv, Directions
  <2>2. /\ group[1] * GroupX \in Int /\ group[2] * GroupY \in Int
        /\ d[1] * Shift \in Int /\ d[2] * Shift \in Int
    BY <2>1
  <2>3. /\ group[1] * GroupX + p[1] + d[1] * Shift = group[1] * GroupX + X(p, n) - Shift
        /\ group[2] * GroupY + p[2] + d[2] * Shift = group[2] * GroupY + Y(p, n) - Shift
    <3> DEFINE gx == group[1] * GroupX
               gy == group[2] * GroupY
               dx == d[1] * Shift
               dy == d[2] * Shift
    <3>1. /\ gx \in Int /\ gy \in Int /\ dx \in Int /\ dy \in Int
          /\ p[1] \in Int /\ p[2] \in Int /\ Shift \in Int
      BY <2>1, <2>2
    <3> HIDE DEF gx, gy, dx, dy
    <3>2. /\ gx + p[1] + dx = gx + (p[1] + Shift + dx) - Shift
          /\ gy + p[2] + dy = gy + (p[2] + Shift + dy) - Shift
      BY <3>1
    <3>3. QED
      BY <3>2 DEF gx, gy, dx, dy
  <2>4. QED
    BY <2>3 DEF GlobalX, GlobalY, Wanted
<1>5. \A x, y : Wanted(x, y)' = Wanted(x, y)
  BY <1>1 DEF Wanted, Pixel
<1>6. \A q \in Items, k \in 1 .. 9 : Past(q, k)' => Past(q, k) \/ (q = p /\ k = n)
  BY <1>1, <1>2 DEF Past, TypeInv
<1>7. Loaded'
  <2> SUFFICES ASSUME NEW q \in Items, NEW k \in 1 .. 9, Past(q, k)', Loading(q, Loads[k])
               PROVE  tile'[Target(q, Loads[k])] = Wanted(X(q, k), Y(q, k))
    BY <1>5 DEF Loaded
  <2>1. /\ X(q, k) \in 0 .. Width - 1 /\ Y(q, k) \in 0 .. Height - 1
        /\ Target(q, Loads[k]) = CellAt(X(q, k), Y(q, k))
        /\ Target(q, Loads[k]) \in Cells
    BY TargetInTile, CellInside DEF Target
  <2>2. CASE Loading(p, d) /\ Target(q, Loads[k]) = Target(p, d)
    <3>1. /\ X(p, n) \in 0 .. Width - 1 /\ Y(p, n) \in 0 .. Height - 1
          /\ Target(p, d) = CellAt(X(p, n), Y(p, n))
      BY <2>2, <1>2, TargetInTile DEF Target
    <3>2. X(q, k) = X(p, n) /\ Y(q, k) = Y(p, n)
      <4> HIDE DEF X, Y
      <4>1. Y(q, k) \in Int /\ Y(p, n) \in Int /\ CellAt(X(q, k), Y(q, k)) = CellAt(X(p, n), Y(p, n))
        BY <2>1, <2>2, <3>1, SizeFacts
      <4>2. QED
        BY <2>1, <3>1, <4>1, CellUnique
    <3>3. tile'[Target(q, Loads[k])] = Wanted(X(p, n), Y(p, n))
      BY <1>1, <1>2, <1>4, <2>1, <2>2 DEF TypeInv
    <3>4. QED
      BY <3>2, <3>3
  <2>3. CASE ~(Loading(p, d) /\ Target(q, Loads[k]) = Target(p, d))
    <3>1. Past(q, k)
      BY <1>6, <2>3
    <3>2. tile'[Target(q, Loads[k])] = tile[Target(q, Loads[k])]
      BY <1>1, <2>3
    <3>3. QED
      BY <3>1, <3>2, <1>2 DEF Loaded
  <2>4. QED
    BY <2>2, <2>3
<1>8. BehindBarrier'
  BY <1>1, <1>2 DEF BehindBarrier, TypeInv
<1>9. WindowExact'
  BY <1>1, <1>2 DEF WindowExact, TypeInv, GlobalX, GlobalY, Pixel
<1>10. QED
  BY <1>3, <1>7, <1>8, <1>9 DEF IInv

\* Behind the barrier all cells are filled.
LEMMA BarrierInv ==
    ASSUME MaskFits, IInv, NEW p \in Items, PassBarrier(p)
    PROVE  IInv'
<1>1. /\ pc[p] = "barrier" /\ \A q \in Items : pc[q] # "load"
      /\ pc' = [pc EXCEPT ![p] = "read"]
      /\ UNCHANGED <<group, next, tile, window>>
  BY DEF PassBarrier
<1>2. TypeInv /\ Loaded /\ WindowExact
  BY DEF IInv
<1>3. TypeInv'
  BY <1>1, <1>2 DEF TypeInv
<1>4. \A q \in Items : pc'[q] # "load" /\ (pc'[q] = "done" <=> pc[q] = "done")
  BY <1>1, <1>2 DEF TypeInv
<1>5. Loaded'
  BY <1>1, <1>2 DEF Loaded, Past, Wanted, Pixel
<1>6. BehindBarrier' /\ WindowExact'
  BY <1>1, <1>2, <1>4 DEF BehindBarrier, WindowExact, GlobalX, GlobalY, Pixel
<1>7. QED
  BY <1>3, <1>5, <1>6 DEF IInv

\* Once everybody is past its loads, every cell of the tile is right.
LEMMA TileComplete ==
    ASSUME MaskFits, IInv, \A q \in Items : pc[q] # "load",
           NEW x \in 0 .. Width - 1, NEW y \in 0 .. Height - 1
    PROVE  tile[CellAt(x, y)] = Wanted(x, y)
<1>1. PICK a \in Directions, l \in 0 .. GroupX - 1 : AtSide(a, l, GroupX) /\ x = l + Shift + a * Shift
  <2>1. /\ Shift \in Nat \ {0} /\ GroupX \in Nat /\ Shift <= GroupX
        /\ x \in 0 .. GroupX + 2 * Shift - 1
    BY SizeFacts
  <2>2. \E d \in Directions, l \in 0 .. GroupX - 1 :
            /\ \/ d = 0
               \/ d = -1 /\ l < Shift
               \/ d = 1 /\ l + Shift >= GroupX
            /\ x = l + Shift + d * Shift
    BY <2>1, Reached
  <2>3. QED
    BY <2>2 DEF AtSide
<1>2. PICK b \in Directions, m \in 0 .. GroupY - 1 : AtSide(b, m, GroupY) /\ y = m + Shift + b * Shift
  <2>1. /\ Shift \in Nat \ {0} /\ GroupY \in Nat /\ Shift <= GroupY
        /\ y \in 0 .. GroupY + 2 * Shift - 1
    BY SizeFacts
  <2>2. \E d \in Directions, e \in 0 .. GroupY - 1 :
            /\ \/ d = 0
               \/ d = -1 /\ e < Shift
               \/ d = 1 /\ e + Shift >= GroupY
            /\ y = e + Shift + d * Shift
    BY <2>1, Reached
  <2>3. QED
    BY <2>2 DEF AtSide
<1>3. PICK k \in 1 .. 9 : Loads[k] = <<a, b>>
  BY LoadList
<1> DEFINE q == <<l, m>>
<1>4. q \in Items /\ q[1] = l /\ q[2] = m /\ Loads[k][1] = a /\ Loads[k][2] = b
  BY <1>3 DEF Items
<1>5. Loading(q, Loads[k]) /\ Past(q, k)
  BY <1>1, <1>2, <1>4 DEF Loading, Past
<1>6. Target(q, Loads[k]) = CellAt(x, y)
  BY <1>1, <1>2, <1>4 DEF Target
<1>7. tile[Target(q, Loads[k])] = Wanted(q[1] + Shift + Loads[k][1] * Shift, q[2] + Shift + Loads[k][2] * Shift)
  BY <1>4, <1>5 DEF IInv, Loaded
<1>8. QED
  BY <1>1, <1>2, <1>4, <1>6, <1>7

\* A window reads only cells that are filled.
LEMMA ReadInv ==
    ASSUME MaskFits, IInv, NEW p \in Items, ReadWindow(p)
    PROVE  IInv'
<1>1. /\ pc[p] = "read" /\ pc' = [pc EXCEPT ![p] = "done"]
      /\ window' = [window EXCEPT ![p] =
                      [o \in Offsets |->
                          IF MaskCell(p, o) \in Cells THEN tile[MaskCell(p, o)] ELSE Unset]]
      /\ UNCHANGED <<group, next, tile>>
  BY DEF ReadWindow
<1>2. TypeInv /\ Loaded /\ BehindBarrier /\ WindowExact
  BY DEF IInv
<1>3. \A q \in Items : pc[q] # "load"
  BY <1>1, <1>2 DEF BehindBarrier
<1>4. TypeInv'
  BY <1>1, <1>2 DEF TypeInv
<1>5. Loaded'
  BY <1>1, <1>2, <1>3 DEF Loaded, Past, Wanted, Pixel
<1>6. BehindBarrier'
  BY <1>1, <1>2, <1>3 DEF BehindBarrier, TypeInv
<1>7. ASSUME NEW o \in Offsets
      PROVE  window'[p][o] = Pixel(GlobalX(p) + o[1], GlobalY(p) + o[2])
  <2> DEFINE x == p[1] + Shift + o[1]
             y == p[2] + Shift + o[2]
  <2>1. /\ p[1] \in 0 .. GroupX - 1 /\ p[2] \in 0 .. GroupY - 1
        /\ o[1] \in -Half .. Half /\ o[2] \in -Half .. Half
    BY DEF Items, Offsets
  <2>2. x \in 0 .. Width - 1 /\ y \in 0 .. Height - 1
    BY <2>1, SizeFacts
  <2> HIDE DEF x, y
  <2>3. CellAt(x, y) \in Cells /\ tile[CellAt(x, y)] = Wanted(x, y)
    BY <2>2, <1>3, CellInside, TileComplete
  <2>4. MaskCell(p, o) = CellAt(x, y)
    BY DEF MaskCell, x, y
  <2>5. window'[p][o] = Wanted(x, y)
    BY <1>1, <1>2, <2>3, <2>4 DEF TypeInv
  <2>6. Wanted(x, y) = Pixel(GlobalX(p) + o[1], GlobalY(p) + o[2])
    <3>1. group[1] * GroupX \in Int /\ group[2] * GroupY \in Int
      BY <1>2, SizeFacts DEF TypeInv
    <3>2. \A a, b, c, e \in Int : a + (b + e + c) - e = (a + b) + c
      OBVIOUS
    <3>3. /\ group[1] * GroupX + x - Shift = (group[1] * GroupX + p[1]) + o[1]
          /\ group[2] * GroupY + y - Shift = (group[2] * GroupY + p[2]) + o[2]
      BY <3>1, <3>2, <2>1, SizeFacts DEF x, y
    <3>4. QED
      BY <3>3 DEF Wanted, GlobalX, GlobalY
  <2>7. QED
    BY <2>5, <2>6
<1>8. WindowExact'
  <2> SUFFICES ASSUME NEW q \in Items, pc'[q] = "done", NEW o \in Offsets
               PROVE  window'[q][o] = Pixel(GlobalX(q) + o[1], GlobalY(q) + o[2])
    BY <1>1 DEF WindowExact, GlobalX, GlobalY, Pixel
  <2>1. CASE q = p
    BY <2>1, <1>7
  <2>2. CASE q # p
    BY <2>2, <1>1, <1>2 DEF WindowExact, TypeInv
  <2>3. QED
    BY <2>1, <2>2
<1>9. QED
  BY <1>4, <1>5, <1>6, <1>8 DEF IInv

\* Every step of the work-group keeps the invariant.
LEMMA NextInv == ASSUME MaskFits, IInv, [Next]_vars PROVE IInv'
<1>1. CASE UNCHANGED vars
  BY <1>1 DEF vars, IInv, TypeInv, Loaded, Past, Wanted, Pixel, BehindBarrier, WindowExact, GlobalX, GlobalY
<1>2. CASE \E p \in Items : Load(p) \/ PassBarrier(p) \/ ReadWindow(p)
  BY <1>2, LoadInv, BarrierInv, ReadInv
<1>3. QED
  BY <1>1, <1>2 DEF Next, GroupFinished

\* What is in the tile is right from the load on, and complete at the barrier
\* (kernels/hough.cl, lines 31-74).
THEOREM Invariance == ASSUME MaskFits PROVE Spec => []IInv
<1>1. Init => IInv
  BY InitInv
<1>2. IInv /\ [Next]_vars => IInv'
  BY NextInv
<1>3. QED
  BY <1>1, <1>2, PTL DEF Spec

\* For every work-group, place and halo, a mask no wider than the halo shows
\* each work-item exactly the pixels around its own (lines 31-74 and 78-92).
THEOREM WindowsExact == ASSUME MaskFits PROVE Spec => []WindowExact
<1>1. IInv => WindowExact
  BY DEF IInv
<1>2. QED
  BY <1>1, Invariance, PTL

-----------------------------------------------------------------------------
(* The passes of ordfilt. *)

\* A product divided by one of its factors.
LEMMA MulDiv ==
    ASSUME NEW a \in Nat, NEW k \in Nat \ {0}
    PROVE  (a * k) \div k = a
<1> DEFINE q == (a * k) \div k
           r == (a * k) % k
<1>1. q \in Int /\ r \in 0 .. k - 1 /\ a * k = k * q + r
  OBVIOUS
<1> HIDE DEF q, r
<1>2. k * (a - q) = r
  BY <1>1
<1>3. CASE a - q >= 1
  <2>1. k * (a - q) >= k * 1
    BY <1>1, <1>3
  <2>2. QED
    BY <2>1, <1>1, <1>2
<1>4. CASE a - q <= -1
  <2>1. k * (a - q) <= k * (-1)
    BY <1>1, <1>4
  <2>2. QED
    BY <2>1, <1>1, <1>2
<1>5. CASE a - q = 0
  BY <1>5, <1>1 DEF q
<1>6. QED
  BY <1>1, <1>3, <1>4, <1>5

\* The quotients of compute_ordfilt: the chunks and the rows left over make up
\* the image, and chunk iter starts behind the ones before it.
LEMMA Quotients ==
    ASSUME height \in Nat \ {0}, rowBytes \in Nat \ {0}, limit \in Nat, iter \in Nat
    PROVE  /\ IterCount \in Nat \ {0} /\ Rows \in Nat /\ Mod \in Nat
           /\ height = Rows * IterCount + Mod
           /\ Offset = Mod + iter * Rows
<1>1. height * rowBytes \in Nat /\ limit + 1 \in Nat \ {0}
  OBVIOUS
<1>2. IterCount \in Nat \ {0}
  <2> DEFINE hb == height * rowBytes
  <2>1. hb \in Nat
    BY <1>1
  <2> HIDE DEF hb
  <2>2. hb \div (limit + 1) \in Nat
    BY <2>1, <1>1
  <2>3. QED
    BY <2>2 DEF IterCount, hb
<1> DEFINE k == IterCount
<1>3. /\ height \div k \in Int /\ height % k \in 0 .. k - 1
      /\ height = k * (height \div k) + (height % k)
  <2> HIDE DEF k
  <2>1. QED
    BY <1>2 DEF k
<1>4. Rows \in Int /\ Mod \in Nat /\ Mod < IterCount /\ height = IterCount * Rows + Mod
  BY <1>3, <1>2 DEF Rows, Mod
<1>5. Rows \in Nat
  <2>1. CASE Rows <= -1
    <3>1. IterCount * Rows <= IterCount * (-1)
      BY <2>1, <1>2, <1>4
    <3>2. QED
      BY <3>1, <1>2, <1>4
  <2>2. QED
    BY <2>1, <1>4
<1>6. height - Mod = Rows * IterCount
  BY <1>2, <1>4, <1>5
<1>7. iter * (height - Mod) = (iter * Rows) * IterCount /\ iter * Rows \in Nat
  BY <1>2, <1>5, <1>6
<1>8. Offset = Mod + iter * Rows
  BY <1>2, <1>7, MulDiv DEF Offset
<1>9. QED
  BY <1>2, <1>4, <1>5, <1>6, <1>8

-----------------------------------------------------------------------------
(* The inductive invariant. *)

\* What the second kernel of a pass finds in the rows of the buffer it sorts.
Gathered ==
    /\ stage = "sort_first" => \A b \in 0 .. Rows + Mod - 1 : buffer[b] = b
    /\ stage = "sort" => /\ iter < IterCount
                      /\ \A b \in 0 .. Rows - 1 : buffer[b] = Offset + b

ChunksInv ==
    /\ TypeOK
    /\ stage \in {"gather_first", "sort_first"} => iter = 0
    /\ Gathered
    /\ NoGap
    /\ RowsStayRight
    /\ EveryRowComputed

\* A pass stays inside the image and the buffer.
LEMMA PassInside ==
    ASSUME height \in Nat \ {0}, rowBytes \in Nat \ {0}, limit \in Nat, iter \in Nat, iter < IterCount
    PROVE  Offset + Rows <= height /\ Rows + Mod <= height /\ Offset \in Nat
<1>1. /\ IterCount \in Nat \ {0} /\ Rows \in Nat /\ Mod \in Nat
      /\ height = Rows * IterCount + Mod
      /\ Offset = Mod + iter * Rows
  BY Quotients
<1>2. (iter + 1) * Rows <= IterCount * Rows /\ 1 * Rows <= IterCount * Rows
  BY <1>1
<1>3. QED
  BY <1>1, <1>2

\* Before the first pass no row is done.
LEMMA ChunksInitInv == ASSUME Inputs, ChunksInit PROVE ChunksInv
<1>1. height \in Nat \ {0} /\ rowBytes \in Nat \ {0} /\ limit \in Nat /\ iter = 0
  BY DEF ChunksInit, Inputs
<1>2. IterCount \in Nat \ {0} /\ Rows \in Nat /\ Mod \in Nat
  BY <1>1, Quotients
<1>3. TypeOK
  <2>1. iter \in 0 .. IterCount
    BY <1>1, <1>2
  <2>2. buffer \in [0 .. Rows + Mod - 1 -> Image \cup {NoRow}]
    BY DEF ChunksInit
  <2>3. dst \in [Image -> Image \cup {NoRow}]
    BY DEF ChunksInit
  <2>4. QED
    BY <2>1, <2>2, <2>3 DEF ChunksInit, TypeOK
<1>4. ~ outside /\ \A r \in Image : dst[r] \in {NoRow, r}
  BY DEF ChunksInit
<1>5. QED
  BY <1>1, <1>3, <1>4 DEF ChunksInit, ChunksInv, Gathered, NoGap, RowsStayRight, EveryRowComputed

\* The definitions that do not depend on the variables a pass changes.
LEMMA ChunksFixed ==
    ASSUME UNCHANGED input
    PROVE  /\ IterCount' = IterCount /\ Rows' = Rows /\ Mod' = Mod /\ Image' = Image
           /\ iter' = iter => Offset' = Offset
  BY DEF input, IterCount, Rows, Mod, Image, Offset

\* Every pass of the host keeps the invariant.
LEMMA ChunksNextInv == ASSUME Inputs, ChunksInv, [ChunksNext]_chunkVars PROVE ChunksInv'
<1> USE DEF ChunksInv
<1>1. /\ height \in Nat \ {0} /\ rowBytes \in Nat \ {0} /\ limit \in Nat /\ iter \in Nat
      /\ \A r \in Image : r # NoRow
  <2>1. IterCount \in Int
    <3>1. height * rowBytes \in Nat /\ limit + 1 \in Nat \ {0}
      BY DEF TypeOK, Inputs
    <3> DEFINE hb == height * rowBytes
    <3> HIDE DEF hb
    <3>2. hb \div (limit + 1) \in Int
      BY <3>1 DEF hb
    <3>3. QED
      BY <3>2 DEF IterCount, hb
  <2>2. QED
    BY <2>1 DEF TypeOK, Inputs, Image
<1>2. /\ IterCount \in Nat \ {0} /\ Rows \in Nat /\ Mod \in Nat
      /\ height = Rows * IterCount + Mod
      /\ Offset = Mod + iter * Rows
  BY <1>1, Quotients
<1>3. iter < IterCount => Offset + Rows <= height /\ Rows + Mod <= height /\ Offset \in Nat
  BY <1>1, PassInside
<1>4. CASE GatherFirst
  <2>1. /\ IterCount' = IterCount /\ Rows' = Rows /\ Mod' = Mod /\ Image' = Image /\ Offset' = Offset
    BY <1>4, ChunksFixed DEF GatherFirst
  <2>2. iter = 0 /\ Rows + Mod <= height
    BY <1>4, <1>2, <1>3 DEF GatherFirst
  <2>3. \A b \in 0 .. Rows + Mod - 1 : 0 + b = b /\ b \in Image
    BY <1>1, <1>2, <2>2 DEF Image
  <2>4. TypeOK'
    BY <1>4, <1>2, <2>1, <2>2, <2>3 DEF TypeOK, GatherFirst, Gather, input
  <2>5. Gathered'
    BY <1>4, <1>2, <2>1, <2>3 DEF TypeOK, GatherFirst, Gather, Gathered
  <2>6. RowsStayRight'
    <3>1. ~ (Rows + Mod > Rows + Mod) /\ ~ (0 + (Rows + Mod) > height)
      BY <1>2, <2>2
    <3>2. outside' = (outside \/ Rows + Mod > Rows + Mod \/ 0 + (Rows + Mod) > height) /\ dst' = dst
      BY <1>4 DEF GatherFirst, Gather
    <3>3. ~ outside'
      BY <3>1, <3>2 DEF RowsStayRight
    <3>4. QED
      BY <2>1, <3>2, <3>3 DEF RowsStayRight
  <2>7. QED
    BY <1>4, <2>2, <2>4, <2>5, <2>6 DEF NoGap, EveryRowComputed, GatherFirst
<1>5. CASE SortFirst
  <2>1. /\ IterCount' = IterCount /\ Rows' = Rows /\ Mod' = Mod /\ Image' = Image /\ Offset' = Offset
    BY <1>5, ChunksFixed DEF SortFirst
  <2>2. iter = 0 /\ Rows + Mod <= height /\ Offset = Mod
    BY <1>5, <1>2, <1>3 DEF SortFirst
  <2>3. \A r \in Image : dst'[r] = IF r < Rows + Mod THEN r ELSE dst[r]
    BY <1>5, <1>1, <1>2 DEF SortFirst, SortRows, Gathered, Image
  <2>4. TypeOK'
    <3>1. dst' \in [Image -> Image \cup {NoRow}]
      BY <1>5, <2>3 DEF TypeOK, SortFirst, SortRows
    <3>2. QED
      BY <1>5, <2>1, <3>1 DEF TypeOK, SortFirst, SortRows, input
  <2>5. RowsStayRight'
    <3>1. ~ (Rows + Mod > Rows + Mod) /\ ~ (0 + (Rows + Mod) > height)
      BY <1>2, <2>2
    <3>2. outside' = (outside \/ Rows + Mod > Rows + Mod \/ 0 + (Rows + Mod) > height)
      BY <1>5 DEF SortFirst, SortRows
    <3>3. ~ outside'
      BY <3>1, <3>2 DEF RowsStayRight
    <3>4. \A r \in Image : dst'[r] \in {NoRow, r}
      BY <2>3 DEF RowsStayRight
    <3>5. QED
      BY <2>1, <3>3, <3>4 DEF RowsStayRight
  <2>6. NoGap'
    BY <1>1, <1>2, <2>1, <2>2, <2>3 DEF NoGap, Image
  <2>7. QED
    BY <1>5, <2>4, <2>5, <2>6 DEF Gathered, EveryRowComputed, SortFirst
<1>6. CASE GatherChunk
  <2>1. /\ IterCount' = IterCount /\ Rows' = Rows /\ Mod' = Mod /\ Image' = Image /\ Offset' = Offset
    BY <1>6, ChunksFixed DEF GatherChunk
  <2>2. Offset + Rows <= height /\ Offset \in Nat
    BY <1>6, <1>3 DEF GatherChunk
  <2>3. \A b \in 0 .. Rows - 1 : Offset + b \in Image
    BY <1>1, <1>2, <2>2 DEF Image
  <2>4. TypeOK'
    <3>1. buffer' \in [0 .. Rows + Mod - 1 -> Image \cup {NoRow}]
      <4>1. \A b \in 0 .. Rows + Mod - 1 : b < Rows => Offset + b \in Image
        BY <1>2, <2>3
      <4>2. QED
        BY <4>1, <1>6 DEF TypeOK, GatherChunk, Gather
    <3>2. outside' \in BOOLEAN
      BY <1>6 DEF GatherChunk, Gather
    <3>3. QED
      BY <1>6, <2>1, <3>1, <3>2 DEF TypeOK, GatherChunk, Gather, input
  <2>5. Gathered'
    BY <1>6, <1>2, <2>1 DEF TypeOK, GatherChunk, Gather, Gathered
  <2>6. RowsStayRight'
    <3>1. ~ (Rows > Rows + Mod) /\ ~ (Offset + (Rows) > height)
      BY <1>2, <2>2
    <3>2. outside' = (outside \/ Rows > Rows + Mod \/ Offset + (Rows) > height) /\ dst' = dst
      BY <1>6 DEF GatherChunk, Gather
    <3>3. ~ outside'
      BY <3>1, <3>2 DEF RowsStayRight
    <3>4. QED
      BY <2>1, <3>2, <3>3 DEF RowsStayRight
  <2>7. NoGap'
    BY <1>6, <2>1 DEF NoGap, GatherChunk
  <2>8. QED
    BY <1>6, <2>4, <2>5, <2>6, <2>7 DEF EveryRowComputed, GatherChunk
<1>7. CASE SortChunk
  <2>1. IterCount' = IterCount /\ Rows' = Rows /\ Mod' = Mod /\ Image' = Image
    BY <1>7, ChunksFixed DEF SortChunk
  <2>2. iter < IterCount /\ Offset + Rows <= height /\ Offset \in Nat
    BY <1>7, <1>3 DEF SortChunk, Gathered
  <2>3. \A r \in Image : dst'[r] = IF Offset <= r /\ r < Offset + Rows THEN r ELSE dst[r]
    <3> SUFFICES ASSUME NEW r \in Image, Offset <= r, r < Offset + Rows
                 PROVE  buffer[r - Offset] = r
      BY <1>7 DEF SortChunk, SortRows
    <3>1. r - Offset \in 0 .. Rows - 1
      BY <1>1, <1>2, <2>2 DEF Image
    <3>2. buffer[r - Offset] = Offset + (r - Offset)
      BY <3>1, <1>7 DEF SortChunk, Gathered
    <3>3. QED
      BY <3>2, <1>1, <2>2 DEF Image
  <2>4. Offset' = Offset + Rows
    <3>1. Offset' = Mod + (iter + 1) * Rows
      <4>1. height' = height /\ rowBytes' = rowBytes /\ limit' = limit /\ iter' = iter + 1
        BY <1>7 DEF SortChunk, input
      <4>2. (iter + 1) * (height - Mod) = ((iter + 1) * Rows) * IterCount /\ (iter + 1) * Rows \in Nat
        BY <1>1, <1>2
      <4>3. ((iter + 1) * (height - Mod)) \div IterCount = (iter + 1) * Rows
        BY <4>2, <1>2, MulDiv
      <4>4. QED
        BY <4>1, <4>3, <2>1 DEF Offset
    <3>2. QED
      BY <3>1, <1>1, <1>2
  <2>5. TypeOK'
    <3>1. dst' \in [Image -> Image \cup {NoRow}]
      BY <1>7, <2>3 DEF TypeOK, SortChunk, SortRows
    <3>2. iter' \in 0 .. IterCount
      BY <1>7, <1>1, <1>2, <2>2 DEF SortChunk
    <3>3. QED
      BY <1>7, <2>1, <3>1, <3>2 DEF TypeOK, SortChunk, SortRows, input
  <2>6. RowsStayRight'
    <3>1. ~ (Rows > Rows + Mod) /\ ~ (Offset + (Rows) > height)
      BY <1>2, <2>2
    <3>2. outside' = (outside \/ Rows > Rows + Mod \/ Offset + (Rows) > height)
      BY <1>7 DEF SortChunk, SortRows
    <3>3. ~ outside'
      BY <3>1, <3>2 DEF RowsStayRight
    <3>4. \A r \in Image : dst'[r] \in {NoRow, r}
      BY <2>3 DEF RowsStayRight
    <3>5. QED
      BY <2>1, <3>3, <3>4 DEF RowsStayRight
  <2>7. NoGap'
    <3> SUFFICES ASSUME NEW r \in Image, r < Offset + Rows PROVE dst'[r] = r
      BY <2>1, <2>4 DEF NoGap
    <3>1. CASE r < Offset
      BY <3>1, <1>7, <2>2, <2>3, <1>1 DEF NoGap, SortChunk, Image
    <3>2. CASE Offset <= r
      BY <3>2, <2>3
    <3>3. QED
      BY <3>1, <3>2, <1>1, <2>2 DEF Image
  <2>8. QED
    BY <1>7, <2>5, <2>6, <2>7 DEF Gathered, EveryRowComputed, SortChunk
<1>8. CASE Return
  <2>1. /\ IterCount' = IterCount /\ Rows' = Rows /\ Mod' = Mod /\ Image' = Image /\ Offset' = Offset
    BY <1>8, ChunksFixed DEF Return
  <2>2. Offset = height
    <3>1. Offset = Mod + IterCount * Rows
      BY <1>8, <1>2 DEF Return
    <3>2. QED
      BY <3>1, <1>2
  <2>3. \A r \in Image : dst[r] = r
    BY <1>8, <1>1, <2>2 DEF Return, NoGap, Image
  <2>4. dst = [r \in Image |-> r]
    BY <2>3 DEF TypeOK
  <2>5. QED
    BY <1>8, <2>1, <2>4 DEF Return, TypeOK, Gathered, NoGap, RowsStayRight, EveryRowComputed, input
<1>9. CASE UNCHANGED chunkVars
  <2>1. UNCHANGED input /\ iter' = iter
    BY <1>9 DEF chunkVars, input
  <2>2. /\ IterCount' = IterCount /\ Rows' = Rows /\ Mod' = Mod /\ Image' = Image /\ Offset' = Offset
    BY <2>1, ChunksFixed
  <2>3. QED
    BY <1>9, <2>2 DEF chunkVars, TypeOK, Gathered, NoGap, RowsStayRight, EveryRowComputed
<1>10. QED
  BY <1>4, <1>5, <1>6, <1>7, <1>8, <1>9 DEF ChunksNext, Finished

-----------------------------------------------------------------------------

\* Everything the passes need, for every image, pattern and device.
THEOREM ChunksInvariance == ASSUME Inputs PROVE ChunksSpec => []ChunksInv
<1>1. ChunksInit => ChunksInv
  BY ChunksInitInv
<1>2. ChunksInv /\ [ChunksNext]_chunkVars => ChunksInv'
  BY ChunksNextInv
<1>3. QED
  BY <1>1, <1>2, PTL DEF ChunksSpec

\* No row of the output is ever that of another one, and no pass leaves the
\* image or the buffer.
THEOREM NoRowMisplaced == ASSUME Inputs PROVE ChunksSpec => []RowsStayRight
<1>1. ChunksInv => RowsStayRight
  BY DEF ChunksInv
<1>2. QED
  BY <1>1, ChunksInvariance, PTL

\* When compute_ordfilt returns, no row is missing.
THEOREM NoRowMissing == ASSUME Inputs PROVE ChunksSpec => []EveryRowComputed
<1>1. ChunksInv => EveryRowComputed
  BY DEF ChunksInv
<1>2. QED
  BY <1>1, ChunksInvariance, PTL

-----------------------------------------------------------------------------
(* The sort of ordfilt: powers of two and their quotients. *)

\* Doubling, once per step.
LEMMA Powers ==
    ASSUME TileSizes
    PROVE  /\ \A n \in 0 .. LogLength : Pow2[n] \in Nat \ {0}
           /\ Pow2[0] = 1
           /\ \A n \in 1 .. LogLength : Pow2[n] = 2 * Pow2[n - 1]
<1> DEFINE S == Nat \ {0}
           L == LogLength
           Step(v) == 2 * v
           g == [p \in (1 .. L) \X S |-> Step(p[2])]
           K(f) == [n \in 0 .. L |-> IF n = 0 THEN 1 ELSE Step(f[n - 1])]
<1>1. L \in Nat /\ \A v \in S : Step(v) \in S
  BY DEF TileSizes
<1>2. Pow2 = CHOOSE f : f = K(f)
  BY DEF Pow2
<1>3. /\ g \in [(1 .. L) \X S -> S] /\ 1 \in S
      /\ \A n \in 1 .. L, v \in S : g[<<n, v>>] = Step(v)
  BY <1>1
<1> HIDE DEF g, Step, L
<1>4. PICK f \in [0 .. L -> S] : Recursive(f, L, 1, g)
  BY <1>1, <1>3, RecursionExists
<1>5. f = K(f)
  <2>1. ASSUME NEW n \in 0 .. L PROVE f[n] = K(f)[n]
    <3>1. CASE n = 0
      BY <1>4, <3>1 DEF Recursive
    <3>2. CASE n # 0
      <4>1. n \in 1 .. L /\ f[n - 1] \in S
        BY <1>1, <3>2
      <4>2. f[n] = Step(f[n - 1])
        BY <1>3, <1>4, <4>1 DEF Recursive
      <4>3. QED
        BY <3>2, <4>2
    <3>3. QED
      BY <3>1, <3>2
  <2>2. QED
    BY <2>1
<1>6. ASSUME NEW h
      PROVE  K(h)[0] = 1 /\ \A n \in 1 .. L : K(h)[n] = Step(h[n - 1])
  BY <1>1
<1> HIDE DEF K
<1>7. Pow2 = K(Pow2)
  BY <1>2, <1>5
<1>8. Pow2[0] = 1 /\ \A n \in 1 .. L : Pow2[n] = Step(Pow2[n - 1])
  BY <1>6, <1>7
<1>9. \A n \in 0 .. L : Pow2[n] \in S
  <2>1. Pow2[0] \in S /\ \A n \in 1 .. L : Pow2[n - 1] \in S => Pow2[n] \in S
    BY <1>1, <1>8
  <2> HIDE DEF S
  <2>2. QED
    BY <1>1, <2>1, RecursionKeeps
<1>10. QED
  BY <1>8, <1>9 DEF Step, L

\* The smaller power divides the larger.
LEMMA PowerDivides ==
    ASSUME TileSizes, NEW s \in 0 .. LogLength, NEW t \in 0 .. s
    PROVE  \E u \in Nat \ {0} : Pow2[s] = Pow2[t] * u
<1> DEFINE L == LogLength
           T == {n \in 0 .. L : n < t \/ \E u \in Nat \ {0} : Pow2[n] = Pow2[t] * u}
<1>1. L \in Nat /\ t \in 0 .. L /\ Pow2[t] \in Nat \ {0}
  BY Powers DEF TileSizes
<1>2. t \in T
  <2>1. Pow2[t] = Pow2[t] * 1
    BY <1>1
  <2>2. QED
    BY <1>1, <2>1
<1>3. 0 \in T
  BY <1>1, <1>2
<1>4. ASSUME NEW n \in 0 .. L - 1, n \in T PROVE n + 1 \in T
  <2>1. CASE n + 1 <= t
    BY <1>1, <1>2, <2>1
  <2>2. CASE n + 1 > t
    <3>1. PICK u \in Nat \ {0} : Pow2[n] = Pow2[t] * u
      BY <1>1, <1>4, <2>2
    <3>2. n + 1 \in 1 .. L /\ (n + 1) - 1 = n
      BY <1>1
    <3>3. Pow2[n + 1] = 2 * Pow2[n]
      BY <3>2, Powers
    <3>4. Pow2[n + 1] = Pow2[t] * (2 * u) /\ 2 * u \in Nat \ {0}
      BY <1>1, <3>1, <3>3
    <3>5. QED
      BY <3>2, <3>4
  <2>3. QED
    BY <1>1, <2>1, <2>2
<1> HIDE DEF T
<1>5. \A n \in 0 .. L : n \in T
  BY <1>1, <1>3, <1>4, InductionUpTo
<1>6. QED
  BY <1>1, <1>5 DEF T

\* Quotient and remainder.
LEMMA DivMod ==
    ASSUME NEW c \in Nat, NEW m \in Nat \ {0}
    PROVE  /\ c \div m \in Nat /\ c % m \in 0 .. m - 1
           /\ c = m * (c \div m) + (c % m)
OBVIOUS

\* The other way round: what is quotient and what is remainder.
LEMMA DivModOf ==
    ASSUME NEW m \in Nat \ {0}, NEW a \in Nat, NEW b \in 0 .. m - 1
    PROVE  (m * a + b) \div m = a /\ (m * a + b) % m = b
OBVIOUS

\* The quotient by a product, factor by factor.
LEMMA DivDiv ==
    ASSUME NEW c \in Nat, NEW m \in Nat \ {0}, NEW u \in Nat \ {0},
           NEW n \in Nat, n = m * u
    PROVE  c \div n = (c \div m) \div u
<1> DEFINE q == c \div m  e == c % m  w == q \div u  f == q % u
<1>1. q \in Nat /\ e \in 0 .. m - 1 /\ c = m * q + e
  BY DivMod
<1>2. w \in Nat /\ f \in 0 .. u - 1 /\ q = u * w + f
  BY <1>1, DivMod
<1> HIDE DEF q, e, w, f
<1>3. c = (m * u) * w + (m * f + e)
  BY <1>1, <1>2
<1>4. m * u \in Nat \ {0} /\ m * f + e \in 0 .. (m * u) - 1
  <2>1. f + 1 <= u
    BY <1>2
  <2>2. m * (f + 1) <= m * u
    BY <1>2, <2>1
  <2>3. m * (f + 1) = m * f + m
    BY <1>2
  <2>4. m * f \in Nat /\ m * u \in Nat \ {0}
    BY <1>2
  <2>5. QED
    BY <1>1, <2>2, <2>3, <2>4
<1> DEFINE r == m * f + e
<1>5. n \in Nat \ {0} /\ r \in 0 .. n - 1 /\ c = n * w + r
  BY <1>3, <1>4
<1> HIDE DEF r
<1>6. c \div n = w
  BY <1>2, <1>5, DivModOf
<1>7. QED
  BY <1>6 DEF w, q

\* The quotient is monotone.
LEMMA DivMonotone ==
    ASSUME NEW c \in Nat, NEW d \in Nat, NEW m \in Nat \ {0}, c <= d
    PROVE  c \div m <= d \div m
<1>1. /\ c \div m \in Nat /\ d \div m \in Nat /\ c % m \in 0 .. m - 1 /\ d % m \in 0 .. m - 1
      /\ c = m * (c \div m) + (c % m) /\ d = m * (d \div m) + (d % m)
  BY DivMod
<1> DEFINE q == c \div m  w == d \div m
<1> SUFFICES ASSUME q > w PROVE FALSE
  BY <1>1
<1>2. q \in Nat /\ w \in Nat
  BY <1>1
<1>3. c >= m * q /\ d < m * w + m
  BY <1>1
<1> HIDE DEF q, w
<1>4. q >= w + 1
  BY <1>2
<1>5. m * q >= m * (w + 1) /\ m * (w + 1) = m * w + m
  BY <1>2, <1>4
<1>6. QED
  BY <1>2, <1>3, <1>5

-----------------------------------------------------------------------------
(* Cells, blocks of cells, and the pairs that are compared. *)

\* Cells c and d lie in the same block of 2^n cells.
SameBlock(c, d, n) == c \div Pow2[n] = d \div Pow2[n]

Lower(c, t)   == (c \div Pow2[t]) % 2 = 0
Partner(c, t) == IF Lower(c, t) THEN c + Pow2[t] ELSE c - Pow2[t]

\* The size of the tile, and of half of it.
LEMMA TileLength ==
    ASSUME TileSizes
    PROVE  /\ Length \in Nat \ {0} /\ Length \div 2 \in Nat \ {0}
           /\ Length = 2 * (Length \div 2) /\ SortCells \subseteq Nat
           /\ SortItems \subseteq Nat
<1>1. LogLength \in 1 .. LogLength /\ LogLength - 1 \in 0 .. LogLength
  BY DEF TileSizes
<1>2. Pow2[LogLength] = 2 * Pow2[LogLength - 1] /\ Pow2[LogLength - 1] \in Nat \ {0}
  BY <1>1, Powers
<1>3. QED
  BY <1>2 DEF Length, SortCells, SortItems

\* Blocks of twice the size, counted in pairs.
LEMMA DoubleBlock ==
    ASSUME TileSizes, NEW t \in 0 .. LogLength - 1, NEW c \in Nat
    PROVE  /\ Pow2[t] \in Nat \ {0} /\ Pow2[t + 1] = 2 * Pow2[t]
           /\ c \div Pow2[t + 1] = (c \div Pow2[t]) \div 2
<1>1. t \in 0 .. LogLength /\ t + 1 \in 1 .. LogLength /\ (t + 1) - 1 = t
  BY DEF TileSizes
<1>2. Pow2[t] \in Nat \ {0} /\ Pow2[t + 1] = 2 * Pow2[t]
  BY <1>1, Powers
<1>3. PICK u \in Nat \ {0} : u = 2 /\ Pow2[t + 1] = Pow2[t] * u
  BY <1>2
<1>4. c \div Pow2[t + 1] = (c \div Pow2[t]) \div u
  BY <1>2, <1>3, DivDiv
<1>5. QED
  BY <1>2, <1>3, <1>4

\* A block lies in one block of any larger size.
LEMMA Coarser ==
    ASSUME TileSizes, NEW s \in 0 .. LogLength, NEW t \in 0 .. s,
           NEW c \in Nat, NEW d \in Nat
    PROVE  /\ SameBlock(c, d, t) => SameBlock(c, d, s)
           /\ c <= d => c \div Pow2[s] <= d \div Pow2[s]
           /\ c \div Pow2[t] <= d \div Pow2[t] => c \div Pow2[s] <= d \div Pow2[s]
<1>1. PICK u \in Nat \ {0} : Pow2[s] = Pow2[t] * u
  BY PowerDivides
<1>2. Pow2[t] \in Nat \ {0} /\ Pow2[s] \in Nat \ {0}
  BY Powers DEF TileSizes
<1> DEFINE m == Pow2[t]  q == c \div m  w == d \div m
<1>3. c \div Pow2[s] = q \div u /\ d \div Pow2[s] = w \div u
  BY <1>1, <1>2, DivDiv
<1>4. q \in Nat /\ w \in Nat
  BY <1>2, DivMod
<1> HIDE DEF m, q, w
<1>5. q <= w => q \div u <= w \div u
  BY <1>4, DivMonotone
<1>6. c <= d => c \div Pow2[s] <= d \div Pow2[s]
  BY <1>2, DivMonotone
<1>7. QED
  BY <1>3, <1>5, <1>6 DEF SameBlock, q, w, m

\* The partner of a cell is the cell at the same place of the other half of the
\* block, and the cell is its partner's.
LEMMA Partners ==
    ASSUME TileSizes, NEW t \in 0 .. LogLength - 1, NEW c \in SortCells
    PROVE  /\ Partner(c, t) \in SortCells
           /\ Lower(c, t) <=> ~ Lower(Partner(c, t), t)
           /\ Partner(Partner(c, t), t) = c
           /\ SameBlock(c, Partner(c, t), t + 1)
<1> DEFINE m == Pow2[t]  q == c \div m  e == c % m
<1>1. c \in Nat
  BY TileLength
<1>2. m \in Nat \ {0} /\ Pow2[t + 1] = m * 2
  BY <1>1, DoubleBlock
<1>3. q \in Nat /\ e \in 0 .. m - 1 /\ c = m * q + e
  BY <1>1, <1>2, DivMod
<1>4. PICK u \in Nat \ {0} : Length = (m * 2) * u
  <2>1. t + 1 \in 0 .. LogLength /\ LogLength \in 0 .. LogLength
    BY DEF TileSizes
  <2>2. QED
    BY <1>2, <2>1, PowerDivides DEF Length
<1>5. Lower(c, t) <=> q % 2 = 0
  BY DEF Lower
<1>6. \A d \in Nat : d \div Pow2[t + 1] = (d \div m) \div 2
  BY DoubleBlock
<1> HIDE DEF m, q, e
<1>7. c < (m * 2) * u
  BY <1>4, TileLength DEF SortCells
<1>8. CASE q % 2 = 0
  <2> DEFINE d == c + m
  <2>1. d = m * (q + 1) + e /\ d \in Nat /\ q + 1 \in Nat
    <3>1. m * (q + 1) = m * q + m
      BY <1>2, <1>3
    <3>2. m * q \in Nat /\ q + 1 \in Nat /\ d \in Nat
      BY <1>1, <1>2, <1>3
    <3>3. d = (m * q + e) + m
      BY <1>3
    <3>4. (m * q + e) + m = (m * q + m) + e
      BY <1>2, <1>3, <3>2
    <3>5. QED
      BY <3>1, <3>2, <3>3, <3>4
  <2>2. d \div m = q + 1
    <3> DEFINE w == q + 1
    <3>1. w \in Nat /\ d = m * w + e
      BY <2>1
    <3> HIDE DEF d, w
    <3>2. d \div m = w
      BY <1>2, <1>3, <3>1, DivModOf
    <3>3. QED
      BY <3>2 DEF w
  <2>3. Partner(c, t) = d
    BY <1>5, <1>8 DEF Partner, m
  <2>4. ~ Lower(d, t)
    <3>1. (q + 1) % 2 = 1
      BY <1>3, <1>8
    <3>2. QED
      BY <2>2, <3>1 DEF Lower, m
  <2>5. Partner(d, t) = c
    BY <1>1, <1>2, <2>4 DEF Partner, m
  <2>6. d < (m * 2) * u
    <3>1. PICK a \in Nat : q = 2 * a
      BY <1>3, <1>8
    <3>2. c = (m * 2) * a + e
      BY <1>2, <1>3, <3>1
    <3>3. a < u
      <4> SUFFICES ASSUME a >= u PROVE FALSE
        BY <3>1
      <4>1. (m * 2) * a >= (m * 2) * u
        BY <1>2, <3>1
      <4>2. (m * 2) * a \in Nat /\ (m * 2) * u \in Nat
        BY <1>2, <3>1
      <4>3. QED
        BY <1>3, <1>7, <3>2, <4>1, <4>2
    <3>4. (m * 2) * (a + 1) <= (m * 2) * u /\ (m * 2) * (a + 1) = (m * 2) * a + m * 2
      BY <1>2, <3>1, <3>3
    <3>5. (m * 2) * a \in Nat /\ (m * 2) * u \in Nat
      BY <1>2, <3>1
    <3>6. QED
      BY <1>2, <1>3, <3>2, <3>4, <3>5
  <2>7. d \in SortCells
    BY <1>4, <2>1, <2>6, TileLength DEF SortCells
  <2>8. SameBlock(c, d, t + 1)
    <3>1. c \div m = q
      BY DEF q
    <3>2. (q + 1) \div 2 = q \div 2
      BY <1>3, <1>8
    <3>3. QED
      BY <1>1, <1>6, <2>1, <2>2, <3>1, <3>2 DEF SameBlock
  <2>9. QED
    BY <1>5, <1>8, <2>3, <2>4, <2>5, <2>7, <2>8
<1>9. CASE q % 2 # 0
  <2> DEFINE d == c - m
  <2>1. q >= 1
    BY <1>3, <1>9
  <2>2. m * q >= m
    BY <1>2, <1>3, <2>1
  <2>3. d = m * (q - 1) + e /\ d \in Nat /\ q - 1 \in Nat
    BY <1>1, <1>2, <1>3, <2>1, <2>2
  <2>4. d \div m = q - 1
    BY <1>2, <1>3, <2>3, DivModOf
  <2>5. Partner(c, t) = d
    BY <1>5, <1>9 DEF Partner, m
  <2>6. Lower(d, t)
    <3>1. (q - 1) % 2 = 0
      BY <1>3, <1>9
    <3>2. QED
      BY <2>4, <3>1 DEF Lower, m
  <2>7. Partner(d, t) = c
    BY <1>1, <1>2, <2>6 DEF Partner, m
  <2>8. d \in SortCells
    BY <1>1, <1>2, <2>3, TileLength DEF SortCells
  <2>9. SameBlock(c, d, t + 1)
    <3>1. c \div m = q
      BY DEF q
    <3>2. (q - 1) \div 2 = q \div 2
      BY <1>3, <1>9
    <3>3. QED
      BY <1>1, <1>6, <2>3, <2>4, <3>1, <3>2 DEF SameBlock
  <2>10. QED
    BY <1>5, <1>9, <2>5, <2>6, <2>7, <2>8, <2>9
<1>10. QED
  BY <1>8, <1>9

\* The lower cell of the pair of item p, when keys 2^t apart are compared, and
\* the item that has the cell c.
LowerOf(p, t) == 2 * p - (p % Pow2[t])
ItemOf(c, t)  == (c \div Pow2[t + 1]) * Pow2[t] + (c % Pow2[t])

\* Halves of the tile, in blocks.
LEMMA HalfTile ==
    ASSUME TileSizes, NEW t \in 0 .. LogLength - 1
    PROVE  \E u \in Nat \ {0} : /\ Length = 2 * (Pow2[t] * u)
                                /\ Length \div 2 = Pow2[t] * u
<1>1. t \in 0 .. LogLength - 1 /\ LogLength - 1 \in 0 .. LogLength /\ LogLength \in 1 .. LogLength
  BY DEF TileSizes
<1>2. PICK u \in Nat \ {0} : Pow2[LogLength - 1] = Pow2[t] * u
  BY <1>1, PowerDivides
<1>3. Length = 2 * Pow2[LogLength - 1] /\ Pow2[LogLength - 1] \in Nat
  BY <1>1, Powers DEF Length
<1>4. Length \div 2 = Pow2[LogLength - 1]
  BY <1>3
<1>5. QED
  BY <1>2, <1>3, <1>4

\* The two cells of an item.
LEMMA PairOfItem ==
    ASSUME TileSizes, NEW t \in 0 .. LogLength - 1, NEW p \in SortItems
    PROVE  /\ LowerOf(p, t) \in SortCells /\ LowerOf(p, t) + Pow2[t] \in SortCells
           /\ Lower(LowerOf(p, t), t) /\ ~ Lower(LowerOf(p, t) + Pow2[t], t)
           /\ ItemOf(LowerOf(p, t), t) = p /\ ItemOf(LowerOf(p, t) + Pow2[t], t) = p
           /\ LowerOf(p, t) \div Pow2[t] = 2 * (p \div Pow2[t])
<1> DEFINE m == Pow2[t]  a == p \div m  b == p % m  l == LowerOf(p, t)
<1>1. p \in Nat
  BY TileLength
<1>2. m \in Nat \ {0}
  BY <1>1, DoubleBlock
<1>3. a \in Nat /\ b \in 0 .. m - 1 /\ p = m * a + b
  BY <1>1, <1>2, DivMod
<1>4. l = 2 * p - b
  BY DEF LowerOf
<1>5. PICK u \in Nat \ {0} : Length = 2 * (m * u) /\ Length \div 2 = m * u
  BY HalfTile
<1>6. \A d \in Nat : d \div Pow2[t + 1] = (d \div m) \div 2
  BY DoubleBlock
<1>7. p < m * u
  BY <1>5, TileLength DEF SortItems
<1> HIDE DEF m, a, b, l
<1>8. m * a \in Nat /\ m * u \in Nat
  BY <1>2, <1>3
<1>9. l = m * (2 * a) + b /\ l + m = m * (2 * a + 1) + b /\ l \in Nat /\ l + m \in Nat
  <2>1. m * (2 * a) = 2 * (m * a) /\ m * (2 * a + 1) = 2 * (m * a) + m
    BY <1>2, <1>3
  <2>2. QED
    BY <1>2, <1>3, <1>4, <1>8, <2>1
<1>10. l + m < Length
  <2>1. a < u
    <3> SUFFICES ASSUME a >= u PROVE FALSE
      BY <1>3
    <3>1. m * a >= m * u
      BY <1>2, <1>3
    <3>2. QED
      BY <1>3, <1>7, <1>8, <3>1
  <2>2. m * (a + 1) <= m * u /\ m * (a + 1) = m * a + m
    BY <1>2, <1>3, <2>1
  <2>3. l + m = 2 * (m * a) + m + b
    BY <1>2, <1>3, <1>4, <1>8
  <2>4. QED
    BY <1>2, <1>3, <1>5, <1>8, <2>2, <2>3
<1>11. l \in SortCells /\ l + m \in SortCells
  BY <1>2, <1>9, <1>10, TileLength DEF SortCells
<1>12. l \div m = 2 * a /\ l % m = b
  <2> DEFINE w == 2 * a
  <2>1. w \in Nat /\ l = m * w + b
    BY <1>3, <1>9
  <2> HIDE DEF w
  <2>2. l \div m = w /\ l % m = b
    BY <1>2, <1>3, <2>1, DivModOf
  <2>3. QED
    BY <2>2 DEF w
<1>13. (l + m) \div m = 2 * a + 1 /\ (l + m) % m = b
  <2> DEFINE w == 2 * a + 1  h == l + m
  <2>1. w \in Nat /\ h = m * w + b
    BY <1>3, <1>9
  <2> HIDE DEF w, h
  <2>2. h \div m = w /\ h % m = b
    BY <1>2, <1>3, <2>1, DivModOf
  <2>3. QED
    BY <2>2 DEF w, h
<1>14. (2 * a) % 2 = 0 /\ (2 * a + 1) % 2 = 1 /\ (2 * a) \div 2 = a /\ (2 * a + 1) \div 2 = a
  BY <1>3
<1>15. Lower(l, t) /\ ~ Lower(l + m, t)
  BY <1>12, <1>13, <1>14 DEF Lower, m
<1>16. a * m + b = p
  BY <1>2, <1>3
<1>17. ItemOf(l, t) = p /\ ItemOf(l + m, t) = p
  <2>1. l \div Pow2[t + 1] = a /\ (l + m) \div Pow2[t + 1] = a
    BY <1>6, <1>9, <1>12, <1>13, <1>14
  <2>2. ItemOf(l, t) = a * m + b /\ ItemOf(l + m, t) = a * m + b
    BY <1>12, <1>13, <2>1 DEF ItemOf, m
  <2>3. QED
    BY <1>16, <2>2
<1>18. QED
  BY <1>11, <1>12, <1>15, <1>17 DEF l, m, a

\* Every cell is one of the cells of its item.
LEMMA ItemOfCell ==
    ASSUME TileSizes, NEW t \in 0 .. LogLength - 1, NEW c \in SortCells
    PROVE  /\ ItemOf(c, t) \in SortItems
           /\ c = IF Lower(c, t) THEN LowerOf(ItemOf(c, t), t)
                                 ELSE LowerOf(ItemOf(c, t), t) + Pow2[t]
<1> DEFINE m == Pow2[t]  q == c \div m  e == c % m  a == q \div 2  p == ItemOf(c, t)
<1>1. c \in Nat
  BY TileLength
<1>2. m \in Nat \ {0} /\ c \div Pow2[t + 1] = a
  BY <1>1, DoubleBlock
<1>3. q \in Nat /\ e \in 0 .. m - 1 /\ c = m * q + e
  BY <1>1, <1>2, DivMod
<1>4. p = a * m + e
  BY <1>2 DEF ItemOf
<1>5. PICK u \in Nat \ {0} : Length = 2 * (m * u) /\ Length \div 2 = m * u
  BY HalfTile
<1>6. Lower(c, t) <=> q % 2 = 0
  BY DEF Lower
<1>7. c < 2 * (m * u)
  BY <1>5, TileLength DEF SortCells
<1>8. LowerOf(p, t) = 2 * p - (p % m)
  BY DEF LowerOf
<1>9. a \in Nat /\ (q % 2 = 0 => q = 2 * a) /\ (q % 2 # 0 => q = 2 * a + 1)
  BY <1>3
<1> HIDE DEF m, e, p, a, q
<1>10. m * a \in Nat /\ m * u \in Nat /\ p = m * a + e
  BY <1>2, <1>3, <1>4, <1>9
<1>11. p % m = e
  BY <1>2, <1>3, <1>9, <1>10, DivModOf
<1>12. LowerOf(p, t) = 2 * (m * a) + e
  BY <1>3, <1>8, <1>10, <1>11
<1>13. m * (2 * a) = 2 * (m * a) /\ m * (2 * a + 1) = 2 * (m * a) + m
  BY <1>2, <1>9
<1>14. q % 2 = 0 => c = LowerOf(p, t)
  BY <1>3, <1>9, <1>12, <1>13
<1>15. q % 2 # 0 => c = LowerOf(p, t) + m
  BY <1>2, <1>3, <1>9, <1>10, <1>12, <1>13
<1>16. c >= 2 * (m * a) + e
  BY <1>2, <1>3, <1>9, <1>10, <1>12, <1>14, <1>15
<1>17. a < u
  <2> SUFFICES ASSUME a >= u PROVE FALSE
    BY <1>9
  <2>1. m * a >= m * u
    BY <1>2, <1>9
  <2>2. QED
    BY <1>3, <1>7, <1>10, <1>16, <2>1
<1>18. m * (a + 1) <= m * u /\ m * (a + 1) = m * a + m
  BY <1>2, <1>9, <1>17
<1>19. p < m * u
  BY <1>2, <1>3, <1>10, <1>18
<1>20. p \in SortItems
  BY <1>3, <1>5, <1>10, <1>19 DEF SortItems
<1>21. QED
  BY <1>6, <1>14, <1>15, <1>20 DEF p, m

\* The direction in which an item sorts, by the place of its cells.
LEMMA DirectionOfItem ==
    ASSUME TileSizes, NEW s \in 1 .. LogLength, NEW t \in 0 .. s - 1, NEW p \in SortItems
    PROVE  p \div Pow2[s - 1] = LowerOf(p, t) \div Pow2[s]
<1> DEFINE m == Pow2[t]  a == p \div m  l == LowerOf(p, t)
<1>1. s - 1 \in 0 .. LogLength /\ t \in 0 .. s - 1 /\ t \in 0 .. LogLength - 1
  BY DEF TileSizes
<1>2. PICK u \in Nat \ {0} : Pow2[s - 1] = m * u
  BY <1>1, PowerDivides
<1>3. m \in Nat \ {0} /\ p \in Nat /\ l \in Nat
  BY <1>1, TileLength, DoubleBlock, PairOfItem
<1>4. l \div m = 2 * a
  BY <1>1, PairOfItem
<1>5. Pow2[s] = 2 * (m * u)
  BY <1>2, Powers
<1>6. a \in Nat
  BY <1>3, DivMod
<1>7. p \div Pow2[s - 1] = a \div u
  BY <1>1, <1>2, <1>3, Powers, DivDiv
<1> HIDE DEF m, a, l
<1>8. 2 * (m * u) = m * (2 * u) /\ 2 * u \in Nat \ {0}
  BY <1>3
<1>9. l \div Pow2[s] = (2 * a) \div (2 * u)
  <2>1. PICK w \in Nat \ {0} : w = 2 * u /\ Pow2[s] = m * w
    BY <1>5, <1>8
  <2>2. PICK n \in Nat : n = Pow2[s] /\ n = m * w
    BY <2>1, Powers
  <2>3. l \div n = (l \div m) \div w
    BY <1>3, <2>2, DivDiv
  <2>4. QED
    BY <1>4, <2>1, <2>2, <2>3
<1>10. (2 * a) \div (2 * u) = a \div u
  <2> DEFINE k == a \div u  f == a % u
  <2>1. k \in Nat /\ f \in 0 .. u - 1 /\ a = u * k + f
    BY <1>6, DivMod
  <2> HIDE DEF k, f
  <2>2. 2 * a = (2 * u) * k + 2 * f /\ 2 * f \in 0 .. (2 * u) - 1
    BY <2>1
  <2> DEFINE w == 2 * u  b == 2 * f  d == 2 * a
  <2>3. w \in Nat \ {0} /\ b \in 0 .. w - 1 /\ d = w * k + b
    BY <2>2
  <2> HIDE DEF w, b, d
  <2>4. d \div w = k
    BY <2>1, <2>3, DivModOf
  <2>5. QED
    BY <2>4 DEF w, d, k
<1>11. QED
  BY <1>2, <1>7, <1>9, <1>10 DEF l, m

-----------------------------------------------------------------------------
(* The rounds. *)

AfterRound(v) ==
    IF v.t = 0 THEN [s |-> v.s + 1, t |-> v.s] ELSE [s |-> v.s, t |-> v.t - 1]

\* Twice the number of rounds.
LEMMA TwiceRounds ==
    ASSUME TileSizes
    PROVE  Rounds \in Nat /\ 2 * Rounds = LogLength * (LogLength + 1)
<1> DEFINE L == LogLength  n == L * (L + 1)
<1>1. L \in Nat
  BY DEF TileSizes
<1>2. \E k \in Nat : n = 2 * k
  <2>1. CASE L % 2 = 0
    <3>1. PICK k \in Nat : L = 2 * k
      BY <1>1, <2>1
    <3>2. n = 2 * (k * (2 * k + 1)) /\ k * (2 * k + 1) \in Nat
      BY <3>1
    <3>3. QED
      BY <3>2
  <2>2. CASE L % 2 # 0
    <3>1. PICK k \in Nat : L + 1 = 2 * k
      <4>1. L = 2 * (L \div 2) + 1 /\ L \div 2 \in Nat
        BY <1>1, <2>2
      <4>2. L + 1 = 2 * ((L \div 2) + 1) /\ (L \div 2) + 1 \in Nat
        BY <1>1, <4>1
      <4>3. QED
        BY <4>2
    <3>2. n = L * (2 * k)
      BY <3>1
    <3>3. L * (2 * k) = 2 * (L * k) /\ L * k \in Nat
      BY <1>1, <3>1
    <3>4. QED
      BY <3>2, <3>3
  <2>3. QED
    BY <2>1, <2>2
<1>3. QED
  BY <1>2 DEF Rounds

\* The rounds, one after another.
LEMMA RoundEquations ==
    ASSUME TileSizes
    PROVE  /\ Round[0] = [s |-> 0, t |-> 0]
           /\ \A r \in 1 .. Rounds : Round[r] = AfterRound(Round[r - 1])
<1> DEFINE S == [s : Nat, t : Nat]
           N == Rounds
           first == [s |-> 0, t |-> 0]
           g == [p \in (1 .. N) \X S |-> AfterRound(p[2])]
           K(f) == [r \in 0 .. N |-> IF r = 0 THEN first ELSE AfterRound(f[r - 1])]
<1>1. N \in Nat
  BY TwiceRounds
<1>2. Round = CHOOSE f : f = K(f)
  BY DEF Round, AfterRound
<1>3. first \in S
  OBVIOUS
<1>4. ASSUME NEW v \in S PROVE AfterRound(v) \in S
  BY DEF AfterRound
<1>5. /\ g \in [(1 .. N) \X S -> S]
      /\ \A r \in 1 .. N, v \in S : g[<<r, v>>] = AfterRound(v)
  BY <1>4
<1> HIDE DEF g, N, first, S
<1>6. PICK f \in [0 .. N -> S] : Recursive(f, N, first, g)
  BY <1>1, <1>3, <1>5, RecursionExists
<1>7. f = K(f)
  <2>1. ASSUME NEW r \in 0 .. N PROVE f[r] = K(f)[r]
    <3>1. CASE r = 0
      BY <1>6, <3>1 DEF Recursive
    <3>2. CASE r # 0
      <4>1. r \in 1 .. N /\ f[r - 1] \in S
        BY <1>1, <3>2
      <4>2. f[r] = AfterRound(f[r - 1])
        BY <1>5, <1>6, <4>1 DEF Recursive
      <4>3. QED
        BY <3>2, <4>2
    <3>3. QED
      BY <3>1, <3>2
  <2>2. QED
    BY <2>1
<1>8. ASSUME NEW h
      PROVE  K(h)[0] = first /\ \A r \in 1 .. N : K(h)[r] = AfterRound(h[r - 1])
  BY <1>1
<1> HIDE DEF K
<1>9. Round = K(Round)
  BY <1>2, <1>7
<1>10. Round[0] = first /\ \A r \in 1 .. N : Round[r] = AfterRound(Round[r - 1])
  BY <1>8, <1>9
<1>11. QED
  BY <1>10 DEF N, first

\* A round after loading: which merge it belongs to, and how far that is.
RoundAt(r, s, t) ==
    /\ s \in 1 .. LogLength /\ t \in 0 .. s - 1
    /\ Round[r] = [s |-> s, t |-> t]
    /\ 2 * r = s * (s - 1) + 2 * (s - t)

\* Every round after loading is a step of one of the merges.
LEMMA RoundAfterLoading ==
    ASSUME TileSizes, NEW r \in 1 .. Rounds
    PROVE  \E s \in 1 .. LogLength, t \in Nat : RoundAt(r, s, t)
<1> DEFINE L == LogLength
           N == Rounds
           T == {n \in 0 .. N : n = 0 \/ \E s \in 1 .. L, t \in Nat : RoundAt(n, s, t)}
<1>1. L \in Nat \ {0} /\ N \in Nat /\ 2 * N = L * (L + 1)
  BY TwiceRounds DEF TileSizes
<1>2. 0 \in T
  BY <1>1
<1>3. ASSUME NEW n \in 0 .. N - 1, n \in T PROVE n + 1 \in T
  <2>1. n + 1 \in 1 .. N /\ (n + 1) - 1 = n
    BY <1>1
  <2>2. Round[n + 1] = AfterRound(Round[n])
    BY <2>1, RoundEquations
  <2>3. CASE n = 0
    <3>1. Round[n + 1] = [s |-> 1, t |-> 0]
      BY <2>2, <2>3, RoundEquations DEF AfterRound
    <3>2. RoundAt(n + 1, 1, 0)
      BY <1>1, <2>3, <3>1 DEF RoundAt
    <3>3. QED
      BY <1>1, <2>1, <3>2
  <2>4. CASE n # 0
    <3>1. PICK s \in 1 .. L, t \in Nat : RoundAt(n, s, t)
      BY <1>3, <2>4
    <3>2. t < s /\ Round[n] = [s |-> s, t |-> t] /\ 2 * n = s * (s - 1) + 2 * (s - t)
      BY <3>1 DEF RoundAt
    <3>3. CASE t # 0
      <4>1. Round[n + 1] = [s |-> s, t |-> t - 1] /\ t - 1 \in 0 .. s - 1
        BY <2>2, <3>2, <3>3 DEF AfterRound
      <4>2. 2 * (n + 1) = s * (s - 1) + 2 * (s - (t - 1))
        <5>1. PICK p \in Int : p = s * (s - 1)
          OBVIOUS
        <5>2. 2 * n = p + 2 * (s - t) /\ n \in Int /\ s \in Int /\ t \in Int
          BY <1>1, <3>2, <5>1
        <5>3. 2 * (n + 1) = p + 2 * (s - (t - 1))
          BY <5>2
        <5>4. QED
          BY <5>1, <5>3
      <4>3. RoundAt(n + 1, s, t - 1)
        BY <4>1, <4>2 DEF RoundAt
      <4>4. QED
        BY <2>1, <4>1, <4>3
    <3>4. CASE t = 0
      <4>1. Round[n + 1] = [s |-> s + 1, t |-> s]
        BY <2>2, <3>2, <3>4 DEF AfterRound
      <4>2. s * (s - 1) + 2 * s = s * (s + 1)
        OBVIOUS
      <4>3. 2 * n = s * (s + 1)
        BY <3>2, <3>4, <4>2
      <4>4. s # L
        BY <1>1, <4>3
      <4>5. s + 1 \in 1 .. L /\ s \in 0 .. (s + 1) - 1
        BY <1>1, <4>4
      <4>6. (s + 1) * ((s + 1) - 1) = s * (s + 1)
        OBVIOUS
      <4>7. 2 * (n + 1) = (s + 1) * ((s + 1) - 1) + 2 * ((s + 1) - s)
        BY <4>3, <4>6
      <4>8. RoundAt(n + 1, s + 1, s)
        BY <4>1, <4>5, <4>7 DEF RoundAt
      <4>9. QED
        BY <2>1, <4>5, <4>8
    <3>5. QED
      BY <3>3, <3>4
  <2>5. QED
    BY <2>3, <2>4
<1> HIDE DEF T
<1>4. \A n \in 0 .. N : n \in T
  BY <1>1, <1>2, <1>3, InductionUpTo
<1>5. QED
  BY <1>1, <1>4 DEF T

\* The last round ends the last merge.
LEMMA LastRound ==
    ASSUME TileSizes
    PROVE  Rounds \in Nat \ {0} /\ RoundAt(Rounds, LogLength, 0)
<1> DEFINE L == LogLength  N == Rounds
<1>1. L \in Nat \ {0} /\ N \in Nat /\ 2 * N = L * (L + 1)
  BY TwiceRounds DEF TileSizes
<1>2. N \in 1 .. N
  <2>1. L * (L + 1) >= 2
    <3>1. L * (L + 1) >= L * 2
      BY <1>1
    <3>2. QED
      BY <1>1, <3>1
  <2>2. QED
    BY <1>1, <2>1
<1>3. PICK s \in 1 .. L, t \in Nat : RoundAt(N, s, t)
  BY <1>2, RoundAfterLoading
<1>4. t < s /\ 2 * N = s * (s - 1) + 2 * (s - t)
  BY <1>3 DEF RoundAt
<1>5. s * (s - 1) + 2 * s = s * (s + 1)
  OBVIOUS
<1>6. s = L
  <2> SUFFICES ASSUME s < L PROVE FALSE
    BY <1>1
  <2>1. s * (s + 1) <= L * s /\ L * s <= L * (L - 1)
    BY <1>1
  <2>2. L * (L - 1) = L * (L + 1) - 2 * L
    BY <1>1
  <2> DEFINE x == s * (s - 1)  y == s * (s + 1)  z == L * (L + 1)  w == L * s
  <2>3. x \in Int /\ y \in Int /\ z \in Int /\ w \in Int
    BY <1>1
  <2>4. z = x + 2 * (s - t) /\ x + 2 * s = y /\ y <= w /\ w <= z - 2 * L
    BY <1>1, <1>4, <1>5, <2>1, <2>2
  <2> HIDE DEF x, y, z, w
  <2>5. QED
    BY <1>1, <2>3, <2>4
<1>7. t = 0
  <2> DEFINE x == s * (s - 1)  y == s * (s + 1)
  <2>1. x \in Int /\ y \in Int /\ y = x + 2 * (s - t) /\ x + 2 * s = y
    BY <1>1, <1>4, <1>5, <1>6
  <2> HIDE DEF x, y
  <2>2. QED
    BY <2>1
<1>8. QED
  BY <1>2, <1>3, <1>6, <1>7

-----------------------------------------------------------------------------
(* The network of comparisons, on a tile x of numbers. *)

Lesser(a, b)  == IF a <= b THEN a ELSE b
Greater(a, b) == IF a <= b THEN b ELSE a

\* The blocks of 2^s keys are sorted upwards and downwards in turn.
Up(c, s) == (c \div Pow2[s]) % 2 = 0

\* All comparisons of a round at once.
Compared(x, s, t) ==
    [c \in SortCells |-> IF Lower(c, t) <=> Up(c, s)
                           THEN Lesser(x[c], x[Partner(c, t)])
                           ELSE Greater(x[c], x[Partner(c, t)])]

\* Two low values with a high one between them and one after them.
Zigzag(a, b, c, d) == a < b /\ a < d /\ c < b /\ c < d

\* The four keys do not go down, up and down again, nor up, down and up.
Straight(a, b, c, d) == ~ Zigzag(a, b, c, d) /\ ~ Zigzag(b, a, d, c)

\* Every block of 2^t keys rises and falls at most once, seen as a ring.
Bitonic(x, t) ==
    \A i \in SortCells, j \in SortCells, k \in SortCells, l \in SortCells :
        i < j /\ j < k /\ k < l /\ SameBlock(i, l, t) => Straight(x[i], x[j], x[k], x[l])

InOrder(x, c, d, s) == IF Up(c, s) THEN x[c] <= x[d] ELSE x[d] <= x[c]

\* Within a block of 2^s, the blocks of 2^t are in order among each other.
BlocksOrdered(x, s, t) ==
    \A c \in SortCells, d \in SortCells :
        SameBlock(c, d, s) /\ c \div Pow2[t] < d \div Pow2[t] => InOrder(x, c, d, s)

\* What holds after the round with the counters s and t.
Merged(x, s, t) == BlocksOrdered(x, s, t) /\ Bitonic(x, t)

\* Cells of one block of 2^t are in the same half of a block of twice the size,
\* and less than 2^t apart.
LEMMA Halves ==
    ASSUME TileSizes, NEW t \in 0 .. LogLength - 1, NEW c \in SortCells, NEW d \in SortCells,
           SameBlock(c, d, t)
    PROVE  /\ Lower(c, t) <=> Lower(d, t)
           /\ d < c + Pow2[t]
           /\ SameBlock(c, d, t + 1)
<1> DEFINE m == Pow2[t]  q == c \div m
<1>1. c \in Nat /\ d \in Nat
  BY TileLength
<1>2. m \in Nat \ {0}
  BY <1>1, DoubleBlock
<1>3. /\ c % m \in 0 .. m - 1 /\ d % m \in 0 .. m - 1 /\ q \in Nat
      /\ c = m * q + (c % m) /\ d = m * (d \div m) + (d % m)
  BY <1>1, <1>2, DivMod
<1>4. d \div m = q
  BY DEF SameBlock
<1>5. m * q \in Nat
  BY <1>2, <1>3
<1>6. d < c + m
  BY <1>1, <1>2, <1>3, <1>4, <1>5
<1>7. Lower(c, t) <=> Lower(d, t)
  BY <1>4 DEF Lower
<1>8. SameBlock(c, d, t + 1)
  BY <1>1, <1>4, DoubleBlock DEF SameBlock
<1>9. QED
  BY <1>6, <1>7, <1>8

\* Cells between two cells of a block are in the block.
LEMMA InsideBlock ==
    ASSUME TileSizes, NEW t \in 0 .. LogLength, NEW c \in SortCells, NEW d \in SortCells,
           NEW e \in SortCells, c <= d, d <= e, SameBlock(c, e, t)
    PROVE  SameBlock(c, d, t)
<1>1. c \in Nat /\ d \in Nat /\ e \in Nat /\ Pow2[t] \in Nat \ {0}
  BY TileLength, Powers
<1>2. c \div Pow2[t] <= d \div Pow2[t] /\ d \div Pow2[t] <= e \div Pow2[t]
  BY <1>1, DivMonotone
<1>3. c \div Pow2[t] \in Nat /\ d \div Pow2[t] \in Nat
  BY <1>1, DivMod
<1>4. QED
  BY <1>2, <1>3 DEF SameBlock

\* Comparing the halves of a ring of eight keys that rises and falls once: the
\* lesser ones, and the greater ones, rise and fall at most once.
LEMMA HalvesStraight ==
    ASSUME NEW a \in Int, NEW b \in Int, NEW c \in Int, NEW d \in Int,
           NEW e \in Int, NEW f \in Int, NEW g \in Int, NEW h \in Int,
           Straight(a, b, c, d), Straight(e, f, g, h),
           Straight(a, b, g, h), Straight(b, c, d, e),
           Straight(a, b, c, h), Straight(c, d, e, f)
    PROVE  /\ Straight(Lesser(a, e), Lesser(b, f), Lesser(c, g), Lesser(d, h))
           /\ Straight(Greater(a, e), Greater(b, f), Greater(c, g), Greater(d, h))
BY DEF Straight, Zigzag, Lesser, Greater

\* A finished merge: two neighbouring blocks, one sorted upwards and one sorted
\* downwards, are one that rises and falls once.
LEMMA MergeBegins ==
    ASSUME TileSizes, NEW s \in 0 .. LogLength - 1, NEW x \in [SortCells -> Int], Merged(x, s, 0)
    PROVE  Merged(x, s + 1, s + 1)
<1>1. SortCells \subseteq Nat /\ Pow2[0] = 1 /\ s \in 0 .. LogLength /\ s + 1 \in 0 .. LogLength
  BY TileLength, Powers DEF TileSizes
<1>2. \A c \in Nat : c \div Pow2[0] = c
  BY <1>1
<1>3. ASSUME NEW c \in SortCells, NEW d \in SortCells, SameBlock(c, d, s), c < d
      PROVE  InOrder(x, c, d, s)
  BY <1>1, <1>2, <1>3 DEF Merged, BlocksOrdered
<1>4. ASSUME NEW i \in SortCells, NEW j \in SortCells, NEW k \in SortCells, NEW l \in SortCells,
             i < j, j < k, k < l, SameBlock(i, l, s + 1)
      PROVE  Straight(x[i], x[j], x[k], x[l])
  <2> DEFINE Q(c) == c \div Pow2[s]
  <2>1. \A c \in SortCells : Q(c) \in Nat /\ c \div Pow2[s + 1] = Q(c) \div 2
    <3> TAKE c \in SortCells
    <3>1. c \in Nat
      BY <1>1
    <3>2. QED
      BY <3>1, DoubleBlock, DivMod
  <2>2. Q(i) <= Q(j) /\ Q(j) <= Q(k) /\ Q(k) <= Q(l)
    <3>1. i \in Nat /\ j \in Nat /\ k \in Nat /\ l \in Nat /\ Pow2[s] \in Nat \ {0}
      BY <1>1, Powers
    <3>2. QED
      BY <1>4, <3>1, DivMonotone
  <2>3. Q(i) \div 2 = Q(l) \div 2
    BY <1>4, <2>1 DEF SameBlock
  <2>4. \A c \in SortCells, d \in SortCells : Q(c) = Q(d) => SameBlock(c, d, s)
    BY DEF SameBlock
  <2>5. \A c \in SortCells : Up(c, s) <=> Q(c) % 2 = 0
    BY DEF Up
  <2> HIDE DEF Q
  <2>6. PICK a \in Nat : /\ Q(i) \in {2 * a, 2 * a + 1} /\ Q(j) \in {2 * a, 2 * a + 1}
                         /\ Q(k) \in {2 * a, 2 * a + 1} /\ Q(l) \in {2 * a, 2 * a + 1}
    <3>1. Q(i) \in Nat /\ Q(j) \in Nat /\ Q(k) \in Nat /\ Q(l) \in Nat
      BY <2>1
    <3> DEFINE a == Q(i) \div 2
    <3>2. a \in Nat /\ Q(i) \in {2 * a, 2 * a + 1} /\ Q(l) \in {2 * a, 2 * a + 1}
      BY <2>3, <3>1
    <3>3. Q(j) \in {2 * a, 2 * a + 1} /\ Q(k) \in {2 * a, 2 * a + 1}
      BY <2>2, <3>1, <3>2
    <3>4. QED
      BY <3>2, <3>3
  <2>7. \A c \in SortCells : /\ Q(c) = 2 * a => Up(c, s)
                             /\ Q(c) = 2 * a + 1 => ~ Up(c, s)
    BY <2>5
  <2>8. \A c \in SortCells : x[c] \in Int
    OBVIOUS
  <2>9. /\ Q(i) = Q(j) => InOrder(x, i, j, s)
        /\ Q(j) = Q(k) => InOrder(x, j, k, s)
        /\ Q(k) = Q(l) => InOrder(x, k, l, s)
    BY <1>3, <1>4, <2>4
  <2>10. CASE Q(j) = 2 * a
    <3>1. Q(i) = 2 * a
      BY <2>2, <2>6, <2>10
    <3>2. x[i] <= x[j]
      BY <2>7, <2>9, <2>10, <3>1 DEF InOrder
    <3>3. CASE Q(k) = 2 * a
      <4>1. x[j] <= x[k]
        BY <2>7, <2>9, <2>10, <3>3 DEF InOrder
      <4>2. QED
        BY <2>8, <3>2, <4>1 DEF Straight, Zigzag
    <3>4. CASE Q(k) = 2 * a + 1
      <4>1. Q(l) = 2 * a + 1
        BY <2>2, <2>6, <3>4
      <4>2. x[l] <= x[k]
        BY <2>7, <2>9, <3>4, <4>1 DEF InOrder
      <4>3. QED
        BY <2>8, <3>2, <4>2 DEF Straight, Zigzag
    <3>5. QED
      BY <2>6, <3>3, <3>4
  <2>11. CASE Q(j) = 2 * a + 1
    <3>1. Q(k) = 2 * a + 1 /\ Q(l) = 2 * a + 1
      BY <2>2, <2>6, <2>11
    <3>2. x[k] <= x[j] /\ x[l] <= x[k]
      BY <2>7, <2>9, <2>11, <3>1 DEF InOrder
    <3>3. QED
      BY <2>8, <3>2 DEF Straight, Zigzag
  <2>12. QED
    BY <2>6, <2>10, <2>11
<1>5. Bitonic(x, s + 1)
  BY <1>4 DEF Bitonic
<1>6. BlocksOrdered(x, s + 1, s + 1)
  <2> SUFFICES ASSUME NEW c \in SortCells, NEW d \in SortCells,
                      SameBlock(c, d, s + 1), c \div Pow2[s + 1] < d \div Pow2[s + 1]
               PROVE  FALSE
    BY DEF BlocksOrdered
  <2>1. c \div Pow2[s + 1] \in Nat
    <3>1. c \in Nat /\ s + 1 \in 0 .. LogLength
      BY <1>1
    <3>2. QED
      BY <3>1, Powers, DivMod
  <2>2. QED
    BY <2>1 DEF SameBlock
<1>7. QED
  BY <1>5, <1>6 DEF Merged

\* What a round stores into a cell: the lesser or the greater of two keys of the
\* block.
LEMMA ComparedCell ==
    ASSUME TileSizes, NEW s \in 1 .. LogLength, NEW t \in 0 .. s - 1,
           NEW x \in [SortCells -> Int], NEW c \in SortCells
    PROVE  /\ Compared(x, s, t)[c] \in Int
           /\ Compared(x, s, t)[c] = x[c] \/ Compared(x, s, t)[c] = x[Partner(c, t)]
           /\ Partner(c, t) \in SortCells
           /\ SameBlock(c, Partner(c, t), t + 1) /\ SameBlock(c, Partner(c, t), s)
<1>1. t \in 0 .. LogLength - 1 /\ t + 1 \in 0 .. s /\ s \in 0 .. LogLength
  BY DEF TileSizes
<1>2. Partner(c, t) \in SortCells /\ SameBlock(c, Partner(c, t), t + 1)
  BY <1>1, Partners
<1>3. SameBlock(c, Partner(c, t), s)
  <2>1. c \in Nat /\ Partner(c, t) \in Nat
    BY <1>2, TileLength
  <2>2. QED
    BY <1>1, <1>2, <2>1, Coarser
<1>4. QED
  BY <1>2, <1>3 DEF Compared, Lesser, Greater

\* One round: a block that rises and falls once becomes two such halves, with
\* no key of the first above one of the second, or none below.
LEMMA RoundMerges ==
    ASSUME TileSizes, NEW s \in 1 .. LogLength, NEW t \in 0 .. s - 1,
           NEW x \in [SortCells -> Int], Merged(x, s, t + 1)
    PROVE  Merged(Compared(x, s, t), s, t)
<1> DEFINE y == Compared(x, s, t)  m == Pow2[t]
<1>1. /\ t \in 0 .. LogLength - 1 /\ t \in 0 .. LogLength /\ t + 1 \in 0 .. s
      /\ t \in 0 .. s /\ s \in 0 .. LogLength
  BY DEF TileSizes
<1>2. SortCells \subseteq Nat /\ m \in Nat \ {0} /\ Pow2[s] \in Nat \ {0}
  BY <1>1, TileLength, Powers
<1>3. Bitonic(x, t + 1) /\ BlocksOrdered(x, s, t + 1)
  BY DEF Merged
<1>4. \A c \in SortCells, d \in SortCells : SameBlock(c, d, s) => (Up(c, s) <=> Up(d, s))
  BY DEF SameBlock, Up
<1>5. \A c \in SortCells : x[c] \in Int /\ y[c] \in Int
  BY <1>1, ComparedCell
<1>6. \A c \in SortCells : Lower(c, t) => Partner(c, t) = c + m /\ c + m \in SortCells
  BY <1>1, Partners DEF Partner
<1>7. BlocksOrdered(y, s, t)
  <2> SUFFICES ASSUME NEW c \in SortCells, NEW d \in SortCells,
                      SameBlock(c, d, s), c \div m < d \div m
               PROVE  InOrder(y, c, d, s)
    BY DEF BlocksOrdered
  <2> DEFINE Q(e) == e \div Pow2[t + 1]
             C == Partner(c, t)  D == Partner(d, t)
  <2>1. /\ c \in Nat /\ d \in Nat /\ C \in SortCells /\ D \in SortCells
        /\ Q(c) = (c \div m) \div 2 /\ Q(d) = (d \div m) \div 2
        /\ c \div m \in Nat /\ d \div m \in Nat
        /\ Q(C) = Q(c) /\ Q(D) = Q(d)
    <3>1. c \in Nat /\ d \in Nat
      BY <1>2
    <3>2. /\ C \in SortCells /\ D \in SortCells
          /\ SameBlock(c, C, t + 1) /\ SameBlock(d, D, t + 1)
      BY ComparedCell
    <3>3. /\ Q(c) = (c \div m) \div 2 /\ Q(d) = (d \div m) \div 2
          /\ c \div m \in Nat /\ d \div m \in Nat
      BY <1>1, <1>2, <3>1, DoubleBlock, DivMod
    <3>4. QED
      BY <3>1, <3>2, <3>3 DEF SameBlock
  <2>2. CASE Q(c) < Q(d)
    <3>1. \A e \in {c, C}, f \in {d, D} : InOrder(x, e, f, s)
      <4> TAKE e \in {c, C}, f \in {d, D}
      <4>1. e \in SortCells /\ f \in SortCells /\ Q(e) < Q(f)
        BY <2>1, <2>2
      <4>2. SameBlock(c, e, s) /\ SameBlock(d, f, s)
        BY <1>1, ComparedCell DEF SameBlock
      <4>3. SameBlock(e, f, s)
        BY <4>2 DEF SameBlock
      <4>4. QED
        BY <1>3, <4>1, <4>3 DEF BlocksOrdered
    <3>2. SameBlock(c, C, s) /\ SameBlock(d, D, s)
      BY ComparedCell
    <3>3. Up(C, s) <=> Up(c, s)
      BY <1>4, <2>1, <3>2
    <3>4. y[c] \in {x[c], x[C]} /\ y[d] \in {x[d], x[D]}
      BY ComparedCell
    <3>5. QED
      BY <3>1, <3>3, <3>4 DEF InOrder
  <2>3. CASE Q(c) = Q(d)
    <3>1. Lower(c, t) /\ ~ Lower(d, t)
      <4>1. (c \div m) \div 2 = (d \div m) \div 2
        BY <2>1, <2>3
      <4>2. (c \div m) % 2 = 0 /\ (d \div m) % 2 # 0
        BY <2>1, <4>1
      <4>3. QED
        BY <4>2 DEF Lower
    <3>2. C = c + m /\ Lower(D, t) /\ Partner(D, t) = d /\ d = D + m
      BY <1>1, <1>6, <3>1, Partners
    <3>3. Up(d, s) <=> Up(c, s)
      BY <1>4
    <3>4. /\ y[c] = IF Up(c, s) THEN Lesser(x[c], x[C]) ELSE Greater(x[c], x[C])
          /\ y[d] = IF Up(c, s) THEN Greater(x[D], x[d]) ELSE Lesser(x[D], x[d])
      <4>1. Lesser(x[d], x[D]) = Lesser(x[D], x[d]) /\ Greater(x[d], x[D]) = Greater(x[D], x[d])
        <5> DEFINE v == x[d]  w == x[D]
        <5>1. v \in Int /\ w \in Int
          BY <2>1
        <5> HIDE DEF v, w
        <5>2. Lesser(v, w) = Lesser(w, v) /\ Greater(v, w) = Greater(w, v)
          BY <5>1 DEF Lesser, Greater
        <5>3. QED
          BY <5>2 DEF v, w
      <4>2. QED
        BY <3>1, <3>3, <4>1 DEF Compared
    <3>5. SameBlock(c, D, t)
      <4>1. D \div m = c \div m
        <5>1. D \in Nat /\ Q(D) = (D \div m) \div 2 /\ D \div m \in Nat
          BY <1>1, <1>2, <2>1, DoubleBlock, DivMod
        <5>2. (D \div m) % 2 = 0 /\ (c \div m) % 2 = 0
          BY <3>1, <3>2 DEF Lower
        <5>3. (D \div m) \div 2 = (c \div m) \div 2
          BY <2>1, <2>3, <5>1
        <5>4. QED
          BY <2>1, <5>1, <5>2, <5>3
      <4>2. QED
        BY <4>1 DEF SameBlock
    <3>6. D < C /\ c < d
      <4>1. D < c + m /\ c < D + m
        BY <1>1, <2>1, <3>5, Halves DEF SameBlock
      <4>2. QED
        BY <3>2, <4>1
    <3>7. SameBlock(c, d, t + 1) /\ SameBlock(D, C, t + 1)
      BY <2>1, <2>3 DEF SameBlock
    <3> HIDE DEF C, D, m
    <3>8. C \in Nat /\ D \in Nat
      BY <1>2, <2>1
    <3>9. \/ c = D
          \/ Straight(x[c], x[D], x[C], x[d])
          \/ Straight(x[D], x[c], x[d], x[C])
      <4>1. CASE c < D
        <5>1. C < d
          BY <1>2, <2>1, <3>2, <3>8, <4>1
        <5>2. Straight(x[c], x[D], x[C], x[d])
          BY <1>3, <2>1, <3>6, <3>7, <4>1, <5>1 DEF Bitonic
        <5>3. QED
          BY <5>2
      <4>2. CASE D < c
        <5>1. d < C
          BY <1>2, <2>1, <3>2, <3>8, <4>2
        <5>2. Straight(x[D], x[c], x[d], x[C])
          BY <1>3, <2>1, <3>6, <3>7, <4>2, <5>1 DEF Bitonic
        <5>3. QED
          BY <5>2
      <4>3. QED
        BY <2>1, <3>8, <4>1, <4>2
    <3>10. /\ Lesser(x[c], x[C]) <= Greater(x[D], x[d])
          /\ Lesser(x[D], x[d]) <= Greater(x[c], x[C])
      <4>1. c = D => C = d
        BY <3>2
      <4>2. x[c] \in Int /\ x[d] \in Int /\ x[C] \in Int /\ x[D] \in Int
        BY <1>5, <2>1
      <4>3. QED
        BY <3>9, <4>1, <4>2 DEF Straight, Zigzag, Lesser, Greater
    <3>11. QED
      BY <3>4, <3>10 DEF InOrder, C, D
  <2>4. QED
    BY <2>1, <2>2, <2>3
<1>8. Bitonic(y, t)
  <2> SUFFICES ASSUME NEW i \in SortCells, NEW j \in SortCells,
                      NEW k \in SortCells, NEW l \in SortCells,
                      i < j, j < k, k < l, SameBlock(i, l, t)
               PROVE  Straight(y[i], y[j], y[k], y[l])
    BY DEF Bitonic
  <2>1. i \in Nat /\ j \in Nat /\ k \in Nat /\ l \in Nat
    BY <1>2
  <2>2. SameBlock(i, j, t) /\ SameBlock(i, k, t)
    BY <1>1, <2>1, InsideBlock
  <2> DEFINE base == IF Lower(i, t) THEN 0 ELSE m
             Left(c) == c - base
             Right(c) == Left(c) + m
  <2>3. \A c \in {i, j, k, l} :
           /\ c \in SortCells /\ (Lower(c, t) <=> Lower(i, t)) /\ (Up(c, s) <=> Up(i, s))
           /\ SameBlock(i, c, t)
    <3> TAKE c \in {i, j, k, l}
    <3>1. c \in SortCells /\ SameBlock(i, c, t)
      BY <2>2 DEF SameBlock
    <3>2. SameBlock(i, c, s)
      BY <1>1, <1>2, <3>1, Coarser
    <3>3. QED
      BY <1>1, <1>4, <3>1, <3>2, Halves
  <2>4. \A c \in {i, j, k, l} :
           /\ Left(c) \in SortCells /\ Right(c) \in SortCells
           /\ SameBlock(c, Left(c), t + 1) /\ SameBlock(c, Right(c), t + 1)
           /\ y[c] = IF Lower(i, t) <=> Up(i, s) THEN Lesser(x[Left(c)], x[Right(c)])
                                                 ELSE Greater(x[Left(c)], x[Right(c)])
    <3> TAKE c \in {i, j, k, l}
    <3>1. /\ Partner(c, t) \in SortCells /\ SameBlock(c, Partner(c, t), t + 1)
          /\ c \in Nat
      BY <1>1, <1>2, <2>3, Partners
    <3>2. {Left(c), Right(c)} = {c, Partner(c, t)}
      BY <1>2, <2>3, <3>1 DEF Partner
    <3>3. /\ Left(c) \in SortCells /\ Right(c) \in SortCells
          /\ SameBlock(c, Left(c), t + 1) /\ SameBlock(c, Right(c), t + 1)
      BY <2>3, <3>1, <3>2 DEF SameBlock
    <3>4. /\ Lesser(x[c], x[Partner(c, t)]) = Lesser(x[Left(c)], x[Right(c)])
          /\ Greater(x[c], x[Partner(c, t)]) = Greater(x[Left(c)], x[Right(c)])
      <4> DEFINE v == x[c]  w == x[Partner(c, t)]
      <4>1. v \in Int /\ w \in Int
        BY <2>3, <3>1
      <4>2. \/ x[Left(c)] = v /\ x[Right(c)] = w
            \/ x[Left(c)] = w /\ x[Right(c)] = v
        BY <3>2
      <4> HIDE DEF v, w
      <4>3. Lesser(v, w) = Lesser(w, v) /\ Greater(v, w) = Greater(w, v)
        BY <4>1 DEF Lesser, Greater
      <4>4. QED
        BY <4>2, <4>3 DEF v, w
    <3>5. QED
      BY <2>3, <3>3, <3>4 DEF Compared
  <2>5. l < i + m
    BY <1>1, Halves
  <2>6. base \in {0, m}
    OBVIOUS
  <2> HIDE DEF base, y
  <2>7. /\ Left(i) < Left(j) /\ Left(j) < Left(k) /\ Left(k) < Left(l)
        /\ Left(l) < Right(i)
        /\ Right(i) < Right(j) /\ Right(j) < Right(k) /\ Right(k) < Right(l)
    BY <1>2, <2>1, <2>5, <2>6
  <2>8. \A c \in {i, j, k, l} : SameBlock(i, c, t + 1)
    BY <1>1, <2>3, Halves
  <2> HIDE DEF Left, Right
  <2>9. \A e \in {Left(i), Left(j), Left(k), Left(l), Right(i), Right(j), Right(k), Right(l)},
           f \in {Left(i), Left(j), Left(k), Left(l), Right(i), Right(j), Right(k), Right(l)} :
           SameBlock(e, f, t + 1)
    BY <2>4, <2>8 DEF SameBlock
  <2>10. /\ Left(i) \in SortCells /\ Left(j) \in SortCells /\ Left(k) \in SortCells
         /\ Left(l) \in SortCells /\ Right(i) \in SortCells /\ Right(j) \in SortCells
         /\ Right(k) \in SortCells /\ Right(l) \in SortCells
    BY <2>4
  <2> DEFINE a == Left(i)  b == Left(j)  c == Left(k)  d == Left(l)
             e == Right(i)  f == Right(j)  g == Right(k)  h == Right(l)
  <2>11. \A n \in {a, b, c, d, e, f, g, h} : n \in Nat
    BY <1>2, <2>10
  <2>12. a < g /\ b < g /\ c < h
    BY <2>7, <2>11
  <2>13. /\ Straight(x[a], x[b], x[c], x[d]) /\ Straight(x[e], x[f], x[g], x[h])
         /\ Straight(x[a], x[b], x[g], x[h]) /\ Straight(x[b], x[c], x[d], x[e])
         /\ Straight(x[a], x[b], x[c], x[h]) /\ Straight(x[c], x[d], x[e], x[f])
    BY <1>3, <2>7, <2>9, <2>10, <2>12 DEF Bitonic
  <2>14. /\ x[a] \in Int /\ x[b] \in Int /\ x[c] \in Int /\ x[d] \in Int
         /\ x[e] \in Int /\ x[f] \in Int /\ x[g] \in Int /\ x[h] \in Int
    BY <1>5, <2>10
  <2>15. /\ Straight(Lesser(x[a], x[e]), Lesser(x[b], x[f]), Lesser(x[c], x[g]), Lesser(x[d], x[h]))
         /\ Straight(Greater(x[a], x[e]), Greater(x[b], x[f]), Greater(x[c], x[g]), Greater(x[d], x[h]))
    BY <2>13, <2>14, HalvesStraight
  <2>16. QED
    BY <2>4, <2>15
<1>9. QED
  BY <1>7, <1>8 DEF Merged

\* The tile after each round, from the tile x.
StageOf(x) ==
    LET f[r \in 0 .. Rounds] ==
            IF r = 0 THEN x ELSE Compared(f[r - 1], Round[r].s, Round[r].t)
    IN  f

\* The stages, one after another.
LEMMA Stages ==
    ASSUME TileSizes, NEW x \in [SortCells -> Int]
    PROVE  /\ StageOf(x)[0] = x
           /\ \A r \in 1 .. Rounds :
                StageOf(x)[r] = Compared(StageOf(x)[r - 1], Round[r].s, Round[r].t)
           /\ \A r \in 0 .. Rounds : StageOf(x)[r] \in [SortCells -> Int]
<1> DEFINE S == [SortCells -> Int]
           N == Rounds
           Step(r, v) == Compared(v, Round[r].s, Round[r].t)
           g == [p \in (1 .. N) \X S |-> Step(p[1], p[2])]
           K(f) == [r \in 0 .. N |-> IF r = 0 THEN x ELSE Step(r, f[r - 1])]
           F == StageOf(x)
<1>1. N \in Nat
  BY TwiceRounds
<1>2. F = CHOOSE f : f = K(f)
  BY DEF StageOf
<1>3. ASSUME NEW r \in 1 .. N, NEW v \in S PROVE Step(r, v) \in S
  <2>1. PICK s \in 1 .. LogLength, t \in Nat : RoundAt(r, s, t)
    BY <1>3, RoundAfterLoading
  <2>2. t \in 0 .. s - 1 /\ Round[r].s = s /\ Round[r].t = t
    BY <2>1 DEF RoundAt
  <2>3. \A c \in SortCells : Compared(v, s, t)[c] \in Int
    BY <1>3, <2>2, ComparedCell
  <2>4. QED
    BY <2>2, <2>3 DEF Compared
<1>4. /\ g \in [(1 .. N) \X S -> S]
      /\ \A r \in 1 .. N, v \in S : g[<<r, v>>] = Step(r, v)
  BY <1>3
<1> HIDE DEF g, N, S, Step, F
<1>5. x \in S
  BY DEF S
<1>6. PICK f \in [0 .. N -> S] : Recursive(f, N, x, g)
  BY <1>1, <1>4, <1>5, RecursionExists
<1>7. f = K(f)
  <2>1. ASSUME NEW r \in 0 .. N PROVE f[r] = K(f)[r]
    <3>1. CASE r = 0
      BY <1>6, <3>1 DEF Recursive
    <3>2. CASE r # 0
      <4>1. r \in 1 .. N /\ f[r - 1] \in S
        BY <1>1, <3>2
      <4>2. f[r] = Step(r, f[r - 1])
        BY <1>4, <1>6, <4>1 DEF Recursive
      <4>3. QED
        BY <3>2, <4>2
    <3>3. QED
      BY <3>1, <3>2
  <2>2. QED
    BY <2>1
<1>8. ASSUME NEW h
      PROVE  K(h)[0] = x /\ \A r \in 1 .. N : K(h)[r] = Step(r, h[r - 1])
  BY <1>1
<1> HIDE DEF K
<1>9. F = K(F)
  BY <1>2, <1>7
<1>10. F[0] = x /\ \A r \in 1 .. N : F[r] = Step(r, F[r - 1])
  BY <1>8, <1>9
<1>11. \A r \in 0 .. N : F[r] \in S
  <2>1. F[0] \in S /\ \A r \in 1 .. N : F[r - 1] \in S => F[r] \in S
    BY <1>3, <1>5, <1>10
  <2>2. QED
    BY <1>1, <2>1, RecursionKeeps
<1>12. QED
  BY <1>10, <1>11 DEF F, N, S, Step

\* The network sorts, whatever the keys.
LEMMA NetworkSorts ==
    ASSUME TileSizes, NEW x \in [SortCells -> Int]
    PROVE  \A c \in SortCells, d \in SortCells :
              c <= d => StageOf(x)[Rounds][c] <= StageOf(x)[Rounds][d]
<1> DEFINE L == LogLength  N == Rounds  F == StageOf(x)
           T == {r \in 0 .. N : Merged(F[r], Round[r].s, Round[r].t)}
<1>1. L \in Nat \ {0} /\ N \in Nat \ {0}
  BY LastRound DEF TileSizes
<1>2. /\ F[0] = x /\ \A r \in 0 .. N : F[r] \in [SortCells -> Int]
      /\ \A r \in 1 .. N : F[r] = Compared(F[r - 1], Round[r].s, Round[r].t)
  BY Stages
<1> HIDE DEF F
<1>3. 0 \in T
  <2>1. Round[0].s = 0 /\ Round[0].t = 0
    BY RoundEquations
  <2>2. \A c \in SortCells : c \in Nat /\ c \div Pow2[0] = c
    BY Powers, TileLength
  <2>3. Merged(x, 0, 0)
    BY <2>2 DEF Merged, BlocksOrdered, Bitonic, SameBlock
  <2>4. QED
    BY <1>1, <1>2, <2>1, <2>3
<1>4. ASSUME NEW r \in 0 .. N - 1, r \in T PROVE r + 1 \in T
  <2> DEFINE y == F[r]
  <2>1. r + 1 \in 1 .. N /\ (r + 1) - 1 = r /\ y \in [SortCells -> Int]
    BY <1>1, <1>2
  <2>2. PICK s \in 1 .. L, t \in Nat : RoundAt(r + 1, s, t)
    BY <2>1, RoundAfterLoading
  <2>3. t \in 0 .. s - 1 /\ Round[r + 1] = [s |-> s, t |-> t]
    BY <2>2 DEF RoundAt
  <2>4. F[r + 1] = Compared(y, s, t)
    BY <1>2, <2>1, <2>3
  <2>5. Merged(y, s, t + 1)
    <3>1. Round[r + 1] = AfterRound(Round[r])
      BY <2>1, RoundEquations
    <3>2. Merged(y, Round[r].s, Round[r].t)
      BY <1>4
    <3>3. Round[r].s \in 0 .. L /\ Round[r].t \in Nat
      <4>1. CASE r = 0
        BY <1>1, <4>1, RoundEquations
      <4>2. CASE r # 0
        <5>1. r \in 1 .. N
          BY <1>1, <4>2
        <5>2. PICK a \in 1 .. L, b \in Nat : RoundAt(r, a, b)
          BY <5>1, RoundAfterLoading
        <5>3. QED
          BY <5>2 DEF RoundAt
      <4>3. QED
        BY <4>1, <4>2
    <3>4. CASE Round[r].t = 0
      <4>1. s = Round[r].s + 1 /\ t = Round[r].s
        BY <2>3, <3>1, <3>4 DEF AfterRound
      <4>2. t \in 0 .. L - 1 /\ Merged(y, t, 0)
        BY <1>1, <3>2, <3>4, <4>1
      <4>3. Merged(y, t + 1, t + 1)
        BY <2>1, <4>2, MergeBegins
      <4>4. QED
        BY <3>3, <4>1, <4>3
    <3>5. CASE Round[r].t # 0
      <4>1. s = Round[r].s /\ t = Round[r].t - 1
        BY <2>3, <3>1, <3>5 DEF AfterRound
      <4>2. t + 1 = Round[r].t
        BY <3>3, <4>1
      <4>3. QED
        BY <3>2, <4>1, <4>2
    <3>6. QED
      BY <3>4, <3>5
  <2> HIDE DEF y
  <2>6. Merged(Compared(y, s, t), s, t)
    BY <2>1, <2>3, <2>5, RoundMerges
  <2>7. QED
    BY <1>1, <2>3, <2>4, <2>6
<1> HIDE DEF T
<1>5. N \in T
  BY <1>1, <1>3, <1>4, InductionUpTo
<1>6. Round[N] = [s |-> L, t |-> 0]
  BY LastRound DEF RoundAt
<1>7. BlocksOrdered(F[N], L, 0)
  BY <1>5, <1>6 DEF T, Merged
<1> DEFINE y == F[N]
<1>8. y \in [SortCells -> Int]
  BY <1>1, <1>2
<1>9. \A c \in SortCells : c \in Nat /\ c \div Pow2[0] = c /\ c \div Pow2[L] = 0
  <2> TAKE c \in SortCells
  <2>1. c \in Nat /\ Length \in Nat \ {0} /\ c < Length
    BY TileLength DEF SortCells
  <2>2. c \div Length = 0
    BY <2>1
  <2>3. QED
    BY <2>1, <2>2, Powers DEF Length
<1> HIDE DEF y
<1>10. ASSUME NEW c \in SortCells, NEW d \in SortCells, c <= d
       PROVE  y[c] <= y[d]
  <2>1. CASE c = d
    BY <1>8, <2>1
  <2>2. CASE c < d
    <3>1. SameBlock(c, d, L) /\ Up(c, L) /\ c \div Pow2[0] < d \div Pow2[0]
      BY <1>9, <2>2 DEF SameBlock, Up
    <3>2. QED
      BY <1>7, <3>1 DEF BlocksOrdered, InOrder, y
  <2>3. QED
    BY <1>9, <1>10, <2>1, <2>2
<1>11. QED
  BY <1>10 DEF y, F

\* The cells that hold one of the values V.
Holding(x, V) == {c \in SortCells : x[c] \in V}

\* They are finitely many.
LEMMA HoldingFinite ==
    ASSUME TileSizes, NEW x, NEW V
    PROVE  IsFiniteSet(Holding(x, V))
<1>1. IsFiniteSet(SortCells)
  <2>1. Length - 1 \in Int
    BY TileLength
  <2>2. QED
    BY <2>1, FS_Interval DEF SortCells
<1>2. QED
  BY <1>1, FS_Subset DEF Holding

\* The two keys of a pair stay, or change places.
LEMMA RoundKeepsKeys ==
    ASSUME TileSizes, NEW s \in 1 .. LogLength, NEW t \in 0 .. s - 1,
           NEW x \in [SortCells -> Int], NEW V
    PROVE  Cardinality(Holding(Compared(x, s, t), V)) = Cardinality(Holding(x, V))
<1> DEFINE y == Compared(x, s, t)
           P(c) == Partner(c, t)
           Exchanged(c) ==
              IF Lower(c, t) <=> Up(c, s) THEN x[P(c)] < x[c] ELSE x[c] < x[P(c)]
           To(c) == IF Exchanged(c) THEN P(c) ELSE c
           f == [c \in Holding(y, V) |-> To(c)]
<1>1. t \in 0 .. LogLength - 1
  BY DEF TileSizes
<1>2. \A c \in SortCells :
         /\ P(c) \in SortCells /\ P(P(c)) = c
         /\ (Lower(c, t) <=> ~ Lower(P(c), t)) /\ (Up(c, s) <=> Up(P(c), s))
  <2> TAKE c \in SortCells
  <2>1. SameBlock(c, P(c), s)
    BY ComparedCell
  <2>2. Up(c, s) <=> Up(P(c), s)
    BY <2>1 DEF SameBlock, Up
  <2>3. QED
    BY <1>1, <2>2, Partners
<1> HIDE DEF P
<1>3. ASSUME NEW c \in SortCells
      PROVE  /\ y[c] = x[To(c)] /\ x[c] = y[To(c)]
             /\ To(c) \in SortCells /\ To(To(c)) = c
  <2> DEFINE d == P(c)
  <2>1. /\ d \in SortCells /\ P(d) = c
        /\ (Lower(c, t) <=> ~ Lower(d, t)) /\ (Up(c, s) <=> Up(d, s))
    BY <1>2
  <2> DEFINE least == Lower(c, t) <=> Up(c, s)
  <2>2. /\ y[c] = IF least THEN Lesser(x[c], x[d]) ELSE Greater(x[c], x[d])
        /\ y[d] = IF least THEN Greater(x[d], x[c]) ELSE Lesser(x[d], x[c])
    BY <2>1 DEF Compared, P
  <2>3. /\ Exchanged(c) <=> IF least THEN x[d] < x[c] ELSE x[c] < x[d]
        /\ Exchanged(d) <=> IF least THEN x[d] < x[c] ELSE x[c] < x[d]
    BY <2>1
  <2>4. Exchanged(c) <=> Exchanged(d)
    BY <2>3
  <2> DEFINE v == x[c]  w == x[d]
  <2>5. v \in Int /\ w \in Int
    BY <2>1
  <2> HIDE DEF v, w, least, d
  <2>6. CASE Exchanged(c)
    <3>1. To(c) = d /\ To(d) = c
      BY <2>1, <2>4, <2>6 DEF d
    <3>2. IF least THEN w < v ELSE v < w
      BY <2>3, <2>6 DEF v, w
    <3>3. y[c] = w /\ y[d] = v
      BY <2>2, <2>5, <3>2 DEF Lesser, Greater, v, w
    <3>4. QED
      BY <2>1, <3>1, <3>3 DEF v, w
  <2>7. CASE ~ Exchanged(c)
    <3>1. To(c) = c
      BY <2>7
    <3>2. IF least THEN ~ (w < v) ELSE ~ (v < w)
      BY <2>3, <2>7 DEF v, w
    <3>3. y[c] = v
      BY <2>2, <2>5, <3>2 DEF Lesser, Greater, v, w
    <3>4. QED
      BY <3>1, <3>3 DEF v
  <2>8. QED
    BY <2>6, <2>7
<1> HIDE DEF y, To
<1>4. f \in Bijection(Holding(y, V), Holding(x, V))
  <2>1. \A c \in Holding(y, V) : f[c] = To(c) /\ To(c) \in Holding(x, V) /\ To(To(c)) = c
    BY <1>3 DEF Holding
  <2>2. \A c \in Holding(x, V) : To(c) \in Holding(y, V) /\ To(To(c)) = c
    BY <1>3 DEF Holding
  <2>3. f \in [Holding(y, V) -> Holding(x, V)]
    BY <2>1
  <2>4. \A a, b \in Holding(y, V) : f[a] = f[b] => a = b
    BY <2>1
  <2>5. \A c \in Holding(x, V) : \E a \in Holding(y, V) : f[a] = c
    BY <2>1, <2>2
  <2> HIDE DEF f
  <2>6. QED
    BY <2>3, <2>4, <2>5, Fun_IsBij
<1>5. ExistsBijection(Holding(y, V), Holding(x, V))
  BY <1>4 DEF ExistsBijection
<1>6. QED
  BY <1>5, HoldingFinite, FS_Bijection DEF y

\* The network loses no key and makes none.
LEMMA NetworkKeepsKeys ==
    ASSUME TileSizes, NEW x \in [SortCells -> Int], NEW V
    PROVE  Cardinality(Holding(StageOf(x)[Rounds], V)) = Cardinality(Holding(x, V))
<1> DEFINE N == Rounds  F == StageOf(x)
           T == {r \in 0 .. N : Cardinality(Holding(F[r], V)) = Cardinality(Holding(x, V))}
<1>1. N \in Nat
  BY TwiceRounds
<1>2. /\ F[0] = x /\ \A r \in 0 .. N : F[r] \in [SortCells -> Int]
      /\ \A r \in 1 .. N : F[r] = Compared(F[r - 1], Round[r].s, Round[r].t)
  BY Stages
<1> HIDE DEF F
<1>3. 0 \in T
  BY <1>1, <1>2
<1>4. ASSUME NEW r \in 0 .. N - 1, r \in T PROVE r + 1 \in T
  <2> DEFINE y == F[r]
  <2>1. r + 1 \in 1 .. N /\ (r + 1) - 1 = r /\ y \in [SortCells -> Int]
    BY <1>1, <1>2
  <2>2. PICK s \in 1 .. LogLength, t \in Nat : RoundAt(r + 1, s, t)
    BY <2>1, RoundAfterLoading
  <2>3. t \in 0 .. s - 1 /\ Round[r + 1] = [s |-> s, t |-> t]
    BY <2>2 DEF RoundAt
  <2>4. F[r + 1] = Compared(y, s, t)
    BY <1>2, <2>1, <2>3
  <2> HIDE DEF y
  <2>5. Cardinality(Holding(Compared(y, s, t), V)) = Cardinality(Holding(y, V))
    BY <2>1, <2>3, RoundKeepsKeys
  <2>6. QED
    BY <1>4, <2>1, <2>4, <2>5 DEF y
<1> HIDE DEF T
<1>5. N \in T
  BY <1>1, <1>3, <1>4, InductionUpTo
<1>6. QED
  BY <1>5 DEF T, F

-----------------------------------------------------------------------------
(* The work-items keep to the network. *)

\* What the tile is when it is loaded.
Padded == [c \in SortCells |-> IF c < NumElements THEN source[c] ELSE Pad]

SortTypeInv ==
    /\ \E n \in Counts : source \in [0 .. n - 1 -> Values]
    /\ key \in [SortCells -> 0 .. Pad]
    /\ round \in [SortItems -> -1 .. Rounds]
    /\ pair \in [SortItems -> {<<>>} \cup ((0 .. Pad) \X (0 .. Pad))]
    /\ result \in {<<>>} \cup [low : 0 .. Pad, high : 0 .. Pad]

\* The item that stores into the cell c in round r.
ItemAt(c, r) ==
    IF r = 0 THEN IF c < Length \div 2 THEN c ELSE c - (Length \div 2)
             ELSE ItemOf(c, Round[r].t)

\* n rounds are complete (-1: nothing is loaded), and the next one is so for
\* some items.  A cell is at the stage of the item that stores into it next.
RoundsAt(n, F) ==
    /\ \A p \in SortItems : round[p] \in {n, n + 1}
    /\ \A c \in SortCells :
         round[ItemAt(c, n + 1)] >= 0 => key[c] = F[round[ItemAt(c, n + 1)]][c]
    /\ \A p \in SortItems : pair[p] # <<>> =>
         /\ n >= 0 /\ round[p] = n
         /\ pair[p] = <<F[n][Low(p, n + 1)], F[n][High(p, n + 1)]>>

RunInv == \E n \in -1 .. Rounds - 1 : RoundsAt(n, StageOf(Padded))

ResultInv ==
    result # <<>> =>
        /\ \A p \in SortItems : round[p] = Rounds
        /\ result = [low |-> key[LowIndex], high |-> key[HighIndex]]

SortInv == SortTypeInv /\ RunInv /\ ResultInv

\* The number of pixels, and the tile they are loaded into.
LEMMA PaddedTile ==
    ASSUME TileSizes, SortTypeInv
    PROVE  /\ NumElements \in (Length \div 2) + 1 .. Length
           /\ DOMAIN source = 0 .. NumElements - 1
           /\ \A a \in DOMAIN source : source[a] \in Values
           /\ Pad \in Nat /\ Values \subseteq 0 .. Pad - 1
           /\ Padded \in [SortCells -> 0 .. Pad]
<1>1. PICK n \in Counts : source \in [0 .. n - 1 -> Values]
  BY DEF SortTypeInv
<1>2. n \in (Length \div 2) + 1 .. Length /\ Pad \in Nat /\ Values \subseteq 0 .. Pad - 1
  BY DEF TileSizes
<1>3. Length \in Nat /\ Length \div 2 \in Nat
  BY TileLength
<1>4. NumElements = n
  <2>1. Cardinality(0 .. n - 1) = n
    BY <1>2, <1>3, FS_Interval
  <2>2. QED
    BY <1>1, <2>1 DEF NumElements
<1>5. Padded \in [SortCells -> 0 .. Pad]
  <2>1. \A c \in SortCells : c \in Nat
    BY TileLength
  <2>2. ASSUME NEW c \in SortCells, c < n PROVE source[c] \in 0 .. Pad
    <3>1. c \in 0 .. n - 1
      BY <1>2, <1>3, <2>1, <2>2
    <3>2. source[c] \in Values
      BY <1>1, <3>1
    <3> DEFINE v == source[c]
    <3>3. v \in 0 .. Pad - 1
      BY <1>2, <3>2
    <3> HIDE DEF v
    <3>4. v \in 0 .. Pad
      BY <1>2, <3>3
    <3>5. QED
      BY <3>4 DEF v
  <2>3. QED
    BY <1>2, <1>4, <2>2 DEF Padded
<1>6. QED
  BY <1>1, <1>2, <1>4, <1>5

\* The cells of the items in a round after loading.
LEMMA ItemCells ==
    ASSUME TileSizes, NEW r \in 1 .. Rounds
    PROVE  /\ \A p \in SortItems :
                /\ Low(p, r) \in SortCells /\ High(p, r) \in SortCells /\ Low(p, r) # High(p, r)
                /\ ItemAt(Low(p, r), r) = p /\ ItemAt(High(p, r), r) = p
           /\ \A c \in SortCells :
                /\ ItemAt(c, r) \in SortItems
                /\ c = Low(ItemAt(c, r), r) \/ c = High(ItemAt(c, r), r)
<1>1. PICK s \in 1 .. LogLength, t \in Nat : RoundAt(r, s, t)
  BY RoundAfterLoading
<1>2. t \in 0 .. s - 1 /\ t \in 0 .. LogLength - 1 /\ Round[r].t = t
  BY <1>1 DEF RoundAt, TileSizes
<1>3. \A p \in SortItems : Low(p, r) = LowerOf(p, t) /\ High(p, r) = LowerOf(p, t) + Pow2[t]
  BY <1>2 DEF Low, High, LowerOf
<1>4. \A c \in SortCells : ItemAt(c, r) = ItemOf(c, t)
  BY <1>2 DEF ItemAt
<1>5. ASSUME NEW p \in SortItems
      PROVE  /\ Low(p, r) \in SortCells /\ High(p, r) \in SortCells /\ Low(p, r) # High(p, r)
             /\ ItemAt(Low(p, r), r) = p /\ ItemAt(High(p, r), r) = p
  <2>1. /\ LowerOf(p, t) \in SortCells /\ LowerOf(p, t) + Pow2[t] \in SortCells
        /\ Lower(LowerOf(p, t), t) /\ ~ Lower(LowerOf(p, t) + Pow2[t], t)
        /\ ItemOf(LowerOf(p, t), t) = p /\ ItemOf(LowerOf(p, t) + Pow2[t], t) = p
    BY <1>2, PairOfItem
  <2>2. QED
    BY <1>3, <1>4, <2>1
<1>6. ASSUME NEW c \in SortCells
      PROVE  /\ ItemAt(c, r) \in SortItems
             /\ c = Low(ItemAt(c, r), r) \/ c = High(ItemAt(c, r), r)
  BY <1>2, <1>3, <1>4, ItemOfCell
<1>7. QED
  BY <1>5, <1>6

\* The cells of the items when they load.
LEMMA LoadedCells ==
    ASSUME TileSizes
    PROVE  /\ \A p \in SortItems :
                /\ p \in SortCells /\ p + (Length \div 2) \in SortCells
                /\ p # p + (Length \div 2)
                /\ ItemAt(p, 0) = p /\ ItemAt(p + (Length \div 2), 0) = p
           /\ \A c \in SortCells :
                /\ ItemAt(c, 0) \in SortItems
                /\ c = ItemAt(c, 0) \/ c = ItemAt(c, 0) + (Length \div 2)
<1> DEFINE h == Length \div 2
<1>1. h \in Nat \ {0} /\ Length = 2 * h
  BY TileLength
<1> HIDE DEF h
<1>2. SortCells = 0 .. 2 * h - 1 /\ SortItems = 0 .. h - 1
  BY <1>1 DEF SortCells, SortItems, h
<1>3. \A c : ItemAt(c, 0) = IF c < h THEN c ELSE c - h
  BY DEF ItemAt, h
<1>4. QED
  BY <1>1, <1>2, <1>3 DEF h

\* What compare_and_exchange leaves in the cells of an item.
LEMMA ExchangedPair ==
    ASSUME TileSizes, NEW r \in 1 .. Rounds, NEW x \in [SortCells -> Int], NEW p \in SortItems
    PROVE  LET y == Compared(x, Round[r].s, Round[r].t)
               a == x[Low(p, r)]
               b == x[High(p, r)]
           IN  IF (a > b) = Ascending(p, r)
                 THEN y[Low(p, r)] = b /\ y[High(p, r)] = a
                 ELSE y[Low(p, r)] = a /\ y[High(p, r)] = b
<1> DEFINE l == Low(p, r)  h == High(p, r)  a == x[l]  b == x[h]
           y == Compared(x, Round[r].s, Round[r].t)
<1>1. PICK s \in 1 .. LogLength, t \in Nat : RoundAt(r, s, t)
  BY RoundAfterLoading
<1>2. t \in 0 .. s - 1 /\ t \in 0 .. LogLength - 1 /\ Round[r].t = t /\ Round[r].s = s
  BY <1>1 DEF RoundAt, TileSizes
<1>3. l = LowerOf(p, t) /\ h = l + Pow2[t]
  BY <1>2 DEF Low, High, LowerOf
<1>4. l \in SortCells /\ h \in SortCells /\ Lower(l, t) /\ ~ Lower(h, t)
  BY <1>2, <1>3, PairOfItem
<1>5. Partner(l, t) = h /\ Partner(h, t) = l
  BY <1>2, <1>3, <1>4, Partners DEF Partner
<1>6. Ascending(p, r) <=> Up(l, s)
  <2>1. p \div Pow2[s - 1] = l \div Pow2[s]
    BY <1>2, <1>3, DirectionOfItem
  <2>2. QED
    BY <1>2, <2>1 DEF Ascending, Up
<1>7. Up(h, s) <=> Up(l, s)
  <2>1. SameBlock(l, h, s)
    BY <1>2, <1>4, <1>5, ComparedCell
  <2>2. QED
    BY <2>1 DEF SameBlock, Up
<1>8. /\ y[l] = IF Up(l, s) THEN Lesser(a, b) ELSE Greater(a, b)
      /\ y[h] = IF Up(l, s) THEN Greater(b, a) ELSE Lesser(b, a)
  BY <1>2, <1>4, <1>5, <1>7 DEF Compared
<1>9. a \in Int /\ b \in Int
  BY <1>4
<1>10. Ascending(p, r) \in BOOLEAN
  BY DEF Ascending
<1> HIDE DEF a, b, y, l, h
<1>11. CASE Up(l, s)
  <2>1. (a > b) = Ascending(p, r) <=> a > b
    BY <1>6, <1>10, <1>11
  <2>2. y[l] = Lesser(a, b) /\ y[h] = Greater(b, a)
    BY <1>8, <1>11
  <2>3. IF a > b THEN y[l] = b /\ y[h] = a ELSE y[l] = a /\ y[h] = b
    BY <1>9, <2>2 DEF Lesser, Greater
  <2>4. QED
    BY <2>1, <2>3 DEF a, b, y, l, h
<1>12. CASE ~ Up(l, s)
  <2>1. (a > b) = Ascending(p, r) <=> ~ (a > b)
    BY <1>6, <1>10, <1>12
  <2>2. y[l] = Greater(a, b) /\ y[h] = Lesser(b, a)
    BY <1>8, <1>12
  <2>3. IF a > b THEN y[l] = a /\ y[h] = b ELSE y[l] = b /\ y[h] = a
    BY <1>9, <2>2 DEF Lesser, Greater
  <2>4. QED
    BY <2>1, <2>3 DEF a, b, y, l, h
<1>13. QED
  BY <1>11, <1>12

\* The pixels the two thresholds ask for.
LEMMA Indices ==
    ASSUME TileSizes, SortTypeInv
    PROVE  /\ LowIndex \in 0 .. NumElements - 1 /\ HighIndex \in 0 .. NumElements - 1
           /\ LowIndex \in SortCells /\ HighIndex \in SortCells
<1> DEFINE n == NumElements
<1>1. n \in Nat /\ n >= 2 /\ n <= Length /\ Length \in Nat
  BY PaddedTile, TileLength
<1> HIDE DEF n
<1>2. n \div 4 \in Nat /\ n \div 2 \in Nat /\ n \div 4 <= n /\ n \div 2 <= n /\ n \div 2 >= 1
      /\ (n >= 4 => n \div 4 >= 1)
  BY <1>1
<1>3. LowIndex \in 0 .. n - 1 /\ HighIndex \in 0 .. n - 1
  BY <1>1, <1>2 DEF LowIndex, HighIndex, n
<1>4. QED
  BY <1>1, <1>3 DEF SortCells, n

\* An item that the barrier lets through sees a tile with all its rounds done.
LEMMA BarrierStage ==
    ASSUME TileSizes, SortTypeInv, NEW F, NEW n \in -1 .. Rounds - 1, RoundsAt(n, F),
           NEW p \in SortItems, round[p] <= Rounds - 1, Barrier(p)
    PROVE  RoundsAt(round[p], F) /\ round[p] \in -1 .. Rounds - 1
<1>1. Rounds \in Nat /\ round \in [SortItems -> -1 .. Rounds]
  BY TwiceRounds DEF SortTypeInv
<1>2. round[p] \in {n, n + 1} /\ round[p] \in -1 .. Rounds - 1
  BY <1>1 DEF RoundsAt
<1>3. CASE round[p] = n
  BY <1>2, <1>3
<1>4. CASE round[p] = n + 1
  <2>1. \A q \in SortItems : round[q] = n + 1
    <3> TAKE q \in SortItems
    <3>1. round[q] \in {n, n + 1} /\ round[q] >= n + 1
      BY <1>4 DEF RoundsAt, Barrier
    <3>2. QED
      BY <3>1
  <2>2. n + 1 \in 0 .. Rounds - 1 /\ n + 2 \in 1 .. Rounds /\ (n + 1) + 1 = n + 2
    BY <1>1, <1>2, <1>4
  <2>3. ASSUME NEW c \in SortCells PROVE key[c] = F[n + 1][c]
    <3>1. ItemAt(c, n + 1) \in SortItems
      <4>1. CASE n + 1 = 0
        BY <4>1, LoadedCells
      <4>2. CASE n + 1 # 0
        <5>1. n + 1 \in 1 .. Rounds
          BY <1>1, <2>2, <4>2
        <5>2. QED
          BY <5>1, ItemCells
      <4>3. QED
        BY <4>1, <4>2
    <3>2. round[ItemAt(c, n + 1)] = n + 1
      BY <2>1, <3>1
    <3>3. QED
      BY <2>2, <3>2 DEF RoundsAt
  <2>4. ASSUME NEW c \in SortCells PROVE round[ItemAt(c, n + 2)] = n + 1
    BY <2>1, <2>2, ItemCells
  <2>5. \A q \in SortItems : pair[q] = <<>>
    BY <2>1 DEF RoundsAt
  <2>6. RoundsAt(n + 1, F)
    BY <2>1, <2>2, <2>3, <2>4, <2>5 DEF RoundsAt
  <2>7. QED
    BY <1>2, <1>4, <2>6
<1>5. QED
  BY <1>2, <1>3, <1>4

\* Nothing is loaded, nothing is read.
LEMMA SortInitInv == ASSUME TileSizes, SortInit PROVE SortInv
<1>1. Rounds \in Nat \ {0} /\ Pad \in Nat
  BY LastRound DEF TileSizes
<1>2. SortTypeInv
  BY <1>1 DEF SortInit, SortTypeInv
<1>3. RoundsAt(-1, StageOf(Padded))
  <2>1. \A p \in SortItems : round[p] = -1 /\ pair[p] = <<>>
    BY DEF SortInit
  <2>2. \A c \in SortCells : ItemAt(c, -1 + 1) \in SortItems
    <3>1. -1 + 1 = 0
      OBVIOUS
    <3>2. QED
      BY <3>1, LoadedCells
  <2>3. QED
    BY <2>1, <2>2 DEF RoundsAt
<1>4. -1 \in -1 .. Rounds - 1
  BY <1>1
<1>5. RunInv /\ ResultInv
  BY <1>3, <1>4 DEF RunInv, ResultInv, SortInit
<1>6. QED
  BY <1>2, <1>5 DEF SortInv

\* Loading: only before the first round.
LEMMA SortLoadInv ==
    ASSUME TileSizes, SortInv, NEW p \in SortItems, LoadKeys(p)
    PROVE  SortInv'
<1> DEFINE h == Length \div 2  F == StageOf(Padded)
<1>1. SortTypeInv /\ RunInv /\ ResultInv
  BY DEF SortInv
<1>2. PICK n \in -1 .. Rounds - 1 : RoundsAt(n, F)
  BY <1>1 DEF RunInv
<1>3. Rounds \in Nat \ {0} /\ round[p] = -1 /\ n = -1
  <2>1. Rounds \in Nat \ {0} /\ round[p] = -1 /\ round[p] \in {n, n + 1}
    BY <1>2, LastRound DEF RoundsAt, LoadKeys
  <2>2. QED
    BY <2>1
<1>4. /\ round \in [SortItems -> -1 .. Rounds] /\ key \in [SortCells -> 0 .. Pad]
      /\ pair \in [SortItems -> {<<>>} \cup ((0 .. Pad) \X (0 .. Pad))]
  BY <1>1 DEF SortTypeInv
<1>5. /\ p \in SortCells /\ p + h \in SortCells /\ p # p + h
      /\ ItemAt(p, 0) = p /\ ItemAt(p + h, 0) = p
      /\ \A c \in SortCells : ItemAt(c, 0) \in SortItems /\ (c = ItemAt(c, 0) \/ c = ItemAt(c, 0) + h)
  BY LoadedCells
<1>6. Padded[p] = source[p] /\ Padded[p + h] = IF p + h < NumElements THEN source[p + h] ELSE Pad
  <2>1. p < NumElements
    <3>1. p \in Nat /\ p < h /\ h \in Nat /\ NumElements \in h + 1 .. Length /\ Length \in Nat
      BY <1>1, TileLength, PaddedTile DEF SortItems
    <3>2. QED
      BY <3>1
  <2>2. QED
    BY <1>5, <2>1 DEF Padded
<1>7. key' = [key EXCEPT ![p] = Padded[p], ![p + h] = Padded[p + h]]
  BY <1>6 DEF LoadKeys
<1>8. Padded \in [SortCells -> 0 .. Pad]
  BY <1>1, PaddedTile
<1>9. round' = [round EXCEPT ![p] = 0] /\ UNCHANGED <<source, pair, result>>
  BY DEF LoadKeys
<1>10. SortTypeInv'
  <2>1. key' \in [SortCells -> 0 .. Pad]
    BY <1>4, <1>5, <1>7, <1>8
  <2>2. round' \in [SortItems -> -1 .. Rounds]
    BY <1>3, <1>4, <1>9
  <2>3. QED
    BY <1>1, <1>9, <2>1, <2>2 DEF SortTypeInv
<1>11. Padded' = Padded
  BY <1>9 DEF Padded, NumElements
<1>12. RoundsAt(-1, F)'
  <2>1. F[0] = Padded
    <3>1. Padded \in [SortCells -> Int]
      BY <1>8
    <3>2. QED
      BY <3>1, Stages
  <2>2. \A q \in SortItems : round'[q] = IF q = p THEN 0 ELSE round[q]
    BY <1>4, <1>9
  <2>3. -1 + 1 = 0
    OBVIOUS
  <2>4. \A q \in SortItems : pair[q] = <<>>
    BY <1>2, <1>3 DEF RoundsAt
  <2>5. \A q \in SortItems : round'[q] \in {-1, -1 + 1}
    BY <1>2, <1>3, <2>2, <2>3 DEF RoundsAt
  <2>6. ASSUME NEW c \in SortCells, round'[ItemAt(c, 0)] >= 0
        PROVE  key'[c] = F[round'[ItemAt(c, 0)]][c]
    <3> DEFINE q == ItemAt(c, 0)
    <3>1. q \in SortItems /\ (c = q \/ c = q + h)
      BY <1>5
    <3>2. CASE q = p
      <4>1. key'[c] = Padded[c]
        BY <1>4, <1>5, <1>7, <3>1, <3>2
      <4>2. round'[q] = 0
        BY <2>2, <3>1, <3>2
      <4>3. QED
        BY <2>1, <4>1, <4>2
    <3>3. CASE q # p
      <4>1. c # p /\ c # p + h
        BY <1>5, <3>3
      <4>2. key'[c] = key[c] /\ round'[q] = round[q]
        BY <1>4, <1>7, <2>2, <3>1, <3>3, <4>1
      <4>3. key[c] = F[round[q]][c]
        BY <1>2, <1>3, <2>3, <2>6, <4>2 DEF RoundsAt
      <4>4. QED
        BY <4>2, <4>3
    <3>4. QED
      BY <3>2, <3>3
  <2> HIDE DEF F
  <2>7. F' = F
    BY <1>11 DEF F
  <2>8. QED
    BY <1>9, <2>3, <2>4, <2>5, <2>6, <2>7 DEF RoundsAt
<1>13. RunInv'
  <2>1. -1 \in -1 .. Rounds - 1
    BY <1>3
  <2>2. QED
    BY <1>12, <2>1 DEF RunInv
<1>14. ResultInv'
  BY <1>1, <1>3, <1>9 DEF ResultInv
<1>15. QED
  BY <1>10, <1>13, <1>14 DEF SortInv

\* Reading: behind the barrier both keys are of the same stage.
LEMMA SortReadInv ==
    ASSUME TileSizes, SortInv, NEW p \in SortItems, ReadPair(p)
    PROVE  SortInv'
<1> DEFINE F == StageOf(Padded)  n == round[p]
<1>1. SortTypeInv /\ RunInv /\ ResultInv
  BY DEF SortInv
<1>2. Rounds \in Nat \ {0} /\ n \in 0 .. Rounds - 1 /\ Barrier(p)
  BY LastRound DEF ReadPair
<1>3. RoundsAt(n, F) /\ n \in -1 .. Rounds - 1
  <2>1. PICK m \in -1 .. Rounds - 1 : RoundsAt(m, F)
    BY <1>1 DEF RunInv
  <2> HIDE DEF F
  <2>2. round[p] <= Rounds - 1
    BY <1>2
  <2>3. QED
    BY <1>1, <1>2, <2>1, <2>2, BarrierStage
<1>4. /\ key \in [SortCells -> 0 .. Pad]
      /\ pair \in [SortItems -> {<<>>} \cup ((0 .. Pad) \X (0 .. Pad))]
  BY <1>1 DEF SortTypeInv
<1>5. n + 1 \in 1 .. Rounds
  BY <1>2
<1>6. /\ Low(p, n + 1) \in SortCells /\ High(p, n + 1) \in SortCells
      /\ ItemAt(Low(p, n + 1), n + 1) = p /\ ItemAt(High(p, n + 1), n + 1) = p
  BY <1>5, ItemCells
<1>7. /\ pair' = [pair EXCEPT ![p] = <<key[Low(p, n + 1)], key[High(p, n + 1)]>>]
      /\ UNCHANGED <<source, key, round, result>>
  BY DEF ReadPair
<1>8. Padded' = Padded
  BY <1>7 DEF Padded, NumElements
<1>9. SortTypeInv'
  <2>1. <<key[Low(p, n + 1)], key[High(p, n + 1)]>> \in (0 .. Pad) \X (0 .. Pad)
    BY <1>4, <1>6
  <2>2. pair' \in [SortItems -> {<<>>} \cup ((0 .. Pad) \X (0 .. Pad))]
    BY <1>4, <1>7, <2>1
  <2>3. QED
    BY <1>1, <1>7, <2>2 DEF SortTypeInv
<1>10. RunInv'
  <2>1. /\ key[Low(p, n + 1)] = F[n][Low(p, n + 1)]
        /\ key[High(p, n + 1)] = F[n][High(p, n + 1)]
    BY <1>2, <1>3, <1>6 DEF RoundsAt
  <2> HIDE DEF F
  <2>2. ASSUME NEW q \in SortItems, pair'[q] # <<>>
        PROVE  /\ round[q] = n
               /\ pair'[q] = <<F[n][Low(q, n + 1)], F[n][High(q, n + 1)]>>
    <3>1. CASE q = p
      BY <1>4, <1>7, <2>1, <3>1
    <3>2. CASE q # p
      <4>1. pair'[q] = pair[q]
        BY <1>4, <1>7, <3>2
      <4>2. QED
        BY <1>3, <2>2, <4>1 DEF RoundsAt
    <3>3. QED
      BY <3>1, <3>2
  <2>3. PICK k \in 0 .. Rounds - 1 : k = n
    BY <1>2
  <2> HIDE DEF n
  <2>4. RoundsAt(k, F)
    BY <1>3, <2>3
  <2>5. \A q \in SortItems : pair'[q] # <<>> =>
           /\ k >= 0 /\ round[q] = k
           /\ pair'[q] = <<F[k][Low(q, k + 1)], F[k][High(q, k + 1)]>>
    BY <2>2, <2>3
  <2>6. RoundsAt(k, F)'
    <3>1. F' = F
      BY <1>8 DEF F
    <3>2. QED
      BY <1>7, <2>4, <2>5, <3>1 DEF RoundsAt
  <2>7. QED
    BY <1>2, <2>3, <2>6 DEF RunInv, F
<1>11. ResultInv'
  <2>1. result = <<>>
    BY <1>1, <1>2 DEF ResultInv
  <2>2. QED
    BY <1>7, <2>1 DEF ResultInv
<1>12. QED
  BY <1>9, <1>10, <1>11 DEF SortInv

\* Writing back: the pair becomes what the network makes of it.
LEMMA SortWriteInv ==
    ASSUME TileSizes, SortInv, NEW p \in SortItems, WritePair(p)
    PROVE  SortInv'
<1> DEFINE F == StageOf(Padded)
<1>1. SortTypeInv /\ RunInv /\ ResultInv
  BY DEF SortInv
<1>2. /\ key \in [SortCells -> 0 .. Pad] /\ round \in [SortItems -> -1 .. Rounds]
      /\ pair \in [SortItems -> {<<>>} \cup ((0 .. Pad) \X (0 .. Pad))]
  BY <1>1 DEF SortTypeInv
<1>3. PICK n \in -1 .. Rounds - 1 : RoundsAt(n, F)
  BY <1>1 DEF RunInv
<1>4. Rounds \in Nat \ {0} /\ pair[p] # <<>>
  BY LastRound DEF WritePair
<1>5. /\ n >= 0 /\ round[p] = n
      /\ pair[p] = <<F[n][Low(p, n + 1)], F[n][High(p, n + 1)]>>
  BY <1>3, <1>4 DEF RoundsAt
<1> DEFINE r == n + 1  l == Low(p, r)  h == High(p, r)
<1>6. r \in 1 .. Rounds /\ r - 1 = n /\ n \in 0 .. Rounds - 1
  BY <1>4, <1>5
<1>7. /\ l \in SortCells /\ h \in SortCells /\ l # h /\ ItemAt(l, r) = p /\ ItemAt(h, r) = p
      /\ \A c \in SortCells :
            /\ ItemAt(c, r) \in SortItems
            /\ c = Low(ItemAt(c, r), r) \/ c = High(ItemAt(c, r), r)
  BY <1>6, ItemCells
<1>8. /\ F[r] = Compared(F[n], Round[r].s, Round[r].t)
      /\ F[n] \in [SortCells -> Int]
  <2>1. Padded \in [SortCells -> Int]
    BY <1>1, PaddedTile
  <2>2. n \in 0 .. Rounds
    BY <1>4, <1>6
  <2>3. F[r] = Compared(F[r - 1], Round[r].s, Round[r].t) /\ F[n] \in [SortCells -> Int]
    BY <1>6, <2>1, <2>2, Stages
  <2> HIDE DEF F
  <2>4. QED
    BY <1>6, <2>3
<1> HIDE DEF F
<1>9. /\ key' = IF (pair[p][1] > pair[p][2]) = Ascending(p, r)
                  THEN [key EXCEPT ![l] = pair[p][2], ![h] = pair[p][1]]
                  ELSE key
      /\ round' = [round EXCEPT ![p] = r] /\ pair' = [pair EXCEPT ![p] = <<>>]
      /\ UNCHANGED <<source, result>>
  BY <1>5 DEF WritePair
<1>10. pair[p] \in (0 .. Pad) \X (0 .. Pad) /\ pair[p][1] = F[n][l] /\ pair[p][2] = F[n][h]
  <2>1. pair[p] \in {<<>>} \cup ((0 .. Pad) \X (0 .. Pad))
    BY <1>2
  <2>2. pair[p] \in (0 .. Pad) \X (0 .. Pad)
    BY <1>4, <2>1
  <2> DEFINE a == F[n][l]  b == F[n][h]
  <2>3. pair[p] = <<a, b>>
    BY <1>5
  <2> HIDE DEF a, b
  <2>4. pair[p][1] = a /\ pair[p][2] = b
    BY <2>3
  <2>5. QED
    BY <2>2, <2>4 DEF a, b
<1>11. key[l] = F[n][l] /\ key[h] = F[n][h]
  BY <1>3, <1>5, <1>7 DEF RoundsAt
<1>12. /\ key'[l] = F[r][l] /\ key'[h] = F[r][h]
       /\ \A c \in SortCells : c # l /\ c # h => key'[c] = key[c]
       /\ key' \in [SortCells -> 0 .. Pad]
  <2> DEFINE y == F[n]  a == y[l]  b == y[h]
  <2>1. IF (a > b) = Ascending(p, r)
          THEN F[r][l] = b /\ F[r][h] = a
          ELSE F[r][l] = a /\ F[r][h] = b
    <3> HIDE DEF y
    <3>1. y \in [SortCells -> Int]
      BY <1>8 DEF y
    <3>2. F[r] = Compared(y, Round[r].s, Round[r].t)
      BY <1>8 DEF y
    <3>3. QED
      BY <1>6, <3>1, <3>2, ExchangedPair
  <2> HIDE DEF y, r
  <2>2. CASE (a > b) = Ascending(p, r)
    <3>1. key' = [key EXCEPT ![l] = b, ![h] = a] /\ F[r][l] = b /\ F[r][h] = a
      BY <1>9, <1>10, <2>1, <2>2 DEF y
    <3>2. a \in 0 .. Pad /\ b \in 0 .. Pad
      BY <1>10 DEF y
    <3> HIDE DEF a, b, l, h
    <3>3. QED
      BY <1>2, <1>7, <3>1, <3>2
  <2>3. CASE ~ ((a > b) = Ascending(p, r))
    <3>1. key' = key /\ F[r][l] = a /\ F[r][h] = b
      BY <1>9, <1>10, <2>1, <2>3 DEF y
    <3>2. QED
      BY <1>2, <1>11, <3>1 DEF y
  <2>4. QED
    BY <2>2, <2>3
<1>13. Padded' = Padded
  BY <1>9 DEF Padded, NumElements
<1>14. SortTypeInv'
  <2>1. round' \in [SortItems -> -1 .. Rounds]
    BY <1>2, <1>6, <1>9
  <2>2. pair' \in [SortItems -> {<<>>} \cup ((0 .. Pad) \X (0 .. Pad))]
    BY <1>2, <1>9
  <2>3. QED
    BY <1>1, <1>9, <1>12, <2>1, <2>2 DEF SortTypeInv
<1>15. RoundsAt(n, F)'
  <2>1. \A q \in SortItems : /\ round'[q] = IF q = p THEN r ELSE round[q]
                             /\ pair'[q] = IF q = p THEN <<>> ELSE pair[q]
    BY <1>2, <1>9
  <2>2. \A q \in SortItems : round'[q] \in {n, n + 1}
    BY <1>3, <2>1 DEF RoundsAt
  <2>3. ASSUME NEW c \in SortCells, round'[ItemAt(c, r)] >= 0
        PROVE  key'[c] = F[round'[ItemAt(c, r)]][c]
    <3>1. CASE ItemAt(c, r) = p
      <4>1. c = l \/ c = h
        BY <1>7, <3>1
      <4>2. round'[ItemAt(c, r)] = r
        BY <1>7, <2>1, <3>1
      <4>3. QED
        BY <1>12, <4>1, <4>2
    <3>2. CASE ItemAt(c, r) # p
      <4>1. c # l /\ c # h
        BY <1>7, <3>2
      <4>2. key'[c] = key[c] /\ round'[ItemAt(c, r)] = round[ItemAt(c, r)]
        BY <1>7, <1>12, <2>1, <3>2, <4>1
      <4>3. QED
        BY <1>3, <2>3, <4>2 DEF RoundsAt
    <3>3. QED
      BY <3>1, <3>2
  <2>4. \A q \in SortItems : pair'[q] # <<>> =>
           /\ n >= 0 /\ round'[q] = n
           /\ pair'[q] = <<F[n][Low(q, n + 1)], F[n][High(q, n + 1)]>>
    BY <1>3, <2>1 DEF RoundsAt
  <2>5. F' = F
    BY <1>13 DEF F
  <2>6. QED
    BY <2>2, <2>3, <2>4, <2>5 DEF RoundsAt
<1>16. RunInv'
  BY <1>15 DEF RunInv, F
<1>17. ResultInv'
  <2>1. result = <<>>
    <3>1. n # Rounds
      BY <1>4
    <3>2. QED
      BY <1>1, <1>5, <3>1 DEF ResultInv
  <2>2. QED
    BY <1>9, <2>1 DEF ResultInv
<1>18. QED
  BY <1>14, <1>16, <1>17 DEF SortInv

\* The first item takes the two pixels when all have gone through all rounds.
LEMMA SortStoreInv ==
    ASSUME TileSizes, SortInv, Store
    PROVE  SortInv'
<1>1. SortTypeInv /\ RunInv
  BY DEF SortInv
<1>2. UNCHANGED <<source, key, round, pair>> /\ round[0] = Rounds /\ Barrier(0)
  BY DEF Store
<1>3. result' = [low |-> key[LowIndex], high |-> key[HighIndex]]
  BY DEF Store
<1>4. SortTypeInv'
  <2>1. LowIndex \in SortCells /\ HighIndex \in SortCells
    BY <1>1, Indices
  <2>2. result' \in [low : 0 .. Pad, high : 0 .. Pad]
    BY <1>1, <1>3, <2>1 DEF SortTypeInv
  <2>3. QED
    BY <1>1, <1>2, <2>2 DEF SortTypeInv
<1>5. RunInv'
  <2>1. Padded' = Padded
    BY <1>2 DEF Padded, NumElements
  <2> DEFINE F == StageOf(Padded)
  <2>2. PICK n \in -1 .. Rounds - 1 : RoundsAt(n, F)
    BY <1>1 DEF RunInv
  <2> HIDE DEF F
  <2>3. F' = F
    BY <2>1 DEF F
  <2>4. RoundsAt(n, F)'
    BY <1>2, <2>2, <2>3 DEF RoundsAt
  <2>5. QED
    BY <2>4 DEF RunInv, F
<1>6. ResultInv'
  <2>1. \A p \in SortItems : round[p] = Rounds
    <3> TAKE p \in SortItems
    <3>1. round[p] >= Rounds /\ round[p] \in -1 .. Rounds /\ Rounds \in Nat
      BY <1>1, <1>2, TwiceRounds DEF Barrier, SortTypeInv
    <3>2. QED
      BY <3>1
  <2>2. LowIndex' = LowIndex /\ HighIndex' = HighIndex
    BY <1>2 DEF LowIndex, HighIndex, NumElements
  <2>3. QED
    BY <1>2, <1>3, <2>1, <2>2 DEF ResultInv
<1>7. QED
  BY <1>4, <1>5, <1>6 DEF SortInv

\* Every step keeps the invariant.
LEMMA SortNextInv ==
    ASSUME TileSizes, SortInv, [SortNext]_sortVars
    PROVE  SortInv'
<1>1. CASE UNCHANGED sortVars
  <2>1. Padded' = Padded /\ LowIndex' = LowIndex /\ HighIndex' = HighIndex
    BY <1>1 DEF Padded, NumElements, LowIndex, HighIndex, sortVars
  <2> DEFINE F == StageOf(Padded)
  <2>2. PICK n \in -1 .. Rounds - 1 : RoundsAt(n, F)
    BY DEF SortInv, RunInv
  <2> HIDE DEF F
  <2>3. F' = F
    BY <2>1 DEF F
  <2>4. RoundsAt(n, F)'
    BY <1>1, <2>2, <2>3 DEF RoundsAt, sortVars
  <2>5. RunInv'
    BY <2>4 DEF RunInv, F
  <2>6. SortTypeInv' /\ ResultInv'
    BY <1>1, <2>1 DEF SortInv, SortTypeInv, ResultInv, sortVars
  <2>7. QED
    BY <2>5, <2>6 DEF SortInv
<1>2. CASE \E p \in SortItems : LoadKeys(p) \/ ReadPair(p) \/ WritePair(p)
  BY <1>2, SortLoadInv, SortReadInv, SortWriteInv
<1>3. CASE Store
  BY <1>3, SortStoreInv
<1>4. CASE SortFinished
  BY <1>1, <1>4 DEF SortFinished
<1>5. QED
  BY <1>1, <1>2, <1>3, <1>4 DEF SortNext

\* Every behaviour keeps to the network of comparisons.
THEOREM SortInvariance ==
    ASSUME TileSizes
    PROVE  SortSpec => []SortInv
<1>1. SortInit => SortInv
  BY SortInitInv
<1>2. SortInv /\ [SortNext]_sortVars => SortInv'
  BY SortNextInv
<1>3. QED
  BY <1>1, <1>2, PTL DEF SortSpec

-----------------------------------------------------------------------------
(* The properties. *)

\* From its read to its write-back a work-item's pair is its own.
THEOREM PairsAreUntouched ==
    ASSUME TileSizes
    PROVE  SortSpec => []PairUntouched
<1>1. SortInv => PairUntouched
  <2> SUFFICES ASSUME SortInv, NEW p \in SortItems, pair[p] # <<>>
               PROVE  pair[p] = <<key[Low(p, round[p] + 1)], key[High(p, round[p] + 1)]>>
    BY DEF PairUntouched
  <2> DEFINE F == StageOf(Padded)
  <2>1. PICK n \in -1 .. Rounds - 1 : RoundsAt(n, F)
    BY DEF SortInv, RunInv
  <2> HIDE DEF F
  <2>2. n >= 0 /\ round[p] = n /\ pair[p] = <<F[n][Low(p, n + 1)], F[n][High(p, n + 1)]>>
    BY <2>1 DEF RoundsAt
  <2>3. n + 1 \in 1 .. Rounds
    BY <2>2, TwiceRounds
  <2>4. /\ Low(p, n + 1) \in SortCells /\ High(p, n + 1) \in SortCells
        /\ ItemAt(Low(p, n + 1), n + 1) = p /\ ItemAt(High(p, n + 1), n + 1) = p
    BY <2>3, ItemCells
  <2>5. key[Low(p, n + 1)] = F[n][Low(p, n + 1)] /\ key[High(p, n + 1)] = F[n][High(p, n + 1)]
    BY <2>1, <2>2, <2>4 DEF RoundsAt
  <2>6. QED
    BY <2>2, <2>5
<1>2. SortSpec => []SortInv
  BY SortInvariance
<1>3. QED
  BY <1>1, <1>2, PTL

\* When all items are through, the tile is the last stage of the network.
LEMMA LastStage ==
    ASSUME TileSizes, SortInv, \A p \in SortItems : round[p] = Rounds
    PROVE  /\ Padded \in [SortCells -> Int]
           /\ \A c \in SortCells : key[c] = StageOf(Padded)[Rounds][c]
<1> DEFINE F == StageOf(Padded)
<1>1. PICK n \in -1 .. Rounds - 1 : RoundsAt(n, F)
  BY DEF SortInv, RunInv
<1>2. Padded \in [SortCells -> Int]
  BY PaddedTile DEF SortInv
<1>3. Rounds \in Nat /\ n + 1 \in 0 .. Rounds
  BY TwiceRounds
<1> HIDE DEF F
<1>4. ASSUME NEW c \in SortCells PROVE key[c] = F[Rounds][c]
  <2>1. ItemAt(c, n + 1) \in SortItems
    <3>1. CASE n + 1 = 0
      BY <3>1, LoadedCells
    <3>2. CASE n + 1 # 0
      <4>1. n + 1 \in 1 .. Rounds
        BY <1>3, <3>2
      <4>2. QED
        BY <4>1, ItemCells
    <3>3. QED
      BY <3>1, <3>2
  <2>2. round[ItemAt(c, n + 1)] = Rounds
    BY <2>1
  <2>3. QED
    BY <1>1, <1>3, <2>2 DEF RoundsAt
<1>5. QED
  BY <1>2, <1>4 DEF F

\* The tile ends sorted.
LEMMA EndSorted ==
    ASSUME TileSizes, SortInv, \A p \in SortItems : round[p] = Rounds
    PROVE  \A c \in SortCells, d \in SortCells : c <= d => key[c] <= key[d]
<1>1. /\ Padded \in [SortCells -> Int]
      /\ \A c \in SortCells : key[c] = StageOf(Padded)[Rounds][c]
  BY LastStage
<1> DEFINE x == Padded
<1> HIDE DEF x
<1>2. x \in [SortCells -> Int] /\ \A c \in SortCells : key[c] = StageOf(x)[Rounds][c]
  BY <1>1 DEF x
<1>3. \A c \in SortCells, d \in SortCells :
         c <= d => StageOf(x)[Rounds][c] <= StageOf(x)[Rounds][d]
  BY <1>2, NetworkSorts
<1>4. QED
  BY <1>2, <1>3

\* The tile ends with the pixels it began with, and otherwise padding.
LEMMA EndKeepsPixels ==
    ASSUME TileSizes, SortInv, \A p \in SortItems : round[p] = Rounds, NEW V, Pad \notin V
    PROVE  /\ Cardinality(Holding(key, V)) = Cardinality({a \in DOMAIN source : source[a] \in V})
           /\ IsFiniteSet({a \in DOMAIN source : source[a] \in V})
<1>1. /\ Padded \in [SortCells -> Int]
      /\ \A c \in SortCells : key[c] = StageOf(Padded)[Rounds][c]
  BY LastStage
<1>2. Holding(Padded, V) = {a \in DOMAIN source : source[a] \in V}
  <2>1. DOMAIN source = 0 .. NumElements - 1 /\ NumElements \in Nat /\ NumElements <= Length
        /\ Length \in Nat
    <3>1. NumElements \in (Length \div 2) + 1 .. Length /\ DOMAIN source = 0 .. NumElements - 1
      BY PaddedTile DEF SortInv
    <3>2. Length \in Nat /\ Length \div 2 \in Nat
      BY TileLength
    <3>3. QED
      BY <3>1, <3>2
  <2> DEFINE n == NumElements
  <2> HIDE DEF n
  <2>2. \A c \in SortCells : Padded[c] = IF c < n THEN source[c] ELSE Pad
    BY DEF Padded, n
  <2>3. \A c : c \in DOMAIN source <=> c \in SortCells /\ c < n
    BY <2>1 DEF SortCells, n
  <2>4. QED
    BY <2>2, <2>3 DEF Holding
<1> DEFINE x == Padded
<1> HIDE DEF x
<1>3. x \in [SortCells -> Int] /\ \A c \in SortCells : key[c] = StageOf(x)[Rounds][c]
  BY <1>1 DEF x
<1>4. Cardinality(Holding(StageOf(x)[Rounds], V)) = Cardinality(Holding(x, V))
  BY <1>3, NetworkKeepsKeys
<1>5. Holding(key, V) = Holding(StageOf(x)[Rounds], V)
  BY <1>3 DEF Holding
<1>6. IsFiniteSet(Holding(x, V))
  BY HoldingFinite
<1>7. QED
  BY <1>2, <1>4, <1>5, <1>6 DEF x

\* Whatever the order of the items, the tile ends sorted and with its pixels.
THEOREM SortsTheTile ==
    ASSUME TileSizes
    PROVE  SortSpec => []SortedAtEnd
<1>1. SortInv => SortedAtEnd
  <2> SUFFICES ASSUME SortInv, \A p \in SortItems : round[p] = Rounds
               PROVE  /\ \A a \in 0 .. Length - 2 : key[a] <= key[a + 1]
                      /\ \A v \in Values :
                           Cardinality({c \in SortCells : key[c] = v}) =
                           Cardinality({a \in DOMAIN source : source[a] = v})
    BY DEF SortedAtEnd
  <2>1. ASSUME NEW a \in 0 .. Length - 2 PROVE key[a] <= key[a + 1]
    <3>1. a \in SortCells /\ a + 1 \in SortCells /\ a <= a + 1
      BY TileLength DEF SortCells
    <3>2. QED
      BY <3>1, EndSorted
  <2>2. ASSUME NEW v \in Values
        PROVE  Cardinality({c \in SortCells : key[c] = v}) =
               Cardinality({a \in DOMAIN source : source[a] = v})
    <3> DEFINE V == {v}
    <3>1. Pad \notin V
      BY DEF TileSizes
    <3>2. /\ Holding(key, V) = {c \in SortCells : key[c] = v}
          /\ {a \in DOMAIN source : source[a] \in V} = {a \in DOMAIN source : source[a] = v}
      BY DEF Holding
    <3> HIDE DEF V
    <3>3. Cardinality(Holding(key, V)) = Cardinality({a \in DOMAIN source : source[a] \in V})
      BY <3>1, EndKeepsPixels
    <3>4. QED
      BY <3>2, <3>3
  <2>3. QED
    BY <2>1, <2>2
<1>2. SortSpec => []SortInv
  BY SortInvariance
<1>3. QED
  BY <1>1, <1>2, PTL

\* A key of the sorted tile, at the place of a pixel, is that ordinal of the
\* pixels, and none of the padding.
LEMMA OrdinalAt ==
    ASSUME TileSizes, SortInv, \A p \in SortItems : round[p] = Rounds,
           NEW k \in 0 .. NumElements - 1, k \in SortCells
    PROVE  IsOrdinal(key[k], k)
<1> DEFINE v == key[k]  n == NumElements
           below == {w \in 0 .. Pad : w < v}
           upto == {w \in 0 .. Pad : w <= v}
           pixels == {w \in 0 .. Pad : w < Pad}
<1>1. /\ n \in Nat /\ DOMAIN source = 0 .. n - 1 /\ Pad \in Nat /\ k \in 0 .. n - 1
      /\ \A a \in DOMAIN source : source[a] \in 0 .. Pad /\ source[a] < Pad
  <2>1. /\ NumElements \in (Length \div 2) + 1 .. Length /\ DOMAIN source = 0 .. NumElements - 1
        /\ \A a \in DOMAIN source : source[a] \in Values
        /\ Pad \in Nat /\ Values \subseteq 0 .. Pad - 1
    BY PaddedTile DEF SortInv
  <2>2. Length \in Nat /\ Length \div 2 \in Nat
    BY TileLength
  <2>3. \A w \in Values : w \in 0 .. Pad /\ w < Pad
    BY <2>1
  <2>4. n \in Nat
    BY <2>1, <2>2
  <2>5. QED
    BY <2>1, <2>3, <2>4
<1>2. /\ \A c \in SortCells : key[c] \in 0 .. Pad /\ c \in Nat
      /\ \A c \in SortCells, d \in SortCells : c <= d => key[c] <= key[d]
  BY EndSorted, TileLength DEF SortInv, SortTypeInv
<1>3. v \in 0 .. Pad
  BY <1>2
<1> HIDE DEF v, n
<1>4. Holding(key, below) \subseteq 0 .. k - 1
  <2> SUFFICES ASSUME NEW c \in SortCells, key[c] < v PROVE c \in 0 .. k - 1
    BY DEF Holding
  <2>1. ~ (k <= c)
    BY <1>2, <1>3 DEF v
  <2>2. QED
    BY <1>1, <1>2, <2>1
<1>5. 0 .. k \subseteq Holding(key, upto)
  <2> SUFFICES ASSUME NEW c \in 0 .. k PROVE c \in SortCells /\ key[c] \in upto
    BY DEF Holding
  <2>1. c \in SortCells /\ c <= k
    BY <1>1, TileLength DEF SortCells
  <2>2. QED
    BY <1>2, <1>3, <2>1 DEF v
<1>6. v < Pad
  <2> SUFFICES ASSUME v = Pad PROVE FALSE
    BY <1>1, <1>3
  <2>1. Pad \notin pixels
    BY <1>1
  <2>2. {a \in DOMAIN source : source[a] \in pixels} = 0 .. n - 1
    BY <1>1
  <2>3. Holding(key, pixels) = Holding(key, below)
    BY DEF Holding
  <2> HIDE DEF pixels
  <2>4. Cardinality(Holding(key, pixels)) = Cardinality({a \in DOMAIN source : source[a] \in pixels})
    BY <2>1, EndKeepsPixels
  <2>5. Cardinality(0 .. n - 1) = n
    <3>1. n - 1 \in Int /\ ~ (0 > n - 1)
      BY <1>1
    <3>2. Cardinality(0 .. n - 1) = n - 1 - 0 + 1
      BY <3>1, FS_Interval
    <3>3. QED
      BY <1>1, <3>2
  <2>6. Cardinality(0 .. k - 1) = k /\ IsFiniteSet(0 .. k - 1)
    <3>1. k - 1 \in Int /\ k \in Nat
      BY <1>1
    <3>2. QED
      BY <3>1, FS_Interval
  <2>7. Cardinality(Holding(key, below)) <= Cardinality(0 .. k - 1)
    BY <1>4, <2>6, FS_Subset
  <2>8. Cardinality(Holding(key, below)) = n
    BY <2>2, <2>3, <2>4, <2>5
  <2>9. n <= k
    BY <2>6, <2>7, <2>8
  <2>10. QED
    BY <1>1, <2>9
<1>7. Pad \notin below /\ Pad \notin upto
  BY <1>1, <1>3, <1>6
<1>8. /\ {a \in DOMAIN source : source[a] \in below} = {a \in DOMAIN source : source[a] < v}
      /\ {a \in DOMAIN source : source[a] \in upto} = {a \in DOMAIN source : source[a] <= v}
  BY <1>1
<1> HIDE DEF below, upto
<1>9. /\ Cardinality(Holding(key, below)) = Cardinality({a \in DOMAIN source : source[a] \in below})
      /\ Cardinality(Holding(key, upto)) = Cardinality({a \in DOMAIN source : source[a] \in upto})
  BY <1>7, EndKeepsPixels
<1>10. /\ Cardinality(0 .. k - 1) = k /\ IsFiniteSet(0 .. k - 1)
       /\ Cardinality(0 .. k) = k + 1 /\ IsFiniteSet(0 .. k)
  <2>1. k - 1 \in Int /\ k \in Int /\ k >= 0
    BY <1>1
  <2>2. QED
    BY <2>1, FS_Interval
<1>11. Cardinality(Holding(key, below)) <= k
  <2>1. Cardinality(Holding(key, below)) <= Cardinality(0 .. k - 1)
    BY <1>4, <1>10, FS_Subset
  <2>2. QED
    BY <1>10, <2>1
<1>12. Cardinality(Holding(key, upto)) > k
  <2>1. IsFiniteSet(Holding(key, upto))
    BY HoldingFinite
  <2>2. Cardinality(0 .. k) <= Cardinality(Holding(key, upto))
    BY <1>5, <2>1, FS_Subset
  <2>3. Cardinality(Holding(key, upto)) \in Nat
    BY <2>1, FS_CardinalityType
  <2>4. QED
    BY <1>1, <1>10, <2>2, <2>3
<1>13. QED
  BY <1>8, <1>9, <1>11, <1>12 DEF IsOrdinal, v

\* The two values the first work-item takes are the ordinals asked for.
THEOREM ResultsAreOrdinals ==
    ASSUME TileSizes
    PROVE  SortSpec => []ResultIsOrdinal
<1>1. SortInv => ResultIsOrdinal
  <2> SUFFICES ASSUME SortInv, result # <<>>
               PROVE  IsOrdinal(result.low, LowIndex) /\ IsOrdinal(result.high, HighIndex)
    BY DEF ResultIsOrdinal
  <2>1. /\ \A p \in SortItems : round[p] = Rounds
        /\ result = [low |-> key[LowIndex], high |-> key[HighIndex]]
    BY DEF SortInv, ResultInv
  <2>2. /\ LowIndex \in 0 .. NumElements - 1 /\ HighIndex \in 0 .. NumElements - 1
        /\ LowIndex \in SortCells /\ HighIndex \in SortCells
    BY Indices DEF SortInv
  <2>3. IsOrdinal(key[LowIndex], LowIndex) /\ IsOrdinal(key[HighIndex], HighIndex)
    BY <2>1, <2>2, OrdinalAt
  <2>4. QED
    BY <2>1, <2>3
<1>2. SortSpec => []SortInv
  BY SortInvariance
<1>3. QED
  BY <1>1, <1>2, PTL

=============================================================================
