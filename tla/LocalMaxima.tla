----------------------------- MODULE LocalMaxima -----------------------------
(***************************************************************************)
(* The localmaxima task (src_hough/ufo-localmaxima-task.c): lists the      *)
(* bright strict maxima of an image that stand out of their surroundings.  *)
(*                                                                         *)
(* An image is [w, h, val, clear]; clear is the set of pixels whose signal *)
(* to noise ratio snr_max finds above 2.  The output buffer is used again  *)
(* for every image: it is [count, at], at being its places for positions.  *)
(***************************************************************************)
EXTENDS Integers, Sequences

PixelsOf(img) == (0 .. img.w - 1) \X (0 .. img.h - 1)

Maximum(S) == CHOOSE v \in S : \A u \in S : u <= v

glb_max(img) == Maximum({0} \cup {img.val[p] : p \in PixelsOf(img)})

Neighbours(p) == {<<p[1] + d, p[2] + e>> : d \in -1 .. 1, e \in -1 .. 1} \ {p}

\* Brighter than 0.4 of the brightest pixel, and than find_max around it.
IsMaximum(img, p) ==
    /\ 10 * img.val[p] > 4 * glb_max(img)
    /\ img.val[p] > Maximum({img.val[q] : q \in Neighbours(p)})

\* The second pair of loops: idxy outside, idxx inside, without the border.
Raster(img) ==
    [k \in 1 .. (img.w - 2) * (img.h - 2) |->
        <<1 + ((k - 1) % (img.w - 2)), 1 + ((k - 1) \div (img.w - 2))>>]

\* Mutant: the count is written where a position is.
StoreOnlyClear(img, s, p) ==
    IF p \in img.clear
    THEN [ct3 |-> s.ct3 + 1, out |-> [count |-> s.ct3 + 1, at |-> [s.out.at EXCEPT ![s.ct3 + 1] = p]]]
    ELSE s

\* One maximum: stored if it is clear; the count is written either way.
Store(img, s, p) ==
    IF p \in img.clear
    THEN [ct3 |-> s.ct3 + 1, out |-> [count |-> s.ct3 + 1, at |-> [s.out.at EXCEPT ![s.ct3 + 1] = p]]]
    ELSE [ct3 |-> s.ct3, out |-> [s.out EXCEPT !.count = s.ct3]]

\* process, on a buffer that still holds the list of an older image.  Scan[k]:
\* after k pixels.
Listed(img, buffer) ==
    LET pixels == Raster(img)
        Scan[k \in 0 .. Len(pixels)] ==
            IF k = 0 THEN [ct3 |-> 0, out |-> buffer]
            ELSE IF IsMaximum(img, pixels[k]) THEN Store(img, Scan[k - 1], pixels[k])
            ELSE Scan[k - 1]
    IN  Scan[Len(pixels)].out

-----------------------------------------------------------------------------

\* The list is that of this image: its count and positions are those of the
\* clear maxima, each once, none beside another, whatever an older image left in
\* the buffer (lines 155-218).  An image without any bright maximum leaves the
\* older list as it is: the count is written only beside a maximum (line 216).
MaximaOfThisImage(img, out) ==
    LET inner == {Raster(img)[k] : k \in 1 .. Len(Raster(img))}
    IN  (\E p \in inner : IsMaximum(img, p)) =>
            /\ {out.at[k] : k \in 1 .. out.count} = {p \in img.clear \cap inner : IsMaximum(img, p)}
            /\ \A k, l \in 1 .. out.count :
                  k # l => out.at[k] \notin Neighbours(out.at[l]) \cup {out.at[l]}

=============================================================================
