----------------------------- MODULE TaskProcess -----------------------------
(***************************************************************************)
(* process () of the tasks that compute an output from one input and keep  *)
(* nothing: a behaviour is one such task and one input.  Only localmaxima  *)
(* is given a second image, because its output buffer still holds the list *)
(* of the first.                                                           *)
(***************************************************************************)
EXTENDS Integers, Sequences

CONSTANTS
    Units,        \* the computations to look at
    PlaneSize,                                 \* of CombineTest
    MaxDepth, MinArea, MaxArea, MaxSkew,       \* of LabelCluster
    Levels, Rounds,                            \* of Background
    ImageWidth, ImageHeight, HistLen, FitSize, \* of RingProfile
    Stacks, ClusterImages, MaximaImages, BlobImages,    \* the inputs of the tasks
    Histograms, RingInputs, Profiles,
    OldBuffer     \* what the buffer of localmaxima holds before the first image

\* An image of label-cluster is not wider than high, every image of localmaxima
\* has room in the list, a ring has a radius, and a profile has room for a peak.
ASSUME InputsAssumption ==
    /\ PlaneSize \in Nat
    /\ \A s \in Stacks :
          /\ s.planes \in Nat \ {0, 1}
          /\ s.mem \in [0 .. s.planes * PlaneSize - 1 -> BOOLEAN]
    /\ MaxDepth \in Nat
    /\ \A i \in ClusterImages :
          /\ i.w \in Nat \ {0} /\ i.h \in Nat /\ i.h >= i.w
          /\ i.on \subseteq (0 .. i.w - 1) \X (0 .. i.h - 1)
    /\ \A i \in MaximaImages :
          /\ i.w \in Nat \ {0, 1} /\ i.h \in Nat \ {0, 1}
          /\ i.val \in [(0 .. i.w - 1) \X (0 .. i.h - 1) -> Nat]
          /\ 1 .. (i.w - 2) * (i.h - 2) \subseteq DOMAIN OldBuffer.at
    /\ \A i \in BlobImages :
          /\ i.nr \in Nat \ {0} /\ i.nc \in Nat
          /\ i.on \subseteq (0 .. i.nr - 1) \X (0 .. i.nc - 1)
    /\ OldBuffer \in [count : Nat, at : [DOMAIN OldBuffer.at -> Nat \X Nat]]
    /\ Levels \in Nat /\ Rounds \in Nat
    /\ \A h \in Histograms : h \in [0 .. Levels - 1 -> Nat]
    /\ ImageWidth \in Nat /\ ImageHeight \in Nat
    /\ \A i \in RingInputs :
          i.c \in Int \X Int /\ i.min_r \in Nat \ {0} /\ i.more \in Nat
    /\ FitSize = 5 /\ HistLen \in Nat /\ HistLen > FitSize
    /\ \A p \in Profiles : p \in [0 .. HistLen - 1 -> Nat]

T == INSTANCE CombineTest
L == INSTANCE LabelCluster
M == INSTANCE LocalMaxima
F == INSTANCE FilterParticle
B == INSTANCE Background
R == INSTANCE RingProfile

VARIABLES unit, input, output, second     \* a second image has come

vars == <<unit, input, output, second>>

Unset == <<>>

Init ==
    /\ unit \in Units
    /\ \/ unit = "combine" /\ input \in Stacks
       \/ unit = "label" /\ input \in ClusterImages
       \/ unit = "maxima" /\ input \in MaximaImages
       \/ unit = "blobs" /\ input \in BlobImages
       \/ unit = "background" /\ input \in Histograms
       \/ unit = "rings" /\ input \in RingInputs
       \/ unit = "peaks" /\ input \in Profiles
    /\ output = IF unit = "maxima" THEN [done |-> FALSE, value |-> OldBuffer]
                ELSE [done |-> FALSE, value |-> Unset]
    /\ second = FALSE

-----------------------------------------------------------------------------

Computes(u, v) ==
    /\ unit = u /\ ~ output.done
    /\ output' = [done |-> TRUE, value |-> v]
    /\ UNCHANGED <<unit, input, second>>

Combine    == unit = "combine"    /\ Computes("combine", T!Combined(input.mem, input.planes))
Label      == unit = "label"      /\ Computes("label", L!Labelled(input))
ListMaxima == unit = "maxima"     /\ Computes("maxima", M!Listed(input, output.value))
Number     == unit = "blobs"      /\ Computes("blobs", F!pfind(input))
Estimate   == unit = "background" /\ Computes("background", B!approx_bg(input))
ReadRings  == unit = "rings"      /\ Computes("rings",
                  R!compute_histogram(input.c, input.min_r, input.min_r + input.more))
FindPeak   == unit = "peaks"      /\ Computes("peaks",
                  R!Highest(input, R!search_peaks(input, FitSize)))

\* The next image meets the buffer of the last one.
NextImage ==
    /\ unit = "maxima" /\ output.done /\ ~ second
    /\ second' = TRUE
    /\ input' \in MaximaImages
    /\ output' = [output EXCEPT !.done = FALSE]
    /\ UNCHANGED unit

Stopped == output.done /\ (unit = "maxima" => second) /\ UNCHANGED vars

Next ==
    \/ Combine \/ Label \/ ListMaxima \/ Number \/ Estimate \/ ReadRings \/ FindPeak
    \/ NextImage \/ Stopped

Spec == Init /\ [][Next]_vars

-----------------------------------------------------------------------------
(* The properties of the modules, by their names there. *)

Done(u) == unit = u /\ output.done

CombineExact      == Done("combine") => T!CombineExact(input.mem, input.planes, output.value)
LabelsSound       == Done("label") => L!LabelsSound(input, output.value)
MaximaOfThisImage == Done("maxima") => M!MaximaOfThisImage(input, output.value)
BlobsLabelled     == Done("blobs") => F!BlobsLabelled(input, output.value)
DuplicatesJoined  == Done("blobs") => F!DuplicatesJoined(input, output.value)
BackgroundDefined == Done("background") => B!BackgroundDefined(input, output.value)
RingsExact        == Done("rings") =>
    R!RingsExact(input.c, input.min_r, input.min_r + input.more, output.value)
PeaksFound        == Done("peaks") => R!PeaksFound(input, output.value)

=============================================================================
