--------------------------- MODULE HoughLikelihood ---------------------------
(***************************************************************************)
(* The hough-likelihood task: the host thread that runs                    *)
(* ufo_hough_likelihood_task_process (src_hough/ufo-hough-likelihood-      *)
(* task.c) and the work-items of the kernel `likelihood' (kernels/         *)
(* hough.cl) that append one candidate record each to a shared output.     *)
(*                                                                         *)
(* The output buffer is reused from image to image, so a float that no     *)
(* work-item of this image has stored still holds an older image's value.  *)
(* A stored float is modelled by where it comes from, <<pixel, field,      *)
(* image>>, not by its numerical value.                                    *)
(***************************************************************************)
EXTENDS Integers, FiniteSets

CONSTANTS
    Pixels,     \* the work-items, one per (x, y, z) of the Hough space
    MaxCand,    \* max_cand: the records the output buffer has room for
    MaxImages   \* bound: images of the stream

ASSUME ConstantsAssumption ==
    /\ IsFiniteSet(Pixels)
    /\ MaxCand \in Nat
    /\ MaxImages \in Nat

RecSize == 5                     \* x, y, z (ring number), contrast, intensity
Offset  == 2                     \* floats before the first record
Fields  == 0 .. RecSize - 1
Index(s, k) == RecSize * s + Offset + k
Dim     == Offset + RecSize * MaxCand    \* requisition->dims[0]

VARIABLES
    host,    \* where process () is
    image,   \* number of the image being processed
    hot,     \* the pixels whose likelihood exceeds the threshold
    pc,      \* where each work-item is
    slot,    \* `old', the work-item's private copy of the counter
    stored,  \* how many of its five fields the work-item has stored
    count,   \* count_mem on the device
    got,     \* the host's local `count'
    out,     \* the float array behind `output', from index Offset on
    header,  \* out_cpu[0]
    overrun  \* a store has gone outside `output'

vars == <<host, image, hot, pc, slot, stored, count, got, out, header, overrun>>
items == <<pc, slot, stored>>

Stale == <<>>     \* whatever the allocation held before the first image
Cells == (Pixels \X Fields \X (0 .. MaxImages)) \cup {Stale}

TypeOK ==
    /\ host \in {"idle", "reset", "running", "read"}
    /\ image \in 0 .. MaxImages
    /\ hot \in SUBSET Pixels
    /\ pc \in [Pixels -> {"wait", "test", "store", "done"}]
    /\ slot \in [Pixels -> Nat]
    /\ stored \in [Pixels -> 0 .. RecSize]
    /\ count \in Nat
    /\ got \in Nat
    /\ out \in [Offset .. Dim - 1 -> Cells]
    /\ header \in Nat
    /\ overrun \in BOOLEAN

Init ==
    /\ host = "idle"
    /\ image = 0
    /\ hot = {}
    /\ pc = [p \in Pixels |-> "wait"]
    /\ slot = [p \in Pixels |-> 0]
    /\ stored = [p \in Pixels |-> 0]
    /\ count = 0
    /\ got = 0
    /\ out = [i \in Offset .. Dim - 1 |-> Stale]
    /\ header = 0
    /\ overrun = FALSE

-----------------------------------------------------------------------------
(* The host thread. *)

\* Mutant: the counter is not reset.
ResetCountForgotten ==
    /\ host = "idle"
    /\ image < MaxImages
    /\ host' = "reset"
    /\ image' = image + 1
    /\ hot' \in SUBSET Pixels
    /\ got' = 0
    /\ overrun' = FALSE
    /\ pc' = [p \in Pixels |-> "wait"]
    /\ UNCHANGED <<slot, stored, count, out, header>>

\* process () is called with the next image; it first resets the counter.
ResetCount ==
    /\ host = "idle"
    /\ image < MaxImages
    /\ host' = "reset"
    /\ image' = image + 1
    /\ hot' \in SUBSET Pixels
    /\ count' = 0
    /\ got' = 0
    /\ overrun' = FALSE
    /\ pc' = [p \in Pixels |-> "wait"]
    /\ UNCHANGED <<slot, stored, out, header>>

\* The kernel is enqueued over the whole Hough space.
Launch ==
    /\ host = "reset"
    /\ host' = "running"
    /\ pc' = [p \in Pixels |-> "test"]
    /\ slot' = [p \in Pixels |-> 0]
    /\ stored' = [p \in Pixels |-> 0]
    /\ UNCHANGED <<image, hot, count, got, out, header, overrun>>

KernelFinished == \A p \in Pixels : pc[p] = "done"

\* The blocking read of the counter returns when the in-order command queue
\* has finished the kernel.
ReadCount ==
    /\ host = "running"
    /\ KernelFinished
    /\ host' = "read"
    /\ got' = count
    /\ UNCHANGED <<image, hot, items, count, out, header, overrun>>

\* The host array of the output is fetched and its first float overwritten.
WriteHeader ==
    /\ host = "read"
    /\ host' = "idle"
    /\ header' = got
    /\ UNCHANGED <<image, hot, items, count, got, out, overrun>>

\* The stream ends after MaxImages images.
EndOfStream ==
    /\ host = "idle"
    /\ image = MaxImages
    /\ UNCHANGED vars

-----------------------------------------------------------------------------
(* The work-items. *)

\* res <= threshold: the work-item ends without a trace.
Reject(p) ==
    /\ pc[p] = "test"
    /\ p \notin hot
    /\ pc' = [pc EXCEPT ![p] = "done"]
    /\ UNCHANGED <<host, image, hot, slot, stored, count, got, out, header, overrun>>

\* Mutant: count++ instead of atomic_inc may lose increments.
ClaimNotAtomic(p) ==
    /\ pc[p] = "test"
    /\ p \in hot
    /\ pc' = [pc EXCEPT ![p] = "store"]
    /\ slot' = [slot EXCEPT ![p] = count]
    /\ count' \in {count, count + 1}
    /\ UNCHANGED <<host, image, hot, stored, got, out, header, overrun>>

\* Mutant: the counter saturates at the size of the buffer.
ClaimClamped(p) ==
    /\ pc[p] = "test"
    /\ p \in hot
    /\ pc' = [pc EXCEPT ![p] = "store"]
    /\ slot' = [slot EXCEPT ![p] = count]
    /\ count' = IF count < MaxCand THEN count + 1 ELSE count
    /\ UNCHANGED <<host, image, hot, stored, got, out, header, overrun>>

\* Mutant: a full output makes the work-item try again.
ClaimWhenRoom(p) ==
    /\ pc[p] = "test"
    /\ p \in hot
    /\ IF count < MaxCand
         THEN /\ pc' = [pc EXCEPT ![p] = "store"]
              /\ slot' = [slot EXCEPT ![p] = count]
              /\ count' = count + 1
         ELSE UNCHANGED <<pc, slot, count>>
    /\ UNCHANGED <<host, image, hot, stored, got, out, header, overrun>>

\* res > threshold: old = atomic_inc (count).
Claim(p) ==
    /\ pc[p] = "test"
    /\ p \in hot
    /\ pc' = [pc EXCEPT ![p] = "store"]
    /\ slot' = [slot EXCEPT ![p] = count]
    /\ count' = count + 1
    /\ UNCHANGED <<host, image, hot, stored, got, out, header, overrun>>

\* One of the five plain stores into output[5*old + 2 ...].  Nothing compares
\* `old' with the size of the buffer.
Store(p) ==
    LET i == Index(slot[p], stored[p]) IN
    /\ pc[p] = "store"
    /\ stored[p] < RecSize
    /\ stored' = [stored EXCEPT ![p] = @ + 1]
    /\ IF i \in Offset .. Dim - 1
         THEN /\ out' = [out EXCEPT ![i] = <<p, stored[p], image>>]
              /\ UNCHANGED overrun
         ELSE /\ overrun' = TRUE
              /\ UNCHANGED out
    /\ UNCHANGED <<host, image, hot, pc, slot, count, got, header>>

Exit(p) ==
    /\ pc[p] = "store"
    /\ stored[p] = RecSize
    /\ pc' = [pc EXCEPT ![p] = "done"]
    /\ UNCHANGED <<host, image, hot, slot, stored, count, got, out, header, overrun>>

Host == ResetCount \/ Launch \/ ReadCount \/ WriteHeader
WorkItem(p) == Reject(p) \/ Claim(p) \/ Store(p) \/ Exit(p)

Next ==
    \/ Host
    \/ \E p \in Pixels : WorkItem(p)
    \/ EndOfStream

Spec == Init /\ [][Next]_vars

\* The runtime schedules every work-item of a launched kernel, and the task's
\* own thread keeps running.  Items never wait for one another here.
Fairness == WF_vars(Host) /\ \A p \in Pixels : WF_vars(WorkItem(p))
FairSpec == Spec /\ Fairness

-----------------------------------------------------------------------------
(* Properties. *)

Published == host = "idle" /\ image > 0

\* Record s of the output is the complete record of pixel p for this image.
RecordOf(s, p) == \A k \in Fields : out[Index(s, k)] = <<p, k, image>>

\* Two work-items of one launch never own the same record: the counter hands
\* every record out once, whatever the interleaving (hough.cl 115).
SlotsUnique ==
    \A p, q \in Pixels :
        /\ p # q
        /\ pc[p] \in {"store", "done"} /\ p \in hot
        /\ pc[q] \in {"store", "done"} /\ q \in hot
        => slot[p] # slot[q]

\* When process () returns and the image's candidates fit, the records the
\* header counts are exactly the hot pixels of THIS image: none is torn or
\* left over from an earlier image, none is missing and none is there twice.
PublishedExact ==
    Published /\ header <= MaxCand =>
        /\ \A s \in 0 .. header - 1 : \E p \in hot : RecordOf(s, p)
        /\ \A p \in hot : \E s \in 0 .. header - 1 :
              \A t \in 0 .. header - 1 : RecordOf(t, p) <=> t = s

\* The kernel never checks the size of the output, but the count it leaves
\* behind is complete, so the host could tell: the header is the number of hot
\* pixels even when they do not fit, and a store went outside the buffer
\* exactly when it exceeds MaxCand (line 125 against hough.cl 115-120).
OverrunVisible ==
    Published =>
        /\ header = Cardinality(hot)
        /\ overrun <=> header > MaxCand

\* A header appears only after the kernel that wrote its records has finished:
\* no step that changes it, or ends process (), leaves a work-item active.
HeaderAfterKernel ==
    [][header' # header \/ (host # "idle" /\ host' = "idle") => KernelFinished]_vars

\* Every image that enters the task leaves it: process () always returns.
EveryImagePublished ==
    \A n \in 1 .. MaxImages : (image = n) ~> (image = n /\ Published)

-----------------------------------------------------------------------------
(* What the task promises to the rest of the graph. *)

\* The list a reader of the output decodes, record after record.
DecodedList ==
    IF host # "idle" \/ image = 0 THEN <<>>
    ELSE IF header > MaxCand THEN "overflow"
    ELSE [i \in 1 .. header |->
             IF \E p \in Pixels : RecordOf(i - 1, p)
               THEN CHOOSE p \in Pixels : RecordOf(i - 1, p)
               ELSE "torn"]

Abstract == INSTANCE CandidateList WITH busy <- host # "idle", list <- DecodedList

\* Claims, stores, the asynchronous launch and the two transfers together
\* deliver the image's candidates in one atomic step, and do so eventually.
ImplementsCandidateList == Abstract!FairSpec

=============================================================================
