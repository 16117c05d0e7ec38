------------------------ MODULE HoughLikelihoodProofs ------------------------
(***************************************************************************)
(* Proofs about HoughLikelihood, for every set of work-items, every buffer *)
(* size and every number of images.                                        *)
(***************************************************************************)
EXTENDS HoughLikelihood, FiniteSetTheorems, TLAPS

-----------------------------------------------------------------------------
(* The inductive invariant, in parts. *)

\* The work-items that own a record of the image being processed.
Claimed == {p \in hot : pc[p] \in {"store", "done"}}

\* Where the work-items are when the host thread is where it is.
PhaseInv ==
    /\ host = "reset" => count = 0 /\ \A p \in Pixels : pc[p] = "wait"
    /\ host = "running" => \A p \in Pixels : pc[p] # "wait"
    /\ host = "read" \/ Published => KernelFinished
    /\ host = "idle" /\ image = 0 => hot = {} /\ \A p \in Pixels : pc[p] = "wait"
    /\ host # "idle" => image > 0
    /\ \A p \in Pixels : pc[p] = "store" => p \in hot
    /\ \A p \in Pixels : pc[p] = "test" => stored[p] = 0

\* The records handed out are 0 .. count - 1, each to one work-item.
SlotInv ==
    /\ \A p \in Claimed : slot[p] < count
    /\ \A p, q \in Claimed : p # q => slot[p] # slot[q]
    /\ \A s \in 0 .. count - 1 : \E p \in Claimed : slot[p] = s

\* The counter never misses a claim.
CountInv == count = Cardinality(Claimed)

\* What a work-item has stored is in its record, if that is in the buffer.
StoredInv ==
    /\ \A p \in Claimed : pc[p] = "done" => stored[p] = RecSize
    /\ \A p \in Claimed : \A k \in Fields :
          k < stored[p] /\ slot[p] < MaxCand => out[Index(slot[p], k)] = <<p, k, image>>

OverrunInv == overrun <=> \E p \in Claimed : slot[p] >= MaxCand /\ stored[p] > 0

\* The host has read the final count.
HeaderInv ==
    /\ host = "read" => got = count
    /\ Published => header = count

ClaimInv == PhaseInv /\ SlotInv /\ CountInv /\ StoredInv /\ OverrunInv /\ HeaderInv
IInv == TypeOK /\ ClaimInv

-----------------------------------------------------------------------------
(* Type correctness. *)

\* The floats of the records a pixel may store lie in the output.
LEMMA IndexRange ==
    ASSUME NEW s \in Nat, NEW k \in Fields
    PROVE  /\ Index(s, k) \in Nat
           /\ Index(s, k) \in Offset .. Dim - 1 <=> s < MaxCand
BY ConstantsAssumption DEF Index, Fields, RecSize, Offset, Dim

\* Two fields of records share a float only if they are the same field of one
\* record.
LEMMA IndexInjective ==
    ASSUME NEW s \in Nat, NEW k \in Fields, NEW t \in Nat, NEW l \in Fields,
           Index(s, k) = Index(t, l)
    PROVE  s = t /\ k = l
BY DEF Index, Fields, RecSize, Offset

\* Every variable keeps its type in every behaviour (TypeOK).
THEOREM TypeCorrect == Spec => []TypeOK
<1> USE ConstantsAssumption DEF TypeOK
<1>1. Init => TypeOK
  <2> SUFFICES ASSUME Init
               PROVE  TypeOK
    OBVIOUS
  <2>1. overrun \in BOOLEAN
    BY Zenon DEF Init
  <2>2. image \in 0 .. MaxImages /\ count \in Nat /\ got \in Nat /\ header \in Nat
    BY DEF Init
  <2>3. stored \in [Pixels -> 0 .. RecSize]
    BY DEF Init, RecSize
  <2>4. out \in [Offset .. Dim - 1 -> Cells]
    BY DEF Init, Cells
  <2>5. QED
    BY <2>1, <2>2, <2>3, <2>4 DEF Init
<1>2. TypeOK /\ [Next]_vars => TypeOK'
  <2> SUFFICES ASSUME TypeOK, [Next]_vars
               PROVE  TypeOK'
    OBVIOUS
  <2>1. CASE ResetCount
    <3>1. overrun' \in BOOLEAN
      BY <2>1, Zenon DEF ResetCount
    <3>2. QED
      BY <2>1, <3>1 DEF ResetCount
  <2>2. CASE Launch
    BY <2>2 DEF Launch, RecSize
  <2>3. CASE ReadCount
    BY <2>3 DEF ReadCount, items
  <2>4. CASE WriteHeader
    BY <2>4 DEF WriteHeader, items
  <2>5. ASSUME NEW p \in Pixels, Reject(p)
        PROVE  TypeOK'
    BY <2>5 DEF Reject
  <2>6. ASSUME NEW p \in Pixels, Claim(p)
        PROVE  TypeOK'
    BY <2>6 DEF Claim
  <2>7. ASSUME NEW p \in Pixels, Store(p)
        PROVE  TypeOK'
    <3> DEFINE c == <<p, stored[p], image>>
               i == Index(slot[p], stored[p])
    <3>1. stored[p] \in Fields
      BY <2>7 DEF Store, Fields, RecSize
    <3>2. stored' \in [Pixels -> 0 .. RecSize]
      BY <2>7 DEF Store, RecSize
    <3>3. CASE i \in Offset .. Dim - 1
      <4>1. c \in Cells
        BY <3>1 DEF Cells
      <4>2. QED
        BY <2>7, <3>2, <3>3, <4>1 DEF Store
    <3>4. CASE i \notin Offset .. Dim - 1
      BY <2>7, <3>2, <3>4 DEF Store
    <3>5. QED
      BY <3>3, <3>4
  <2>8. ASSUME NEW p \in Pixels, Exit(p)
        PROVE  TypeOK'
    BY <2>8 DEF Exit
  <2>9. CASE UNCHANGED vars
    BY <2>9 DEF vars
  <2>10. QED
    BY <2>1, <2>2, <2>3, <2>4, <2>5, <2>6, <2>7, <2>8, <2>9
       DEF Next, Host, WorkItem, EndOfStream
<1>3. QED
  BY <1>1, <1>2, PTL DEF Spec

-----------------------------------------------------------------------------
(* The claims and stores of the work-items. *)

\* A step that moves no work-item across `claimed' leaves the records alone.
LEMMA ClaimedUnchanged ==
    ASSUME Claimed' = Claimed, UNCHANGED <<slot, count>>, SlotInv, CountInv
    PROVE  SlotInv' /\ CountInv'
BY DEF SlotInv, CountInv

\* Before the first image no slot is claimed.
LEMMA InitClaimInv == Init => ClaimInv
<1> SUFFICES ASSUME Init
             PROVE  ClaimInv
  OBVIOUS
<1>1. Claimed = {}
  BY DEF Init, Claimed
<1>2. PhaseInv
  BY DEF Init, PhaseInv, Published
<1>3. SlotInv
  BY <1>1 DEF SlotInv, Init
<1>4. CountInv
  BY <1>1, FS_EmptySet DEF CountInv, Init
<1>5. StoredInv
  BY <1>1 DEF StoredInv
<1>6. OverrunInv
  BY <1>1, Zenon DEF OverrunInv, Init
<1>7. HeaderInv
  BY DEF HeaderInv, Init, Published
<1>8. QED
  BY <1>2, <1>3, <1>4, <1>5, <1>6, <1>7 DEF ClaimInv

\* The host thread's steps.
LEMMA HostStep ==
    ASSUME TypeOK, TypeOK', ClaimInv, Host
    PROVE  ClaimInv'
<1> USE DEF ClaimInv
<1>1. CASE ResetCount
  <2>1. Claimed' = {}
    BY <1>1 DEF ResetCount, Claimed, TypeOK
  <2>2. PhaseInv'
    BY <1>1 DEF ResetCount, PhaseInv, Published, TypeOK
  <2>3. SlotInv'
    BY <1>1, <2>1 DEF SlotInv, ResetCount
  <2>4. CountInv'
    BY <1>1, <2>1, FS_EmptySet DEF CountInv, ResetCount
  <2>5. StoredInv'
    BY <2>1 DEF StoredInv
  <2>6. OverrunInv'
    BY <1>1, <2>1, Zenon DEF OverrunInv, ResetCount
  <2>7. HeaderInv'
    BY <1>1 DEF HeaderInv, ResetCount, Published
  <2>8. QED
    BY <2>2, <2>3, <2>4, <2>5, <2>6, <2>7
<1>2. CASE Launch
  <2>1. Claimed = {} /\ Claimed' = {}
    BY <1>2 DEF Launch, Claimed, TypeOK, PhaseInv
  <2>2. PhaseInv'
    BY <1>2 DEF Launch, PhaseInv, Published, TypeOK
  <2>3. SlotInv' /\ CountInv'
    BY <1>2, <2>1 DEF SlotInv, CountInv, Launch, PhaseInv
  <2>5. StoredInv'
    BY <2>1 DEF StoredInv
  <2>6. OverrunInv'
    <3>1. ~ overrun
      BY <2>1, Zenon DEF OverrunInv
    <3>2. overrun' = overrun
      BY <1>2 DEF Launch
    <3>3. QED
      BY <2>1, <3>1, <3>2, Zenon DEF OverrunInv
  <2>7. HeaderInv'
    BY <1>2 DEF HeaderInv, Launch, Published
  <2>8. QED
    BY <2>2, <2>3, <2>5, <2>6, <2>7
<1>3. CASE ReadCount \/ WriteHeader
  <2>1. UNCHANGED <<image, hot, pc, slot, stored, count, out, overrun>>
    BY <1>3 DEF ReadCount, WriteHeader, items
  <2>2. Claimed' = Claimed
    BY <2>1 DEF Claimed
  <2>3. PhaseInv'
    BY <1>3, <2>1 DEF ReadCount, WriteHeader, PhaseInv, Published, KernelFinished
  <2>4. SlotInv' /\ CountInv'
    BY <2>1, <2>2, ClaimedUnchanged
  <2>5. StoredInv'
    BY <2>1, <2>2 DEF StoredInv
  <2>6. OverrunInv'
    BY <2>1, <2>2, Zenon DEF OverrunInv
  <2>7. HeaderInv'
    BY <1>3 DEF ReadCount, WriteHeader, HeaderInv, Published
  <2>8. QED
    BY <2>3, <2>4, <2>5, <2>6, <2>7
<1>4. QED
  BY <1>1, <1>2, <1>3 DEF Host

\* The work-items' steps.  Only Claim (p) changes who owns a record.
LEMMA WorkItemStep ==
    ASSUME TypeOK, TypeOK', ClaimInv, NEW p \in Pixels, WorkItem(p)
    PROVE  ClaimInv'
<1> USE DEF ClaimInv
<1>1. host = "running"
  BY DEF WorkItem, Reject, Claim, Store, Exit, PhaseInv, TypeOK, Published, KernelFinished
<1>2. UNCHANGED <<host, image, hot, got, header>>
  BY DEF WorkItem, Reject, Claim, Store, Exit
<1>3. PhaseInv'
  BY <1>1, <1>2 DEF WorkItem, Reject, Claim, Store, Exit, PhaseInv, TypeOK, Published
<1>4. HeaderInv'
  BY <1>1, <1>2 DEF HeaderInv, Published
<1>5. CASE Reject(p)
  <2>1. Claimed' = Claimed
    BY <1>5 DEF Reject, Claimed, TypeOK
  <2>2. SlotInv' /\ CountInv'
    BY <1>5, <2>1, ClaimedUnchanged DEF Reject
  <2>3. StoredInv'
    BY <1>5, <2>1 DEF StoredInv, Reject, Claimed, TypeOK
  <2>4. OverrunInv'
    BY <1>5, <2>1, Zenon DEF OverrunInv, Reject
  <2>5. QED
    BY <1>3, <1>4, <2>2, <2>3, <2>4
<1>6. CASE Claim(p)
  <2>1. p \notin Claimed /\ Claimed' = Claimed \cup {p}
    BY <1>6 DEF Claim, Claimed, TypeOK
  <2>2. SlotInv'
    <3>1. \A q \in Claimed' : slot'[q] = IF q = p THEN count ELSE slot[q]
      BY <1>6, <2>1 DEF Claim, TypeOK, Claimed
    <3>2. \A q \in Claimed' : slot'[q] < count'
      <4>1. count \in Nat /\ count' = count + 1
        BY <1>6 DEF Claim, TypeOK
      <4>2. \A q \in Claimed : slot[q] \in Nat /\ slot[q] < count
        BY DEF SlotInv, TypeOK, Claimed
      <4>3. QED
        BY <2>1, <3>1, <4>1, <4>2
    <3>3. \A q, r \in Claimed' : q # r => slot'[q] # slot'[r]
      <4>1. \A q \in Claimed : slot[q] # count
        BY DEF SlotInv, TypeOK, Claimed
      <4>2. \A q, r \in Claimed : q # r => slot[q] # slot[r]
        BY DEF SlotInv
      <4>3. QED
        BY <2>1, <3>1, <4>1, <4>2
    <3>4. \A s \in 0 .. count' - 1 : \E q \in Claimed' : slot'[q] = s
      <4> SUFFICES ASSUME NEW s \in 0 .. count' - 1
                   PROVE  \E q \in Claimed' : slot'[q] = s
        OBVIOUS
      <4>1. CASE s = count
        BY <2>1, <3>1, <4>1
      <4>2. CASE s # count
        <5>1. s \in 0 .. count - 1
          BY <1>6, <4>2 DEF Claim, TypeOK
        <5>2. PICK q \in Claimed : slot[q] = s
          BY <5>1 DEF SlotInv
        <5>3. QED
          BY <2>1, <3>1, <5>2
      <4>3. QED
        BY <4>1, <4>2
    <3>5. QED
      BY <3>2, <3>3, <3>4 DEF SlotInv
  <2>3. CountInv'
    <3>1. IsFiniteSet(Claimed)
      BY ConstantsAssumption, FS_Subset DEF Claimed, TypeOK
    <3>2. Cardinality(Claimed') = Cardinality(Claimed) + 1
      BY <2>1, <3>1, FS_AddElement
    <3>3. QED
      BY <1>6, <3>2 DEF Claim, CountInv
  <2>4. stored[p] = 0 /\ stored' = stored
    BY <1>6 DEF Claim, PhaseInv
  <2>5. StoredInv'
    <3>1. UNCHANGED <<out, image>> /\ pc'[p] = "store"
      BY <1>6 DEF Claim, TypeOK
    <3>2. \A q \in Claimed : slot'[q] = slot[q] /\ pc'[q] = pc[q]
      BY <1>6, <2>1 DEF Claim, TypeOK, Claimed
    <3>3. \A k \in Fields : ~ (k < stored'[p])
      BY <2>4 DEF Fields
    <3>4. QED
      BY <2>1, <2>4, <3>1, <3>2, <3>3 DEF StoredInv
  <2>6. OverrunInv'
    <3>1. overrun' = overrun
      BY <1>6 DEF Claim
    <3>2. \A q \in Claimed : slot'[q] = slot[q] /\ q # p
      BY <1>6, <2>1 DEF Claim, TypeOK, Claimed
    <3>3. (\E q \in Claimed' : slot'[q] >= MaxCand /\ stored'[q] > 0)
            <=> (\E q \in Claimed : slot[q] >= MaxCand /\ stored[q] > 0)
      BY <2>1, <2>4, <3>2
    <3>4. QED
      BY <3>1, <3>3, Zenon DEF OverrunInv
  <2>7. QED
    BY <1>3, <1>4, <2>2, <2>3, <2>5, <2>6
<1>7. CASE Store(p)
  <2>1. Claimed' = Claimed /\ p \in Claimed
    BY <1>7 DEF Store, Claimed, PhaseInv
  <2>2. SlotInv' /\ CountInv'
    BY <1>7, <2>1, ClaimedUnchanged DEF Store
  <2>3. stored[p] \in Fields /\ slot[p] \in Nat
    BY <1>7 DEF Store, Fields, TypeOK, RecSize
  <2>4. StoredInv'
    <3>1. \A q \in Claimed' : pc'[q] = "done" => stored'[q] = RecSize
      BY <1>7, <2>1 DEF Store, StoredInv, TypeOK, Claimed
    <3>2. ASSUME NEW q \in Claimed', NEW k \in Fields, k < stored'[q], slot'[q] < MaxCand
          PROVE  out'[Index(slot'[q], k)] = <<q, k, image'>>
      <4>1. slot' = slot /\ q \in Pixels /\ slot[q] \in Nat /\ slot[q] < MaxCand
        BY <1>7, <2>1, <3>2 DEF Store, TypeOK, Claimed
      <4>2. Index(slot[q], k) \in Offset .. Dim - 1
        BY <4>1, IndexRange
      <4>3. CASE q = p /\ k = stored[p]
        BY <1>7, <2>3, <4>1, <4>2, <4>3 DEF Store, TypeOK
      <4>4. CASE ~ (q = p /\ k = stored[p])
        <5>1. k < stored[q]
          BY <1>7, <2>3, <3>2, <4>1, <4>4 DEF Store, TypeOK, Fields, RecSize
        <5>2. out[Index(slot[q], k)] = <<q, k, image>>
          BY <2>1, <4>1, <5>1 DEF StoredInv
        <5>3. Index(slot[q], k) # Index(slot[p], stored[p])
          <6>1. slot[q] = slot[p] => q = p
            BY <2>1 DEF SlotInv
          <6>2. QED
            BY <2>3, <4>1, <4>4, <6>1, IndexInjective
        <5>4. out'[Index(slot[q], k)] = out[Index(slot[q], k)]
          BY <1>7, <4>2, <5>3 DEF Store, TypeOK
        <5>5. QED
          BY <1>2, <4>1, <5>2, <5>4
      <4>5. QED
        BY <4>3, <4>4
    <3>3. QED
      BY <3>1, <3>2 DEF StoredInv
  <2>5. OverrunInv'
    <3>1. slot[p] >= MaxCand <=> Index(slot[p], stored[p]) \notin Offset .. Dim - 1
      BY <2>3, IndexRange, ConstantsAssumption
    <3>2. stored'[p] > 0 /\ slot' = slot
          /\ \A q \in Pixels : q # p => stored'[q] = stored[q]
      BY <1>7, <2>3 DEF Store, TypeOK, Fields
    <3>3. \A q \in Claimed : q \in Pixels
      BY DEF Claimed, TypeOK
    <3>4. CASE slot[p] >= MaxCand
      <4>1. overrun'
        BY <1>7, <3>1, <3>4, Zenon DEF Store
      <4>2. \E q \in Claimed' : slot'[q] >= MaxCand /\ stored'[q] > 0
        BY <2>1, <3>2, <3>4
      <4>3. QED
        BY <4>1, <4>2, Zenon DEF OverrunInv
    <3>5. CASE ~ (slot[p] >= MaxCand)
      <4>1. overrun' = overrun
        BY <1>7, <3>1, <3>5, Zenon DEF Store
      <4>2. (\E q \in Claimed' : slot'[q] >= MaxCand /\ stored'[q] > 0)
              <=> (\E q \in Claimed : slot[q] >= MaxCand /\ stored[q] > 0)
        BY <2>1, <3>2, <3>3, <3>5
      <4>3. QED
        BY <4>1, <4>2, Zenon DEF OverrunInv
    <3>6. QED
      BY <3>4, <3>5
  <2>6. QED
    BY <1>3, <1>4, <2>2, <2>4, <2>5
<1>8. CASE Exit(p)
  <2>1. Claimed' = Claimed
    BY <1>8 DEF Exit, Claimed, TypeOK
  <2>2. SlotInv' /\ CountInv'
    BY <1>8, <2>1, ClaimedUnchanged DEF Exit
  <2>3. StoredInv'
    BY <1>8, <2>1 DEF StoredInv, Exit, Claimed, TypeOK
  <2>4. OverrunInv'
    BY <1>8, <2>1, Zenon DEF OverrunInv, Exit
  <2>5. QED
    BY <1>3, <1>4, <2>2, <2>3, <2>4
<1>9. QED
  BY <1>5, <1>6, <1>7, <1>8 DEF WorkItem

\* The inductive invariant holds in every behaviour.
THEOREM Invariance == Spec => []IInv
<1>1. Init => ClaimInv
  BY InitClaimInv
<1>2. TypeOK /\ TypeOK' /\ ClaimInv /\ [Next]_vars => ClaimInv'
  <2> SUFFICES ASSUME TypeOK, TypeOK', ClaimInv, [Next]_vars
               PROVE  ClaimInv'
    OBVIOUS
  <2>1. CASE Host
    BY <2>1, HostStep
  <2>2. ASSUME NEW p \in Pixels, WorkItem(p)
        PROVE  ClaimInv'
    BY <2>2, WorkItemStep
  <2>3. CASE UNCHANGED vars
    <3>1. Claimed' = Claimed
      BY <2>3 DEF vars, Claimed
    <3>2. PhaseInv' /\ HeaderInv'
      BY <2>3 DEF vars, ClaimInv, PhaseInv, HeaderInv, Published, KernelFinished
    <3>3. SlotInv' /\ CountInv'
      BY <2>3, <3>1, ClaimedUnchanged DEF vars, ClaimInv
    <3>4. StoredInv'
      BY <2>3, <3>1 DEF vars, ClaimInv, StoredInv
    <3>5. OverrunInv'
      BY <2>3, <3>1, Zenon DEF vars, ClaimInv, OverrunInv
    <3>6. QED
      BY <3>2, <3>3, <3>4, <3>5 DEF ClaimInv
  <2>4. QED
    BY <2>1, <2>2, <2>3 DEF Next, EndOfStream
<1>3. QED
  BY <1>1, <1>2, TypeCorrect, PTL DEF Spec, IInv

-----------------------------------------------------------------------------
(* What the invariant gives. *)

\* No two work-items of a launch own the same record (SlotsUnique).
THEOREM NoSharedSlot == Spec => []SlotsUnique
<1>1. IInv => SlotsUnique
  BY DEF IInv, ClaimInv, SlotInv, Claimed, SlotsUnique
<1>2. QED
  BY <1>1, Invariance, PTL

\* When process () returns every hot pixel has ended and owns a record.
LEMMA PublishedClaims ==
    ASSUME IInv, Published
    PROVE  /\ Claimed = hot
           /\ header = count
           /\ \A p \in hot : /\ p \in Pixels
                             /\ slot[p] \in Nat
                             /\ stored[p] = RecSize
                             /\ slot[p] < MaxCand => RecordOf(slot[p], p)
<1> USE DEF IInv, ClaimInv
<1>1. Claimed = hot
  BY DEF PhaseInv, KernelFinished, Claimed, TypeOK
<1>2. \A p \in hot : p \in Pixels /\ slot[p] \in Nat /\ stored[p] = RecSize
  BY <1>1 DEF PhaseInv, KernelFinished, StoredInv, TypeOK
<1>3. ASSUME NEW p \in hot, slot[p] < MaxCand
      PROVE  RecordOf(slot[p], p)
  BY <1>1, <1>2, <1>3 DEF StoredInv, RecordOf, Fields, RecSize
<1>4. QED
  BY <1>1, <1>2, <1>3 DEF HeaderInv

\* If they fit, the published records are the hot pixels of this image, all of
\* them, whole, and each once (PublishedExact).
THEOREM PublishedRecords == Spec => []PublishedExact
<1>1. ASSUME IInv, Published, header <= MaxCand
      PROVE  /\ \A s \in 0 .. header - 1 : \E p \in hot : slot[p] = s /\ RecordOf(s, p)
             /\ \A p \in hot : slot[p] \in 0 .. header - 1 /\ RecordOf(slot[p], p)
  <2>1. \A p \in hot : slot[p] \in 0 .. header - 1
    BY <1>1, PublishedClaims DEF IInv, ClaimInv, SlotInv, TypeOK
  <2>2. \A p \in hot : slot[p] < MaxCand
    BY <1>1, <2>1, ConstantsAssumption DEF IInv, TypeOK
  <2>3. \A p \in hot : RecordOf(slot[p], p)
    BY <1>1, <2>2, PublishedClaims
  <2>4. \A s \in 0 .. header - 1 : \E p \in hot : slot[p] = s
    BY <1>1, PublishedClaims DEF IInv, ClaimInv, SlotInv
  <2>5. QED
    BY <2>1, <2>3, <2>4
<1>2. \A s, p, q : RecordOf(s, p) /\ RecordOf(s, q) => p = q
  <2>1. 0 \in Fields
    BY DEF Fields, RecSize
  <2>2. QED
    BY <2>1 DEF RecordOf
<1>3. ASSUME IInv, Published, header <= MaxCand, NEW p \in hot
      PROVE  \E s \in 0 .. header - 1 : \A t \in 0 .. header - 1 : RecordOf(t, p) <=> t = s
  <2>1. slot[p] \in 0 .. header - 1 /\ RecordOf(slot[p], p)
    BY <1>1, <1>3
  <2>2. ASSUME NEW t \in 0 .. header - 1, RecordOf(t, p)
        PROVE  t = slot[p]
    <3>1. PICK q \in hot : slot[q] = t /\ RecordOf(t, q)
      BY <1>1, <1>3
    <3>2. QED
      BY <1>2, <2>2, <3>1
  <2>3. QED
    BY <2>1, <2>2
<1>4. IInv => PublishedExact
  BY <1>1, <1>3 DEF PublishedExact
<1>5. QED
  BY <1>4, Invariance, PTL

\* The header is complete even when the records are not (OverrunVisible).
THEOREM HeaderComplete == Spec => []OverrunVisible
<1>1. ASSUME IInv, Published
      PROVE  header = Cardinality(hot) /\ (overrun <=> header > MaxCand)
  <2> USE <1>1 DEF IInv, ClaimInv
  <2>1. header = Cardinality(hot)
    BY PublishedClaims DEF CountInv
  <2>2. (\E p \in Claimed : slot[p] >= MaxCand /\ stored[p] > 0) <=> header > MaxCand
    <3>1. ASSUME NEW p \in Claimed, slot[p] >= MaxCand
          PROVE  header > MaxCand
      <4>1. slot[p] < header /\ slot[p] \in Nat
        BY PublishedClaims DEF SlotInv
      <4>2. QED
        BY <3>1, <4>1, ConstantsAssumption DEF TypeOK
    <3>2. ASSUME header > MaxCand
          PROVE  \E p \in Claimed : slot[p] >= MaxCand /\ stored[p] > 0
      <4>1. MaxCand \in 0 .. count - 1
        BY <3>2, PublishedClaims, ConstantsAssumption DEF TypeOK
      <4>2. PICK p \in Claimed : slot[p] = MaxCand
        BY <4>1 DEF SlotInv
      <4>3. stored[p] > 0
        BY PublishedClaims DEF RecSize
      <4>4. QED
        BY <4>2, <4>3, ConstantsAssumption
    <3>3. QED
      BY <3>1, <3>2
  <2>3. QED
    BY <2>1, <2>2, Zenon DEF OverrunInv
<1>2. IInv => OverrunVisible
  BY <1>1, Zenon DEF OverrunVisible
<1>3. QED
  BY <1>2, Invariance, PTL

\* No header and no return before the end of the kernel (HeaderAfterKernel).
THEOREM HeaderLast == Spec => HeaderAfterKernel
<1>1. IInv /\ [Next]_vars =>
        [header' # header \/ (host # "idle" /\ host' = "idle") => KernelFinished]_vars
  <2> SUFFICES ASSUME IInv, Next, header' # header \/ (host # "idle" /\ host' = "idle")
               PROVE  KernelFinished
    OBVIOUS
  <2>1. WriteHeader
    BY DEF Next, Host, ResetCount, Launch, ReadCount, WorkItem,
           Reject, Claim, Store, Exit, EndOfStream, vars
  <2>2. QED
    BY <2>1 DEF WriteHeader, IInv, ClaimInv, PhaseInv
<1>2. QED
  BY <1>1, Invariance, PTL DEF Spec, HeaderAfterKernel

-----------------------------------------------------------------------------
(* HoughLikelihood implements CandidateList (its safety part). *)

\* What a reader decodes from a published output is a list of the hot pixels.
LEMMA DecodedBijection ==
    IInv /\ Published =>
        IF Cardinality(hot) <= MaxCand
          THEN DecodedList \in Abstract!Bijection(1 .. Cardinality(hot), hot)
          ELSE DecodedList = Abstract!Overflow
<1> SUFFICES ASSUME IInv, Published
             PROVE  IF Cardinality(hot) <= MaxCand
                      THEN DecodedList \in Abstract!Bijection(1 .. Cardinality(hot), hot)
                      ELSE DecodedList = Abstract!Overflow
  OBVIOUS
<1>1. Cardinality(hot) = header /\ header \in Nat /\ Claimed = hot
  BY PublishedClaims DEF IInv, ClaimInv, CountInv, TypeOK
<1>2. CASE header > MaxCand
  BY <1>1, <1>2, ConstantsAssumption DEF DecodedList, Abstract!Overflow, Published
<1>3. CASE header <= MaxCand
  <2>1. \A p \in hot : p \in Pixels /\ slot[p] \in 0 .. header - 1 /\ slot[p] < MaxCand
    BY <1>1, <1>3, PublishedClaims, ConstantsAssumption DEF IInv, ClaimInv, SlotInv, TypeOK
  <2>2. \A p \in hot : RecordOf(slot[p], p)
    BY <2>1, PublishedClaims
  <2>3. \A s \in 0 .. header - 1 : \E p \in hot : slot[p] = s
    BY <1>1, PublishedClaims DEF IInv, ClaimInv, SlotInv
  <2>4. \A s, p, q : RecordOf(s, p) /\ RecordOf(s, q) => p = q
    <3>1. 0 \in Fields
      BY DEF Fields, RecSize
    <3>2. QED
      BY <3>1 DEF RecordOf
  <2>5. \A p, q \in hot : p # q => slot[p] # slot[q]
    BY <1>1 DEF IInv, ClaimInv, SlotInv
  <2> DEFINE At(i) == IF \E p \in Pixels : RecordOf(i - 1, p)
                        THEN CHOOSE p \in Pixels : RecordOf(i - 1, p)
                        ELSE "torn"
  <2>6. DecodedList = [i \in 1 .. header |-> At(i)]
    BY <1>1, <1>3, ConstantsAssumption DEF DecodedList, Published
  <2>7. \A i \in 1 .. header : At(i) \in hot /\ slot[At(i)] = i - 1
    <3> SUFFICES ASSUME NEW i \in 1 .. header
                 PROVE  At(i) \in hot /\ slot[At(i)] = i - 1
      OBVIOUS
    <3>1. PICK p \in hot : slot[p] = i - 1
      BY <1>1, <2>3
    <3>2. p \in Pixels /\ RecordOf(i - 1, p)
      BY <2>1, <2>2, <3>1
    <3>3. At(i) = p
      BY <2>4, <3>2
    <3>4. QED
      BY <3>1, <3>3
  <2> HIDE DEF At
  <2>8. \A p \in hot : slot[p] + 1 \in 1 .. header /\ At(slot[p] + 1) = p
    <3> SUFFICES ASSUME NEW p \in hot
                 PROVE  slot[p] + 1 \in 1 .. header /\ At(slot[p] + 1) = p
      OBVIOUS
    <3>1. slot[p] + 1 \in 1 .. header /\ (slot[p] + 1) - 1 = slot[p]
      BY <1>1, <2>1
    <3>2. At(slot[p] + 1) \in hot /\ slot[At(slot[p] + 1)] = slot[p]
      BY <2>7, <3>1
    <3>3. QED
      BY <2>5, <3>1, <3>2
  <2>9. DecodedList \in [1 .. header -> hot]
    BY <2>6, <2>7
  <2>10. \A i, j \in 1 .. header : DecodedList[i] = DecodedList[j] => i = j
    BY <1>1, <2>6, <2>7
  <2>11. \A p \in hot : \E i \in 1 .. header : DecodedList[i] = p
    BY <2>6, <2>8
  <2>12. QED
    BY <1>1, <1>3, <2>9, <2>10, <2>11
       DEF Abstract!Bijection, Abstract!Injection, Abstract!Surjection, Abstract!IsInjective
<1>4. QED
  BY <1>1, <1>2, <1>3, ConstantsAssumption

\* Every behaviour of the task and its work-items is one of CandidateList:
\* ResetCount takes an image, WriteHeader delivers its list, and everything
\* in between stutters.
THEOREM RefinesCandidateList == Spec => Abstract!Spec
<1>1. Init => Abstract!Init
  BY DEF Init, Abstract!Init, DecodedList
<1>2. IInv /\ IInv' /\ [Next]_vars => [Abstract!Next]_(Abstract!vars)
  <2> SUFFICES ASSUME IInv, IInv', [Next]_vars
               PROVE  [Abstract!Next]_(Abstract!vars)
    OBVIOUS
  <2>1. CASE ResetCount
    <3>1. DecodedList' = <<>>
      BY <2>1 DEF ResetCount, DecodedList
    <3>2. Abstract!Take
      BY <2>1, <3>1 DEF ResetCount, Abstract!Take
    <3>3. QED
      BY <3>2 DEF Abstract!Next
  <2>2. CASE WriteHeader
    <3>1. UNCHANGED <<image, hot>> /\ host = "read" /\ host' = "idle" /\ Published'
      BY <2>2 DEF WriteHeader, Published, IInv, ClaimInv, PhaseInv, TypeOK
    <3>2. (IInv /\ Published =>
             IF Cardinality(hot) <= MaxCand
               THEN DecodedList \in Abstract!Bijection(1 .. Cardinality(hot), hot)
               ELSE DecodedList = Abstract!Overflow)'
      BY DecodedBijection, PTL
    <3>3. IF Cardinality(hot) <= MaxCand
            THEN DecodedList' \in Abstract!Bijection(1 .. Cardinality(hot), hot)
            ELSE DecodedList' = Abstract!Overflow
      BY <3>1, <3>2 DEF Abstract!Bijection, Abstract!Injection, Abstract!Surjection,
                        Abstract!IsInjective, Abstract!Overflow
    <3>4. Abstract!Cardinality(hot) = Cardinality(hot)
      BY DEF Abstract!Cardinality, Cardinality
    <3>5. Abstract!Deliver
      BY <3>1, <3>3, <3>4 DEF Abstract!Deliver
    <3>6. QED
      BY <3>5 DEF Abstract!Next
  <2>3. CASE Launch \/ ReadCount \/ \E p \in Pixels : WorkItem(p)
    <3>1. UNCHANGED <<image, hot>> /\ host # "idle" /\ host' # "idle"
      BY <2>3 DEF Launch, ReadCount, WorkItem, Reject, Claim, Store, Exit,
                  IInv, ClaimInv, PhaseInv, TypeOK, Published, KernelFinished
    <3>2. DecodedList = <<>> /\ DecodedList' = <<>>
      BY <3>1 DEF DecodedList
    <3>3. QED
      BY <3>1, <3>2 DEF Abstract!vars
  <2>4. CASE UNCHANGED vars
    BY <2>4 DEF vars, Abstract!vars, DecodedList, RecordOf
  <2>5. QED
    BY <2>1, <2>2, <2>3, <2>4 DEF Next, Host, EndOfStream
<1>3. QED
  BY <1>1, <1>2, Invariance, PTL DEF Spec, Abstract!Spec

=============================================================================
