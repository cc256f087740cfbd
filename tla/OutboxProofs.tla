---------------------------- MODULE OutboxProofs ----------------------------
(***************************************************************************)
(* Proofs about the transactional outbox, for any number of records,       *)
(* dispatchers, tenants and attempts.                                      *)
(***************************************************************************)
EXTENDS Outbox, TLAPS

(* A claimed record is open: settling a record always clears the claim.    *)
ClaimedIsOpen ==
  \A r \in Records : r \in published \cup poisoned => claimed_by[r] = NoOne

(* A dispatcher about to mark its record has seen the queue accept it.     *)
MarkAfterDelivery ==
  \A d \in Dispatchers : pc[d] = "mark" => cur[d] \in delivered

(* The inductive invariant: the properties of interest and the three facts *)
(* about claims, snapshots and local state that make them inductive.       *)
OutboxInv ==
  /\ TypeOK
  /\ PublishedWasDelivered
  /\ OneVerdict
  /\ AttemptAccounting
  /\ SnapshotCurrent
  /\ ClaimedIsOpen
  /\ MarkAfterDelivery

(* Type correctness holds initially and is kept by every step of           *)
(* OutboxService.add, dispatch_batch, a crash or the clock.                *)
LEMMA TypeStep == TypeOK /\ [Next]_vars => TypeOK'
<1> USE OutboxAssumption DEF TypeOK
<1> SUFFICES ASSUME TypeOK, [Next]_vars PROVE TypeOK'
  OBVIOUS
<1>1. CASE UNCHANGED vars
  BY <1>1 DEF vars, rows, procs
<1>2. ASSUME NEW r \in Records, Add(r) PROVE TypeOK'
  BY <1>2 DEF Add, procs
<1>3. ASSUME NEW r \in Records, BecomeAvailable(r) PROVE TypeOK'
  BY <1>3 DEF BecomeAvailable, procs
<1>4. ASSUME NEW r \in Records, ClaimExpires(r) PROVE TypeOK'
  BY <1>4 DEF ClaimExpires, procs
<1>5. ASSUME NEW d \in Dispatchers, NEW t \in WorkerTenants, Claim(d, t) PROVE TypeOK'
  <2>1. PICK B \in TopOf(Pending(t)) :
          /\ claimed_by' = [r \in Records |-> IF r \in B THEN d ELSE claimed_by[r]]
          /\ expired' = expired \ B
          /\ batch' = [batch EXCEPT ![d] = B]
          /\ seen' = [seen EXCEPT ![d] = [r \in Records |-> IF r \in B THEN attempts[r] ELSE 0]]
    BY <1>5 DEF Claim
  <2>2. B \subseteq accepted
    BY <2>1 DEF TopOf, Pending
  <2>3. QED
    BY <1>5, <2>1, <2>2 DEF Claim
<1>6. ASSUME NEW d \in Dispatchers, NEW r \in Records, NEW a \in BOOLEAN, NEW c \in BOOLEAN,
             Publish(d, r, a, c)
      PROVE TypeOK'
  BY <1>6 DEF Publish, NextUp, rows
<1>7. ASSUME NEW d \in Dispatchers, Mark(d) PROVE TypeOK'
  BY <1>7 DEF Mark, MarkRow, Advance
<1>8. ASSUME NEW d \in Dispatchers, MarkRaises(d) PROVE TypeOK'
  BY <1>8 DEF MarkRaises, MarkRow, rows
<1>9. ASSUME NEW d \in Dispatchers, Fail(d) PROVE TypeOK'
  BY <1>9 DEF Fail, FailRow, Advance
<1>10. ASSUME NEW d \in Dispatchers, Crash(d) PROVE TypeOK'
  BY <1>10 DEF Crash, rows
<1>11. QED
  BY <1>1, <1>2, <1>3, <1>4, <1>5, <1>6, <1>7, <1>8, <1>9, <1>10 DEF Next, Dispatch

(* The outbox is type correct in every reachable state.                    *)
THEOREM TypeCorrect == Spec => []TypeOK
<1>1. Init => TypeOK
  BY OutboxAssumption DEF Init, TypeOK
<1>2. QED
  BY <1>1, TypeStep, PTL DEF Spec

-----------------------------------------------------------------------------
(* What a claim transaction does, with the chosen batch named.             *)
LEMMA ClaimShape ==
  ASSUME NEW d \in Dispatchers, NEW t \in WorkerTenants, Claim(d, t)
  PROVE  \E B \in SUBSET Pending(t) :
           /\ claimed_by' = [r \in Records |-> IF r \in B THEN d ELSE claimed_by[r]]
           /\ batch' = [batch EXCEPT ![d] = B]
           /\ seen' = [seen EXCEPT ![d] = [r \in Records |-> IF r \in B THEN attempts[r] ELSE 0]]
           /\ pc' = [pc EXCEPT ![d] = "batch"]
           /\ UNCHANGED <<accepted, published, poisoned, attempts, delivered, cur>>
BY DEF Claim, TopOf

(* Every step keeps the inductive invariant.                               *)
LEMMA InvStep == OutboxInv /\ [Next]_vars => OutboxInv'
<1> USE OutboxAssumption
<1> SUFFICES ASSUME OutboxInv, [Next]_vars PROVE OutboxInv'
  OBVIOUS
<1>0. TypeOK /\ TypeOK'
  BY TypeStep DEF OutboxInv
<1> USE <1>0 DEF OutboxInv, PublishedWasDelivered, OneVerdict, AttemptAccounting,
                 SnapshotCurrent, ClaimedIsOpen, MarkAfterDelivery, TypeOK
<1>1. CASE UNCHANGED vars
  BY <1>1 DEF vars, rows, procs
<1>2. ASSUME NEW r \in Records, Add(r) PROVE OutboxInv'
  BY <1>2 DEF Add, procs
<1>3. ASSUME NEW r \in Records, BecomeAvailable(r) PROVE OutboxInv'
  BY <1>3 DEF BecomeAvailable, procs
<1>4. ASSUME NEW r \in Records, ClaimExpires(r) PROVE OutboxInv'
  BY <1>4 DEF ClaimExpires, procs
<1>5. ASSUME NEW d \in Dispatchers, NEW t \in WorkerTenants, Claim(d, t) PROVE OutboxInv'
  <2>1. PICK B \in SUBSET Pending(t) :
           /\ claimed_by' = [r \in Records |-> IF r \in B THEN d ELSE claimed_by[r]]
           /\ batch' = [batch EXCEPT ![d] = B]
           /\ seen' = [seen EXCEPT ![d] = [r \in Records |-> IF r \in B THEN attempts[r] ELSE 0]]
           /\ pc' = [pc EXCEPT ![d] = "batch"]
           /\ UNCHANGED <<accepted, published, poisoned, attempts, delivered, cur>>
    BY <1>5, ClaimShape
  <2>2. B \cap (published \cup poisoned) = {}
    BY <2>1 DEF Pending
  <2>3. SnapshotCurrent'
    BY <2>1
  <2>4. ClaimedIsOpen' /\ MarkAfterDelivery'
    BY <2>1, <2>2
  <2>5. QED
    BY <2>1, <2>3, <2>4
<1>6. ASSUME NEW d \in Dispatchers, NEW r \in Records, NEW a \in BOOLEAN, NEW c \in BOOLEAN,
             Publish(d, r, a, c)
      PROVE OutboxInv'
  BY <1>6 DEF Publish, rows
<1>7. ASSUME NEW d \in Dispatchers, Mark(d) PROVE OutboxInv'
  BY <1>7 DEF Mark, MarkRow, Advance
<1>8. ASSUME NEW d \in Dispatchers, MarkRaises(d) PROVE OutboxInv'
  <2>1. /\ pc[d] = "mark" /\ pc' = [pc EXCEPT ![d] = "fail"]
        /\ UNCHANGED <<batch, cur, seen>>
    BY <1>8 DEF MarkRaises
  <2>2. CASE MarkRow(d)
    BY <2>1, <2>2 DEF MarkRow
  <2>3. CASE UNCHANGED <<rows, delivered>>
    BY <2>1, <2>3 DEF rows
  <2>4. QED
    BY <1>8, <2>2, <2>3 DEF MarkRaises
<1>9. ASSUME NEW d \in Dispatchers, Fail(d) PROVE OutboxInv'
  <2> DEFINE r == cur[d]
  <2>1. r \in Records /\ r \in batch[d] /\ pc[d] = "fail"
    BY <1>9 DEF Fail
  <2>2. CASE claimed_by[r] # d
    <3>1. UNCHANGED <<attempts, claimed_by, poisoned, available, accepted, published, delivered>>
      BY <1>9, <2>2 DEF Fail, FailRow
    <3>2. QED
      BY <1>9, <2>1, <3>1 DEF Fail, Advance
  <2>3. CASE claimed_by[r] = d
    <3>0. seen[d][r] = attempts[r] /\ attempts[r] \in Nat /\ MaxAttempts \in Nat
      BY <2>1, <2>3
    <3>1. /\ attempts' = [attempts EXCEPT ![r] = attempts[r] + 1]
          /\ claimed_by' = [claimed_by EXCEPT ![r] = NoOne]
          /\ poisoned' = IF attempts[r] + 1 >= MaxAttempts THEN poisoned \cup {r} ELSE poisoned
          /\ UNCHANGED <<accepted, published, delivered>>
      BY <1>9, <2>3, <3>0 DEF Fail, FailRow
    <3>2. r \notin published \cup poisoned /\ attempts[r] < MaxAttempts
      <4>1. r \notin published /\ r \notin poisoned
        BY <2>1, <2>3
      <4>2. attempts[r] <= MaxAttempts /\ (r \in poisoned <=> attempts[r] = MaxAttempts)
        BY <2>1
      <4>3. attempts[r] # MaxAttempts
        BY <4>1, <4>2
      <4> HIDE DEF r
      <4>4. QED
        BY ONLY <3>0, <4>1, <4>2, <4>3
    <3>3. PublishedWasDelivered' /\ OneVerdict'
      <4>1. poisoned' \subseteq poisoned \cup {r}
        BY <3>1
      <4>2. QED
        BY <3>1, <3>2, <4>1
    <3>4. AttemptAccounting'
      <4> HIDE DEF r
      <4>2. SUFFICES ASSUME NEW q \in Records
                     PROVE  /\ attempts'[q] <= MaxAttempts
                            /\ q \in poisoned' <=> attempts'[q] = MaxAttempts
        BY DEF AttemptAccounting
      <4>3. CASE q = r
        <5>1. attempts'[q] = attempts[r] + 1
          BY <2>1, <3>1, <4>3
        <5>2. q \in poisoned' <=> attempts[r] + 1 >= MaxAttempts
          BY <3>1, <3>2, <4>3
        <5>3. QED
          BY <3>0, <3>2, <5>1, <5>2
      <4>4. CASE q # r
        BY <2>1, <3>1, <4>4
      <4>5. QED
        BY <4>3, <4>4
    <3>5. SnapshotCurrent' /\ MarkAfterDelivery'
      BY <1>9, <2>1, <3>1 DEF Fail, Advance
    <3>6. ClaimedIsOpen'
      BY <2>1, <3>1
    <3>7. QED
      BY <3>3, <3>4, <3>5, <3>6
  <2>4. QED
    BY <2>2, <2>3
<1>10. ASSUME NEW d \in Dispatchers, Crash(d) PROVE OutboxInv'
  BY <1>10 DEF Crash, rows
<1>11. QED
  BY <1>1, <1>2, <1>3, <1>4, <1>5, <1>6, <1>7, <1>8, <1>9, <1>10 DEF Next, Dispatch

LEMMA InvHolds == Spec => []OutboxInv
<1>1. Init => OutboxInv
  BY OutboxAssumption DEF Init, OutboxInv, TypeOK, PublishedWasDelivered, OneVerdict,
     AttemptAccounting, SnapshotCurrent, ClaimedIsOpen, MarkAfterDelivery
<1>2. QED
  BY <1>1, InvStep, PTL DEF Spec

(* dispatch_batch never records a record as published before the queue     *)
(* accepted it.                                                            *)
THEOREM NothingLost == Spec => []PublishedWasDelivered
BY InvHolds, PTL DEF OutboxInv

(* No interleaving of dispatchers, expired claims and crashes gives one    *)
(* record both verdicts.                                                   *)
THEOREM SingleVerdict == Spec => []OneVerdict
BY InvHolds, PTL DEF OutboxInv

(* Failures are counted exactly and poisoning happens exactly at the limit.*)
THEOREM ExactAttempts == Spec => []AttemptAccounting
BY InvHolds, PTL DEF OutboxInv

-----------------------------------------------------------------------------
(* One step, seen row by row: a settled row is left alone, and the failure *)
(* counter of an open row moves by at most one.                            *)
RowStep(r) ==
  /\ r \in published => r \in published' /\ r \notin poisoned'
  /\ r \in poisoned => r \in poisoned' /\ r \notin published'
  /\ r \in published \cup poisoned => attempts'[r] = attempts[r] /\ claimed_by'[r] = NoOne
  /\ attempts'[r] \in {attempts[r], attempts[r] + 1}

LEMMA RowStepHolds ==
  ASSUME OutboxInv, [Next]_vars, NEW r \in Records
  PROVE  RowStep(r)
<1> USE OutboxAssumption DEF OutboxInv, OneVerdict, SnapshotCurrent, ClaimedIsOpen, TypeOK, RowStep
<1>1. CASE UNCHANGED vars
  BY <1>1 DEF vars, rows, procs
<1>2. ASSUME NEW q \in Records, Add(q) \/ BecomeAvailable(q) \/ ClaimExpires(q) PROVE RowStep(r)
  BY <1>2 DEF Add, BecomeAvailable, ClaimExpires
<1>3. ASSUME NEW d \in Dispatchers, NEW t \in WorkerTenants, Claim(d, t) PROVE RowStep(r)
  BY <1>3, ClaimShape DEF Pending
<1>4. ASSUME NEW d \in Dispatchers, NEW q \in Records, NEW a \in BOOLEAN, NEW c \in BOOLEAN,
             Publish(d, q, a, c)
      PROVE RowStep(r)
  BY <1>4 DEF Publish, rows
<1>5. ASSUME NEW d \in Dispatchers, Mark(d) \/ MarkRaises(d) PROVE RowStep(r)
  BY <1>5 DEF Mark, MarkRaises, MarkRow, rows
<1>6. ASSUME NEW d \in Dispatchers, Fail(d) PROVE RowStep(r)
  BY <1>6 DEF Fail, FailRow
<1>7. ASSUME NEW d \in Dispatchers, Crash(d) PROVE RowStep(r)
  BY <1>7 DEF Crash, rows
<1>8. QED
  BY <1>1, <1>2, <1>3, <1>4, <1>5, <1>6, <1>7 DEF Next, Dispatch

(* A settled row is never written again, by any dispatcher.                *)
THEOREM FinalVerdict == Spec => SettledIsFinal
<1>1. OutboxInv /\ [Next]_vars => [\A r \in Records : RowStep(r)]_vars
  BY RowStepHolds
<1>2. Spec => [][\A r \in Records : RowStep(r)]_vars
  BY <1>1, InvHolds, PTL DEF Spec
<1>3. QED
  BY <1>2 DEF SettledIsFinal, RowStep

-----------------------------------------------------------------------------
(* Every outbox step is a step of the abstract delivery, or invisible.     *)
LEMMA DeliveryStep ==
  ASSUME OutboxInv, [Next]_vars
  PROVE  [D!Next]_(D!dvars)
<1> USE OutboxAssumption DEF OutboxInv, ClaimedIsOpen, MarkAfterDelivery, TypeOK,
        D!Next, D!dvars, D!Accept, D!Deliver, D!Confirm, D!GiveUp, D!Open
<1>1. CASE UNCHANGED vars
  BY <1>1 DEF vars, rows
<1>2. ASSUME NEW q \in Records, Add(q) PROVE D!Next
  BY <1>2 DEF Add
<1>3. ASSUME NEW q \in Records, BecomeAvailable(q) \/ ClaimExpires(q) PROVE UNCHANGED D!dvars
  BY <1>3 DEF BecomeAvailable, ClaimExpires
<1>4. ASSUME NEW d \in Dispatchers, NEW t \in WorkerTenants, Claim(d, t) PROVE UNCHANGED D!dvars
  BY <1>4 DEF Claim
<1>5. ASSUME NEW d \in Dispatchers, NEW q \in Records, NEW a \in BOOLEAN, NEW c \in BOOLEAN,
             Publish(d, q, a, c)
      PROVE [D!Next]_(D!dvars)
  BY <1>5 DEF Publish, NextUp, rows
<1>6. ASSUME NEW d \in Dispatchers, Mark(d) \/ MarkRaises(d) PROVE [D!Next]_(D!dvars)
  BY <1>6 DEF Mark, MarkRaises, MarkRow, rows
<1>7. ASSUME NEW d \in Dispatchers, Fail(d) PROVE [D!Next]_(D!dvars)
  BY <1>7 DEF Fail, FailRow
<1>8. ASSUME NEW d \in Dispatchers, Crash(d) PROVE UNCHANGED D!dvars
  BY <1>8 DEF Crash, rows
<1>9. QED
  BY <1>1, <1>2, <1>3, <1>4, <1>5, <1>6, <1>7, <1>8 DEF Next, Dispatch

(* The outbox implements at-least-once delivery with one final verdict.    *)
THEOREM OutboxImplementsDelivery == Spec => ImplementsDelivery
<1>1. Init => D!Init
  BY DEF Init, D!Init
<1>2. OutboxInv /\ [Next]_vars => [D!Next]_(D!dvars)
  BY DeliveryStep
<1>3. QED
  BY <1>1, <1>2, InvHolds, PTL DEF Spec, ImplementsDelivery, D!Spec
=============================================================================
