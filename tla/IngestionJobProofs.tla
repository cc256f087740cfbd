------------------------- MODULE IngestionJobProofs -------------------------
(***************************************************************************)
(* Proofs about one ingestion job, for any number of workers, requests,    *)
(* attempts and faults.  Each part of the type invariant is shown to be    *)
(* preserved by every action; the other invariants rest on it.             *)
(***************************************************************************)
EXTENDS IngestionJob, FiniteSetTheorems, TLAPS

(* A flush writes a row of the right shape.                                *)
LEMMA FlushType ==
  ASSUME job \in JobRow, NEW old \in JobRow, NEW new \in JobRow
  PROVE  Flush(old, new) \in JobRow
BY DEF Flush, JobRow

LEMMA NoViewType == NoView \in JobRow
BY JobAssumption DEF NoView, Row, JobRow, Statuses, Terminal, Stages

(* Rows written by the rejecting returns of _process.                      *)
LEMMA ReleasedType ==
  ASSUME NEW row \in JobRow, NEW status \in Statuses, NEW stage \in Stages
  PROVE  /\ Released(row) \in JobRow
         /\ Released([row EXCEPT !.status = status, !.stage = stage]) \in JobRow
BY DEF Released, JobRow

(* The row an attempt leaves behind, with or without a scheduled retry.    *)
LEMMA OutcomeType ==
  ASSUME RowsOK, NEW w \in Workers, NEW status \in Statuses, NEW stage \in Stages
  PROVE  /\ Outcome(w, status, stage) \in JobRow
         /\ \A n \in 0..MaxAttempts : [Outcome(w, status, stage) EXCEPT !.next = n] \in JobRow
<1>1. job \in JobRow /\ view[w].attempts + 1 \in Nat
  BY DEF RowsOK, JobRow
<1>2. Outcome(w, status, stage) \in JobRow
  BY <1>1 DEF Outcome, JobRow
<1>3. ASSUME NEW n \in 0..MaxAttempts, NEW row \in JobRow PROVE [row EXCEPT !.next = n] \in JobRow
  BY DEF JobRow
<1>4. QED
  BY <1>2, <1>3

(* The committed row and every session's copy of it keep their shape.      *)
LEMMA RowsStep == TypeOK /\ [Next]_vars => RowsOK'
<1> SUFFICES ASSUME RowsOK, MessagesOK, [Next]_vars PROVE RowsOK'
  BY DEF TypeOK
<1> USE NoViewType DEF RowsOK
<1>1. CASE UNCHANGED <<job, view, reqview>>
  BY <1>1 DEF JobRow, Requests
<1>2. CASE RecoverExpired
  <2> DEFINE row == [job EXCEPT !.claimed_by = NoOne, !.lease = "none"]
  <2>1. row \in JobRow
    BY DEF JobRow
  <2>2. \/ job' = [row EXCEPT !.status = "cancelled", !.stage = "cancelled"]
        \/ job' = [row EXCEPT !.status = "failed", !.stage = "retry_exhausted"]
        \/ job' = [row EXCEPT !.status = "queued", !.stage = "retry_scheduled", !.next = Due]
    BY <1>2 DEF RecoverExpired
  <2>3. {"cancelled", "failed", "queued"} \subseteq Statuses
        /\ {"cancelled", "retry_exhausted", "retry_scheduled"} \subseteq Stages
        /\ Due \in 0..MaxAttempts \cup {NoOne}
    BY JobAssumption DEF Statuses, Terminal, Stages, Due
  <2> HIDE DEF row
  <2>4. ASSUME NEW s \in Statuses, NEW t \in Stages, NEW n \in 0..MaxAttempts \cup {NoOne}
        PROVE  /\ [row EXCEPT !.status = s, !.stage = t] \in JobRow
               /\ [row EXCEPT !.status = s, !.stage = t, !.next = n] \in JobRow
    BY <2>1 DEF JobRow
  <2>5. /\ [row EXCEPT !.status = "cancelled", !.stage = "cancelled"] \in JobRow
        /\ [row EXCEPT !.status = "failed", !.stage = "retry_exhausted"] \in JobRow
    BY ONLY <2>3, <2>4, Due \in 0..MaxAttempts \cup {NoOne}
  <2>6. [row EXCEPT !.status = "queued", !.stage = "retry_scheduled", !.next = Due] \in JobRow
    BY ONLY <2>3, <2>4
  <2>7. job' \in JobRow
    BY ONLY <2>2, <2>5, <2>6
  <2>8. QED
    BY <1>2, <2>7 DEF RecoverExpired, requests
<1>3. CASE LeaseExpires
  <2>1. job' \in JobRow
    BY <1>3 DEF LeaseExpires, JobRow
  <2>2. QED
    BY <1>3, <2>1 DEF LeaseExpires, requests
<1>4. ASSUME NEW k \in delayed, BackoffEnds(k) PROVE RowsOK'
  <2>1. job' \in JobRow
    BY <1>4, JobAssumption DEF BackoffEnds, JobRow, Due
  <2>2. QED
    BY <1>4, <2>1 DEF BackoffEnds, requests
<1>5. ASSUME NEW w \in Workers, Claim(w) PROVE RowsOK'
  <2>1. job' \in JobRow
    BY <1>5 DEF Claim, JobRow, Statuses
  <2>2. QED
    BY <1>5, <2>1 DEF Claim, requests
<1>6. ASSUME NEW w \in Workers, Heartbeat(w) PROVE RowsOK'
  <2>1. job' \in JobRow
    BY <1>6 DEF Heartbeat, JobRow
  <2>2. QED
    BY <1>6, <2>1 DEF Heartbeat, requests
<1>7. ASSUME NEW w \in Workers, NEW row \in JobRow, Settle(w, row), UNCHANGED requests PROVE RowsOK'
  BY <1>7 DEF Settle, requests
<1>8. ASSUME NEW w \in Workers, RejectTenant(w) \/ RejectStale(w) \/ SkipUnchanged(w) PROVE RowsOK'
  <2>1. \A s \in Statuses, t \in Stages :
          Flush(view[w], Released([view[w] EXCEPT !.status = s, !.stage = t])) \in JobRow
    BY FlushType, ReleasedType
  <2>2. Flush(view[w], Released(view[w])) \in JobRow
    BY FlushType, ReleasedType DEF Statuses, Stages
  <2>3. {"cancelled", "failed"} \subseteq Statuses
        /\ {"tenant_lifecycle_rejected", "tenant_context_stale"} \subseteq Stages
    BY DEF Statuses, Terminal, Stages
  <2>4. CASE RejectTenant(w)
    BY <1>7, <2>1, <2>3, <2>4 DEF RejectTenant
  <2>5. CASE RejectStale(w)
    BY <1>7, <2>1, <2>3, <2>5 DEF RejectStale
  <2>6. CASE SkipUnchanged(w)
    BY <1>7, <2>2, <2>6 DEF SkipUnchanged
  <2>7. QED
    BY <1>8, <2>4, <2>5, <2>6
<1>9. ASSUME NEW w \in Workers,
             CheckCancelled(w) \/ Succeed(w) \/ FailFinally(w) \/ FailTransiently(w)
      PROVE RowsOK'
  <2>1. {"cancelled", "succeeded", "failed", "queued"} \subseteq Statuses
        /\ {"cancelled", "published", "failed", "retry_scheduled"} \subseteq Stages
    BY DEF Statuses, Terminal, Stages
  <2>2. CASE CheckCancelled(w)
    BY <1>7, <2>1, <2>2, OutcomeType DEF CheckCancelled
  <2>3. CASE Succeed(w)
    BY <1>7, <2>1, <2>3, OutcomeType DEF Succeed
  <2>4. CASE FailFinally(w)
    BY <1>7, <2>1, <2>4, OutcomeType DEF FailFinally
  <2>5. CASE FailTransiently(w)
    <3>1. view[w].attempts + 1 \in 0..MaxAttempts
      BY <2>5, JobAssumption DEF FailTransiently, JobRow
    <3>2. QED
      BY <1>7, <2>1, <2>5, <3>1, OutcomeType DEF FailTransiently
  <2>6. QED
    BY <1>9, <2>2, <2>3, <2>4, <2>5
<1>10. ASSUME NEW w \in Workers, CheckLost(w) \/ Abort(w) \/ Crash(w) PROVE RowsOK'
  BY <1>10 DEF CheckLost, Abort, Crash, RollBack, requests
<1>11. ASSUME NEW q \in Requests, UNCHANGED <<job, view>>,
              \E row \in JobRow : reqview' = [reqview EXCEPT ![q] = row]
       PROVE RowsOK'
  BY <1>11
<1>12. ASSUME NEW q \in Requests, CancelWrite(q) PROVE RowsOK'
  <2>1. [reqview[q] EXCEPT !.cancelled = TRUE, !.status = "cancelled"] \in JobRow
    BY DEF JobRow, Statuses, Terminal
  <2>2. job' \in JobRow
    BY <1>12, <2>1, FlushType DEF CancelWrite
  <2>3. QED
    BY <1>12, <2>2 DEF CancelWrite, Done
<1>13. ASSUME NEW q \in Requests, RetryWrite(q) PROVE RowsOK'
  <2> DEFINE new == [reqview[q] EXCEPT !.cancelled = FALSE, !.status = "queued"]
             row == Flush(reqview[q], new)
  <2>1. new \in JobRow
    BY DEF JobRow, Statuses
  <2>2. row \in JobRow
    BY <2>1, FlushType
  <2>3. job' = [row EXCEPT !.next = Due]
    BY <1>13 DEF RetryWrite
  <2> HIDE DEF row
  <2>4. job' \in JobRow
    BY <2>2, <2>3, JobAssumption DEF JobRow, Due
  <2>5. QED
    BY <1>13, <2>4 DEF RetryWrite, Done
<1>14. CASE \E q \in Requests : CancelRead(q) \/ RetryRead(q)
  <2>1. PICK q \in Requests : CancelRead(q) \/ RetryRead(q)
    BY <1>14
  <2>2. reqview' = [reqview EXCEPT ![q] = job] \/ reqview' = [reqview EXCEPT ![q] = NoView]
    BY <2>1 DEF CancelRead, RetryRead, Read
  <2>3. QED
    BY <1>11, <2>1, <2>2 DEF CancelRead, RetryRead
<1>15. CASE Dispatch \/ DispatchTwice \/ Poison \/ TenantChanges
  BY <1>1, <1>15 DEF Dispatch, DispatchTwice, Poison, TenantChanges, requests
<1>16. CASE \E w \in Workers : Receive(w) \/ ClaimMiss(w) \/ Ack(w) \/ Nack(w)
                               \/ Begin(w) \/ CheckPasses(w)
  BY <1>1, <1>16 DEF Receive, ClaimMiss, Ack, Nack, Begin, CheckPasses, requests
<1>17. CASE UNCHANGED vars
  BY <1>1, <1>17 DEF vars, requests
<1>18. QED
  <2> HIDE DEF RowsOK
  <2>1. QED
    BY <1>2, <1>3, <1>4, <1>5, <1>6, <1>8, <1>9, <1>10, <1>12, <1>13, <1>14, <1>15, <1>16, <1>17
       DEF Next, WorkerStep, ProcessStep, Requests

(* The row lock is held exactly by the worker inside an attempt.           *)
LEMMA ProcessesStep == TypeOK /\ [Next]_vars => ProcessesOK'
<1> SUFFICES ASSUME ProcessesOK, [Next]_vars PROVE ProcessesOK'
  BY DEF TypeOK
<1> USE JobAssumption DEF ProcessesOK
<1>1. CASE UNCHANGED <<lock, pc, heartbeat>>
  BY <1>1
<1>2. ASSUME NEW w \in Workers, NEW to \in PcValues \ Attempting,
             Goto(w, to), lock' = IF lock = w THEN NoOne ELSE lock, heartbeat' \in [Workers -> BOOLEAN]
      PROVE ProcessesOK'
  BY <1>2 DEF Goto
<1>3. ASSUME NEW w \in Workers, NEW to \in Attempting,
             Goto(w, to), lock \in {NoOne, w}, lock' = w, UNCHANGED heartbeat
      PROVE ProcessesOK'
  BY <1>3 DEF Goto, PcValues
<1>4. {"idle", "received", "claimed", "acking", "nacking", "dead"} \subseteq PcValues \ Attempting
  BY DEF PcValues, Attempting
<1>5. CASE Dispatch \/ DispatchTwice \/ Poison \/ RecoverExpired \/ LeaseExpires \/ TenantChanges
           \/ (\E k \in delayed : BackoffEnds(k))
  BY <1>1, <1>5 DEF Dispatch, DispatchTwice, Poison, RecoverExpired, LeaseExpires, TenantChanges, BackoffEnds
<1>6. CASE \E q \in Requests : CancelRead(q) \/ CancelWrite(q) \/ RetryRead(q) \/ RetryWrite(q)
  BY <1>1, <1>6 DEF CancelRead, CancelWrite, RetryRead, RetryWrite
<1>7. ASSUME NEW w \in Workers, Heartbeat(w) PROVE ProcessesOK'
  BY <1>7 DEF Heartbeat, HeartbeatHits
<1>8. ASSUME NEW w \in Workers, NEW to \in PcValues \ Attempting,
             Goto(w, to), pc[w] \notin Attempting, UNCHANGED lock, heartbeat' \in [Workers -> BOOLEAN]
      PROVE ProcessesOK'
  BY <1>2, <1>8
<1>9. ASSUME NEW w \in Workers, Receive(w) \/ Claim(w) \/ ClaimMiss(w) \/ Ack(w) \/ Nack(w)
      PROVE ProcessesOK'
  <2>1. pc[w] \notin Attempting
    BY <1>9 DEF Receive, Claim, ClaimMiss, Ack, Nack, Attempting
  <2>2. heartbeat' \in [Workers -> BOOLEAN]
    BY <1>9 DEF Receive, Claim, ClaimMiss, Ack, Nack
  <2>3. QED
    BY <1>4, <1>8, <1>9, <2>1, <2>2 DEF Receive, Claim, ClaimMiss, Ack, Nack
<1>10. ASSUME NEW w \in Workers, \E row : Settle(w, row) PROVE ProcessesOK'
  BY <1>2, <1>4, <1>10 DEF Settle
<1>11. ASSUME NEW w \in Workers, CheckLost(w) \/ Abort(w) \/ Crash(w) PROVE ProcessesOK'
  <2>1. CASE Crash(w)
    BY <1>2, <1>4, <2>1 DEF Crash
  <2>2. CASE RollBack(w)
    BY <1>2, <1>4, <2>2 DEF RollBack
  <2>3. QED
    BY <1>11, <2>1, <2>2 DEF CheckLost, Abort
<1>12. ASSUME NEW w \in Workers, Begin(w) PROVE ProcessesOK'
  BY <1>3, <1>12 DEF Begin, Attempting
<1>13. ASSUME NEW w \in Workers, CheckPasses(w) PROVE ProcessesOK'
  <2>1. pc[w] \in Attempting
    BY <1>13 DEF CheckPasses, Attempting
  <2>2. PICK to \in Attempting : Goto(w, to)
    BY <1>13 DEF CheckPasses, Attempting
  <2>3. QED
    BY <1>3, <1>13, <2>1, <2>2 DEF CheckPasses
<1>14. CASE UNCHANGED vars
  BY <1>1, <1>14 DEF vars
<1>15. ASSUME NEW w \in Workers, ProcessStep(w) PROVE ProcessesOK'
  BY <1>10, <1>11, <1>12, <1>13, <1>15
     DEF ProcessStep, RejectTenant, RejectStale, SkipUnchanged, CheckCancelled, Succeed,
         FailFinally, FailTransiently
<1>16. QED
  <2> HIDE DEF ProcessesOK
  <2>1. QED
    BY <1>5, <1>6, <1>7, <1>9, <1>11, <1>14, <1>15 DEF Next, WorkerStep, Requests

(* Counters of messages stay natural numbers, delayed retries are attempts *)
(* below the limit.                                                        *)
LEMMA MessagesStep == TypeOK /\ [Next]_vars => MessagesOK'
<1> SUFFICES ASSUME RowsOK, MessagesOK, [Next]_vars PROVE MessagesOK'
  BY DEF TypeOK
<1>1. ASSUME UNCHANGED messages PROVE MessagesOK'
  BY <1>1 DEF MessagesOK, messages
<1>2. ASSUME UNCHANGED delayed,
             outbox' \in {outbox, outbox + 1} \/ (outbox > 0 /\ outbox' = outbox - 1),
             queue' \in {queue, queue + 1} \/ (queue > 0 /\ queue' = queue - 1)
      PROVE MessagesOK'
  BY <1>2 DEF MessagesOK
<1>3. CASE Dispatch \/ DispatchTwice \/ Poison \/ RecoverExpired
  BY <1>2, <1>3 DEF Dispatch, DispatchTwice, Poison, RecoverExpired
<1>4. ASSUME NEW k \in delayed, BackoffEnds(k) PROVE MessagesOK'
  BY <1>4 DEF BackoffEnds, MessagesOK
<1>5. ASSUME NEW w \in Workers, Receive(w) \/ Nack(w) \/ Crash(w) PROVE MessagesOK'
  BY <1>2, <1>5 DEF Receive, Nack, Crash
<1>6. ASSUME NEW w \in Workers, FailTransiently(w) PROVE MessagesOK'
  <2>1. view[w].attempts + 1 \in 1..MaxAttempts
    BY <1>6, JobAssumption DEF FailTransiently, RowsOK, JobRow
  <2>2. QED
    BY <1>6, <2>1 DEF FailTransiently, MessagesOK
<1>7. ASSUME NEW q \in RetryRequests, RetryWrite(q) PROVE MessagesOK'
  BY <1>2, <1>7 DEF RetryWrite
<1>8. CASE LeaseExpires \/ TenantChanges \/ UNCHANGED vars
           \/ (\E q \in Requests : CancelRead(q) \/ CancelWrite(q) \/ RetryRead(q))
  BY <1>1, <1>8 DEF LeaseExpires, TenantChanges, vars, CancelRead, CancelWrite, RetryRead
<1>9. ASSUME NEW w \in Workers, Claim(w) \/ ClaimMiss(w) \/ Ack(w) \/ Heartbeat(w) \/ Abort(w)
      PROVE MessagesOK'
  BY <1>1, <1>9 DEF Claim, ClaimMiss, Ack, Heartbeat, Abort, RollBack
<1>10. ASSUME NEW w \in Workers, ProcessStep(w) PROVE MessagesOK'
  BY <1>1, <1>6, <1>10
     DEF ProcessStep, RejectTenant, RejectStale, SkipUnchanged, Begin, CheckPasses, CheckCancelled,
         CheckLost, RollBack, Succeed, FailFinally
<1>11. QED
  BY <1>3, <1>4, <1>5, <1>7, <1>8, <1>9, <1>10 DEF Next, WorkerStep, Requests

(* The requests' progress, the tenant and the history counters.            *)
LEMMA ContextStep == TypeOK /\ [Next]_vars => ContextOK'
<1> SUFFICES ASSUME ContextOK, [Next]_vars PROVE ContextOK'
  BY DEF TypeOK
<1> USE DEF ContextOK, environment, history, requests
<1>1. ASSUME UNCHANGED <<environment, req>>,
             publications' \in {publications, publications + 1},
             starts' \in {starts, starts + 1}, faults' \in {faults, faults + 1},
             poisoned' \in BOOLEAN
      PROVE ContextOK'
  BY <1>1
<1>2. CASE UNCHANGED vars
  BY <1>1, <1>2 DEF vars
<1>3. CASE Dispatch \/ DispatchTwice \/ Poison \/ RecoverExpired \/ LeaseExpires
           \/ (\E k \in delayed : BackoffEnds(k))
  <2>1. /\ UNCHANGED <<environment, req, publications, starts>>
        /\ faults' \in {faults, faults + 1}
    BY <1>3 DEF Dispatch, DispatchTwice, Poison, RecoverExpired, LeaseExpires, BackoffEnds
  <2>2. poisoned' \in BOOLEAN
    BY <1>3, Zenon DEF Dispatch, DispatchTwice, Poison, RecoverExpired, LeaseExpires, BackoffEnds
  <2>3. QED
    BY <1>1, <2>1, <2>2
<1>4. CASE TenantChanges
  BY <1>4 DEF TenantChanges
<1>5. ASSUME NEW w \in Workers,
             Receive(w) \/ Claim(w) \/ ClaimMiss(w) \/ Ack(w) \/ Nack(w) \/ Heartbeat(w)
             \/ Abort(w) \/ Crash(w)
      PROVE ContextOK'
  BY <1>1, <1>5 DEF Receive, Claim, ClaimMiss, Ack, Nack, Heartbeat, Abort, RollBack, Crash
<1>6. ASSUME NEW w \in Workers, ProcessStep(w) PROVE ContextOK'
  BY <1>1, <1>6
     DEF ProcessStep, RejectTenant, RejectStale, SkipUnchanged, Begin, CheckPasses, CheckCancelled,
         CheckLost, RollBack, Succeed, FailFinally, FailTransiently
<1>7. ASSUME NEW q \in Requests, CancelRead(q) \/ CancelWrite(q) \/ RetryRead(q) \/ RetryWrite(q)
      PROVE ContextOK'
  <2>1. \E r \in {"read", "done", "conflict"} : req' = [req EXCEPT ![q] = r]
    BY <1>7 DEF CancelRead, CancelWrite, RetryRead, RetryWrite, Read, Done
  <2>2. UNCHANGED <<environment, publications, starts, faults>>
    BY <1>7 DEF CancelRead, CancelWrite, RetryRead, RetryWrite
  <2>3. poisoned' \in BOOLEAN
    BY <1>7, Zenon DEF CancelRead, CancelWrite, RetryRead, RetryWrite
  <2>4. QED
    BY <2>1, <2>2, <2>3
<1>8. QED
  <2> HIDE DEF ContextOK
  <2>1. QED
    BY <1>2, <1>3, <1>4, <1>5, <1>6, <1>7 DEF Next, WorkerStep, Requests

LEMMA InitType == Init => TypeOK
<1> SUFFICES ASSUME Init PROVE TypeOK
  OBVIOUS
<1>1. Row("succeeded", "unchanged") \in JobRow /\ Row("queued", "stored") \in JobRow
  BY JobAssumption DEF Row, JobRow, Statuses, Terminal, Stages
<1>2. RowsOK
  BY <1>1, NoViewType DEF Init, RowsOK
<1>3. ProcessesOK
  BY JobAssumption DEF Init, ProcessesOK, PcValues, Attempting
<1>4. MessagesOK /\ ContextOK
  BY JobAssumption DEF Init, MessagesOK, ContextOK
<1>5. QED
  BY <1>2, <1>3, <1>4 DEF TypeOK

(* The job row, the sessions, the messages and the requests are well typed *)
(* and at most one worker is inside an attempt, in every reachable state.  *)
THEOREM JobTypeCorrect == Spec => []TypeOK
<1>1. TypeOK /\ [Next]_vars => TypeOK'
  BY RowsStep, ProcessesStep, MessagesStep, ContextStep DEF TypeOK
<1>2. QED
  BY <1>1, InitType, PTL DEF Spec

-----------------------------------------------------------------------------
(* While a worker is inside an attempt nobody else changes whom the job    *)
(* belongs to: other steps touch at most its lease and its next attempt.   *)
LEMMA LockedRow ==
  ASSUME TypeOK, NEW w \in Workers, [Next]_vars, pc[w] \in Attempting, pc'[w] \in Attempting
  PROVE  /\ job'.status = job.status /\ job'.claimed_by = job.claimed_by
         /\ job'.cancelled = job.cancelled
         /\ pc'[w] = pc[w] \/ CheckPasses(w)
<1> DEFINE Goal == /\ job'.status = job.status /\ job'.claimed_by = job.claimed_by
                   /\ job'.cancelled = job.cancelled
                   /\ pc'[w] = pc[w] \/ CheckPasses(w)
<1>1. job \in JobRow /\ lock = w /\ lock # NoOne /\ pc \in [Workers -> PcValues]
  BY JobAssumption DEF TypeOK, RowsOK, ProcessesOK
<1>2. CASE UNCHANGED <<job, pc>>
  BY <1>2
<1>3. CASE Dispatch \/ DispatchTwice \/ Poison \/ TenantChanges \/ UNCHANGED vars
  BY <1>2, <1>3 DEF Dispatch, DispatchTwice, Poison, TenantChanges, vars
<1>4. CASE LeaseExpires
  BY <1>1, <1>4 DEF LeaseExpires, JobRow
<1>5. ASSUME NEW k \in delayed, BackoffEnds(k) PROVE Goal
  BY <1>1, <1>5 DEF BackoffEnds, JobRow
<1>6. ASSUME NEW v \in Workers, v # w,
             Receive(v) \/ ClaimMiss(v) \/ Ack(v) \/ Nack(v) \/ Abort(v) \/ Crash(v)
      PROVE Goal
  BY <1>1, <1>6 DEF Receive, ClaimMiss, Ack, Nack, Abort, RollBack, Crash, Goto
<1>7. ASSUME NEW v \in Workers, v # w, Claim(v) \/ Heartbeat(v) \/ ProcessStep(v) PROVE Goal
  <2>1. pc[v] \notin Attempting
    BY <1>1, <1>7 DEF TypeOK, ProcessesOK
  <2>2. QED
    BY <1>1, <1>7, <2>1
       DEF Claim, Heartbeat, ProcessStep, RejectTenant, RejectStale, SkipUnchanged, Begin, CheckPasses,
           CheckCancelled, CheckLost, Succeed, FailFinally, FailTransiently, Attempting
<1>8. ASSUME WorkerStep(w) \/ Heartbeat(w) \/ Abort(w) \/ Crash(w) PROVE Goal
  <2>1. CASE CheckPasses(w)
    BY <2>1 DEF CheckPasses
  <2>2. CASE Heartbeat(w)
    BY <1>1, <2>2 DEF Heartbeat
  <2>3. CASE \E row : Settle(w, row)
    BY <1>1, <2>3 DEF Settle, Goto, Attempting
  <2>4. CASE RollBack(w) \/ Crash(w)
    BY <1>1, <2>4 DEF RollBack, Crash, Goto, Attempting
  <2>5. CASE Receive(w) \/ Claim(w) \/ ClaimMiss(w) \/ Ack(w) \/ Nack(w) \/ Begin(w)
    BY <1>1, <2>5 DEF Receive, Claim, ClaimMiss, Ack, Nack, Begin, Attempting
  <2>6. QED
    BY <1>8, <2>1, <2>2, <2>3, <2>4, <2>5
       DEF WorkerStep, ProcessStep, RejectTenant, RejectStale, SkipUnchanged, CheckCancelled, CheckLost,
           Succeed, FailFinally, FailTransiently, Abort
<1>9. CASE RecoverExpired \/ (\E q \in Requests : CancelWrite(q) \/ RetryWrite(q))
  BY <1>1, <1>9 DEF RecoverExpired, CancelWrite, RetryWrite
<1>10. CASE \E q \in Requests : CancelRead(q) \/ RetryRead(q)
  BY <1>2, <1>10 DEF CancelRead, RetryRead
<1>11. QED
  BY <1>3, <1>4, <1>5, <1>6, <1>7, <1>8, <1>9, <1>10 DEF Next, WorkerStep, Requests

(* A worker enters an attempt only through Begin, in state "begun".        *)
LEMMA AttemptEntry ==
  ASSUME TypeOK, NEW w \in Workers, [Next]_vars, pc[w] \notin Attempting, pc'[w] \in Attempting
  PROVE  pc'[w] = "begun"
<1>1. pc \in [Workers -> PcValues]
  BY DEF TypeOK, ProcessesOK
<1>2. CASE UNCHANGED pc
  BY <1>2
<1>3. ASSUME NEW v \in Workers, v # w, NEW to, Goto(v, to) PROVE FALSE
  BY <1>1, <1>3 DEF Goto
<1>4. ASSUME NEW v \in Workers, WorkerStep(v) \/ Heartbeat(v) \/ Abort(v) \/ Crash(v) PROVE pc'[w] = "begun"
  <2>1. CASE v = w
    <3>1. CASE \E to \in {"idle", "received", "claimed", "acking", "nacking", "dead"} : Goto(w, to)
      BY <1>1, <3>1 DEF Goto, Attempting
    <3>2. CASE Begin(w)
      BY <1>1, <3>2 DEF Begin, Goto
    <3>3. CASE CheckPasses(w)
      BY <3>3 DEF CheckPasses, Attempting
    <3>4. QED
      BY <1>2, <1>4, <2>1, <3>1, <3>2, <3>3
         DEF WorkerStep, ProcessStep, Receive, Claim, ClaimMiss, Ack, Nack, RejectTenant, RejectStale,
             SkipUnchanged, CheckCancelled, CheckLost, Succeed, FailFinally, FailTransiently, Settle,
             RollBack, Abort, Crash, Heartbeat
  <2>2. CASE v # w
    BY <1>2, <1>3, <1>4, <2>2
       DEF WorkerStep, ProcessStep, Receive, Claim, ClaimMiss, Ack, Nack, RejectTenant, RejectStale,
           SkipUnchanged, Begin, CheckPasses, CheckCancelled, CheckLost, Succeed, FailFinally,
           FailTransiently, Settle, RollBack, Abort, Crash, Heartbeat
  <2>3. QED
    BY <2>1, <2>2
<1>5. QED
  BY <1>2, <1>4
     DEF Next, Dispatch, DispatchTwice, Poison, RecoverExpired, LeaseExpires, TenantChanges, BackoffEnds,
         CancelRead, CancelWrite, RetryRead, RetryWrite, vars

(* Only the current claimant works on the job: no request, recovery or     *)
(* other delivery takes the row away from a worker that passed its first   *)
(* runtime check, until the attempt ends.                                  *)
THEOREM ClaimantOnly == Spec => []OnlyClaimantWorks
<1>1. Init => OnlyClaimantWorks
  BY DEF Init, OnlyClaimantWorks, Attempting
<1>2. TypeOK /\ OnlyClaimantWorks /\ [Next]_vars => OnlyClaimantWorks'
  <2> SUFFICES ASSUME TypeOK, OnlyClaimantWorks, [Next]_vars,
                      NEW w \in Workers, pc'[w] \in Attempting \ {"begun"}
               PROVE  job'.status = "running" /\ job'.claimed_by = w /\ ~job'.cancelled
    BY DEF OnlyClaimantWorks
  <2>1. pc[w] \in Attempting
    BY AttemptEntry
  <2>2. \/ pc'[w] = pc[w]
        \/ job.status = "running" /\ job.claimed_by = w /\ ~job.cancelled
    BY <2>1, LockedRow DEF CheckPasses, Owned
  <2>3. job.status = "running" /\ job.claimed_by = w /\ ~job.cancelled
    BY <2>1, <2>2 DEF OnlyClaimantWorks
  <2>4. QED
    BY <2>1, <2>3, LockedRow
<1>3. QED
  BY <1>1, <1>2, JobTypeCorrect, PTL DEF Spec

-----------------------------------------------------------------------------
(* The inductive invariant for a job nobody retries by hand.  It adds to   *)
(* the properties what the sessions remember: a worker still holds the row *)
(* it claimed with an attempt left, a cancel request read an unfinished    *)
(* row, and only a job created for unchanged content has that stage.       *)
SessionsFresh ==
  /\ \A w \in Workers : Processing(w) => view[w].status = "running" /\ view[w].attempts < MaxAttempts
  /\ \A q \in Requests : req[q] = "read" => reqview[q].status # "cancelled"

UnchangedStaysDone ==
  IF kind = "unchanged"
    THEN /\ job.status = "succeeded"
         /\ \A w \in Workers : ~Processing(w)
         /\ \A q \in Requests : req[q] # "read"
    ELSE /\ job.stage # "unchanged"
         /\ \A w \in Workers : view[w].stage # "unchanged"

CancelIsTerminal == job.cancelled => job.status \in {"cancelled", "failed"}

UnretriedInv ==
  /\ AttemptsWithinLimit /\ RunningIsRecoverable /\ CancelIsTerminal
  /\ SessionsFresh /\ UnchangedStaysDone

(* What a step does to the row: it keeps all but the clocks' fields, takes *)
(* it for a worker, or leaves it in another status than running.           *)
Kept ==
  /\ job'.status = job.status /\ job'.stage = job.stage /\ job'.cancelled = job.cancelled
  /\ job'.attempts = job.attempts /\ job'.claimed_by = job.claimed_by
  /\ job.lease # "none" => job'.lease # "none"

Taken ==
  /\ job.status \in {"queued", "running"} /\ job'.status = "running"
  /\ ~job.cancelled /\ ~job'.cancelled
  /\ job'.stage = job.stage /\ job'.attempts = job.attempts
  /\ job'.claimed_by # NoOne /\ job'.lease = "valid"

Left ==
  /\ kind # "unchanged"
  /\ job'.status # "running" /\ job'.stage # "unchanged"
  /\ job'.attempts <= MaxAttempts
  /\ job'.status = "queued" => job'.attempts < MaxAttempts
  /\ job'.cancelled => job'.status \in {"cancelled", "failed"}
  /\ job.cancelled => job'.cancelled

(* The row written by an attempt that ends in a given status.              *)
LEMMA AttemptLeaves ==
  ASSUME TypeOK, UnretriedInv, NEW w \in Workers, Processing(w),
         NEW status \in {"succeeded", "failed", "cancelled", "queued"},
         NEW stage \in Stages \ {"unchanged"},
         status = "queued" => view[w].attempts + 1 < MaxAttempts,
         job.cancelled => status \in {"cancelled", "failed"},
         NEW n \in 0..MaxAttempts \cup {NoOne},
         job' = Outcome(w, status, stage) \/ job' = [Outcome(w, status, stage) EXCEPT !.next = n]
  PROVE  Left
<1>1. job \in JobRow /\ view[w].attempts \in Nat /\ view[w].attempts < MaxAttempts /\ MaxAttempts \in Nat
  BY JobAssumption DEF TypeOK, RowsOK, JobRow, UnretriedInv, SessionsFresh
<1>2. /\ job'.status = status /\ job'.stage = stage /\ job'.cancelled = job.cancelled
      /\ job'.attempts = view[w].attempts + 1
  BY <1>1 DEF Outcome, JobRow
<1>3. kind # "unchanged"
  BY DEF UnretriedInv, UnchangedStaysDone
<1>4. QED
  BY <1>1, <1>2, <1>3 DEF Left

(* The row written by an early return of _process.                         *)
LEMMA RejectLeaves ==
  ASSUME TypeOK, UnretriedInv, NEW w \in Workers, Processing(w),
         NEW status \in {"failed", "cancelled"}, NEW stage \in Stages \ {"unchanged"},
         job' = Flush(view[w], Released([view[w] EXCEPT !.status = status, !.stage = stage]))
  PROVE  Left
<1>1. job \in JobRow /\ view[w] \in JobRow
  BY DEF TypeOK, RowsOK
<1>2. view[w].status = "running" /\ kind # "unchanged" /\ job.stage # "unchanged"
  BY DEF UnretriedInv, SessionsFresh, UnchangedStaysDone
<1> DEFINE new == Released([view[w] EXCEPT !.status = status, !.stage = stage])
<1>3. /\ new.status = status /\ new.stage = stage
      /\ new.cancelled = view[w].cancelled /\ new.attempts = view[w].attempts
  BY <1>1 DEF Released, JobRow
<1> HIDE DEF new
<1>4. job'.status = status /\ job'.cancelled = job.cancelled /\ job'.attempts = job.attempts
  BY <1>2, <1>3 DEF Flush, new
<1>5. job'.stage \in {stage, job.stage}
  BY <1>3 DEF Flush, new
<1>6. job.attempts <= MaxAttempts
  BY DEF UnretriedInv, AttemptsWithinLimit
<1>7. QED
  BY <1>2, <1>4, <1>5, <1>6 DEF Left

LEMMA RowEffect ==
  ASSUME RetryRequests = {}, TypeOK, OnlyClaimantWorks, UnretriedInv, [Next]_vars
  PROVE  Kept \/ (Taken /\ \E w \in Workers : Claim(w)) \/ Left
<1>1. job \in JobRow /\ \A q \in Requests : reqview[q] \in JobRow
  BY DEF TypeOK, RowsOK
<1>2. job.attempts <= MaxAttempts
  BY DEF UnretriedInv, AttemptsWithinLimit
<1>3. CASE UNCHANGED job
  BY <1>3 DEF Kept
<1>4. CASE RecoverExpired
  <2>1. kind # "unchanged" /\ job.stage # "unchanged"
    BY <1>4 DEF RecoverExpired, UnretriedInv, UnchangedStaysDone
  <2>2. /\ job'.status \in {"cancelled", "failed", "queued"} /\ job'.stage # "unchanged"
        /\ job'.status = "queued" => job.attempts < MaxAttempts /\ ~job.cancelled
        /\ job'.attempts = job.attempts /\ job'.cancelled = job.cancelled
    BY <1>1, <1>4 DEF RecoverExpired, JobRow
  <2>3. QED
    BY <1>2, <2>1, <2>2 DEF Left
<1>5. CASE LeaseExpires
  BY <1>1, <1>5 DEF LeaseExpires, Kept, JobRow
<1>6. ASSUME NEW k \in delayed, BackoffEnds(k) PROVE Kept
  BY <1>1, <1>6 DEF BackoffEnds, Kept, JobRow
<1>7. ASSUME NEW w \in Workers, Claim(w) PROVE Taken
  BY <1>1, <1>7, JobAssumption DEF Claim, Claimable, Taken, JobRow
<1>8. ASSUME NEW w \in Workers, Heartbeat(w) PROVE Kept
  BY <1>1, <1>8 DEF Heartbeat, Kept, JobRow
<1>9. ASSUME NEW w \in Workers, RejectTenant(w) \/ RejectStale(w) \/ SkipUnchanged(w) PROVE Left
  <2>1. Processing(w)
    BY <1>9 DEF RejectTenant, RejectStale, SkipUnchanged, Processing
  <2>2. ~SkipUnchanged(w)
    BY <2>1 DEF SkipUnchanged, UnretriedInv, UnchangedStaysDone
  <2>3. {"tenant_lifecycle_rejected", "tenant_context_stale"} \subseteq Stages \ {"unchanged"}
    BY DEF Stages
  <2>4. CASE RejectTenant(w)
    BY <2>1, <2>3, <2>4, RejectLeaves DEF RejectTenant, Settle
  <2>5. CASE RejectStale(w)
    BY <2>1, <2>3, <2>5, RejectLeaves DEF RejectStale, Settle
  <2>6. QED
    BY <1>9, <2>2, <2>4, <2>5
<1>10. ASSUME NEW w \in Workers,
              CheckCancelled(w) \/ Succeed(w) \/ FailFinally(w) \/ FailTransiently(w)
       PROVE Left
  <2>1. Processing(w)
    BY <1>10 DEF CheckCancelled, Succeed, FailFinally, FailTransiently, Processing, Attempting
  <2>2. {"cancelled", "published", "failed", "retry_scheduled"} \subseteq Stages \ {"unchanged"}
        /\ NoOne \in 0..MaxAttempts \cup {NoOne}
    BY DEF Stages
  <2>3. Succeed(w) \/ FailTransiently(w) => ~job.cancelled
    BY DEF Succeed, FailTransiently, OnlyClaimantWorks, Attempting
  <2>4. CASE CheckCancelled(w)
    BY <2>1, <2>2, <2>4, AttemptLeaves DEF CheckCancelled, Settle
  <2>5. CASE Succeed(w)
    BY <2>1, <2>2, <2>3, <2>5, AttemptLeaves DEF Succeed, Settle
  <2>6. CASE FailFinally(w)
    BY <2>1, <2>2, <2>6, AttemptLeaves DEF FailFinally, Settle
  <2>7. CASE FailTransiently(w)
    <3>1. view[w].attempts + 1 \in 0..MaxAttempts /\ view[w].attempts + 1 < MaxAttempts
      BY <2>7, JobAssumption DEF FailTransiently, TypeOK, RowsOK, JobRow
    <3>2. QED
      BY <2>1, <2>2, <2>3, <2>7, <3>1, AttemptLeaves DEF FailTransiently, Settle
  <2>8. QED
    BY <1>10, <2>4, <2>5, <2>6, <2>7
<1>11. ASSUME NEW q \in Requests, CancelWrite(q) PROVE Left
  <2>1. kind # "unchanged" /\ job.stage # "unchanged" /\ reqview[q].status # "cancelled"
    BY <1>11 DEF CancelWrite, UnretriedInv, UnchangedStaysDone, SessionsFresh
  <2> DEFINE new == [reqview[q] EXCEPT !.cancelled = TRUE, !.status = "cancelled"]
  <2>2. /\ new.status = "cancelled" /\ new.cancelled = TRUE
        /\ new.stage = reqview[q].stage /\ new.attempts = reqview[q].attempts
    BY <1>1 DEF JobRow
  <2>3. job' = Flush(reqview[q], new)
    BY <1>11 DEF CancelWrite
  <2> HIDE DEF new
  <2>4. /\ job'.status = "cancelled" /\ job'.stage = job.stage /\ job'.attempts = job.attempts
        /\ job.cancelled => job'.cancelled
    BY <2>1, <2>2, <2>3 DEF Flush
  <2>5. QED
    BY <1>2, <2>1, <2>4 DEF Left
<1>12. CASE \E w \in Workers : CheckLost(w) \/ Abort(w) \/ Crash(w) \/ Receive(w) \/ ClaimMiss(w)
                               \/ Ack(w) \/ Nack(w) \/ Begin(w) \/ CheckPasses(w)
  BY <1>3, <1>12 DEF CheckLost, Abort, Crash, RollBack, Receive, ClaimMiss, Ack, Nack, Begin, CheckPasses
<1>13. CASE Dispatch \/ DispatchTwice \/ Poison \/ TenantChanges \/ UNCHANGED vars
            \/ (\E q \in CancelRequests : CancelRead(q))
  BY <1>3, <1>13 DEF Dispatch, DispatchTwice, Poison, TenantChanges, vars, CancelRead
<1>14. QED
  BY <1>4, <1>5, <1>6, <1>7, <1>8, <1>9, <1>10, <1>11, <1>12, <1>13
     DEF Next, WorkerStep, ProcessStep, Requests

(* A worker's session is the one it had, a closed one, or a new claim.     *)
LEMMA ViewEffect ==
  ASSUME TypeOK, NEW w \in Workers, [Next]_vars
  PROVE  \/ view'[w] = view[w] /\ (Processing(w)' => Processing(w))
         \/ view'[w] = NoView /\ ~Processing(w)'
         \/ Claim(w)
<1>1. pc \in [Workers -> PcValues] /\ view \in [Workers -> JobRow]
  BY DEF TypeOK, ProcessesOK, RowsOK
<1>2. CASE UNCHANGED <<view, pc>>
  BY <1>2 DEF Processing
<1>3. CASE Dispatch \/ DispatchTwice \/ Poison \/ RecoverExpired \/ LeaseExpires \/ TenantChanges \/ UNCHANGED vars
           \/ (\E k \in delayed : BackoffEnds(k))
           \/ (\E q \in Requests : CancelRead(q) \/ CancelWrite(q) \/ RetryRead(q) \/ RetryWrite(q))
           \/ (\E v \in Workers : Heartbeat(v))
  BY <1>2, <1>3
     DEF Dispatch, DispatchTwice, Poison, RecoverExpired, LeaseExpires, TenantChanges, BackoffEnds, vars,
         CancelRead, CancelWrite, RetryRead, RetryWrite, Heartbeat
<1>4. CASE \E v \in Workers : \/ \E row : Settle(v, row)
                              \/ RollBack(v)
                              \/ Crash(v)
  BY <1>1, <1>4 DEF Settle, RollBack, Crash, Goto, Processing, Attempting
<1>5. ASSUME NEW v \in Workers,
             Receive(v) \/ ClaimMiss(v) \/ Ack(v) \/ Nack(v) \/ Begin(v) \/ CheckPasses(v)
      PROVE  view'[w] = view[w] /\ (Processing(w)' => Processing(w))
  <2>1. view' = view /\ (pc'[w] = pc[w] \/ v = w)
    BY <1>1, <1>5 DEF Receive, ClaimMiss, Ack, Nack, Begin, CheckPasses, Goto
  <2>2. CASE Begin(w) \/ CheckPasses(w)
    BY <2>1, <2>2 DEF Begin, CheckPasses, Processing, Attempting
  <2>3. CASE Receive(w) \/ ClaimMiss(w) \/ Ack(w) \/ Nack(w)
    BY <1>1, <2>1, <2>3 DEF Receive, ClaimMiss, Ack, Nack, Goto, Processing, Attempting
  <2>4. QED
    BY <1>5, <2>1, <2>2, <2>3 DEF Processing
<1>6. ASSUME NEW v \in Workers, v # w, Claim(v) PROVE view'[w] = view[w] /\ pc'[w] = pc[w]
  BY <1>1, <1>6 DEF Claim, Goto
<1>7. QED
  BY <1>3, <1>4, <1>5, <1>6
     DEF Next, WorkerStep, ProcessStep, RejectTenant, RejectStale, SkipUnchanged, CheckCancelled,
         CheckLost, Succeed, FailFinally, FailTransiently, Abort, Requests, Processing

(* A request waiting to write has read the row in its last step or before. *)
LEMMA RequestEffect ==
  ASSUME RetryRequests = {}, TypeOK, NEW q \in Requests, [Next]_vars, req'[q] = "read"
  PROVE  \/ req[q] = "read" /\ reqview'[q] = reqview[q]
         \/ reqview'[q] = job /\ job.status \notin {"succeeded", "cancelled"}
<1>1. req \in [Requests -> {"new", "read", "done", "conflict"}] /\ reqview \in [Requests -> JobRow]
  BY DEF TypeOK, ContextOK, RowsOK
<1>2. CASE UNCHANGED requests
  BY <1>2 DEF requests
<1>3. ASSUME NEW p \in CancelRequests, CancelRead(p) \/ CancelWrite(p)
      PROVE  \/ req[q] = "read" /\ reqview'[q] = reqview[q]
             \/ reqview'[q] = job /\ job.status \notin {"succeeded", "cancelled"}
  <2>1. p \in Requests
    BY DEF Requests
  <2>2. CASE p # q
    BY <1>1, <1>3, <2>1, <2>2 DEF CancelRead, CancelWrite, Read, Done
  <2>3. CASE p = q
    BY <1>1, <1>3, <2>1, <2>3 DEF CancelRead, CancelWrite, Read, Done
  <2>4. QED
    BY <2>2, <2>3
<1>4. QED
  BY <1>2, <1>3
     DEF Next, Dispatch, DispatchTwice, Poison, RecoverExpired, LeaseExpires, TenantChanges, BackoffEnds, vars,
         WorkerStep, ProcessStep, Receive, Claim, ClaimMiss, Ack, Nack, RejectTenant, RejectStale,
         SkipUnchanged, Begin, CheckPasses, CheckCancelled, CheckLost, Succeed, FailFinally,
         FailTransiently, RollBack, Heartbeat, Abort, Crash

(* The inductive step. *)
LEMMA UnretriedStep ==
  ASSUME RetryRequests = {}, TypeOK, OnlyClaimantWorks, UnretriedInv, [Next]_vars
  PROVE  UnretriedInv'
<1>1. Kept \/ Taken \/ Left
  BY RowEffect
<1>2. AttemptsWithinLimit'
  BY <1>1 DEF Kept, Taken, Left, UnretriedInv, AttemptsWithinLimit
<1>3. RunningIsRecoverable'
  BY <1>1 DEF Kept, Taken, Left, UnretriedInv, RunningIsRecoverable
<1>4. CancelIsTerminal'
  BY <1>1 DEF Kept, Taken, Left, UnretriedInv, CancelIsTerminal
<1>5. ASSUME NEW w \in Workers, Claim(w)
      PROVE  /\ view'[w] = job' /\ job'.status = "running" /\ job'.attempts < MaxAttempts
             /\ kind # "unchanged" /\ job'.stage # "unchanged"
  <2>1. job \in JobRow /\ view \in [Workers -> JobRow]
    BY DEF TypeOK, RowsOK
  <2>2. job'.status = "running" /\ job'.attempts = job.attempts /\ job'.stage = job.stage
    BY <1>5, <2>1 DEF Claim, JobRow
  <2>3. job.status \in {"queued", "running"} /\ view'[w] = job'
    BY <1>5, <2>1 DEF Claim, Claimable
  <2>4. job.attempts < MaxAttempts /\ kind # "unchanged" /\ job.stage # "unchanged"
    BY <2>3 DEF UnretriedInv, AttemptsWithinLimit, UnchangedStaysDone
  <2>5. QED
    BY <2>2, <2>3, <2>4
<1>6. SessionsFresh'
  <2>1. ASSUME NEW w \in Workers, Processing(w)'
        PROVE  view'[w].status = "running" /\ view'[w].attempts < MaxAttempts
    BY <1>5, <2>1, ViewEffect DEF UnretriedInv, SessionsFresh
  <2>2. ASSUME NEW q \in Requests, req'[q] = "read" PROVE reqview'[q].status # "cancelled"
    BY <2>2, RequestEffect DEF UnretriedInv, SessionsFresh
  <2>3. QED
    BY <2>1, <2>2 DEF SessionsFresh, Requests
<1>7. kind' = kind
  BY DEF Next, Dispatch, DispatchTwice, Poison, RecoverExpired, LeaseExpires, TenantChanges, BackoffEnds, vars,
         WorkerStep, ProcessStep, Receive, Claim, ClaimMiss, Ack, Nack, RejectTenant, RejectStale,
         SkipUnchanged, Begin, CheckPasses, CheckCancelled, CheckLost, Succeed, FailFinally,
         FailTransiently, RollBack, Heartbeat, Abort, Crash, CancelRead, CancelWrite, RetryRead,
         RetryWrite, environment
<1>8. UnchangedStaysDone'
  <2>1. CASE kind = "unchanged"
    <3>1. job.status = "succeeded" /\ (\A w \in Workers : ~Processing(w)) /\ (\A q \in Requests : req[q] # "read")
      BY <2>1 DEF UnretriedInv, UnchangedStaysDone
    <3>2. job'.status = "succeeded"
      BY <1>1, <2>1, <3>1 DEF Kept, Taken, Left
    <3>3. \A w \in Workers : ~Processing(w)'
      BY <1>5, <2>1, <3>1, ViewEffect
    <3>4. \A q \in Requests : req'[q] # "read"
      BY <3>1, RequestEffect
    <3>5. QED
      BY <1>7, <2>1, <3>2, <3>3, <3>4 DEF UnchangedStaysDone, Requests
  <2>2. CASE kind # "unchanged"
    <3>1. job.stage # "unchanged" /\ \A w \in Workers : view[w].stage # "unchanged"
      BY <2>2 DEF UnretriedInv, UnchangedStaysDone
    <3>2. job'.stage # "unchanged"
      BY <1>1, <3>1 DEF Kept, Taken, Left
    <3>3. NoView.stage # "unchanged"
      BY DEF NoView, Row
    <3>4. \A w \in Workers : view'[w].stage # "unchanged"
      BY <1>5, <3>1, <3>3, ViewEffect
    <3>5. QED
      BY <1>7, <2>2, <3>2, <3>4 DEF UnchangedStaysDone
  <2>3. QED
    BY <2>1, <2>2
<1>9. QED
  BY <1>2, <1>3, <1>4, <1>6, <1>8 DEF UnretriedInv

LEMMA UnretriedInit == Init => UnretriedInv
<1> SUFFICES ASSUME Init PROVE UnretriedInv
  OBVIOUS
<1>1. /\ job.cancelled = FALSE /\ job.attempts = 0 /\ job.status \in {"queued", "succeeded"}
      /\ kind = "unchanged" => job.status = "succeeded"
      /\ kind # "unchanged" => job.stage # "unchanged"
  BY DEF Init, Row
<1>2. AttemptsWithinLimit /\ RunningIsRecoverable /\ CancelIsTerminal
  BY <1>1, JobAssumption DEF AttemptsWithinLimit, RunningIsRecoverable, CancelIsTerminal
<1>3. (\A w \in Workers : ~Processing(w)) /\ (\A q \in Requests : req[q] # "read")
  BY DEF Init, Processing, Attempting
<1>4. \A w \in Workers : view[w].stage # "unchanged"
  BY DEF Init, NoView, Row
<1>5. QED
  BY <1>1, <1>2, <1>3, <1>4 DEF UnretriedInv, SessionsFresh, UnchangedStaysDone

LEMMA Unretried == ASSUME RetryRequests = {} PROVE Spec => []UnretriedInv
<1>1. TypeOK /\ OnlyClaimantWorks /\ UnretriedInv /\ [Next]_vars => UnretriedInv'
  BY UnretriedStep
<1>2. QED
  BY <1>1, UnretriedInit, JobTypeCorrect, ClaimantOnly, PTL DEF Spec

(* Without a manual retry the attempt counter never passes max_attempts,   *)
(* and a job that may still run has an attempt left, whatever crashes,     *)
(* redeliveries, recoveries and cancellations happen.                      *)
THEOREM AttemptsBounded == ASSUME RetryRequests = {} PROVE Spec => []AttemptsWithinLimit
<1>1. UnretriedInv => AttemptsWithinLimit
  BY DEF UnretriedInv
<1>2. QED
  BY <1>1, Unretried, PTL

(* Without a manual retry a running job always has a lease to expire, so   *)
(* recover_expired can find it when its worker is gone.                    *)
THEOREM AlwaysRecoverable == ASSUME RetryRequests = {} PROVE Spec => []RunningIsRecoverable
<1>1. UnretriedInv => RunningIsRecoverable
  BY DEF UnretriedInv
<1>2. QED
  BY <1>1, Unretried, PTL

(* A committed cancellation is final unless somebody retries the job: it   *)
(* is never queued, run or published again.                                *)
THEOREM CancellationFinal == ASSUME RetryRequests = {} PROVE Spec => CancelSticks
<1>1. ASSUME RetryRequests = {}, TypeOK, OnlyClaimantWorks, UnretriedInv, [Next]_vars, job.cancelled
      PROVE  job.cancelled' /\ job.status' \in {"cancelled", "failed"} /\ publications' = publications
  <2>1. job'.cancelled /\ job'.status \in {"cancelled", "failed"}
    <3>1. Kept \/ Taken \/ Left
      BY <1>1, RowEffect
    <3>2. job.status \in {"cancelled", "failed"}
      BY <1>1 DEF UnretriedInv, CancelIsTerminal
    <3>3. QED
      BY <1>1, <3>1, <3>2 DEF Kept, Taken, Left
  <2>2. \A w \in Workers : ~Succeed(w)
    BY <1>1 DEF Succeed, OnlyClaimantWorks, Attempting
  <2>3. publications' = publications
    BY <1>1, <2>2
       DEF Next, Dispatch, DispatchTwice, Poison, RecoverExpired, LeaseExpires, TenantChanges, BackoffEnds, vars,
           WorkerStep, ProcessStep, Receive, Claim, ClaimMiss, Ack, Nack, RejectTenant, RejectStale,
           SkipUnchanged, Begin, CheckPasses, CheckCancelled, CheckLost, FailFinally, FailTransiently,
           RollBack, Heartbeat, Abort, Crash, CancelRead, CancelWrite, RetryRead, RetryWrite, history
  <2>4. QED
    BY <2>1, <2>3
<1>2. TypeOK /\ OnlyClaimantWorks /\ UnretriedInv /\ [Next]_vars =>
        [job.cancelled => /\ job.cancelled' /\ job.status' \in {"cancelled", "failed"}
                          /\ publications' = publications]_vars
  BY <1>1
<1>3. QED
  BY <1>2, JobTypeCorrect, ClaimantOnly, Unretried, PTL DEF Spec, CancelSticks

-----------------------------------------------------------------------------
(* One business effect per request.  A job that is queued or running may   *)
(* still publish once, so it holds a credit; only an accepted retry gives  *)
(* a finished job a new one, and publishing uses it up.                    *)
Accepted == {q \in RetryRequests : req[q] = "done"}
Open == job.status \in {"queued", "running"}
Credit == IF Open THEN 1 ELSE 0

EffectInv == IsFiniteSet(Accepted) /\ publications + Credit <= 1 + Cardinality(Accepted)

(* Nothing but a retry reopens a job: a stale session that rejects the job *)
(* or skips it writes a final status or none.                              *)
LEMMA NoReopening ==
  ASSUME TypeOK, OnlyClaimantWorks, [Next]_vars, \A q \in RetryRequests : ~RetryWrite(q)
  PROVE  Open' => Open
<1>1. job \in JobRow /\ view \in [Workers -> JobRow] /\ reqview \in [Requests -> JobRow]
  BY DEF TypeOK, RowsOK
<1>2. CASE job'.status = job.status
  BY <1>2 DEF Open
<1>3. CASE UNCHANGED job
  BY <1>3 DEF Open
<1>4. CASE RecoverExpired \/ (\E w \in Workers : Claim(w))
  BY <1>4 DEF RecoverExpired, Claim, Claimable, Open
<1>5. CASE LeaseExpires \/ (\E k \in delayed : BackoffEnds(k)) \/ (\E w \in Workers : Heartbeat(w))
  <2>1. job'.status = job.status
    BY <1>1, <1>5 DEF LeaseExpires, BackoffEnds, Heartbeat, JobRow
  <2>2. QED
    BY <1>2, <2>1
<1>6. ASSUME NEW w \in Workers, RejectTenant(w) \/ RejectStale(w) \/ SkipUnchanged(w)
      PROVE  Open' => Open
  <2> DEFINE row(s, t) == Released([view[w] EXCEPT !.status = s, !.stage = t])
  <2>1. /\ row("cancelled", "tenant_lifecycle_rejected").status = "cancelled"
        /\ row("failed", "tenant_context_stale").status = "failed"
        /\ Released(view[w]).status = view[w].status
    BY <1>1 DEF Released, JobRow
  <2>2. \/ job' = Flush(view[w], row("cancelled", "tenant_lifecycle_rejected"))
        \/ job' = Flush(view[w], row("failed", "tenant_context_stale"))
        \/ job' = Flush(view[w], Released(view[w]))
    BY <1>6 DEF RejectTenant, RejectStale, SkipUnchanged, Settle
  <2> HIDE DEF row
  <2>3. job'.status \in {"cancelled", "failed", job.status}
    BY <2>1, <2>2 DEF Flush
  <2>4. QED
    BY <2>3 DEF Open
<1>7. ASSUME NEW w \in Workers,
             CheckCancelled(w) \/ Succeed(w) \/ FailFinally(w) \/ FailTransiently(w)
      PROVE  Open' => Open
  <2>1. CASE CheckCancelled(w)
    <3>1. job'.status = "cancelled"
      BY <1>1, <2>1 DEF CheckCancelled, Settle, Outcome, JobRow
    <3>2. QED
      BY <3>1 DEF Open
  <2>2. CASE Succeed(w) \/ FailFinally(w) \/ FailTransiently(w)
    BY <2>2 DEF Succeed, FailFinally, FailTransiently, OnlyClaimantWorks, Attempting, Open
  <2>3. QED
    BY <1>7, <2>1, <2>2
<1>8. ASSUME NEW q \in Requests, CancelWrite(q) PROVE Open' => Open
  <2> DEFINE new == [reqview[q] EXCEPT !.cancelled = TRUE, !.status = "cancelled"]
  <2>1. new.status = "cancelled" /\ job' = Flush(reqview[q], new)
    BY <1>1, <1>8 DEF CancelWrite, JobRow
  <2> HIDE DEF new
  <2>2. job'.status \in {"cancelled", job.status}
    BY <2>1 DEF Flush
  <2>3. QED
    BY <2>2 DEF Open
<1>9. CASE \E w \in Workers : CheckLost(w) \/ Abort(w) \/ Crash(w) \/ Receive(w) \/ ClaimMiss(w)
                              \/ Ack(w) \/ Nack(w) \/ Begin(w) \/ CheckPasses(w)
  BY <1>3, <1>9 DEF CheckLost, Abort, Crash, RollBack, Receive, ClaimMiss, Ack, Nack, Begin, CheckPasses
<1>10. CASE \/ Dispatch \/ DispatchTwice \/ Poison \/ TenantChanges \/ UNCHANGED vars
            \/ \E q \in CancelRequests : CancelRead(q)
            \/ \E q \in RetryRequests : RetryRead(q)
  BY <1>3, <1>10 DEF Dispatch, DispatchTwice, Poison, TenantChanges, vars, CancelRead, RetryRead
<1>11. QED
  BY <1>4, <1>5, <1>6, <1>7, <1>8, <1>9, <1>10 DEF Next, WorkerStep, ProcessStep, Requests

(* Only a retry that writes is added to the accepted ones. *)
LEMMA AcceptedEffect ==
  ASSUME TypeOK, [Next]_vars
  PROVE  \/ Accepted' = Accepted
         \/ \E q \in RetryRequests : RetryWrite(q) /\ q \notin Accepted /\ Accepted' = Accepted \cup {q}
<1>1. req \in [Requests -> {"new", "read", "done", "conflict"}]
      /\ RetryRequests \subseteq Requests /\ CancelRequests \subseteq Requests
  BY DEF TypeOK, ContextOK, Requests
<1>2. CASE UNCHANGED req
  BY <1>2 DEF Accepted
<1>3. ASSUME NEW q \in RetryRequests, RetryRead(q) PROVE Accepted' = Accepted
  <2>1. req[q] = "new" /\ \E s \in {"conflict", "read"} : req' = [req EXCEPT ![q] = s]
    BY <1>3 DEF RetryRead, Read
  <2>2. QED
    BY <1>1, <2>1 DEF Accepted
<1>4. ASSUME NEW q \in RetryRequests, RetryWrite(q)
      PROVE  q \notin Accepted /\ Accepted' = Accepted \cup {q}
  BY <1>1, <1>4 DEF RetryWrite, Done, Accepted
<1>5. ASSUME NEW q \in CancelRequests, CancelRead(q) \/ CancelWrite(q) PROVE Accepted' = Accepted
  <2>1. \E s \in {"conflict", "read", "done"} : req' = [req EXCEPT ![q] = s]
    BY <1>5 DEF CancelRead, CancelWrite, Read, Done
  <2>2. q \notin RetryRequests
    BY JobAssumption
  <2>3. QED
    BY <1>1, <2>1, <2>2 DEF Accepted
<1>6. QED
  BY <1>2, <1>3, <1>4, <1>5
     DEF Next, Dispatch, DispatchTwice, Poison, RecoverExpired, LeaseExpires, TenantChanges, BackoffEnds, vars,
         WorkerStep, ProcessStep, Receive, Claim, ClaimMiss, Ack, Nack, RejectTenant, RejectStale,
         SkipUnchanged, Begin, CheckPasses, CheckCancelled, CheckLost, Succeed, FailFinally,
         FailTransiently, RollBack, Heartbeat, Abort, Crash, requests

(* Publishing takes the credit of the running job. *)
LEMMA PublicationEffect ==
  ASSUME TypeOK, OnlyClaimantWorks, [Next]_vars
  PROVE  \/ publications' = publications
         \/ publications' = publications + 1 /\ Open /\ ~Open' /\ UNCHANGED req
<1>1. ASSUME NEW w \in Workers, Succeed(w)
      PROVE  publications' = publications + 1 /\ Open /\ ~Open' /\ UNCHANGED req
  <2>1. job \in JobRow
    BY DEF TypeOK, RowsOK
  <2>2. job'.status = "succeeded"
    BY <1>1, <2>1 DEF Succeed, Settle, Outcome, JobRow
  <2>3. job.status = "running"
    BY <1>1 DEF Succeed, OnlyClaimantWorks, Attempting
  <2>4. QED
    BY <1>1, <2>2, <2>3 DEF Succeed, Open, requests
<1>2. QED
  BY <1>1
     DEF Next, Dispatch, DispatchTwice, Poison, RecoverExpired, LeaseExpires, TenantChanges, BackoffEnds, vars,
         WorkerStep, ProcessStep, Receive, Claim, ClaimMiss, Ack, Nack, RejectTenant, RejectStale,
         SkipUnchanged, Begin, CheckPasses, CheckCancelled, CheckLost, FailFinally, FailTransiently,
         RollBack, Heartbeat, Abort, Crash, CancelRead, CancelWrite, RetryRead, RetryWrite, history

(* At-least-once delivery converges to one effect per request: however     *)
(* many messages, redeliveries, crashes, recoveries, stale sessions and    *)
(* overlapping requests there are, the job activates at most one           *)
(* generation for its submission and one for every accepted retry.         *)
THEOREM OneEffect == Spec => []OneEffectPerRequest
<1>1. Init => EffectInv
  <2> SUFFICES ASSUME Init PROVE EffectInv
    OBVIOUS
  <2>1. Accepted = {}
    BY DEF Init, Accepted, Requests
  <2>2. publications = 0 /\ Credit \in {0, 1}
    BY DEF Init, Credit
  <2>3. IsFiniteSet(Accepted) /\ Cardinality(Accepted) = 0
    BY <2>1, FS_EmptySet
  <2>4. QED
    BY <2>2, <2>3 DEF EffectInv
<1>2. TypeOK /\ OnlyClaimantWorks /\ EffectInv /\ [Next]_vars => EffectInv'
  <2> SUFFICES ASSUME TypeOK, OnlyClaimantWorks, EffectInv, [Next]_vars PROVE EffectInv'
    OBVIOUS
  <2>1. publications \in Nat /\ Credit \in {0, 1} /\ Credit' \in {0, 1}
        /\ Cardinality(Accepted) \in Nat /\ IsFiniteSet(Accepted)
    BY FS_CardinalityType DEF TypeOK, ContextOK, Credit, EffectInv
  <2>2. publications + Credit <= 1 + Cardinality(Accepted)
    BY DEF EffectInv
  <2>3. ASSUME NEW q \in RetryRequests, RetryWrite(q), q \notin Accepted, Accepted' = Accepted \cup {q}
        PROVE  EffectInv'
    <3>1. IsFiniteSet(Accepted') /\ Cardinality(Accepted') = Cardinality(Accepted) + 1
      BY <2>1, <2>3, FS_AddElement
    <3>2. publications' = publications
      BY <2>3 DEF RetryWrite, history
    <3>3. publications <= Cardinality(Accepted) + 1 /\ publications + 1 <= Cardinality(Accepted) + 2
      BY <2>1, <2>2
    <3>4. QED
      BY <2>1, <3>1, <3>2, <3>3 DEF EffectInv
  <2>4. ASSUME Accepted' = Accepted, Open' => Open, publications' = publications PROVE EffectInv'
    <3>1. Credit' <= Credit
      BY <2>4 DEF Credit
    <3>2. QED
      BY <2>1, <2>2, <2>4, <3>1 DEF EffectInv
  <2>5. ASSUME publications' = publications + 1, Open, ~Open', UNCHANGED req PROVE EffectInv'
    <3>1. Credit = 1 /\ Credit' = 0 /\ Accepted' = Accepted
      BY <2>5 DEF Credit, Accepted
    <3>2. QED
      BY <2>1, <2>2, <2>5, <3>1 DEF EffectInv
  <2>6. CASE \E q \in RetryRequests : RetryWrite(q)
    <3>1. PICK q \in RetryRequests : RetryWrite(q)
      BY <2>6
    <3>2. q \notin Accepted /\ q \in Accepted'
      BY <3>1 DEF RetryWrite, Done, Accepted, TypeOK, ContextOK, Requests
    <3>3. QED
      BY <2>3, <3>2, AcceptedEffect
  <2>7. CASE \A q \in RetryRequests : ~RetryWrite(q)
    <3>1. (Open' => Open) /\ Accepted' = Accepted
      BY <2>7, NoReopening, AcceptedEffect
    <3>2. QED
      BY <2>4, <2>5, <3>1, PublicationEffect
  <2>8. QED
    BY <2>6, <2>7
<1>3. TypeOK /\ EffectInv => OneEffectPerRequest
  <2> SUFFICES ASSUME TypeOK, EffectInv PROVE OneEffectPerRequest
    OBVIOUS
  <2>1. publications \in Nat /\ Credit \in {0, 1} /\ Cardinality(Accepted) \in Nat
    BY FS_CardinalityType DEF TypeOK, ContextOK, Credit, EffectInv
  <2>2. publications <= 1 + Cardinality(Accepted)
    BY <2>1 DEF EffectInv
  <2>3. QED
    BY <2>2 DEF OneEffectPerRequest, Accepted
<1>4. QED
  BY <1>1, <1>2, <1>3, JobTypeCorrect, ClaimantOnly, PTL DEF Spec

-----------------------------------------------------------------------------
(* No lost wake-up.  A delivery that finds the job unclaimable is acked,   *)
(* so what matters is why a queued job may be unclaimable: nobody owns it, *)
(* and the only instant it may still wait for is that of a delayed event.  *)
WaitsForWorker ==
  job.status = "queued" => job.claimed_by = NoOne /\ job.next \in {NoOne, Due} \cup delayed

(* Something on its way to a worker.                                       *)
Pending == outbox > 0 \/ queue > 0 \/ delayed # {}
Holding == {"received", "claimed", "begun", "nacking"}

WakeupInv == WaitsForWorker /\ QueuedHasWakeup

(* A step keeps the job's place in the queue, puts it back together with   *)
(* an event, or leaves it not queued.                                      *)
StaysQueued ==
  /\ job'.status = job.status /\ job'.claimed_by = job.claimed_by
  /\ job'.next = job.next \/ job'.next = Due

PutBack ==
  /\ job'.claimed_by = NoOne
  /\ \/ job'.next = Due /\ outbox' > 0
     \/ job'.next \in delayed'

(* The rejecting returns leave the job finished: its session's status is   *)
(* "running", so the final status is written.                              *)
LEMMA RejectFinishes ==
  ASSUME TypeOK, UnretriedInv, NEW w \in Workers,
         RejectTenant(w) \/ RejectStale(w) \/ SkipUnchanged(w)
  PROVE  job'.status \in {"cancelled", "failed"}
<1>1. Processing(w) /\ view[w].status = "running" /\ view[w] \in JobRow /\ ~SkipUnchanged(w)
  BY DEF RejectTenant, RejectStale, SkipUnchanged, Processing, UnretriedInv, SessionsFresh,
         UnchangedStaysDone, TypeOK, RowsOK
<1> DEFINE row(s, t) == Released([view[w] EXCEPT !.status = s, !.stage = t])
<1>2. /\ row("cancelled", "tenant_lifecycle_rejected").status = "cancelled"
      /\ row("failed", "tenant_context_stale").status = "failed"
  BY <1>1 DEF Released, JobRow
<1>3. \/ job' = Flush(view[w], row("cancelled", "tenant_lifecycle_rejected"))
      \/ job' = Flush(view[w], row("failed", "tenant_context_stale"))
  BY <1>1 DEF RejectTenant, RejectStale, Settle
<1> HIDE DEF row
<1>4. QED
  BY <1>1, <1>2, <1>3 DEF Flush

LEMMA QueueEffect ==
  ASSUME RetryRequests = {}, TypeOK, UnretriedInv, [Next]_vars, job'.status = "queued"
  PROVE  StaysQueued \/ PutBack
<1>1. job \in JobRow /\ view \in [Workers -> JobRow] /\ reqview \in [Requests -> JobRow] /\ outbox \in Nat
  BY DEF TypeOK, RowsOK, MessagesOK
<1>2. CASE UNCHANGED job
  BY <1>2 DEF StaysQueued
<1>3. CASE RecoverExpired
  BY <1>1, <1>3 DEF RecoverExpired, PutBack, JobRow
<1>4. CASE LeaseExpires \/ (\E k \in delayed : BackoffEnds(k)) \/ (\E w \in Workers : Heartbeat(w))
  BY <1>1, <1>4 DEF LeaseExpires, BackoffEnds, Heartbeat, StaysQueued, JobRow
<1>5. ASSUME NEW w \in Workers, Claim(w) PROVE FALSE
  BY <1>1, <1>5 DEF Claim, JobRow
<1>6. ASSUME NEW w \in Workers, RejectTenant(w) \/ RejectStale(w) \/ SkipUnchanged(w) PROVE FALSE
  BY <1>6, RejectFinishes
<1>7. ASSUME NEW w \in Workers, CheckCancelled(w) \/ Succeed(w) \/ FailFinally(w) PROVE FALSE
  BY <1>1, <1>7 DEF CheckCancelled, Succeed, FailFinally, Settle, Outcome, JobRow
<1>8. ASSUME NEW w \in Workers, FailTransiently(w) PROVE PutBack
  BY <1>1, <1>8 DEF FailTransiently, Settle, Outcome, PutBack, JobRow
<1>9. ASSUME NEW q \in Requests, CancelWrite(q) PROVE FALSE
  <2> DEFINE new == [reqview[q] EXCEPT !.cancelled = TRUE, !.status = "cancelled"]
  <2>1. new.status = "cancelled" /\ job' = Flush(reqview[q], new)
    BY <1>1, <1>9 DEF CancelWrite, JobRow
  <2>2. reqview[q].status # "cancelled"
    BY <1>9 DEF CancelWrite, UnretriedInv, SessionsFresh
  <2> HIDE DEF new
  <2>3. job'.status = "cancelled"
    BY <2>1, <2>2 DEF Flush
  <2>4. QED
    BY <2>3
<1>10. CASE \E w \in Workers : CheckLost(w) \/ Abort(w) \/ Crash(w) \/ Receive(w) \/ ClaimMiss(w)
                               \/ Ack(w) \/ Nack(w) \/ Begin(w) \/ CheckPasses(w)
  BY <1>2, <1>10 DEF CheckLost, Abort, Crash, RollBack, Receive, ClaimMiss, Ack, Nack, Begin, CheckPasses
<1>11. CASE Dispatch \/ DispatchTwice \/ Poison \/ TenantChanges \/ UNCHANGED vars
            \/ (\E q \in CancelRequests : CancelRead(q))
  BY <1>2, <1>11 DEF Dispatch, DispatchTwice, Poison, TenantChanges, vars, CancelRead
<1>12. QED
  BY <1>3, <1>4, <1>5, <1>6, <1>7, <1>8, <1>9, <1>10, <1>11
     DEF Next, WorkerStep, ProcessStep, Requests

(* Only the end of its own backoff takes a delayed event away, and that    *)
(* makes the job due.                                                      *)
LEMMA BackoffEffect ==
  ASSUME TypeOK, [Next]_vars, NEW k \in delayed, job'.next = k, job.next = k
  PROVE  k \in delayed'
<1>1. k # Due
  BY DEF TypeOK, MessagesOK, Due
<1>2. ASSUME NEW n \in delayed, BackoffEnds(n) PROVE k \in delayed'
  BY <1>1, <1>2 DEF BackoffEnds, TypeOK, RowsOK, JobRow
<1>3. CASE delayed \subseteq delayed'
  BY <1>3
<1>4. QED
  BY <1>2, <1>3
     DEF Next, Dispatch, DispatchTwice, Poison, RecoverExpired, LeaseExpires, TenantChanges, vars,
         WorkerStep, ProcessStep, Receive, Claim, ClaimMiss, Ack, Nack, RejectTenant, RejectStale,
         SkipUnchanged, Begin, CheckPasses, CheckCancelled, CheckLost, Succeed, FailFinally,
         FailTransiently, RollBack, Heartbeat, Abort, Crash, CancelRead, CancelWrite, RetryRead,
         RetryWrite, messages

LEMMA WaitsStep ==
  ASSUME RetryRequests = {}, TypeOK, UnretriedInv, WaitsForWorker, [Next]_vars
  PROVE  WaitsForWorker'
<1> SUFFICES ASSUME job'.status = "queued"
             PROVE  job'.claimed_by = NoOne /\ job'.next \in {NoOne, Due} \cup delayed'
  BY DEF WaitsForWorker, Due
<1>1. CASE PutBack
  BY <1>1 DEF PutBack
<1>2. CASE StaysQueued
  <2>1. job.claimed_by = NoOne /\ job.next \in {NoOne, Due} \cup delayed
    BY <1>2 DEF StaysQueued, WaitsForWorker
  <2>2. QED
    BY <1>2, <2>1, BackoffEffect DEF StaysQueued
<1>3. QED
  BY <1>1, <1>2, QueueEffect

(* A poisoned event is remembered until the job is put back with a new one. *)
LEMMA PoisonStays ==
  ASSUME RetryRequests = {}, TypeOK, OnlyClaimantWorks, [Next]_vars, job.status = "queued", poisoned
  PROVE  poisoned'
<1>1. ~RecoverExpired
  BY DEF RecoverExpired
<1>2. ASSUME NEW w \in Workers, FailTransiently(w) PROVE FALSE
  BY <1>2 DEF FailTransiently, OnlyClaimantWorks, Attempting
<1>3. CASE Poison
  BY <1>3 DEF Poison
<1>4. CASE UNCHANGED poisoned
  BY <1>4
<1>5. QED
  BY <1>1, <1>2, <1>3, <1>4
     DEF Next, Dispatch, DispatchTwice, LeaseExpires, TenantChanges, BackoffEnds, vars,
         WorkerStep, ProcessStep, Receive, Claim, ClaimMiss, Ack, Nack, RejectTenant, RejectStale,
         SkipUnchanged, Begin, CheckPasses, CheckCancelled, CheckLost, Succeed, FailFinally,
         RollBack, Heartbeat, Abort, Crash, CancelRead, CancelWrite, RetryRead, history

(* A worker lets go of the job only after handing its message back, or     *)
(* with the job no longer queued, or because somebody else will see to it. *)
LEMMA WakeupStep ==
  ASSUME RetryRequests = {}, TypeOK, OnlyClaimantWorks, UnretriedInv, WakeupInv, [Next]_vars,
         job.status = "queued", job'.status = "queued", ~poisoned'
  PROVE  Pending' \/ \E w \in Workers : pc'[w] \in Holding
<1> DEFINE Wake == Pending' \/ \E w \in Workers : pc'[w] \in Holding
<1>1. /\ pc \in [Workers -> PcValues] /\ job \in JobRow
      /\ outbox \in Nat /\ queue \in Nat
  BY DEF TypeOK, ProcessesOK, RowsOK, MessagesOK
<1>2. Pending \/ \E w \in Workers : pc[w] \in Holding
  BY PoisonStays DEF WakeupInv, QueuedHasWakeup, Pending, Holding
<1>3. CASE UNCHANGED <<messages, pc>>
  BY <1>2, <1>3 DEF messages, Pending, Holding
<1>4. CASE Dispatch \/ DispatchTwice \/ (\E k \in delayed : BackoffEnds(k)) \/ RecoverExpired
  BY <1>1, <1>4 DEF Dispatch, DispatchTwice, BackoffEnds, RecoverExpired, Pending
<1>5. ASSUME NEW w \in Workers, NEW to \in Holding, Goto(w, to) PROVE Wake
  BY <1>1, <1>5 DEF Goto
<1>6. ASSUME NEW w \in Workers, Receive(w) \/ Claim(w) \/ Begin(w) \/ RollBack(w) PROVE Wake
  BY <1>5, <1>6 DEF Receive, Claim, Begin, RollBack, Holding
<1>7. ASSUME NEW w \in Workers, Nack(w) PROVE Wake
  BY <1>1, <1>7 DEF Nack, Pending
<1>8. ASSUME NEW w \in Workers, Ack(w) PROVE Wake
  <2>1. UNCHANGED messages /\ \A v \in Workers : pc[v] \in Holding => pc'[v] = pc[v]
    BY <1>1, <1>8 DEF Ack, Goto, Holding
  <2>2. QED
    BY <1>2, <2>1 DEF messages, Pending
<1>9. ASSUME NEW w \in Workers, Crash(w) PROVE Wake
  <2>1. CASE pc[w] = "idle"
    <3>1. UNCHANGED messages /\ \A v \in Workers : pc[v] \in Holding => pc'[v] = pc[v]
      BY <1>1, <1>9, <2>1 DEF Crash, Goto, Holding, messages
    <3>2. QED
      BY <1>2, <3>1 DEF messages, Pending
  <2>2. CASE pc[w] # "idle"
    BY <1>1, <1>9, <2>2 DEF Crash, Pending
  <2>3. QED
    BY <2>1, <2>2
<1>10. ASSUME NEW w \in Workers, ClaimMiss(w) PROVE Wake
  <2>1. UNCHANGED messages /\ \A v \in Workers : v # w => pc'[v] = pc[v]
    BY <1>1, <1>10 DEF ClaimMiss, Goto
  <2>2. CASE lock # NoOne
    <3>1. lock \in Workers /\ pc[lock] \in Attempting
      BY <2>2 DEF TypeOK, ProcessesOK
    <3>2. pc[lock] = "begun" /\ lock # w
      BY <1>10, <3>1 DEF OnlyClaimantWorks, ClaimMiss, Attempting
    <3>3. QED
      BY <2>1, <3>1, <3>2 DEF Holding
  <2>3. CASE ~Claimable(w)
    <3>1. job.claimed_by = NoOne /\ job.next \in {NoOne, Due} \cup delayed
      BY DEF WakeupInv, WaitsForWorker
    <3>2. ~job.cancelled
      BY DEF UnretriedInv, CancelIsTerminal
    <3>3. delayed # {}
      BY <2>3, <3>1, <3>2 DEF Claimable
    <3>4. QED
      BY <2>1, <3>3 DEF messages, Pending
  <2>4. QED
    BY <1>10, <2>2, <2>3 DEF ClaimMiss
<1>11. ASSUME NEW w \in Workers, CheckPasses(w) PROVE FALSE
  BY <1>11 DEF CheckPasses, Owned
<1>12. ASSUME NEW w \in Workers, Succeed(w) \/ FailFinally(w) \/ FailTransiently(w) PROVE FALSE
  BY <1>12 DEF Succeed, FailFinally, FailTransiently, OnlyClaimantWorks, Attempting
<1>13. ASSUME NEW w \in Workers, CheckCancelled(w) PROVE FALSE
  BY <1>1, <1>13 DEF CheckCancelled, Settle, Outcome, JobRow
<1>14. ASSUME NEW w \in Workers, RejectTenant(w) \/ RejectStale(w) \/ SkipUnchanged(w) PROVE FALSE
  BY <1>14, RejectFinishes
<1>15. CASE LeaseExpires \/ TenantChanges \/ (\E q \in CancelRequests : CancelRead(q) \/ CancelWrite(q))
            \/ (\E w \in Workers : Heartbeat(w)) \/ UNCHANGED vars
  BY <1>3, <1>15 DEF LeaseExpires, TenantChanges, CancelRead, CancelWrite, Heartbeat, vars
<1>16. ~Poison
  BY DEF Poison
<1>17. QED
  BY <1>4, <1>6, <1>7, <1>8, <1>9, <1>10, <1>11, <1>12, <1>13, <1>14, <1>15, <1>16
     DEF Next, WorkerStep, ProcessStep, CheckLost, Abort

(* No wake-up is lost: as long as nobody retries the job by hand, a queued *)
(* job has an event, a message or a delivery under way, whatever the       *)
(* workers' misses, crashes, lost leases and redeliveries, unless the      *)
(* outbox poisoned an event of it since it was last queued.                *)
THEOREM NoLostWakeup == ASSUME RetryRequests = {} PROVE Spec => []QueuedHasWakeup
<1>1. Init => WakeupInv
  <2> SUFFICES ASSUME Init PROVE WakeupInv
    OBVIOUS
  <2>1. job.claimed_by = NoOne /\ job.next = NoOne /\ (job.status = "queued" => outbox = 1)
    BY DEF Init, Row
  <2>2. QED
    BY <2>1 DEF WakeupInv, WaitsForWorker, QueuedHasWakeup
<1>2. ASSUME RetryRequests = {}, TypeOK, OnlyClaimantWorks, UnretriedInv, WakeupInv, [Next]_vars
      PROVE  WakeupInv'
  <2>1. WaitsForWorker'
    BY <1>2, WaitsStep DEF WakeupInv
  <2>2. ASSUME job'.status = "queued", ~poisoned' PROVE Pending' \/ \E w \in Workers : pc'[w] \in Holding
    <3>1. CASE job.status = "queued"
      BY <1>2, <2>2, <3>1, WakeupStep
    <3>2. CASE job.status # "queued"
      BY <1>2, <2>2, <3>2, QueueEffect DEF StaysQueued, PutBack, Pending
    <3>3. QED
      BY <3>1, <3>2
  <2>3. QueuedHasWakeup'
    BY <2>2 DEF QueuedHasWakeup, Pending, Holding
  <2>4. QED
    BY <2>1, <2>3 DEF WakeupInv
<1>3. TypeOK /\ OnlyClaimantWorks /\ UnretriedInv /\ WakeupInv /\ [Next]_vars => WakeupInv'
  BY <1>2
<1>4. WakeupInv => QueuedHasWakeup
  BY DEF WakeupInv
<1>5. QED
  BY <1>1, <1>3, <1>4, JobTypeCorrect, ClaimantOnly, Unretried, PTL DEF Spec

-----------------------------------------------------------------------------
(* Attempts that a fault undoes are not counted in the row, so that the    *)
(* row's limit does not bound them.  The account: a worker that has        *)
(* claimed the job starts at most one attempt; the attempt of a worker     *)
(* that still holds a valid lease ("Fresh") will be counted, and every     *)
(* other one ("Outdated") was paid for by the fault that took the lease.   *)
Fresh(w) == job.status = "running" /\ job.claimed_by = w /\ job.lease = "valid"
Claimed == {w \in Workers : pc[w] = "claimed"}
Outdated == {w \in Claimed : ~Fresh(w)}
Uncounted == IF \E w \in Workers : pc[w] \in Attempting /\ Fresh(w) THEN 1 ELSE 0

(* The row still has the counter its claimant loaded. *)
CounterLoaded ==
  \A w \in Workers :
    Processing(w) /\ job.status = "running" /\ job.claimed_by = w => view[w].attempts = job.attempts

StartsInv ==
  /\ IsFiniteSet(Claimed)
  /\ CounterLoaded
  /\ IF Open THEN starts + Cardinality(Outdated) <= job.attempts + faults + Uncounted
     ELSE starts + Cardinality(Claimed) <= MaxAttempts + faults

(* At most one claim is fresh, and none while its owner is in an attempt.  *)
LEMMA ClaimCounts ==
  ASSUME IsFiniteSet(Claimed)
  PROVE  /\ Cardinality(Claimed) \in Nat /\ Cardinality(Outdated) \in Nat /\ Uncounted \in {0, 1}
         /\ IsFiniteSet(Outdated)
         /\ Cardinality(Claimed) + Uncounted <= Cardinality(Outdated) + 1
<1>1. /\ IsFiniteSet(Outdated) /\ Cardinality(Claimed) \in Nat /\ Cardinality(Outdated) \in Nat
  BY FS_Subset, FS_CardinalityType DEF Outdated
<1>2. Uncounted \in {0, 1}
  BY DEF Uncounted
<1>3. CASE Outdated = Claimed
  BY <1>1, <1>2, <1>3
<1>4. CASE Outdated # Claimed
  <2>1. PICK w \in Claimed : Fresh(w)
    BY <1>4 DEF Outdated
  <2>2. Claimed = Outdated \cup {w} /\ w \notin Outdated
    BY <2>1 DEF Outdated, Fresh
  <2>3. Cardinality(Claimed) = Cardinality(Outdated) + 1
    BY <1>1, <2>2, FS_AddElement
  <2>4. Uncounted = 0
    BY <2>1 DEF Uncounted, Fresh, Claimed, Attempting
  <2>5. QED
    BY <1>1, <2>3, <2>4
<1>5. QED
  BY <1>1, <1>2, <1>3, <1>4

LEMMA FewerCount ==
  ASSUME NEW S, NEW R, IsFiniteSet(S), R \subseteq S
  PROVE  IsFiniteSet(R) /\ Cardinality(R) \in Nat /\ Cardinality(S) \in Nat /\ Cardinality(R) <= Cardinality(S)
BY FS_Subset, FS_CardinalityType

(* The row's and the budget's numbers. *)
LEMMA Numbers ==
  ASSUME TypeOK
  PROVE  /\ starts \in Nat /\ faults \in Nat /\ job.attempts \in Nat /\ MaxAttempts \in Nat
         /\ job \in JobRow /\ view \in [Workers -> JobRow] /\ pc \in [Workers -> PcValues]
BY JobAssumption DEF TypeOK, RowsOK, ContextOK, ProcessesOK, JobRow

(* While nobody holds the row lock nobody is in an attempt. *)
LEMMA Unlocked ==
  ASSUME TypeOK, lock = NoOne
  PROVE  Uncounted = 0
BY JobAssumption DEF TypeOK, ProcessesOK, Uncounted

(* Steps that leave the job finished: what was open has an attempt left.   *)
LEMMA CloseStep ==
  ASSUME TypeOK, AttemptsWithinLimit, StartsInv, ~Open', starts' = starts, faults' = faults,
         Claimed' \subseteq Claimed
  PROVE  StartsInv'
<1>1. IsFiniteSet(Claimed') /\ Cardinality(Claimed') \in Nat /\ Cardinality(Claimed') <= Cardinality(Claimed)
  BY FewerCount DEF StartsInv
<1>2. CounterLoaded'
  BY DEF CounterLoaded, Open
<1>3. starts + Cardinality(Claimed) <= MaxAttempts + faults
  <2>1. CASE Open
    <3>1. job.attempts < MaxAttempts /\ starts + Cardinality(Outdated) <= job.attempts + faults + Uncounted
      BY <2>1 DEF StartsInv, AttemptsWithinLimit, Open
    <3>2. /\ Cardinality(Claimed) \in Nat /\ Cardinality(Outdated) \in Nat /\ Uncounted \in {0, 1}
          /\ Cardinality(Claimed) + Uncounted <= Cardinality(Outdated) + 1
      BY ClaimCounts DEF StartsInv
    <3>3. starts \in Nat /\ faults \in Nat /\ job.attempts \in Nat /\ MaxAttempts \in Nat
      BY Numbers
    <3> QED
      BY <3>1, <3>2, <3>3
  <2>2. CASE ~Open
    BY <2>2 DEF StartsInv
  <2>3. QED
    BY <2>1, <2>2
<1>4. starts' + Cardinality(Claimed') <= MaxAttempts + faults'
  <2>1. starts \in Nat /\ faults \in Nat /\ MaxAttempts \in Nat /\ Cardinality(Claimed) \in Nat
    BY Numbers, ClaimCounts DEF StartsInv
  <2>2. QED
    BY <1>1, <1>3, <2>1
<1>5. QED
  BY <1>1, <1>2, <1>4 DEF StartsInv

(* Steps that leave the row as it is, or renew a lease: a fault pays for   *)
(* an attempt that is undone.                                              *)
LEMMA RowStays ==
  ASSUME TypeOK, StartsInv, starts' = starts, Open' <=> Open, job'.attempts = job.attempts,
         CounterLoaded', Claimed' \subseteq Claimed, \A w \in Workers : Fresh(w) => Fresh(w)',
         \/ faults' = faults /\ Uncounted <= Uncounted'
         \/ faults' = faults + 1 /\ Uncounted' \in {0, 1}
  PROVE  StartsInv'
<1>1. /\ starts \in Nat /\ faults \in Nat /\ job.attempts \in Nat /\ MaxAttempts \in Nat
      /\ Uncounted \in {0, 1} /\ Uncounted' \in {0, 1}
  BY Numbers DEF Uncounted
<1>2. /\ IsFiniteSet(Claimed') /\ Cardinality(Claimed') \in Nat /\ Cardinality(Claimed) \in Nat
      /\ Cardinality(Claimed') <= Cardinality(Claimed)
  BY FewerCount DEF StartsInv
<1>3. Outdated' \subseteq Outdated /\ IsFiniteSet(Outdated)
  BY ClaimCounts DEF StartsInv, Outdated, Claimed
<1>4. Cardinality(Outdated') \in Nat /\ Cardinality(Outdated) \in Nat /\ Cardinality(Outdated') <= Cardinality(Outdated)
  BY <1>3, FewerCount
<1>5. CASE Open
  <2>1. starts + Cardinality(Outdated) <= job.attempts + faults + Uncounted
    BY <1>5 DEF StartsInv
  <2>2. starts' + Cardinality(Outdated') <= job'.attempts + faults' + Uncounted'
    BY <1>1, <1>4, <2>1
  <2>3. QED
    BY <1>2, <1>5, <2>2 DEF StartsInv
<1>6. CASE ~Open
  <2>1. starts + Cardinality(Claimed) <= MaxAttempts + faults
    BY <1>6 DEF StartsInv
  <2>2. starts' + Cardinality(Claimed') <= MaxAttempts + faults'
    BY <1>1, <1>2, <2>1
  <2>3. QED
    BY <1>2, <1>6, <2>2 DEF StartsInv
<1>7. QED
  BY <1>5, <1>6

(* Only a claim makes a worker one that has claimed the job.               *)
LEMMA ClaimedStep ==
  ASSUME TypeOK, [Next]_vars, \A w \in Workers : ~Claim(w)
  PROVE  Claimed' \subseteq Claimed
<1>1. pc \in [Workers -> PcValues]
  BY DEF TypeOK, ProcessesOK
<1>2. CASE UNCHANGED pc
  BY <1>2 DEF Claimed
<1>3. ASSUME NEW v \in Workers, NEW to \in PcValues \ {"claimed"}, Goto(v, to)
      PROVE  Claimed' \subseteq Claimed
  BY <1>1, <1>3 DEF Goto, Claimed
<1>4. {"idle", "received", "acking", "nacking", "dead"} \cup Attempting \subseteq PcValues \ {"claimed"}
  BY DEF PcValues, Attempting
<1>5. ASSUME NEW v \in Workers, CheckPasses(v) PROVE Claimed' \subseteq Claimed
  <2>1. PICK to \in Attempting : Goto(v, to)
    BY <1>5 DEF CheckPasses, Attempting
  <2>2. QED
    BY <1>3, <1>4, <2>1
<1>6. ASSUME NEW v \in Workers,
             \/ Receive(v) \/ ClaimMiss(v) \/ Ack(v) \/ Nack(v) \/ Begin(v) \/ RollBack(v) \/ Crash(v)
             \/ \E row : Settle(v, row)
      PROVE  Claimed' \subseteq Claimed
  <2>1. PICK to \in PcValues \ {"claimed"} : Goto(v, to)
    BY <1>4, <1>6 DEF Receive, ClaimMiss, Ack, Nack, Begin, RollBack, Crash, Settle, Attempting
  <2>2. QED
    BY <1>3, <2>1
<1>7. QED
  BY <1>2, <1>5, <1>6
     DEF Next, Dispatch, DispatchTwice, Poison, RecoverExpired, LeaseExpires, TenantChanges, BackoffEnds, vars,
         WorkerStep, ProcessStep, RejectTenant, RejectStale, SkipUnchanged, CheckCancelled, CheckLost,
         Succeed, FailFinally, FailTransiently, Abort, Heartbeat, CancelRead, CancelWrite, RetryRead,
         RetryWrite

(* The claimant's session has the row's counter: only the claimant's own   *)
(* attempt moves it, and gives the claim up with it.                       *)
LEMMA CounterStep ==
  ASSUME RetryRequests = {}, TypeOK, OnlyClaimantWorks, UnretriedInv, CounterLoaded, [Next]_vars
  PROVE  CounterLoaded'
<1> SUFFICES ASSUME NEW w \in Workers, Processing(w)', job'.status = "running", job'.claimed_by = w
             PROVE  view'[w].attempts = job'.attempts
  BY DEF CounterLoaded
<1>1. ASSUME NEW v \in Workers, Claim(v) PROVE view'[w].attempts = job'.attempts
  <2>1. job'.claimed_by = v /\ view'[v] = job'
    BY <1>1 DEF Claim, TypeOK, RowsOK, JobRow
  <2>2. QED
    BY <2>1
<1>2. CASE Kept /\ ~Claim(w)
  <2>1. view'[w] = view[w] /\ Processing(w)
    BY <1>2, ViewEffect
  <2>2. QED
    BY <1>2, <2>1 DEF Kept, CounterLoaded
<1>3. CASE Left
  BY <1>3 DEF Left
<1>4. QED
  BY <1>1, <1>2, <1>3, RowEffect

(* Steps that leave the row alone: an attempt that ends has lost its       *)
(* lease, or a fault ends it.                                              *)
LEMMA RowUntouched ==
  ASSUME TypeOK, StartsInv, CounterLoaded', Claimed' \subseteq Claimed, job' = job, starts' = starts,
         \/ faults' = faults + 1
         \/ /\ faults' = faults
            /\ \A w \in Workers : pc[w] \in Attempting /\ Fresh(w) => pc'[w] \in Attempting
  PROVE  StartsInv'
<1>1. (Open' <=> Open) /\ \A w \in Workers : Fresh(w)' <=> Fresh(w)
  BY DEF Open, Fresh
<1>2. Uncounted' \in {0, 1} /\ Uncounted \in {0, 1}
  BY DEF Uncounted
<1>3. CASE \A w \in Workers : pc[w] \in Attempting /\ Fresh(w) => pc'[w] \in Attempting
  <2>1. Uncounted <= Uncounted'
    BY <1>1, <1>2, <1>3 DEF Uncounted
  <2>2. QED
    BY <1>1, <1>2, <2>1, RowStays
<1>4. CASE faults' = faults + 1
  BY <1>1, <1>2, <1>4, RowStays
<1>5. QED
  BY <1>3, <1>4

(* Steps without a start that do not touch the row.                        *)
LEMMA QuietStep ==
  ASSUME TypeOK, StartsInv, CounterLoaded', Claimed' \subseteq Claimed,
         \/ Dispatch \/ DispatchTwice \/ Poison \/ TenantChanges \/ UNCHANGED vars
         \/ \E q \in CancelRequests : CancelRead(q)
         \/ \E w \in Workers : \/ Receive(w) \/ ClaimMiss(w) \/ Ack(w) \/ Nack(w) \/ CheckPasses(w)
                               \/ CheckLost(w) \/ Abort(w) \/ Crash(w)
  PROVE  StartsInv'
<1>1. pc \in [Workers -> PcValues]
  BY DEF TypeOK, ProcessesOK
<1>2. CASE UNCHANGED <<job, pc, starts>> /\ faults' \in {faults, faults + 1}
  BY <1>2, RowUntouched
<1>3. CASE Dispatch \/ DispatchTwice \/ Poison \/ TenantChanges \/ UNCHANGED vars
           \/ (\E q \in CancelRequests : CancelRead(q))
  BY <1>2, <1>3 DEF Dispatch, DispatchTwice, Poison, TenantChanges, vars, CancelRead, history
<1>4. ASSUME NEW w \in Workers, NEW to \in PcValues, Goto(w, to), UNCHANGED <<job, starts, faults>>,
             pc[w] \in Attempting /\ Fresh(w) => to \in Attempting
      PROVE  StartsInv'
  <2>1. \A v \in Workers : pc[v] \in Attempting /\ Fresh(v) => pc'[v] \in Attempting
    BY <1>1, <1>4 DEF Goto
  <2>2. QED
    BY <1>4, <2>1, RowUntouched
<1>5. ASSUME NEW w \in Workers, Receive(w) \/ ClaimMiss(w) \/ Ack(w) \/ Nack(w) PROVE StartsInv'
  <2>1. pc[w] \notin Attempting /\ UNCHANGED <<job, starts, faults>>
    BY <1>5 DEF Receive, ClaimMiss, Ack, Nack, Attempting, history
  <2>2. PICK to \in PcValues : Goto(w, to)
    BY <1>5 DEF Receive, ClaimMiss, Ack, Nack, PcValues
  <2>3. QED
    BY <1>4, <2>1, <2>2
<1>6. ASSUME NEW w \in Workers, CheckPasses(w) PROVE StartsInv'
  <2>1. PICK to \in Attempting : Goto(w, to)
    BY <1>6 DEF CheckPasses, Attempting
  <2>2. to \in PcValues /\ UNCHANGED <<job, starts, faults>>
    BY <1>6 DEF CheckPasses, history, PcValues
  <2>3. QED
    BY <1>4, <2>1, <2>2
<1>7. ASSUME NEW w \in Workers, CheckLost(w) PROVE StartsInv'
  <2>1. ~Fresh(w)
    BY <1>7 DEF CheckLost, Owned, CancelSeen, Fresh
  <2>2. Goto(w, "nacking") /\ UNCHANGED <<job, starts, faults>> /\ "nacking" \in PcValues
    BY <1>7 DEF CheckLost, RollBack, history, PcValues
  <2>3. QED
    BY <1>4, <2>1, <2>2
<1>8. ASSUME NEW w \in Workers, Abort(w) \/ Crash(w) PROVE StartsInv'
  <2>1. UNCHANGED <<job, starts>> /\ faults' = faults + 1
    BY <1>8 DEF Abort, Crash, RollBack, history
  <2>2. QED
    BY <2>1, RowUntouched
<1>9. QED
  BY <1>3, <1>5, <1>6, <1>7, <1>8

(* The clock ends a backoff, or a heartbeat renews the lease, which takes  *)
(* the row lock: nobody is in an attempt then.                             *)
LEMMA RenewStep ==
  ASSUME TypeOK, StartsInv, CounterLoaded', Claimed' \subseteq Claimed,
         (\E k \in delayed : BackoffEnds(k)) \/ (\E w \in Workers : Heartbeat(w))
  PROVE  StartsInv'
<1>1. job \in JobRow /\ UNCHANGED <<pc, starts, faults>>
  BY DEF TypeOK, RowsOK, BackoffEnds, Heartbeat, history
<1>2. /\ job'.status = job.status /\ job'.attempts = job.attempts /\ job'.claimed_by = job.claimed_by
      /\ job.lease = "valid" => job'.lease = "valid"
  BY <1>1 DEF BackoffEnds, Heartbeat, JobRow
<1>3. (Open' <=> Open) /\ \A w \in Workers : Fresh(w) => Fresh(w)'
  BY <1>2 DEF Open, Fresh
<1>4. Uncounted <= Uncounted'
  BY <1>1, <1>3 DEF Uncounted
<1>5. QED
  BY <1>1, <1>2, <1>3, <1>4, RowStays

(* A claim makes only its worker's lease valid, and found nobody else's.   *)
LEMMA ClaimStep ==
  ASSUME TypeOK, StartsInv, CounterLoaded', NEW w \in Workers, Claim(w)
  PROVE  StartsInv'
<1>1. /\ job \in JobRow /\ pc \in [Workers -> PcValues] /\ lock = NoOne /\ lock' = NoOne
      /\ starts' = starts /\ faults' = faults /\ pc[w] = "received" /\ Claimable(w)
      /\ job' = [job EXCEPT !.status = "running", !.claimed_by = w, !.lease = "valid", !.next = NoOne]
      /\ pc' = [pc EXCEPT ![w] = "claimed"]
  BY DEF Claim, TypeOK, RowsOK, ProcessesOK, history, Goto
<1>2. Claimed' = Claimed \cup {w} /\ w \notin Claimed
  BY <1>1 DEF Claimed
<1>3. IsFiniteSet(Claimed')
  BY <1>2, FS_AddElement DEF StartsInv
<1>4. job'.attempts = job.attempts /\ job'.status = "running" /\ job'.claimed_by = w /\ job'.lease = "valid"
  BY <1>1 DEF JobRow
<1>5. Open /\ Open'
  BY <1>1, <1>4 DEF Claimable, Open
<1>6. \A v \in Claimed : ~Fresh(v)
  BY <1>1, <1>2, JobAssumption DEF Claimable, Fresh, Claimed, TypeOK
<1>7. Outdated' \subseteq Outdated
  <2>1. Fresh(w)'
    BY <1>4 DEF Fresh
  <2>2. QED
    BY <1>2, <1>6, <2>1 DEF Outdated
<1>8. Uncounted = 0 /\ Uncounted' \in {0, 1}
  BY <1>1, Unlocked DEF Uncounted
<1>9. /\ Cardinality(Outdated') \in Nat /\ Cardinality(Outdated) \in Nat
      /\ Cardinality(Outdated') <= Cardinality(Outdated)
  BY <1>7, ClaimCounts, FewerCount DEF StartsInv
<1>10. starts + Cardinality(Outdated) <= job.attempts + faults + Uncounted
  BY <1>5 DEF StartsInv
<1>11. starts' + Cardinality(Outdated') <= job'.attempts + faults' + Uncounted'
  <2>1. starts \in Nat /\ faults \in Nat /\ job.attempts \in Nat
    BY Numbers
  <2>2. QED
    BY <1>1, <1>4, <1>8, <1>9, <1>10, <2>1
<1>12. QED
  BY <1>3, <1>5, <1>11 DEF StartsInv

(* A lease that runs out under its owner turns one claim or attempt that   *)
(* would have been counted into one that was paid for; an orphaned lease   *)
(* belongs to neither.                                                     *)
LEMMA ExpiryStep ==
  ASSUME TypeOK, StartsInv, CounterLoaded', LeaseExpires
  PROVE  StartsInv'
<1>1. /\ job \in JobRow /\ job.lease = "valid" /\ job' = [job EXCEPT !.lease = "expired"]
      /\ pc' = pc /\ starts' = starts
  BY DEF LeaseExpires, TypeOK, RowsOK, history
<1>2. /\ job'.status = job.status /\ job'.attempts = job.attempts /\ job'.lease = "expired"
  BY <1>1 DEF JobRow
<1>3. Claimed' = Claimed /\ (\A w \in Workers : ~Fresh(w)') /\ (Open' <=> Open)
  BY <1>1, <1>2 DEF Claimed, Fresh, Open
<1>4. Outdated' = Claimed /\ Uncounted' = 0
  BY <1>3 DEF Outdated, Claimed, Uncounted
<1>5. /\ starts \in Nat /\ faults \in Nat /\ job.attempts \in Nat /\ MaxAttempts \in Nat
      /\ Cardinality(Claimed) \in Nat /\ Cardinality(Outdated) \in Nat /\ Uncounted \in {0, 1}
      /\ Cardinality(Claimed) + Uncounted <= Cardinality(Outdated) + 1
  BY Numbers, ClaimCounts DEF StartsInv
<1>6. \/ faults' = faults /\ Outdated = Claimed /\ Uncounted = 0
      \/ faults' = faults + 1
  <2>1. CASE \E w \in Workers : w = job.claimed_by /\ Processing(w)
    BY <2>1 DEF LeaseExpires
  <2>2. CASE ~\E w \in Workers : w = job.claimed_by /\ Processing(w)
    <3>1. \A w \in Workers : Fresh(w) => pc[w] \notin {"claimed"} \cup Attempting
      BY <2>2 DEF Fresh, Processing
    <3>2. Outdated = Claimed /\ Uncounted = 0
      BY <3>1 DEF Outdated, Claimed, Uncounted
    <3>3. QED
      BY <3>2 DEF LeaseExpires
  <2>3. QED
    BY <2>1, <2>2
<1>7. CASE Open
  <2>1. starts + Cardinality(Outdated) <= job.attempts + faults + Uncounted
    BY <1>7 DEF StartsInv
  <2>2. starts' + Cardinality(Outdated') <= job'.attempts + faults' + Uncounted'
    <3>1. CASE faults' = faults + 1
      BY <1>1, <1>2, <1>4, <1>5, <2>1, <3>1
    <3>2. CASE faults' = faults /\ Outdated = Claimed /\ Uncounted = 0
      BY <1>1, <1>2, <1>4, <1>5, <2>1, <3>2
    <3>3. QED
      BY <1>6, <3>1, <3>2
  <2>3. QED
    BY <1>3, <1>7, <2>2 DEF StartsInv
<1>8. CASE ~Open
  <2>1. starts + Cardinality(Claimed) <= MaxAttempts + faults
    BY <1>8 DEF StartsInv
  <2>2. starts' + Cardinality(Claimed') <= MaxAttempts + faults'
    BY <1>1, <1>3, <1>5, <1>6, <2>1
  <2>3. QED
    BY <1>3, <1>8, <2>2 DEF StartsInv
<1>9. QED
  BY <1>7, <1>8

(* Recovery finds no valid lease and nobody in an attempt: it leaves the   *)
(* account of an open job as it is, or closes the job.                     *)
LEMMA RecoverStep ==
  ASSUME TypeOK, AttemptsWithinLimit, StartsInv, CounterLoaded', Claimed' \subseteq Claimed, RecoverExpired
  PROVE  StartsInv'
<1>1. /\ job \in JobRow /\ lock = NoOne /\ job.status = "running" /\ job.lease = "expired"
      /\ starts' = starts /\ faults' = faults
  BY DEF RecoverExpired, TypeOK, RowsOK, history
<1>2. job'.attempts = job.attempts /\ job'.status \in {"cancelled", "failed", "queued"}
  BY <1>1 DEF RecoverExpired, JobRow
<1>3. CASE job'.status = "queued"
  <2>1. Open /\ Open' /\ \A w \in Workers : ~Fresh(w)
    BY <1>1, <1>3 DEF Open, Fresh
  <2>2. Uncounted = 0 /\ Uncounted' \in {0, 1}
    BY <1>1, Unlocked DEF Uncounted
  <2>3. QED
    BY <1>1, <1>2, <2>1, <2>2, RowStays
<1>4. CASE job'.status # "queued"
  <2>1. ~Open'
    BY <1>2, <1>4 DEF Open
  <2>2. QED
    BY <1>1, <2>1, CloseStep
<1>5. QED
  BY <1>3, <1>4

(* An attempt that starts uses up the claim it stands on.                  *)
LEMMA BeginStep ==
  ASSUME TypeOK, StartsInv, CounterLoaded', NEW w \in Workers, Begin(w)
  PROVE  StartsInv'
<1>1. /\ pc \in [Workers -> PcValues] /\ pc[w] = "claimed" /\ lock = NoOne
      /\ pc' = [pc EXCEPT ![w] = "begun"] /\ job' = job /\ starts' = starts + 1 /\ faults' = faults
  BY DEF Begin, TypeOK, ProcessesOK, Goto
<1>2. Claimed' = Claimed \ {w} /\ w \in Claimed
  BY <1>1 DEF Claimed
<1>3. (Open' <=> Open) /\ \A v \in Workers : Fresh(v)' <=> Fresh(v)
  BY <1>1 DEF Open, Fresh
<1>4. Outdated' = Outdated \ {w}
  BY <1>2, <1>3 DEF Outdated, Claimed
<1>5. /\ starts \in Nat /\ faults \in Nat /\ job.attempts \in Nat /\ MaxAttempts \in Nat
      /\ Cardinality(Claimed) \in Nat /\ Cardinality(Outdated) \in Nat
      /\ IsFiniteSet(Claimed) /\ IsFiniteSet(Outdated)
  BY Numbers, ClaimCounts DEF StartsInv
<1>6. Uncounted = 0 /\ Uncounted' \in {0, 1}
  BY <1>1, Unlocked DEF Uncounted
<1>7. IsFiniteSet(Claimed') /\ Cardinality(Claimed') = Cardinality(Claimed) - 1
  BY <1>2, <1>5, FS_RemoveElement
<1>8. CASE Open
  <2>1. starts + Cardinality(Outdated) <= job.attempts + faults
    BY <1>5, <1>6, <1>8 DEF StartsInv
  <2>2. starts' + Cardinality(Outdated') <= job'.attempts + faults' + Uncounted'
    <3>1. CASE Fresh(w)
      <4>1. Outdated' = Outdated
        BY <1>4, <3>1 DEF Outdated
      <4>2. w \in Workers /\ pc'[w] \in Attempting /\ Fresh(w)'
        BY <1>1, <1>3, <3>1 DEF Attempting
      <4>3. Uncounted' = 1
        BY <4>2 DEF Uncounted
      <4>4. QED
        BY <1>1, <1>5, <2>1, <4>1, <4>3
    <3>2. CASE ~Fresh(w)
      <4>1. w \in Outdated
        BY <1>2, <3>2 DEF Outdated
      <4>2. Cardinality(Outdated') = Cardinality(Outdated) - 1
        BY <1>4, <1>5, <4>1, FS_RemoveElement
      <4>3. QED
        BY <1>1, <1>5, <1>6, <2>1, <4>2
    <3>3. QED
      BY <3>1, <3>2
  <2>3. QED
    BY <1>3, <1>7, <1>8, <2>2 DEF StartsInv
<1>9. CASE ~Open
  <2>1. starts + Cardinality(Claimed) <= MaxAttempts + faults
    BY <1>9 DEF StartsInv
  <2>2. starts' + Cardinality(Claimed') <= MaxAttempts + faults'
    BY <1>1, <1>5, <1>7, <2>1
  <2>3. QED
    BY <1>3, <1>7, <1>9, <2>2 DEF StartsInv
<1>10. QED
  BY <1>8, <1>9

(* A transient failure counts its attempt: the claimant's session has the  *)
(* row's counter, and the row moves on by one.                             *)
LEMMA TransientStep ==
  ASSUME TypeOK, OnlyClaimantWorks, StartsInv, CounterLoaded', NEW w \in Workers, FailTransiently(w)
  PROVE  StartsInv'
<1>1. /\ job \in JobRow /\ pc \in [Workers -> PcValues] /\ starts' = starts /\ faults' = faults
      /\ pc[w] \in {"working", "publishing"} /\ pc' = [pc EXCEPT ![w] = "acking"]
      /\ job' = [Outcome(w, "queued", "retry_scheduled") EXCEPT !.next = view[w].attempts + 1]
  BY DEF FailTransiently, Settle, TypeOK, RowsOK, ProcessesOK, history, Goto
<1>2. Processing(w) /\ job.status = "running" /\ job.claimed_by = w
  BY <1>1 DEF OnlyClaimantWorks, Processing, Attempting
<1>3. view[w].attempts = job.attempts
  BY <1>2 DEF StartsInv, CounterLoaded
<1>4. job'.status = "queued" /\ job'.attempts = job.attempts + 1
  BY <1>1, <1>3 DEF Outcome, JobRow
<1>5. Open /\ Open'
  BY <1>2, <1>4 DEF Open
<1>6. Claimed' = Claimed /\ w \notin Claimed
  BY <1>1 DEF Claimed
<1>7. Outdated = Claimed /\ Outdated' = Claimed
  BY <1>2, <1>4, <1>6 DEF Outdated, Fresh, Claimed
<1>8. /\ starts \in Nat /\ faults \in Nat /\ job.attempts \in Nat /\ Cardinality(Outdated) \in Nat
      /\ Uncounted \in {0, 1} /\ Uncounted' \in {0, 1}
  BY Numbers, ClaimCounts DEF StartsInv, Uncounted
<1>9. starts + Cardinality(Outdated) <= job.attempts + faults + Uncounted
  BY <1>5 DEF StartsInv
<1>10. starts' + Cardinality(Outdated') <= job'.attempts + faults' + Uncounted'
  BY <1>1, <1>4, <1>7, <1>8, <1>9
<1>11. QED
  BY <1>5, <1>6, <1>10 DEF StartsInv

(* Every other step that settles the job leaves it finished.               *)
LEMMA FinishStep ==
  ASSUME TypeOK, UnretriedInv, StartsInv, Claimed' \subseteq Claimed,
         \/ \E q \in CancelRequests : CancelWrite(q)
         \/ \E w \in Workers : \/ RejectTenant(w) \/ RejectStale(w) \/ SkipUnchanged(w)
                               \/ CheckCancelled(w) \/ Succeed(w) \/ FailFinally(w)
  PROVE  StartsInv'
<1>1. job \in JobRow /\ \A q \in Requests : reqview[q] \in JobRow
  BY DEF TypeOK, RowsOK
<1>2. starts' = starts /\ faults' = faults
  BY DEF CancelWrite, RejectTenant, RejectStale, SkipUnchanged, CheckCancelled, Succeed, FailFinally, history
<1>3. ASSUME NEW q \in CancelRequests, CancelWrite(q) PROVE job'.status \in Terminal
  <2> DEFINE new == [reqview[q] EXCEPT !.cancelled = TRUE, !.status = "cancelled"]
  <2>1. q \in Requests
    BY DEF Requests
  <2>2. new.status = "cancelled" /\ job' = Flush(reqview[q], new)
    BY <1>1, <1>3, <2>1 DEF CancelWrite, JobRow
  <2>3. reqview[q].status # "cancelled"
    BY <1>3, <2>1 DEF CancelWrite, UnretriedInv, SessionsFresh
  <2> HIDE DEF new
  <2>4. job'.status = "cancelled"
    BY <2>2, <2>3 DEF Flush
  <2>5. QED
    BY <2>4 DEF Terminal
<1>4. ASSUME NEW w \in Workers, RejectTenant(w) \/ RejectStale(w) \/ SkipUnchanged(w)
      PROVE  job'.status \in Terminal
  BY <1>4, RejectFinishes DEF Terminal
<1>5. ASSUME NEW w \in Workers, CheckCancelled(w) \/ Succeed(w) \/ FailFinally(w)
      PROVE  job'.status \in Terminal
  BY <1>1, <1>5 DEF CheckCancelled, Succeed, FailFinally, Settle, Outcome, JobRow, Terminal
<1>6. ~Open'
  BY <1>3, <1>4, <1>5 DEF Open, Terminal
<1>7. AttemptsWithinLimit
  BY DEF UnretriedInv
<1>8. QED
  BY <1>2, <1>6, <1>7, CloseStep

(* The inductive step. *)
LEMMA StartsStep ==
  ASSUME RetryRequests = {}, TypeOK, OnlyClaimantWorks, UnretriedInv, StartsInv, [Next]_vars
  PROVE  StartsInv'
<1>1. CounterLoaded'
  BY CounterStep DEF StartsInv
<1>2. CASE \E w \in Workers : Claim(w)
  BY <1>1, <1>2, ClaimStep
<1>3. CASE \A w \in Workers : ~Claim(w)
  <2>1. Claimed' \subseteq Claimed
    BY <1>3, ClaimedStep
  <2>2. AttemptsWithinLimit
    BY DEF UnretriedInv
  <2>3. CASE \/ Dispatch \/ DispatchTwice \/ Poison \/ TenantChanges \/ UNCHANGED vars
             \/ \E q \in CancelRequests : CancelRead(q)
             \/ \E w \in Workers : \/ Receive(w) \/ ClaimMiss(w) \/ Ack(w) \/ Nack(w) \/ CheckPasses(w)
                                   \/ CheckLost(w) \/ Abort(w) \/ Crash(w)
    BY <1>1, <2>1, <2>3, QuietStep
  <2>4. CASE (\E k \in delayed : BackoffEnds(k)) \/ (\E w \in Workers : Heartbeat(w))
    BY <1>1, <2>1, <2>4, RenewStep
  <2>5. CASE LeaseExpires
    BY <1>1, <2>5, ExpiryStep
  <2>6. CASE RecoverExpired
    BY <1>1, <2>1, <2>2, <2>6, RecoverStep
  <2>7. CASE \E w \in Workers : Begin(w) \/ FailTransiently(w)
    BY <1>1, <2>7, BeginStep, TransientStep
  <2>8. CASE \/ \E q \in CancelRequests : CancelWrite(q)
             \/ \E w \in Workers : \/ RejectTenant(w) \/ RejectStale(w) \/ SkipUnchanged(w)
                                   \/ CheckCancelled(w) \/ Succeed(w) \/ FailFinally(w)
    BY <2>1, <2>8, FinishStep
  <2>9. QED
    BY <1>3, <2>3, <2>4, <2>5, <2>6, <2>7, <2>8 DEF Next, WorkerStep, ProcessStep
<1>4. QED
  BY <1>2, <1>3

(* A job is started more often than max_attempts only as often as faults   *)
(* struck it: a crash, an escaped database error, a lease that ran out     *)
(* under its owner, or an event that was published twice.                  *)
StartsPaidFor == starts <= MaxAttempts + faults

LEMMA Accounted == ASSUME RetryRequests = {} PROVE Spec => []StartsInv
<1>1. Init => StartsInv
  <2> SUFFICES ASSUME Init PROVE StartsInv
    OBVIOUS
  <2>1. Claimed = {} /\ Outdated = {} /\ Uncounted = 0
    BY DEF Init, Claimed, Outdated, Uncounted, Attempting
  <2>2. IsFiniteSet(Claimed) /\ Cardinality(Claimed) = 0 /\ Cardinality(Outdated) = 0
    BY <2>1, FS_EmptySet
  <2>3. starts = 0 /\ faults = 0 /\ job.attempts = 0 /\ MaxAttempts \in Nat
    BY JobAssumption DEF Init, Row
  <2>4. CounterLoaded
    BY DEF Init, CounterLoaded, Processing, Attempting
  <2>5. QED
    BY <2>1, <2>2, <2>3, <2>4 DEF StartsInv
<1>2. TypeOK /\ OnlyClaimantWorks /\ UnretriedInv /\ StartsInv /\ [Next]_vars => StartsInv'
  BY StartsStep
<1>3. QED
  BY <1>1, <1>2, JobTypeCorrect, ClaimantOnly, Unretried, PTL DEF Spec

(* Unless somebody retries the job by hand, the rolled back attempts that  *)
(* the row does not count are at most as many as the faults that undid     *)
(* them: attempts of workers that are alive and keep their lease, stale    *)
(* sessions, recoveries and redeliveries never run a job for free.         *)
THEOREM AttemptsPaidFor == ASSUME RetryRequests = {} PROVE Spec => []StartsPaidFor
<1>1. ASSUME TypeOK, UnretriedInv, StartsInv PROVE StartsPaidFor
  <2>1. /\ starts \in Nat /\ faults \in Nat /\ job.attempts \in Nat /\ MaxAttempts \in Nat
        /\ Cardinality(Claimed) \in Nat /\ Cardinality(Outdated) \in Nat /\ Uncounted \in {0, 1}
    BY <1>1, Numbers, ClaimCounts DEF StartsInv
  <2>2. CASE Open
    <3>1. starts + Cardinality(Outdated) <= job.attempts + faults + Uncounted
      BY <1>1, <2>2 DEF StartsInv
    <3>2. job.attempts < MaxAttempts
      BY <1>1, <2>2 DEF UnretriedInv, AttemptsWithinLimit, Open
    <3>3. QED
      BY <2>1, <3>1, <3>2 DEF StartsPaidFor
  <2>3. CASE ~Open
    <3>1. starts + Cardinality(Claimed) <= MaxAttempts + faults
      BY <1>1, <2>3 DEF StartsInv
    <3>2. QED
      BY <2>1, <3>1 DEF StartsPaidFor
  <2>4. QED
    BY <2>2, <2>3
<1>2. TypeOK /\ UnretriedInv /\ StartsInv => StartsPaidFor
  BY <1>1
<1>3. QED
  BY <1>2, Accounted, JobTypeCorrect, Unretried, PTL

(* Without faults the limit of the row is a limit of the starts: then a    *)
(* job is given up after max_attempts of them.                             *)
THEOREM FaultlessStartsBounded ==
  ASSUME RetryRequests = {}, MaxFaults = 0 PROVE Spec => []StartsWithinLimit
<1>1. Init => faults <= MaxFaults
  BY JobAssumption DEF Init
<1>2. faults <= MaxFaults /\ TypeOK /\ [Next]_vars => (faults <= MaxFaults)'
  <2> SUFFICES ASSUME faults <= MaxFaults, TypeOK, [Next]_vars PROVE (faults <= MaxFaults)'
    OBVIOUS
  <2>1. faults \in Nat /\ MaxFaults \in Nat
    BY JobAssumption DEF TypeOK, ContextOK
  <2>2. CASE faults' = faults \/ (faults < MaxFaults /\ faults' = faults + 1)
    BY <2>1, <2>2
  <2>3. CASE DispatchTwice \/ LeaseExpires \/ (\E w \in Workers : Abort(w) \/ Crash(w))
    BY <2>2, <2>3 DEF DispatchTwice, LeaseExpires, Abort, Crash
  <2>4. CASE \/ Dispatch \/ Poison \/ RecoverExpired \/ TenantChanges \/ UNCHANGED vars
             \/ \E k \in delayed : BackoffEnds(k)
             \/ \E q \in Requests : CancelRead(q) \/ CancelWrite(q) \/ RetryRead(q) \/ RetryWrite(q)
             \/ \E w \in Workers : WorkerStep(w) \/ Heartbeat(w)
    <3>1. faults' = faults
      BY <2>4
         DEF Dispatch, Poison, RecoverExpired, TenantChanges, BackoffEnds, vars, CancelRead, CancelWrite, RetryRead,
             RetryWrite, WorkerStep, ProcessStep, Receive, Claim, ClaimMiss, Ack, Nack, RejectTenant,
             RejectStale, SkipUnchanged, Begin, CheckPasses, CheckCancelled, CheckLost, Succeed,
             FailFinally, FailTransiently, Heartbeat
    <3>2. QED
      BY <2>2, <3>1
  <2>5. QED
    BY <2>3, <2>4 DEF Next, Requests
<1>3. TypeOK /\ faults <= MaxFaults /\ StartsPaidFor => StartsWithinLimit
  BY JobAssumption DEF TypeOK, ContextOK, StartsPaidFor, StartsWithinLimit
<1>4. QED
  BY <1>1, <1>2, <1>3, AttemptsPaidFor, JobTypeCorrect, PTL DEF Spec
=============================================================================
