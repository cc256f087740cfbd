---------------------------- MODULE IngestionJob ----------------------------
(***************************************************************************)
(* The life of one ingestion job: its row in ingestion_jobs, the messages  *)
(* that wake workers up for it, the workers that claim and process it      *)
(* (IngestionWorker, TaskLeaseService, IngestionService.process), the      *)
(* lease-recovery loop, and the cancel and retry requests of the API.      *)
(*                                                                         *)
(* Every transaction is modelled by what PostgreSQL (READ COMMITTED) and   *)
(* SQLAlchemy do with it:                                                  *)
(*  - the flush at the start of an attempt updates the job row, so the     *)
(*    worker holds the row lock until it commits or rolls back ("lock");   *)
(*    other writers wait for it, FOR UPDATE SKIP LOCKED passes it over;    *)
(*  - a session keeps the attributes it loaded (expire_on_commit=False)    *)
(*    and an UPDATE carries only the attributes that differ from them      *)
(*    ("Flush"); a request that read the row without locking it writes     *)
(*    over whatever was committed in between.                              *)
(*                                                                         *)
(* Clocks are abstracted to the comparisons the code makes: a lease is     *)
(* "none", "valid" or "expired"; next_attempt_at is None, "due", or the    *)
(* attempt whose backoff is still running.  Messages for one job are       *)
(* interchangeable, so the queue and the outbox are counters.              *)
(***************************************************************************)
EXTENDS Naturals, FiniteSets

CONSTANTS
  Workers,         \* worker process incarnations (worker_id is new per start)
  Crashable,       \* the workers that may stop and never come back
  CancelRequests,  \* POST /ingestion-jobs/{id}/cancel requests
  RetryRequests,   \* POST /ingestion-jobs/{id}/retry requests
  NoOne,           \* NULL
  Kinds,           \* the kinds of job considered
  MaxAttempts,     \* max_attempts of the job
  Expiry,          \* how a lease may expire under a live owner
  MaxFaults        \* bound on crashes, aborts, duplicates and such expiries

ASSUME JobAssumption ==
  /\ NoOne \notin Workers
  /\ Crashable \subseteq Workers
  /\ CancelRequests \cap RetryRequests = {}
  /\ Kinds \subseteq {"upload", "rebuild", "unchanged"}
  /\ MaxAttempts \in Nat \ {0}
  /\ NoOne \notin 1..MaxAttempts
  /\ Expiry \subseteq {"blocked", "stalled"}
  /\ MaxFaults \in Nat

VARIABLES
  kind,          \* what created the job
  job,           \* the committed row
  lock,          \* the worker whose transaction holds the row lock, or NoOne
  pc,            \* worker -> control state
  view,          \* worker -> the row as its session loaded it when claiming
  heartbeat,     \* worker -> its heartbeat loop is running
  outbox,        \* events not dispatched yet
  delayed,       \* attempts whose retry event is not available yet
  queue,         \* messages waiting in the broker
  req, reqview,  \* request -> progress and the row as it was read
  tenant,        \* the tenant's state
  epoch_stale,   \* the tenant's ACL epoch moved since the job was submitted
  publications,  \* generations activated by this job (history)
  starts,        \* attempts started, committed or not (history)
  poisoned,      \* an event of the job was poisoned since the job was last queued (history)
  faults

messages == <<outbox, delayed, queue>>
requests == <<req, reqview>>
environment == <<kind, tenant, epoch_stale>>
history == <<publications, starts, poisoned>>
vars == <<job, lock, pc, view, heartbeat, messages, requests, environment, history, faults>>

Requests == CancelRequests \cup RetryRequests
Terminal == {"succeeded", "failed", "cancelled"}
Due == 0

Row(status, stage) ==
  [status |-> status, stage |-> stage, cancelled |-> FALSE, attempts |-> 0,
   claimed_by |-> NoOne, lease |-> "none", next |-> NoOne]

(* The view of a session that is closed. *)
NoView == Row("queued", "stored")

(* submit_upload, submit_rebuild: a queued job and its outbox event are    *)
(* committed together; unchanged content yields a finished job, no event.  *)
Init ==
  /\ kind \in Kinds
  /\ job = IF kind = "unchanged" THEN Row("succeeded", "unchanged") ELSE Row("queued", "stored")
  /\ outbox = IF kind = "unchanged" THEN 0 ELSE 1
  /\ delayed = {} /\ queue = 0
  /\ lock = NoOne
  /\ pc = [w \in Workers |-> "idle"]
  /\ view = [w \in Workers |-> NoView]
  /\ heartbeat = [w \in Workers |-> FALSE]
  /\ req = [q \in Requests |-> "new"]
  /\ reqview = [q \in Requests |-> NoView]
  /\ tenant = "active" /\ epoch_stale = FALSE
  /\ publications = 0 /\ starts = 0 /\ poisoned = FALSE /\ faults = 0

(* What a session writes when it flushes "new" over a row it loaded as     *)
(* "old": the attributes it changed; the others keep their current value.  *)
Flush(old, new) ==
  [status     |-> IF new.status # old.status THEN new.status ELSE job.status,
   stage      |-> IF new.stage # old.stage THEN new.stage ELSE job.stage,
   cancelled  |-> IF new.cancelled # old.cancelled THEN new.cancelled ELSE job.cancelled,
   attempts   |-> IF new.attempts # old.attempts THEN new.attempts ELSE job.attempts,
   claimed_by |-> IF new.claimed_by # old.claimed_by THEN new.claimed_by ELSE job.claimed_by,
   lease      |-> IF new.lease # old.lease THEN new.lease ELSE job.lease,
   next       |-> IF new.next # old.next THEN new.next ELSE job.next]

Released(row) == [row EXCEPT !.claimed_by = NoOne, !.lease = "none", !.next = NoOne]

Goto(w, to) == pc' = [pc EXCEPT ![w] = to]

Alive(w) == pc[w] # "dead"
Attempting == {"begun", "working", "publishing", "switching"}
Processing(w) == pc[w] \in {"claimed"} \cup Attempting

-----------------------------------------------------------------------------
(* Messages.                                                               *)

(* An outbox dispatcher publishes an event and marks it. *)
Dispatch ==
  /\ outbox > 0
  /\ outbox' = outbox - 1
  /\ queue' = queue + 1
  /\ UNCHANGED <<job, lock, pc, view, heartbeat, delayed, requests, environment, history, faults>>

(* It publishes but the mark is lost: the event will be published again. *)
DispatchTwice ==
  /\ outbox > 0
  /\ faults < MaxFaults
  /\ faults' = faults + 1
  /\ queue' = queue + 1
  /\ UNCHANGED <<job, lock, pc, view, heartbeat, outbox, delayed, requests, environment, history>>

(* It gives the event up after max_attempts failed publications, the last  *)
(* of which may have reached the queue (DispatchTwice): the row keeps      *)
(* poisoned_at and nothing looks at it again.                              *)
Poison ==
  /\ outbox > 0
  /\ outbox' = outbox - 1
  /\ poisoned' = TRUE
  /\ UNCHANGED <<job, lock, pc, view, heartbeat, delayed, queue, requests, environment,
                 publications, starts, faults>>

(* The clock reaches the instant schedule_retry wrote into both            *)
(* next_attempt_at and the event's available_at.                           *)
BackoffEnds(k) ==
  /\ k \in delayed
  /\ delayed' = delayed \ {k}
  /\ outbox' = outbox + 1
  /\ job' = IF job.next = k THEN [job EXCEPT !.next = Due] ELSE job
  /\ UNCHANGED <<lock, pc, view, heartbeat, queue, requests, environment, history, faults>>

(* _consume_loop takes one delivery at a time. *)
Receive(w) ==
  /\ pc[w] = "idle"
  /\ queue > 0
  /\ queue' = queue - 1
  /\ Goto(w, "received")
  /\ UNCHANGED <<job, lock, view, heartbeat, outbox, delayed, requests, environment, history, faults>>

Ack(w) ==
  /\ pc[w] = "acking"
  /\ Goto(w, "idle")
  /\ UNCHANGED <<job, lock, view, heartbeat, messages, requests, environment, history, faults>>

Nack(w) ==
  /\ pc[w] = "nacking"
  /\ Goto(w, "idle")
  /\ queue' = queue + 1
  /\ heartbeat' = [heartbeat EXCEPT ![w] = FALSE]
  /\ UNCHANGED <<job, lock, view, outbox, delayed, requests, environment, history, faults>>

-----------------------------------------------------------------------------
(* TaskLeaseService.                                                       *)

(* Mutant: finished jobs are not excluded. *)
ClaimableTwice(w) ==
  /\ ~job.cancelled
  /\ job.next \in {NoOne, Due}
  /\ job.claimed_by \in {NoOne, w} \/ job.lease = "expired"

(* The WHERE clause of claim(). *)
Claimable(w) ==
  /\ ~job.cancelled
  /\ job.status \in {"queued", "running"}
  /\ job.next \in {NoOne, Due}
  /\ job.claimed_by \in {NoOne, w} \/ job.lease = "expired"

Claim(w) ==
  /\ pc[w] = "received"
  /\ lock = NoOne
  /\ Claimable(w)
  /\ job' = [job EXCEPT !.status = "running", !.claimed_by = w, !.lease = "valid", !.next = NoOne]
  /\ view' = [view EXCEPT ![w] = job']
  /\ heartbeat' = [heartbeat EXCEPT ![w] = TRUE]
  /\ Goto(w, "claimed")
  /\ UNCHANGED <<lock, messages, requests, environment, history, faults>>

(* claim() returns None, also when the row is locked: the delivery is acked. *)
ClaimMiss(w) ==
  /\ pc[w] = "received"
  /\ lock # NoOne \/ ~Claimable(w)
  /\ Goto(w, "acking")
  /\ UNCHANGED <<job, lock, view, heartbeat, messages, requests, environment, history, faults>>

(* Mutant: any valid lease will do. *)
OwnedByAnyone(w) == job.status = "running" /\ job.lease = "valid" /\ ~job.cancelled

(* The WHERE clause of assert_owned(). *)
Owned(w) ==
  /\ job.status = "running"
  /\ job.claimed_by = w
  /\ job.lease = "valid"
  /\ ~job.cancelled

(* heartbeat(): FOR UPDATE waits for the row lock, its own worker's too. *)
HeartbeatHits(w) == job.claimed_by = w /\ job.status = "running"

Heartbeat(w) ==
  /\ heartbeat[w] /\ (Processing(w) \/ pc[w] = "nacking")
  /\ lock = NoOne
  /\ HeartbeatHits(w) => job.lease = "expired"
  /\ job' = IF HeartbeatHits(w) THEN [job EXCEPT !.lease = "valid"] ELSE job
  /\ heartbeat' = [heartbeat EXCEPT ![w] = HeartbeatHits(w)]
  /\ UNCHANGED <<lock, pc, view, messages, requests, environment, history, faults>>

(* A heartbeat that is running, not waiting for the row lock and still the *)
(* claimant's renews the lease in time: heartbeat_seconds < lease_seconds. *)
HeartbeatInTime(w) == heartbeat[w] /\ lock = NoOne

(* The clock passes lease_expires_at. *)
LeaseExpires ==
  LET w == job.claimed_by
      orphaned == ~\E v \in Workers : v = w /\ Processing(v)
  IN /\ job.lease = "valid"
     /\ \/ orphaned /\ UNCHANGED faults
        \/ /\ ~orphaned
           /\ "stalled" \in Expiry \/ ("blocked" \in Expiry /\ ~HeartbeatInTime(w))
           /\ faults < MaxFaults
           /\ faults' = faults + 1
     /\ job' = [job EXCEPT !.lease = "expired"]
     /\ UNCHANGED <<lock, pc, view, heartbeat, messages, requests, environment, history>>

(* Mutant: no event is added for the job put back. *)
RecoverSilently ==
  /\ \E w \in Workers : Alive(w)
  /\ lock = NoOne
  /\ job.status = "running" /\ job.lease = "expired" /\ job.attempts < MaxAttempts
  /\ job' = [job EXCEPT !.claimed_by = NoOne, !.lease = "none", !.status = "queued",
                         !.stage = "retry_scheduled", !.next = Due]
  /\ UNCHANGED <<lock, pc, view, heartbeat, messages, requests, environment, history, faults>>

(* recover_expired() and the outbox event the lease loop adds for a job it *)
(* put back into the queue.                                                *)
RecoverExpired ==
  LET requeue == ~job.cancelled /\ job.attempts < MaxAttempts
      row == [job EXCEPT !.claimed_by = NoOne, !.lease = "none"]
  IN /\ \E w \in Workers : Alive(w)
     /\ lock = NoOne
     /\ job.status = "running"
     /\ job.lease = "expired"
     /\ job' = IF job.cancelled
                 THEN [row EXCEPT !.status = "cancelled", !.stage = "cancelled"]
               ELSE IF ~requeue
                 THEN [row EXCEPT !.status = "failed", !.stage = "retry_exhausted"]
               ELSE [row EXCEPT !.status = "queued", !.stage = "retry_scheduled", !.next = Due]
     /\ outbox' = IF requeue THEN outbox + 1 ELSE outbox
     /\ poisoned' = IF requeue THEN FALSE ELSE poisoned
     /\ UNCHANGED <<lock, pc, view, heartbeat, delayed, queue, requests, environment,
                    publications, starts, faults>>

-----------------------------------------------------------------------------
(* IngestionService.process, called by the worker that claimed the job.    *)

(* Mutant: the transaction stays open. *)
SettleUncommitted(w, row) ==
  /\ job' = row
  /\ heartbeat' = [heartbeat EXCEPT ![w] = FALSE]
  /\ view' = [view EXCEPT ![w] = NoView]
  /\ Goto(w, "acking")
  /\ UNCHANGED lock

(* Leave process(): the worker commits, stops its heartbeat, acks. *)
Settle(w, row) ==
  /\ job' = row
  /\ lock' = IF lock = w THEN NoOne ELSE lock
  /\ heartbeat' = [heartbeat EXCEPT ![w] = FALSE]
  /\ view' = [view EXCEPT ![w] = NoView]
  /\ Goto(w, "acking")

(* Leave process() through an exception: rollback, then nack.  A heartbeat *)
(* that waited for the row lock may still run before the nack.             *)
RollBack(w) ==
  /\ lock' = IF lock = w THEN NoOne ELSE lock
  /\ view' = [view EXCEPT ![w] = NoView]
  /\ Goto(w, "nacking")
  /\ UNCHANGED <<job, heartbeat, messages, requests, environment, history>>

ContextStale == kind \in {"upload", "unchanged"} /\ epoch_stale

(* The early returns of _process: each releases the lease; the last keeps  *)
(* the status the claim wrote.                                             *)
RejectTenant(w) ==
  /\ pc[w] = "claimed" /\ lock = NoOne
  /\ tenant # "active"
  /\ Settle(w, Flush(view[w], Released([view[w] EXCEPT !.status = "cancelled",
                                                       !.stage = "tenant_lifecycle_rejected"])))
  /\ UNCHANGED <<messages, requests, environment, history, faults>>

RejectStale(w) ==
  /\ pc[w] = "claimed" /\ lock = NoOne
  /\ tenant = "active" /\ ContextStale
  /\ Settle(w, Flush(view[w], Released([view[w] EXCEPT !.status = "failed",
                                                       !.stage = "tenant_context_stale"])))
  /\ UNCHANGED <<messages, requests, environment, history, faults>>

SkipUnchanged(w) ==
  /\ pc[w] = "claimed" /\ lock = NoOne
  /\ tenant = "active" /\ ~ContextStale
  /\ view[w].stage = "unchanged"
  /\ Settle(w, Flush(view[w], Released(view[w])))
  /\ UNCHANGED <<messages, requests, environment, history, faults>>

(* Count the attempt and flush: the row lock is held from here on. *)
Begin(w) ==
  /\ pc[w] = "claimed" /\ lock = NoOne
  /\ tenant = "active" /\ ~ContextStale
  /\ view[w].stage # "unchanged"
  /\ lock' = w
  /\ starts' = starts + 1
  /\ Goto(w, "begun")
  /\ UNCHANGED <<job, view, heartbeat, messages, requests, environment, publications, poisoned, faults>>

(* The row as this attempt leaves it, given its outcome. *)
Outcome(w, status, stage) ==
  [job EXCEPT !.status = status, !.stage = stage, !.attempts = view[w].attempts + 1,
              !.claimed_by = NoOne, !.lease = "none"]

CancelSeen == job.cancelled \/ job.status = "cancelled"

(* Mutant: the runtime is not checked. *)
CheckNothing(w) ==
  /\ pc[w] \in {"begun", "working", "publishing"}
  /\ Goto(w, CASE pc[w] = "begun" -> "working"
               [] pc[w] = "working" -> "publishing"
               [] pc[w] = "publishing" -> "switching")
  /\ UNCHANGED <<job, lock, view, heartbeat, messages, requests, environment, history, faults>>

(* _check_runtime() passes: before parsing, before publishing (the checks  *)
(* in between guard staging work that is invisible here), after publishing. *)
CheckPasses(w) ==
  /\ pc[w] \in {"begun", "working", "publishing"}
  /\ ~CancelSeen /\ Owned(w)
  /\ Goto(w, CASE pc[w] = "begun" -> "working"
               [] pc[w] = "working" -> "publishing"
               [] pc[w] = "publishing" -> "switching")
  /\ UNCHANGED <<job, lock, view, heartbeat, messages, requests, environment, history, faults>>

(* _check_runtime() raises IngestionCancelled. *)
CheckCancelled(w) ==
  /\ pc[w] \in {"begun", "working", "publishing"}
  /\ CancelSeen
  /\ Settle(w, Outcome(w, "cancelled", "cancelled"))
  /\ UNCHANGED <<messages, requests, environment, history, faults>>

(* _check_runtime() raises IngestionLeaseLost: the attempt is rolled back, *)
(* its counter included.                                                   *)
CheckLost(w) ==
  /\ pc[w] \in {"begun", "working", "publishing"}
  /\ ~CancelSeen /\ ~Owned(w)
  /\ RollBack(w)
  /\ UNCHANGED faults

(* Switch the active generation; succeed. *)
Succeed(w) ==
  /\ pc[w] = "switching"
  /\ Settle(w, Outcome(w, "succeeded", "published"))
  /\ publications' = publications + 1
  /\ UNCHANGED <<messages, requests, environment, starts, poisoned, faults>>

(* A content error, or a transient one with no attempt left. *)
FailFinally(w) ==
  /\ pc[w] \in {"working", "publishing"}
  /\ Settle(w, Outcome(w, "failed", "failed"))
  /\ UNCHANGED <<messages, requests, environment, history, faults>>

(* A transient error: schedule_retry puts the job back with a delayed event. *)
FailTransiently(w) ==
  LET n == view[w].attempts + 1 IN
  /\ pc[w] \in {"working", "publishing"}
  /\ n < MaxAttempts
  /\ Settle(w, [Outcome(w, "queued", "retry_scheduled") EXCEPT !.next = n])
  /\ delayed' = delayed \cup {n}
  /\ poisoned' = FALSE
  /\ UNCHANGED <<outbox, queue, requests, environment, publications, starts, faults>>

(* A database error escapes process(). *)
Abort(w) ==
  /\ Processing(w)
  /\ faults < MaxFaults
  /\ faults' = faults + 1
  /\ RollBack(w)

(* The worker process stops: its transaction is rolled back and the broker *)
(* returns its unacknowledged message to the queue.                        *)
Crash(w) ==
  /\ w \in Crashable /\ Alive(w)
  /\ faults < MaxFaults
  /\ faults' = faults + 1
  /\ lock' = IF lock = w THEN NoOne ELSE lock
  /\ heartbeat' = [heartbeat EXCEPT ![w] = FALSE]
  /\ queue' = IF pc[w] = "idle" THEN queue ELSE queue + 1
  /\ view' = [view EXCEPT ![w] = NoView]
  /\ Goto(w, "dead")
  /\ UNCHANGED <<job, outbox, delayed, requests, environment, history>>

-----------------------------------------------------------------------------
(* API requests: a plain SELECT, then an UPDATE that waits for the lock.   *)

(* The SELECT, and the 409 the code answers on it. *)
Read(q, conflict) ==
  /\ req' = [req EXCEPT ![q] = IF conflict THEN "conflict" ELSE "read"]
  /\ reqview' = [reqview EXCEPT ![q] = IF conflict THEN NoView ELSE job]

Done(q) ==
  /\ req' = [req EXCEPT ![q] = "done"]
  /\ reqview' = [reqview EXCEPT ![q] = NoView]

CancelRead(q) ==
  /\ req[q] = "new"
  /\ Read(q, job.status \in {"succeeded", "cancelled"})
  /\ UNCHANGED <<job, lock, pc, view, heartbeat, messages, environment, history, faults>>

CancelWrite(q) ==
  /\ req[q] = "read" /\ lock = NoOne
  /\ job' = Flush(reqview[q], [reqview[q] EXCEPT !.cancelled = TRUE, !.status = "cancelled"])
  /\ Done(q)
  /\ UNCHANGED <<lock, pc, view, heartbeat, messages, environment, history, faults>>

RetryRead(q) ==
  /\ req[q] = "new"
  /\ Read(q, job.attempts >= MaxAttempts)
  /\ UNCHANGED <<job, lock, pc, view, heartbeat, messages, environment, history, faults>>

RetryWrite(q) ==
  /\ req[q] = "read" /\ lock = NoOne
  /\ job' = [Flush(reqview[q], [reqview[q] EXCEPT !.cancelled = FALSE, !.status = "queued"])
               EXCEPT !.next = Due]
  /\ outbox' = outbox + 1
  /\ poisoned' = FALSE
  /\ Done(q)
  /\ UNCHANGED <<lock, pc, view, heartbeat, delayed, queue, environment, publications, starts, faults>>

-----------------------------------------------------------------------------
(* The tenant is suspended, reactivated or has its ACL epoch bumped; every *)
(* one of these moves the epoch.                                           *)
TenantChanges ==
  /\ tenant' \in {"active", "suspended"}
  /\ epoch_stale' = TRUE
  /\ UNCHANGED <<job, lock, pc, view, heartbeat, messages, requests, kind, history, faults>>

ProcessStep(w) ==
  \/ RejectTenant(w) \/ RejectStale(w) \/ SkipUnchanged(w) \/ Begin(w)
  \/ CheckPasses(w) \/ CheckCancelled(w) \/ CheckLost(w)
  \/ Succeed(w) \/ FailFinally(w) \/ FailTransiently(w)

WorkerStep(w) ==
  \/ Receive(w) \/ Claim(w) \/ ClaimMiss(w) \/ ProcessStep(w) \/ Ack(w) \/ Nack(w)

Next ==
  \/ Dispatch \/ DispatchTwice \/ Poison \/ RecoverExpired \/ LeaseExpires \/ TenantChanges
  \/ \E k \in delayed : BackoffEnds(k)
  \/ \E w \in Workers : WorkerStep(w) \/ Heartbeat(w) \/ Abort(w) \/ Crash(w)
  \/ \E q \in CancelRequests : CancelRead(q) \/ CancelWrite(q)
  \/ \E q \in RetryRequests : RetryRead(q) \/ RetryWrite(q)

Spec == Init /\ [][Next]_vars

(* The outbox settles every event one way or the other (EveryEventSettles  *)
(* of Outbox); the lease loop and at least the workers that do not crash   *)
(* keep running, and the clock advances past a lease nobody renews.        *)
Fairness ==
  /\ WF_vars(Dispatch \/ Poison) /\ WF_vars(RecoverExpired) /\ WF_vars(LeaseExpires)
  /\ \A k \in 1..MaxAttempts : WF_vars(BackoffEnds(k))
  /\ \A w \in Workers : WF_vars(WorkerStep(w))

FairSpec == Spec /\ Fairness

-----------------------------------------------------------------------------
Statuses == {"queued", "running"} \cup Terminal
Stages == {"stored", "unchanged", "retry_scheduled", "retry_exhausted", "published", "failed",
           "cancelled", "tenant_lifecycle_rejected", "tenant_context_stale"}

JobRow ==
  [status : Statuses, stage : Stages, cancelled : BOOLEAN, attempts : Nat,
   claimed_by : Workers \cup {NoOne}, lease : {"none", "valid", "expired"},
   next : 0..MaxAttempts \cup {NoOne}]

RowsOK == job \in JobRow /\ view \in [Workers -> JobRow] /\ reqview \in [Requests -> JobRow]

PcValues == {"idle", "received", "claimed", "acking", "nacking", "dead"} \cup Attempting

ProcessesOK ==
  /\ lock \in Workers \cup {NoOne}
  /\ pc \in [Workers -> PcValues]
  /\ \A w \in Workers : pc[w] \in Attempting <=> lock = w
  /\ heartbeat \in [Workers -> BOOLEAN]

MessagesOK == outbox \in Nat /\ delayed \subseteq 1..MaxAttempts /\ queue \in Nat

ContextOK ==
  /\ kind \in Kinds /\ tenant \in {"active", "suspended"} /\ epoch_stale \in BOOLEAN
  /\ req \in [Requests -> {"new", "read", "done", "conflict"}]
  /\ publications \in Nat /\ starts \in Nat /\ poisoned \in BOOLEAN /\ faults \in Nat

(* Type invariant.  The row lock is held exactly by the worker inside an   *)
(* attempt, so at most one worker is inside one.                           *)
TypeOK == RowsOK /\ ProcessesOK /\ MessagesOK /\ ContextOK

(* Only the current claimant works on the job: past the first runtime      *)
(* check the row says running, claimed by this worker and not cancelled,   *)
(* and it keeps saying so until the attempt ends, whatever requests,       *)
(* recoveries and other deliveries do meanwhile.                           *)
OnlyClaimantWorks ==
  \A w \in Workers :
    pc[w] \in Attempting \ {"begun"} =>
      job.status = "running" /\ job.claimed_by = w /\ ~job.cancelled

(* At-least-once delivery converges to one business effect per request:    *)
(* duplicated or redelivered messages, crashes and recoveries never make a *)
(* job activate more generations than its submission and the accepted      *)
(* retries asked for.                                                      *)
OneEffectPerRequest ==
  publications <= 1 + Cardinality({q \in RetryRequests : req[q] = "done"})

(* The attempt counter stays within max_attempts, and a job that may still *)
(* run has an attempt left.                                                *)
AttemptsWithinLimit ==
  /\ job.attempts <= MaxAttempts
  /\ job.status \in {"queued", "running"} => job.attempts < MaxAttempts

(* No lost wake-up: while the job is queued, an event, a message or a      *)
(* delivery that will be offered again is on its way to a worker, unless   *)
(* the outbox has poisoned an event of the job since it was last queued.   *)
(* Misses, crashes, lost leases and duplicates never lose it.              *)
QueuedHasWakeup ==
  job.status = "queued" /\ ~poisoned =>
    \/ outbox > 0 \/ queue > 0 \/ delayed # {}
    \/ \E w \in Workers : pc[w] \in {"received", "claimed", "begun", "nacking"}

(* A running job can be recovered: recover_expired only looks at rows that *)
(* have a lease, so a running row without one would stay running forever.  *)
RunningIsRecoverable ==
  job.status = "running" => job.lease # "none" /\ job.claimed_by # NoOne

(* A committed cancellation is final for the job: it is never queued, run  *)
(* or published afterwards.                                                *)
CancelSticks ==
  [][job.cancelled =>
       /\ job.cancelled' /\ job.status' \in {"cancelled", "failed"}
       /\ publications' = publications]_vars

(* Every submitted job reaches a final status, although workers crash,     *)
(* messages are duplicated and dependencies fail, or it is left queued     *)
(* after one of its events was poisoned.                                   *)
JobSettles == <>[](job.status \in Terminal \/ (job.status = "queued" /\ poisoned))

(* A job whose row says cancelled has not published a generation.          *)
CancelledNotPublished ==
  job.status = "cancelled" => job.stage # "published"

(* Long phases renew their lease: a worker whose heartbeat loop is running *)
(* does not lose the lease of the job it is processing.                    *)
HeartbeatKeepsLease ==
  \A w \in Workers :
    Processing(w) /\ heartbeat[w] /\ HeartbeatHits(w) => job.lease = "valid"

(* A job whose attempts keep ending in crashes or lost leases is given up  *)
(* after max_attempts of them.                                             *)
StartsWithinLimit == starts <= MaxAttempts
=============================================================================
