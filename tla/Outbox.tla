------------------------------- MODULE Outbox -------------------------------
(***************************************************************************)
(* The transactional outbox (OutboxService) and the dispatchers that empty *)
(* it into the queue (OutboxDispatcher, run by every worker process).      *)
(*                                                                         *)
(* A dispatcher claims a batch in one transaction, then publishes record   *)
(* by record outside any transaction and settles each one in a transaction *)
(* of its own.  Between those steps its claim may expire and be taken over *)
(* by another dispatcher, and the process may stop.                        *)
(*                                                                         *)
(* Time is abstracted: available_at <= now is membership in "available",   *)
(* claim_expires_at <= now is membership in "expired".  A restarted worker *)
(* gets a fresh dispatcher id; reusing the id here loses nothing, because  *)
(* a stopped dispatcher forgets its batch and may take a record again only *)
(* by claiming it.                                                         *)
(***************************************************************************)
EXTENDS Naturals, FiniteSets

CONSTANTS
  Records,        \* outbox records
  Dispatchers,    \* worker processes running an outbox loop
  NoOne,          \* claimed_by IS NULL
  Tenants,
  WorkerTenants,  \* RAG_WORKER_TENANT_IDS: the tenants the workers poll
  TenantOf,       \* tenant_id of each record
  PriorityOf,     \* priority of each record
  BatchLimit,     \* "limit" of dispatch_batch
  MaxAttempts,    \* max_attempts of each record
  MaxOverruns,    \* bound on claims that expire while their dispatcher works on them
  MaxCrashes      \* bound on dispatcher crashes

ASSUME OutboxAssumption ==
  /\ NoOne \notin Dispatchers \cup Records
  /\ WorkerTenants \subseteq Tenants
  /\ TenantOf \in [Records -> Tenants]
  /\ PriorityOf \in [Records -> Nat]
  /\ BatchLimit \in Nat \ {0}
  /\ MaxAttempts \in Nat \ {0}
  /\ MaxOverruns \in Nat
  /\ MaxCrashes \in Nat

VARIABLES
  accepted,    \* records committed by OutboxService.add
  available,   \* records with available_at <= now
  published,   \* records with published_at set
  poisoned,    \* records with poisoned_at set
  claimed_by,  \* record -> dispatcher or NoOne
  expired,     \* claimed records with claim_expires_at <= now
  attempts,    \* record -> failed publish attempts
  delivered,   \* records the queue has accepted at least once
  pc,          \* dispatcher -> "idle", "batch", "mark" or "fail"
  batch,       \* dispatcher -> records of its batch not settled yet
  cur,         \* dispatcher -> record being published, or NoOne
  seen,        \* dispatcher -> attempts as snapshotted by the claim
  crashes,
  overruns

rows == <<accepted, available, published, poisoned, claimed_by, expired, attempts>>
procs == <<pc, batch, cur, seen, crashes, overruns>>
vars == <<rows, delivered, procs>>

Init ==
  /\ accepted = {} /\ available = {} /\ published = {} /\ poisoned = {}
  /\ claimed_by = [r \in Records |-> NoOne]
  /\ expired = {}
  /\ attempts = [r \in Records |-> 0]
  /\ delivered = {}
  /\ pc = [d \in Dispatchers |-> "idle"]
  /\ batch = [d \in Dispatchers |-> {}]
  /\ cur = [d \in Dispatchers |-> NoOne]
  /\ seen = [d \in Dispatchers |-> [r \in Records |-> 0]]
  /\ crashes = 0 /\ overruns = 0

-----------------------------------------------------------------------------
(* OutboxService.add, committed with the business change.  The caller may  *)
(* postpone available_at (TaskLeaseService.schedule_retry does).           *)
Add(r) ==
  /\ r \notin accepted
  /\ accepted' = accepted \cup {r}
  /\ available' \in {available, available \cup {r}}
  /\ UNCHANGED <<published, poisoned, claimed_by, expired, attempts, delivered, procs>>

(* Mutant: claims are honoured forever. *)
PendingUnclaimedOnly(t) ==
  {r \in accepted : /\ TenantOf[r] = t /\ r \notin published \cup poisoned
                    /\ r \in available /\ claimed_by[r] = NoOne}

(* The WHERE clause of _pending_statement for one tenant. *)
Pending(t) ==
  {r \in accepted :
     /\ TenantOf[r] = t
     /\ r \notin published
     /\ r \notin poisoned
     /\ r \in available
     /\ claimed_by[r] = NoOne \/ r \in expired}

(* ORDER BY priority DESC LIMIT BatchLimit over the set S. *)
TopOf(S) ==
  {B \in SUBSET S :
     /\ Cardinality(B) = IF Cardinality(S) < BatchLimit THEN Cardinality(S) ELSE BatchLimit
     /\ \A r \in B : \A q \in S \ B : PriorityOf[r] >= PriorityOf[q]}

(* First transaction of dispatch_batch: claim a batch and snapshot it. *)
Claim(d, t) ==
  /\ pc[d] = "idle"
  /\ Pending(t) # {}
  /\ \E B \in TopOf(Pending(t)) :
       /\ claimed_by' = [r \in Records |-> IF r \in B THEN d ELSE claimed_by[r]]
       /\ expired' = expired \ B
       /\ batch' = [batch EXCEPT ![d] = B]
       /\ seen' = [seen EXCEPT ![d] = [r \in Records |-> IF r \in B THEN attempts[r] ELSE 0]]
  /\ pc' = [pc EXCEPT ![d] = "batch"]
  /\ UNCHANGED <<accepted, available, published, poisoned, attempts, delivered, cur, crashes, overruns>>

(* The batch is walked in the order the claim returned it. *)
NextUp(d) == {r \in batch[d] : \A q \in batch[d] : PriorityOf[r] >= PriorityOf[q]}

(* await self.publish(message): the broker confirms the message, refuses   *)
(* it, or accepts it while the confirmation is lost.                       *)
Publish(d, r, accepts, confirms) ==
  /\ pc[d] = "batch"
  /\ r \in NextUp(d)
  /\ confirms => accepts
  /\ delivered' = IF accepts THEN delivered \cup {r} ELSE delivered
  /\ cur' = [cur EXCEPT ![d] = r]
  /\ pc' = [pc EXCEPT ![d] = IF confirms THEN "mark" ELSE "fail"]
  /\ UNCHANGED <<rows, batch, seen, crashes, overruns>>

(* The dispatcher is done with its current record. *)
Advance(d) ==
  /\ batch' = [batch EXCEPT ![d] = @ \ {cur[d]}]
  /\ cur' = [cur EXCEPT ![d] = NoOne]
  /\ pc' = [pc EXCEPT ![d] = IF batch[d] \subseteq {cur[d]} THEN "idle" ELSE "batch"]
  /\ seen' = [seen EXCEPT ![d][cur[d]] = 0]
  /\ UNCHANGED <<crashes, overruns>>

(* UPDATE ... SET published_at WHERE id, claimed_by = me, published_at IS NULL. *)
MarkRow(d) ==
  LET r == cur[d]
      hit == claimed_by[r] = d /\ r \notin published
  IN /\ published' = IF hit THEN published \cup {r} ELSE published
     /\ claimed_by' = IF hit THEN [claimed_by EXCEPT ![r] = NoOne] ELSE claimed_by
     /\ expired' = IF hit THEN expired \ {r} ELSE expired
     /\ UNCHANGED <<accepted, available, poisoned, attempts, delivered>>

Mark(d) ==
  /\ pc[d] = "mark"
  /\ MarkRow(d)
  /\ Advance(d)

(* The marking transaction raises; it may or may not have committed. *)
MarkRaises(d) ==
  /\ pc[d] = "mark"
  /\ MarkRow(d) \/ UNCHANGED <<rows, delivered>>
  /\ pc' = [pc EXCEPT ![d] = "fail"]
  /\ UNCHANGED <<batch, cur, seen, crashes, overruns>>

(* Mutants of the except branch, by the condition under which it counts    *)
(* the failure, the one under which it settles, and the poisoning limit.   *)
FailRowIf(d, counts, settles, limit) ==
  LET r == cur[d]
      next_attempt == seen[d][r] + 1
      poison == next_attempt >= limit
  IN /\ attempts' = IF counts THEN [attempts EXCEPT ![r] = next_attempt] ELSE attempts
     /\ claimed_by' = IF settles THEN [claimed_by EXCEPT ![r] = NoOne] ELSE claimed_by
     /\ expired' = IF settles THEN expired \ {r} ELSE expired
     /\ poisoned' = IF settles /\ poison THEN poisoned \cup {r} ELSE poisoned
     /\ available' = IF settles /\ ~poison THEN available \ {r} ELSE available
     /\ UNCHANGED <<accepted, published, delivered>>

(* Mutant: the except branch releases the claim but leaves claim_expires_at. *)
FailRowKeepsExpiry(d) ==
  LET r == cur[d]
      next_attempt == seen[d][r] + 1
      hit == claimed_by[r] = d
      poison == next_attempt >= MaxAttempts
  IN /\ attempts' = IF hit THEN [attempts EXCEPT ![r] = next_attempt] ELSE attempts
     /\ claimed_by' = IF hit THEN [claimed_by EXCEPT ![r] = NoOne] ELSE claimed_by
     /\ poisoned' = IF hit /\ poison THEN poisoned \cup {r} ELSE poisoned
     /\ available' = IF hit /\ ~poison THEN available \ {r} ELSE available
     /\ UNCHANGED <<accepted, published, delivered, expired>>

FailRowOffByOne(d) == LET hit == claimed_by[cur[d]] = d IN FailRowIf(d, hit, hit, MaxAttempts + 1)
FailRowOfAnyone(d) == FailRowIf(d, TRUE, TRUE, MaxAttempts)

(* The except branch: count the failure, release the claim, and poison the *)
(* record or postpone it.  The UPDATE is conditional on claimed_by = me.   *)
FailRow(d) ==
  LET r == cur[d]
      next_attempt == seen[d][r] + 1
      hit == claimed_by[r] = d
      poison == next_attempt >= MaxAttempts
  IN /\ attempts' = IF hit THEN [attempts EXCEPT ![r] = next_attempt] ELSE attempts
     /\ claimed_by' = IF hit THEN [claimed_by EXCEPT ![r] = NoOne] ELSE claimed_by
     /\ expired' = IF hit THEN expired \ {r} ELSE expired
     /\ poisoned' = IF hit /\ poison THEN poisoned \cup {r} ELSE poisoned
     /\ available' = IF hit /\ ~poison THEN available \ {r} ELSE available
     /\ UNCHANGED <<accepted, published, delivered>>

Fail(d) ==
  /\ pc[d] = "fail"
  /\ FailRow(d)
  /\ Advance(d)

(* The worker process stops, or an exception of the except branch ends its *)
(* outbox loop and with it the worker: the batch is forgotten, the claims  *)
(* stay in the table until they expire.                                    *)
Crash(d) ==
  /\ crashes < MaxCrashes
  /\ pc[d] # "idle"
  /\ pc' = [pc EXCEPT ![d] = "idle"]
  /\ batch' = [batch EXCEPT ![d] = {}]
  /\ cur' = [cur EXCEPT ![d] = NoOne]
  /\ seen' = [seen EXCEPT ![d] = [r \in Records |-> 0]]
  /\ crashes' = crashes + 1
  /\ UNCHANGED <<rows, delivered, overruns>>

(* The clock passes available_at. *)
BecomeAvailable(r) ==
  /\ r \in accepted \ available
  /\ available' = available \cup {r}
  /\ UNCHANGED <<accepted, published, poisoned, claimed_by, expired, attempts, delivered, procs>>

(* The clock passes claim_expires_at. *)
ClaimExpires(r) ==
  /\ claimed_by[r] # NoOne
  /\ r \notin expired
  /\ \/ r \notin batch[claimed_by[r]] /\ UNCHANGED overruns
     \/ r \in batch[claimed_by[r]] /\ overruns < MaxOverruns /\ overruns' = overruns + 1
  /\ expired' = expired \cup {r}
  /\ UNCHANGED <<accepted, available, published, poisoned, claimed_by, attempts, delivered,
                 pc, batch, cur, seen, crashes>>

Dispatch(d) ==
  \/ \E t \in WorkerTenants : Claim(d, t)
  \/ \E r \in Records, a, c \in BOOLEAN : Publish(d, r, a, c)
  \/ Mark(d)
  \/ MarkRaises(d)
  \/ Fail(d)

Next ==
  \/ \E r \in Records : Add(r) \/ BecomeAvailable(r) \/ ClaimExpires(r)
  \/ \E d \in Dispatchers : Dispatch(d) \/ Crash(d)

Spec == Init /\ [][Next]_vars

(* Every outbox loop keeps running and the clock advances; nothing is      *)
(* assumed about the broker, which may refuse every message.               *)
Fairness ==
  /\ \A d \in Dispatchers : WF_vars(Dispatch(d))
  /\ \A r \in Records : WF_vars(BecomeAvailable(r)) /\ WF_vars(ClaimExpires(r))

FairSpec == Spec /\ Fairness
-----------------------------------------------------------------------------
(* Type invariant: the shape of the outbox rows and of each dispatcher's   *)
(* local batch.  claim_expires_at is set only together with claimed_by, a  *)
(* dispatcher that works on a record has it in its batch, and one that is  *)
(* between two records, or idle with nothing in its batch, has no current  *)
(* record.                                                                 *)
TypeOK ==
  /\ accepted \subseteq Records /\ delivered \subseteq accepted
  /\ available \subseteq accepted /\ published \subseteq accepted /\ poisoned \subseteq accepted
  /\ claimed_by \in [Records -> Dispatchers \cup {NoOne}]
  /\ expired \subseteq {r \in Records : claimed_by[r] # NoOne}
  /\ attempts \in [Records -> Nat]
  /\ pc \in [Dispatchers -> {"idle", "batch", "mark", "fail"}]
  /\ batch \in [Dispatchers -> SUBSET accepted]
  /\ cur \in [Dispatchers -> Records \cup {NoOne}]
  /\ \A d \in Dispatchers :
       /\ IF pc[d] \in {"mark", "fail"} THEN cur[d] \in batch[d] ELSE cur[d] = NoOne
       /\ pc[d] = "idle" => batch[d] = {}
  /\ seen \in [Dispatchers -> [Records -> Nat]]
  /\ crashes \in Nat /\ overruns \in Nat

(* dispatch_batch publishes before it marks: a record whose published_at   *)
(* is set has been accepted by the queue at least once, whatever crashes,  *)
(* expired claims and lost confirmations came in between.                  *)
PublishedWasDelivered == published \subseteq delivered

(* A record is never both published and poisoned, although two dispatchers *)
(* may hold it in their batches at the same time after a claim expired.    *)
OneVerdict == published \cap poisoned = {}

(* Failures are counted exactly: poisoned_at is set if and only if the     *)
(* record used up max_attempts, and the counter never runs past the limit. *)
AttemptAccounting ==
  \A r \in Records :
    /\ attempts[r] <= MaxAttempts
    /\ r \in poisoned <=> attempts[r] = MaxAttempts

(* The attempt count a dispatcher snapshotted is still the one in the row  *)
(* as long as its claim stands, so the conditional UPDATE of the except    *)
(* branch never writes a stale counter.                                    *)
SnapshotCurrent ==
  \A d \in Dispatchers : \A r \in batch[d] :
    claimed_by[r] = d => seen[d][r] = attempts[r]

(* A settled row is never written again: no second poisoning, no reclaim,  *)
(* no late failure counted, and failures are counted one at a time.        *)
SettledIsFinal ==
  [][\A r \in Records :
       /\ r \in published => r \in published' /\ r \notin poisoned'
       /\ r \in poisoned => r \in poisoned' /\ r \notin published'
       /\ r \in published \cup poisoned => attempts'[r] = attempts[r] /\ claimed_by'[r] = NoOne
       /\ attempts'[r] \in {attempts[r], attempts[r] + 1}]_vars

(* A successful domain transaction does not silently lose its event: every *)
(* event of a polled tenant is eventually published or poisoned.           *)
EveryEventSettles ==
  \A r \in Records :
    TenantOf[r] \in WorkerTenants => (r \in accepted ~> r \in published \cup poisoned)

(* The outbox implements at-least-once delivery with one final verdict.    *)
D == INSTANCE Delivery WITH
       Records <- Records, accepted <- accepted, delivered <- delivered,
       published <- published, poisoned <- poisoned
ImplementsDelivery == D!Spec
=============================================================================
