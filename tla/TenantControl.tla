--------------------------- MODULE TenantControl ----------------------------
(***************************************************************************)
(* The limits of one tenant: its configuration versions, the durable quota *)
(* of one resource, and the concurrency slots of one operation kept in the *)
(* coordination store.                                                     *)
(*                                                                         *)
(* Configuration requests serialise on the tenant row and are conditional  *)
(* on the revision their author saw.  Reservations, reconciliations and    *)
(* leases read the active configuration without that lock, in a read of    *)
(* their own, and use it later.  A reservation is made and consumed inside *)
(* one transaction that keeps the usage row locked, so no other            *)
(* transaction ever sees a reserved amount.                                *)
(***************************************************************************)
EXTENDS Integers, FiniteSets

CONSTANTS
  Configs,      \* contents a configuration may have
  QuotaOf,      \* content -> quota of the resource
  SlotsOf,      \* content -> concurrency limit of the operation
  RateOf,       \* content -> requests per minute of the operation
  FirstConfig,  \* default_tenant_configuration()
  MaxVersions,  \* bound on version records
  Writers,      \* configuration and platform requests for the tenant row
  Reservers,    \* requests that create one unit of the resource
  Audits,       \* POST /tenant/usage/reconcile
  Clients,      \* requests under tenant_operation_lease
  Stores,       \* kinds of coordination store the deployment may use
  MaxFaults     \* bound on failed transactions and interrupted leases

ASSUME ControlAssumption ==
  /\ FirstConfig \in Configs
  /\ QuotaOf \in [Configs -> Nat]
  /\ SlotsOf \in [Configs -> Nat]
  /\ RateOf \in [Configs -> Nat]
  /\ MaxVersions \in Nat \ {0}
  /\ Stores \subseteq {"memory", "redis"}
  /\ Reservers \cap Audits = {}
  /\ IsFiniteSet(Clients)
  /\ MaxFaults \in Nat

VARIABLES
  content,   \* version -> configuration
  vstate,    \* version -> "none", "draft", "active" or "superseded"
  pointer,   \* tenant.active_config_version_id, 0 before the bootstrap
  revision,  \* tenant.revision
  wpc,       \* writer -> "idle", "read", "locked" or "done"
  based,     \* writer -> the revision it sends in If-Match
  plan,      \* writer -> the change its transaction has made so far
  used,      \* TenantUsageRecord.used
  rows,      \* rows of the resource in state active
  shelved,   \* rows that were archived or removed and may come back
  qpc,       \* reserver or audit -> where it is
  note,      \* reserver -> quota it read; audit -> rows it counted
  store,     \* the coordination store of this deployment
  slots,     \* concurrency counter, 0 when the key is absent
  window,    \* requests counted in the current rate window
  lpc,       \* client -> where it is
  terms,     \* client -> the configuration it read
  faults,
  peak,      \* history: configurations that have been active
  escaped,   \* history: a row came to be that the usage row does not know of
  dropped    \* history: the counter was deleted under a request it counted

configuration == <<content, vstate, pointer, revision, wpc, based, plan>>
quota == <<used, rows, shelved, qpc, note>>
leases == <<store, slots, window, lpc, terms>>
history == <<peak, escaped, dropped>>
vars == <<configuration, quota, leases, faults, history>>

Versions == 1 .. MaxVersions
NoPlan == [version |-> 0, config |-> FirstConfig, activate |-> FALSE]
Counters == Reservers \cup Audits

Init ==
  /\ content = [v \in Versions |-> FirstConfig]
  /\ vstate = [v \in Versions |-> "none"]
  /\ pointer = 0 /\ revision = 1
  /\ wpc = [w \in Writers |-> "idle"]
  /\ based = [w \in Writers |-> 0]
  /\ plan = [w \in Writers |-> NoPlan]
  /\ used = 0 /\ rows = 0 /\ shelved = 0
  /\ qpc = [x \in Counters |-> "idle"]
  /\ note = [x \in Counters |-> 0]
  /\ store \in Stores
  /\ slots = 0 /\ window = 0
  /\ lpc = [c \in Clients |-> "idle"]
  /\ terms = [c \in Clients |-> FirstConfig]
  /\ faults = 0
  /\ peak = {} /\ escaped = FALSE /\ dropped = FALSE

Active == content[pointer]

-----------------------------------------------------------------------------
(* ensure_tenant_control_plane, in the transaction that creates the        *)
(* tenant: version 1 is active, and the usage rows hold what exists.       *)
Bootstrap ==
  /\ pointer = 0
  /\ content' = [content EXCEPT ![1] = FirstConfig]
  /\ vstate' = [vstate EXCEPT ![1] = "active"]
  /\ pointer' = 1
  /\ peak' = peak \cup {FirstConfig}
  /\ UNCHANGED <<revision, wpc, based, plan, quota, leases, faults, escaped, dropped>>

(* A client reads the tenant and remembers its revision for If-Match. *)
ReadRevision(w) ==
  /\ wpc[w] = "idle" /\ pointer # 0
  /\ wpc' = [wpc EXCEPT ![w] = "read"]
  /\ based' = [based EXCEPT ![w] = revision]
  /\ UNCHANGED <<content, vstate, pointer, revision, plan, quota, leases, faults, history>>

(* Mutant: the row is read without FOR UPDATE. *)
LocksNothing(w) == wpc[w] = "read" /\ based[w] = revision

(* _tenant(for_update, expected_revision): one transaction at a time holds *)
(* the tenant row, and it goes on only from the revision it was sent.      *)
LocksTenant(w) ==
  /\ wpc[w] = "read"
  /\ \A u \in Writers : wpc[u] # "locked"
  /\ based[w] = revision

(* Requests the counter stands for: it was incremented for them and not    *)
(* decremented.  Those in state "ghost" are over.                          *)
Counted == {c \in Clients : lpc[c] \in {"counted", "holding", "ghost"}}
Holding == {c \in Clients : lpc[c] = "holding"}

(* The key is gone: no slot is counted any more, whoever holds one. *)
DropKey(pcs) ==
  /\ slots' = 0
  /\ lpc' = [c \in Clients |-> IF pcs[c] = "ghost" THEN "done" ELSE pcs[c]]
  /\ dropped' = (dropped \/ \E c \in Clients : pcs[c] \in {"counted", "holding"})

(* invalidate_tenant, called by _activate before the transaction commits:  *)
(* the memory store forgets the rate windows, Redis every key.             *)
Invalidate ==
  /\ window' = 0
  /\ IF store = "redis" THEN DropKey(lpc) ELSE UNCHANGED <<slots, lpc, dropped>>
  /\ UNCHANGED <<store, terms>>

Planned(w, v, c, activate) ==
  /\ wpc' = [wpc EXCEPT ![w] = "locked"]
  /\ plan' = [plan EXCEPT ![w] = [version |-> v, config |-> c, activate |-> activate]]
  /\ IF activate THEN Invalidate ELSE UNCHANGED <<leases, dropped>>
  /\ UNCHANGED <<content, vstate, pointer, revision, based, quota, faults, peak, escaped>>

(* create_version: the next number, as a draft or activated at once. *)
CreateVersion(w, c, activate) ==
  /\ LocksTenant(w)
  /\ \E v \in Versions :
       /\ vstate[v] = "none" /\ \A u \in 1 .. v - 1 : vstate[u] # "none"
       /\ Planned(w, v, c, activate)

(* activate_version: any version of the tenant, the active one included. *)
ActivateVersion(w, v) ==
  /\ LocksTenant(w)
  /\ vstate[v] # "none"
  /\ Planned(w, v, content[v], TRUE)

(* rollback: the configuration of an old version becomes a new version. *)
Rollback(w, source) ==
  /\ vstate[source] # "none"
  /\ CreateVersion(w, content[source], TRUE)

(* update_metadata and the lifecycle transitions, which share the lock and *)
(* the revision of the tenant row.                                         *)
TouchTenant(w) == LocksTenant(w) /\ Planned(w, 0, FirstConfig, FALSE)

WriterEnds(w) ==
  /\ wpc' = [wpc EXCEPT ![w] = "done"]
  /\ based' = [based EXCEPT ![w] = 0]
  /\ plan' = [plan EXCEPT ![w] = NoPlan]

(* The request ends without a change: stale revision, missing permission,  *)
(* invalid contents, reference or version, or a failed transaction.        *)
WriterRefused(w) ==
  /\ wpc[w] \in {"read", "locked"}
  /\ wpc[w] = "locked" => faults < MaxFaults
  /\ faults' = IF wpc[w] = "locked" THEN faults + 1 ELSE faults
  /\ WriterEnds(w)
  /\ UNCHANGED <<content, vstate, pointer, revision, quota, leases, history>>

(* The transaction commits: _activate supersedes the version the pointer   *)
(* names, unless it is the one being activated.                            *)
CommitTenant(w) ==
  LET p == plan[w]
  IN /\ wpc[w] = "locked"
     /\ WriterEnds(w)
     /\ content' = [v \in Versions |-> IF v = p.version THEN p.config ELSE content[v]]
     /\ vstate' = [v \in Versions |->
                     IF v = p.version THEN IF p.activate THEN "active" ELSE "draft"
                     ELSE IF p.activate /\ v = pointer THEN "superseded" ELSE vstate[v]]
     /\ pointer' = IF p.activate THEN p.version ELSE pointer
     /\ revision' = revision + 1
     /\ peak' = IF p.activate THEN peak \cup {p.config} ELSE peak
     /\ UNCHANGED <<quota, leases, faults, escaped, dropped>>

-----------------------------------------------------------------------------
(* An activation commits between the two reads of _load_active: the        *)
(* version the tenant named is no longer active and the caller gets a 503. *)
Superseded == \E w \in Writers : wpc[w] = "locked" /\ plan[w].activate /\ plan[w].version # pointer

(* A reconciliation has counted the rows and not yet written the usage. *)
BeingCounted == \E a \in Audits : qpc[a] = "counted"

(* The usage row is locked by at most one reservation. *)
UsageFree == \A x \in Reservers : qpc[x] # "reserved"

QuotaEnds(x) == qpc' = [qpc EXCEPT ![x] = "done"] /\ note' = [note EXCEPT ![x] = 0]

(* reserve(): the quota of the active configuration is read first ... *)
ReadQuota(x) ==
  /\ qpc[x] = "idle" /\ pointer # 0
  /\ \/ qpc' = [qpc EXCEPT ![x] = "loaded"] /\ note' = [note EXCEPT ![x] = QuotaOf[Active]]
     \/ Superseded /\ QuotaEnds(x)
  /\ UNCHANGED <<configuration, used, rows, shelved, leases, faults, history>>

(* Mutant: the boundary is off by one. *)
ReserveOneMore(x) ==
  /\ qpc[x] = "loaded" /\ UsageFree
  /\ IF used > note[x] THEN QuotaEnds(x)
     ELSE qpc' = [qpc EXCEPT ![x] = "reserved"] /\ UNCHANGED note
  /\ UNCHANGED <<configuration, used, rows, shelved, leases, faults, history>>

(* ... then the usage row is locked and the amount checked against it. *)
Reserve(x) ==
  /\ qpc[x] = "loaded" /\ UsageFree
  /\ IF used + 1 > note[x] THEN QuotaEnds(x)
     ELSE qpc' = [qpc EXCEPT ![x] = "reserved"] /\ UNCHANGED note
  /\ UNCHANGED <<configuration, used, rows, shelved, leases, faults, history>>

(* The work is done, release(consume=True), and the transaction commits. *)
Consume(x) ==
  /\ qpc[x] = "reserved"
  /\ QuotaEnds(x)
  /\ used' = used + 1 /\ rows' = rows + 1
  /\ escaped' = (escaped \/ BeingCounted)
  /\ UNCHANGED <<configuration, shelved, leases, faults, peak, dropped>>

(* The work fails: the reservation is rolled back with it. *)
ReserverFails(x) ==
  /\ qpc[x] = "reserved" /\ faults < MaxFaults
  /\ faults' = faults + 1
  /\ QuotaEnds(x)
  /\ UNCHANGED <<configuration, used, rows, shelved, leases, history>>

(* A row leaves the active state; no code lowers the usage. *)
Archive ==
  /\ rows > 0
  /\ rows' = rows - 1 /\ shelved' = shelved + 1
  /\ UNCHANGED <<configuration, used, qpc, note, leases, faults, history>>

(* It becomes active again (set_state, update_group): without reserving. *)
Restore ==
  /\ shelved > 0
  /\ rows' = rows + 1 /\ shelved' = shelved - 1
  /\ escaped' = (escaped \/ BeingCounted \/ rows + 1 > used)
  /\ UNCHANGED <<configuration, used, qpc, note, leases, faults, peak, dropped>>

(* reconcile(): the rows are counted without a lock ... *)
CountRows(a) ==
  /\ qpc[a] = "idle" /\ pointer # 0
  /\ \/ qpc' = [qpc EXCEPT ![a] = "counted"] /\ note' = [note EXCEPT ![a] = rows]
     \/ Superseded /\ QuotaEnds(a)
  /\ UNCHANGED <<configuration, used, rows, shelved, leases, faults, history>>

(* Mutant: the drift is subtracted twice. *)
ReconcileTwice(a) ==
  /\ qpc[a] = "counted" /\ UsageFree
  /\ QuotaEnds(a)
  /\ used' = note[a] - (used - note[a])
  /\ UNCHANGED <<configuration, rows, shelved, leases, faults, history>>

(* ... and written once the usage row can be locked. *)
Reconcile(a) ==
  /\ qpc[a] = "counted" /\ UsageFree
  /\ QuotaEnds(a)
  /\ used' = note[a]
  /\ UNCHANGED <<configuration, rows, shelved, leases, faults, history>>

-----------------------------------------------------------------------------
Client(c, from, to) == lpc[c] = from /\ lpc' = [lpc EXCEPT ![c] = to]

(* tenant_operation_lease: the limits come from the active configuration. *)
ReadLimits(c) ==
  /\ pointer # 0
  /\ \/ Client(c, "idle", "loaded") /\ terms' = [terms EXCEPT ![c] = Active]
     \/ Superseded /\ Client(c, "idle", "done") /\ UNCHANGED terms
  /\ UNCHANGED <<configuration, quota, store, slots, window, faults, history>>

(* check_rate: the memory store counts accepted requests, Redis all. *)
CheckRate(c) ==
  /\ LET room == window < RateOf[terms[c]]
     IN /\ Client(c, "loaded", IF room THEN "rated" ELSE "done")
        /\ terms' = IF room THEN terms ELSE [terms EXCEPT ![c] = FirstConfig]
        /\ window' = IF room \/ store = "redis" THEN window + 1 ELSE window
  /\ UNCHANGED <<configuration, quota, store, slots, faults, history>>

(* Timestamps leave the sliding window, or the minute's bucket ends. *)
WindowSlides ==
  /\ window > 0
  /\ window' = IF store = "redis" THEN 0 ELSE window - 1
  /\ UNCHANGED <<configuration, quota, store, slots, lpc, terms, faults, history>>

(* Mutant: the limit is off by one. *)
AcquireOneMore(c) ==
  /\ store = "memory"
  /\ LET room == slots <= SlotsOf[terms[c]]
     IN /\ Client(c, "rated", IF room THEN "holding" ELSE "done")
        /\ slots' = IF room THEN slots + 1 ELSE slots
  /\ terms' = [terms EXCEPT ![c] = FirstConfig]
  /\ UNCHANGED <<configuration, quota, store, window, faults, history>>

(* acquire_concurrency of the memory store: check and increment under the  *)
(* store's lock.                                                           *)
AcquireMemory(c) ==
  /\ store = "memory"
  /\ LET room == slots < SlotsOf[terms[c]]
     IN /\ Client(c, "rated", IF room THEN "holding" ELSE "done")
        /\ slots' = IF room THEN slots + 1 ELSE slots
  /\ terms' = [terms EXCEPT ![c] = FirstConfig]
  /\ UNCHANGED <<configuration, quota, store, window, faults, history>>

(* The same with Redis: INCR first, then EXPIRE, which only postpones the  *)
(* end of the key, ...                                                     *)
Increment(c) ==
  /\ store = "redis"
  /\ \E to \in {"counted", "holding"} :
       /\ Client(c, "rated", to)
       /\ (to = "counted") <=> (slots + 1 > SlotsOf[terms[c]])
  /\ slots' = slots + 1
  /\ terms' = [terms EXCEPT ![c] = FirstConfig]
  /\ UNCHANGED <<configuration, quota, store, window, faults, history>>

(* ... and DECR again when the answer was above the limit. *)
GiveBack(c) ==
  /\ Client(c, "counted", "done")
  /\ slots' = slots - 1
  /\ UNCHANGED <<configuration, quota, store, window, terms, faults, history>>

(* Mutant: nothing is given back. *)
ReleaseForgotten(c) ==
  /\ Client(c, "holding", "done")
  /\ UNCHANGED <<configuration, quota, store, slots, window, terms, faults, history>>

(* release_concurrency: max(0, n - 1) in memory; DECR in Redis, where an   *)
(* answer of zero or less is followed by a DEL.                            *)
Release(c) ==
  /\ Client(c, "holding", IF store = "redis" /\ slots - 1 <= 0 THEN "clearing" ELSE "done")
  /\ slots' = IF store = "memory" /\ slots = 0 THEN 0 ELSE slots - 1
  /\ UNCHANGED <<configuration, quota, store, window, terms, faults, history>>

DeleteKey(c) ==
  /\ lpc[c] = "clearing"
  /\ DropKey([lpc EXCEPT ![c] = "done"])
  /\ UNCHANGED <<configuration, quota, store, window, terms, faults, peak, escaped>>

(* EXPIRE: no attempt for 300 seconds.  Ghosts are forgotten.  A key whose *)
(* EXPIRE failed is given one by the next attempt; here it may end before. *)
ExpireKey ==
  /\ store = "redis" /\ (slots # 0 \/ Counted # {})
  /\ DropKey(lpc)
  /\ UNCHANGED <<configuration, quota, store, window, terms, faults, peak, escaped>>

(* The process dies, a Redis command fails, or the request is cancelled at *)
(* one: a disconnect cancels the SSE generator that holds the lease.  Up   *)
(* to the INCR and the EXPIRE there is no try yet, so what was counted     *)
(* stays counted; so it does when the DECR of a refusal is not applied.    *)
AcquireInterrupted(c) ==
  /\ store = "redis" /\ faults < MaxFaults
  /\ faults' = faults + 1
  /\ \/ Client(c, "rated", "done") /\ UNCHANGED slots
     \/ Client(c, "rated", "ghost") /\ slots' = slots + 1
     \/ Client(c, "counted", "ghost") /\ UNCHANGED slots
  /\ terms' = [terms EXCEPT ![c] = FirstConfig]
  /\ UNCHANGED <<configuration, quota, store, window, history>>

(* The same in the finally: the DECR is not applied, its answer is lost    *)
(* and the DEL not sent, or the DEL is not applied.                        *)
ReleaseInterrupted(c) ==
  /\ store = "redis" /\ faults < MaxFaults
  /\ faults' = faults + 1
  /\ \/ Client(c, "holding", "ghost") /\ UNCHANGED slots
     \/ Client(c, "holding", "done") /\ slots' = slots - 1
     \/ Client(c, "clearing", "done") /\ UNCHANGED slots
  /\ UNCHANGED <<configuration, quota, store, window, terms, history>>

-----------------------------------------------------------------------------
Next ==
  \/ Bootstrap
  \/ \E w \in Writers :
       \/ ReadRevision(w)
       \/ \E c \in Configs, now \in BOOLEAN : CreateVersion(w, c, now)
       \/ \E v \in Versions : ActivateVersion(w, v) \/ Rollback(w, v)
       \/ TouchTenant(w)
       \/ WriterRefused(w)
       \/ CommitTenant(w)
  \/ \E x \in Reservers : ReadQuota(x) \/ Reserve(x) \/ Consume(x) \/ ReserverFails(x)
  \/ Archive
  \/ Restore
  \/ \E a \in Audits : CountRows(a) \/ Reconcile(a)
  \/ \E c \in Clients :
       \/ ReadLimits(c) \/ CheckRate(c)
       \/ AcquireMemory(c) \/ Increment(c) \/ GiveBack(c)
       \/ Release(c) \/ DeleteKey(c)
       \/ AcquireInterrupted(c) \/ ReleaseInterrupted(c)
  \/ WindowSlides
  \/ ExpireKey

Spec == Init /\ [][Next]_vars
-----------------------------------------------------------------------------
(* Type invariant. *)
TypeOK ==
  /\ content \in [Versions -> Configs]
  /\ vstate \in [Versions -> {"none", "draft", "active", "superseded"}]
  /\ pointer \in 0 .. MaxVersions /\ revision \in Nat
  /\ wpc \in [Writers -> {"idle", "read", "locked", "done"}]
  /\ based \in [Writers -> Nat]
  /\ plan \in [Writers -> [version : 0 .. MaxVersions, config : Configs, activate : BOOLEAN]]
  /\ used \in Nat /\ rows \in Nat /\ shelved \in Nat
  /\ qpc \in [Counters -> {"idle", "loaded", "reserved", "counted", "done"}]
  /\ note \in [Counters -> Nat]
  /\ store \in Stores /\ slots \in Int /\ window \in Nat
  /\ lpc \in [Clients -> {"idle", "loaded", "rated", "counted", "holding", "clearing", "ghost", "done"}]
  /\ terms \in [Clients -> Configs]
  /\ faults \in 0 .. MaxFaults
  /\ peak \subseteq Configs /\ escaped \in BOOLEAN /\ dropped \in BOOLEAN

(* The tenant's pointer names the one version in state active, whatever    *)
(* drafts, activations and rollbacks raced for it: _load_active needs both *)
(* to agree and answers 503 otherwise.                                     *)
OneActive == \A v \in Versions : vstate[v] = "active" <=> v = pointer

(* A change of the tenant row is made to the very row its author saw: no   *)
(* configuration, lifecycle or metadata request overwrites another one.    *)
AuthorSawCurrent == \A w \in Writers : wpc[w] = "locked" => based[w] = revision

(* The usage row covers the rows that exist. *)
UsageCoversRows == rows <= used

(* It does, and it stays within a quota that was active, although quotas   *)
(* change and reconciliations overwrite it meanwhile, unless a row escaped *)
(* it: consumed or restored between the count and the write of a           *)
(* reconciliation, or restored after one.                                  *)
QuotaHeld ==
  escaped \/ (UsageCoversRows /\ (used = 0 \/ \E c \in peak : used <= QuotaOf[c]))

(* The counter is the number of requests that hold a slot or are about to  *)
(* give one back, and of those that were interrupted at a command of the   *)
(* store: no order of increments, releases, deletions and expiries leaves  *)
(* another request that is over counted, or counts one twice.  It is less  *)
(* only after the counter was deleted under a request.                     *)
SlotsAccounted ==
  /\ slots <= Cardinality(Counted)
  /\ dropped \/ slots = Cardinality(Counted)

(* At most as many requests run as some active configuration allowed,      *)
(* unless the counter was deleted under one of them: by an activation, by  *)
(* its expiry, or by the DEL of a release that another request overtook.   *)
(* Ghosts only lower what is left.                                         *)
SlotsHeld ==
  dropped \/ Holding = {} \/ \E c \in peak : Cardinality(Holding) <= SlotsOf[c]
-----------------------------------------------------------------------------
(* The parts of the inductive invariant. *)

(* One writer at a time is past the lock, from the current revision, and a *)
(* draft it adds has a number of its own.                                  *)
WriterInv ==
  /\ \A u, w \in Writers : wpc[u] = "locked" /\ wpc[w] = "locked" => u = w
  /\ \A w \in Writers :
       wpc[w] = "locked" =>
         /\ based[w] = revision
         /\ pointer # 0
         /\ plan[w].activate => plan[w].version # 0
         /\ ~plan[w].activate /\ plan[w].version # 0 => vstate[plan[w].version] = "none"
  /\ \A w \in Writers : wpc[w] = "read" => pointer # 0
  /\ OneActive

(* Limits in use were active once. *)
KnownInv ==
  /\ pointer # 0 => content[pointer] \in peak
  /\ \A x \in Reservers : qpc[x] \in {"loaded", "reserved"} => \E c \in peak : note[x] = QuotaOf[c]
  /\ \A c \in Clients : lpc[c] \in {"loaded", "rated"} => terms[c] \in peak

UsageInv ==
  /\ \A x \in Reservers : qpc[x] # "counted"
  /\ \A a \in Audits : qpc[a] \notin {"loaded", "reserved"}
  /\ \A x, y \in Reservers : qpc[x] = "reserved" /\ qpc[y] = "reserved" => x = y
  /\ \A x \in Reservers : qpc[x] = "reserved" => used + 1 <= note[x]
  /\ ~escaped =>
       /\ rows <= used
       /\ used = 0 \/ \E c \in peak : used <= QuotaOf[c]
       /\ \A a \in Audits : qpc[a] = "counted" =>
            /\ rows <= note[a]
            /\ note[a] = 0 \/ \E c \in peak : note[a] <= QuotaOf[c]

SlotInv ==
  /\ SlotsAccounted
  /\ SlotsHeld

ControlInv == TypeOK /\ WriterInv /\ KnownInv /\ UsageInv /\ SlotInv
=============================================================================
