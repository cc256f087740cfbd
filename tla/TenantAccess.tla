---------------------------- MODULE TenantAccess ----------------------------
(***************************************************************************)
(* Who may administer one tenant: memberships, groups, group roles and     *)
(* invitations, the authorization epoch that goes with them, the state of  *)
(* the tenant, and the audit chain every change is appended to.            *)
(*                                                                         *)
(* An administrator's identity is resolved in one session and used in      *)
(* another.  A change is one transaction under READ COMMITTED: it reads    *)
(* rows, some of them FOR UPDATE, flushes its changes, locks the tenant    *)
(* row to raise the epoch, and commits.  Others see its changes after the  *)
(* commit only, but wait for the rows it has locked; two that wait for     *)
(* each other are a deadlock, of which PostgreSQL aborts one.              *)
(***************************************************************************)
EXTENDS Integers, FiniteSets

CONSTANTS
  Principals,   \* external subjects
  Founder,      \* administrator_external_id of the bootstrap
  NoOne,        \* no tenant identity: invited subjects, platform administrators
  Groups,
  Invitations,
  Invitee,      \* invitation -> the subject its destination names
  Operations,   \* the operations of this instance
  Requests,     \* requests served at the same time
  MaxRequests,  \* bound on the requests served in all
  Lags          \* ticks by which the clock of a host may be behind the fastest

MemberOps == {"assign", "update", "accept", "recover"}
GuardedOps == {"update", "group", "link", "role"}
UnlockedOps == {"issue", "revoke"}
AllOps == MemberOps \cup GuardedOps \cup UnlockedOps \cup {"newgroup", "transition"}

ASSUME AccessAssumption ==
  /\ Founder \in Principals /\ NoOne \notin Principals
  /\ Invitee \in [Invitations -> Principals]
  /\ Operations \subseteq AllOps
  /\ MaxRequests \in Nat
  /\ Lags \subseteq Nat

VARIABLES
  member,    \* principal -> state of its membership, "none" without one
  direct,    \* principal -> direct_roles has the administrator
  group,     \* group -> its state
  link,      \* <<principal, group>> -> state of the PrincipalGroupRecord
  role,      \* group -> state of its administrator role
  invite,    \* invitation -> its state
  offer,     \* invitation -> its roles have the administrator
  tenant,    \* TenantRecord.state
  epoch,     \* TenantRecord.acl_epoch
  audit,     \* committed audit events
  pc,        \* request -> where it is
  actor,     \* request -> principal of its identity
  seen,      \* request -> the epoch it read
  job,       \* request -> the change it makes
  next,      \* request -> the epoch it writes
  mark,      \* request -> its audit event
  held,      \* request -> rows it has locked
  shared,    \* request -> rows its inserts refer to (FOR KEY SHARE)
  served,    \* requests started
  clock,     \* the fastest host clock at the latest audit event
  uses,      \* history: invitation -> times it was accepted
  rewound,   \* history: an epoch was written that is not new
  overlapped,\* history: an event was appended without the tenant lock beside another
  backdated, \* history: an event was stamped before one that was committed
  exposed    \* history: no check of the last administrator covered a change

access == <<member, direct, group, link, role>>
invitations == <<invite, offer>>
locks == <<held, shared>>
history == <<uses, rewound, overlapped, backdated, exposed>>
vars == <<access, invitations, tenant, epoch, audit, pc, actor, seen, job, next, mark,
          locks, served, clock, history>>

Links == Principals \X Groups
Nothing == [op |-> "none", who |-> NoOne, group |-> NoOne, invitation |-> NoOne,
            value |-> "none", admin |-> FALSE, cols |-> {}, fresh |-> FALSE]
NoMark == [stamp |-> 0, prev |-> 0]

(* A tenant after its bootstrap and activation, which the founder          *)
(* administers, with or without other members, groups and invitations.     *)
Init ==
  /\ \E first \in [Principals -> {"none", "active"}], admins \in SUBSET Principals :
       /\ first[Founder] = "active" /\ Founder \in admins
       /\ \A p \in admins : first[p] = "active"
       /\ member = first
       /\ direct = [p \in Principals |-> p \in admins]
  /\ \E made \in {"none", "active"}, joined \in {"none", "active"} :
       /\ made = "none" => joined = "none"
       /\ group = [g \in Groups |-> made]
       /\ role = [g \in Groups |-> joined]
       /\ link = [l \in Links |-> IF member[l[1]] = "none" THEN "none" ELSE joined]
  /\ invite \in [Invitations -> {"none", "pending"}]
  /\ offer = [i \in Invitations |-> FALSE]
  /\ tenant = "active" /\ epoch = 2
  /\ audit = {} /\ clock = 0
  /\ pc = [r \in Requests |-> "idle"]
  /\ actor = [r \in Requests |-> NoOne]
  /\ seen = [r \in Requests |-> 0]
  /\ job = [r \in Requests |-> Nothing]
  /\ next = [r \in Requests |-> 0]
  /\ mark = [r \in Requests |-> NoMark]
  /\ held = [r \in Requests |-> {}]
  /\ shared = [r \in Requests |-> {}]
  /\ served = 0
  /\ uses = [i \in Invitations |-> 0] /\ rewound = FALSE
  /\ overlapped = FALSE /\ backdated = FALSE /\ exposed = FALSE

-----------------------------------------------------------------------------
(* effective_roles: active members whose direct roles, or the active roles *)
(* of an active group they are active in, contain the administrator.       *)
Admins(members, directs, groups, links, roles) ==
  {p \in Principals :
     /\ members[p] = "active"
     /\ \/ directs[p]
        \/ \E g \in Groups : groups[g] = "active" /\ links[<<p, g>>] = "active" /\ roles[g] = "active"}

Administrators == Admins(member, direct, group, link, role)

(* The rows after a change, as its own transaction sees them. *)
MemberAfter(j) ==
  IF j.op \in MemberOps /\ "state" \in j.cols THEN [member EXCEPT ![j.who] = j.value] ELSE member
DirectAfter(j) ==
  IF j.op \in MemberOps /\ "roles" \in j.cols THEN [direct EXCEPT ![j.who] = j.admin] ELSE direct
GroupAfter(j) ==
  IF j.op \in {"group", "newgroup"} THEN [group EXCEPT ![j.group] = j.value] ELSE group
LinkAfter(j) ==
  IF j.op = "link" /\ "state" \in j.cols THEN [link EXCEPT ![<<j.who, j.group>>] = j.value] ELSE link
RoleAfter(j) ==
  IF j.op = "role" /\ "state" \in j.cols THEN [role EXCEPT ![j.group] = j.value] ELSE role
AdminsAfter(j) ==
  Admins(MemberAfter(j), DirectAfter(j), GroupAfter(j), LinkAfter(j), RoleAfter(j))

(* Mutant: an acceptance writes the state of a membership. *)
InviteAfterMembership(j) ==
  IF j.op = "accept" THEN [invite EXCEPT ![j.invitation] = "active"] ELSE invite

InviteAfter(j) ==
  CASE j.op = "issue" -> [invite EXCEPT ![j.invitation] = "pending"]
    [] j.op = "revoke" -> [invite EXCEPT ![j.invitation] = "revoked"]
    [] j.op = "accept" -> [invite EXCEPT ![j.invitation] = "accepted"]
    [] OTHER -> invite

-----------------------------------------------------------------------------
(* Row locks. *)
TenantRow == <<"tenant">>
MemberRow(p) == <<"member", p>>

RowOf(j) ==
  CASE j.op \in {"assign", "update", "recover"} -> MemberRow(j.who)
    [] j.op \in {"group", "newgroup"} -> <<"group", j.group>>
    [] j.op = "link" -> <<"link", j.who, j.group>>
    [] j.op = "role" -> <<"role", j.group>>
    [] OTHER -> <<"invite", j.invitation>>

(* The rows the next statement of a request locks, and those its insert    *)
(* refers to through foreign keys.                                         *)
Wants(r) ==
  CASE pc[r] = "asked" -> {RowOf(job[r])}
    [] pc[r] \in {"joining", "merging"} -> {MemberRow(job[r].who)}
    [] pc[r] = "changed" -> {TenantRow}
    [] OTHER -> {}
RefersTo(r) ==
  IF pc[r] \in {"asked", "joining"} /\ job[r].fresh
  THEN {TenantRow} \cup (IF job[r].op \in {"link", "role"} THEN {<<"group", job[r].group>>} ELSE {})
  ELSE IF pc[r] = "audited" /\ job[r].op = "issue" THEN {TenantRow} ELSE {}

WaitsFor(r, q) ==
  /\ q # r
  /\ \/ Wants(r) \cap (held[q] \cup shared[q]) # {}
     \/ RefersTo(r) \cap held[q] # {}

Locks(r) ==
  /\ \A q \in Requests : ~WaitsFor(r, q)
  /\ held' = [held EXCEPT ![r] = @ \cup Wants(r)]
  /\ shared' = [shared EXCEPT ![r] = @ \cup RefersTo(r)]

Goes(r, to) == pc' = [pc EXCEPT ![r] = to]

(* The session ends, with a commit or a rollback, and its locks with it. *)
Ends(r) ==
  /\ Goes(r, "idle")
  /\ actor' = [actor EXCEPT ![r] = NoOne]
  /\ seen' = [seen EXCEPT ![r] = 0]
  /\ job' = [job EXCEPT ![r] = Nothing]
  /\ next' = [next EXCEPT ![r] = 0]
  /\ mark' = [mark EXCEPT ![r] = NoMark]
  /\ held' = [held EXCEPT ![r] = {}]
  /\ shared' = [shared EXCEPT ![r] = {}]

Starts(r) == pc[r] = "idle" /\ served < MaxRequests /\ served' = served + 1

-----------------------------------------------------------------------------
(* resolve_tenant_context: the tenant is read first ... *)
ReadTenant(r, p) ==
  /\ Starts(r)
  /\ tenant = "active"
  /\ Goes(r, "tenant")
  /\ actor' = [actor EXCEPT ![r] = p]
  /\ seen' = [seen EXCEPT ![r] = epoch]
  /\ UNCHANGED <<access, invitations, tenant, epoch, audit, job, next, mark, locks, clock, history>>

(* ... then the membership and the roles, in reads of their own.  Every    *)
(* operation below requires the administrator.                             *)
ReadRoles(r) ==
  /\ pc[r] = "tenant"
  /\ actor[r] \in Administrators
  /\ Goes(r, "ready")
  /\ UNCHANGED <<access, invitations, tenant, epoch, audit, actor, seen, job, next, mark,
                 locks, served, clock, history>>

Asks(r, to, j) ==
  /\ j.op \in Operations
  /\ Goes(r, to)
  /\ job' = [job EXCEPT ![r] = j]
  /\ UNCHANGED <<access, invitations, tenant, epoch, audit, next, mark, locks, clock, history>>

(* The columns an update writes: those whose value differs from the copy   *)
(* the session has loaded.  Role lists may differ in other roles.          *)
Columns(p, admin) ==
  {cols \in SUBSET {"state", "roles"} :
     /\ "state" \in cols <=> member[p] # "active"
     /\ direct[p] # admin => "roles" \in cols
     /\ member[p] = "none" => "roles" \in cols}

(* assign_member reads the membership without a lock. *)
AssignMember(r, p, admin) ==
  /\ pc[r] = "ready"
  /\ \E cols \in Columns(p, admin) :
       Asks(r, "asked", [Nothing EXCEPT !.op = "assign", !.who = p, !.value = "active", !.admin = admin,
                                        !.cols = cols, !.fresh = (member[p] = "none")])
  /\ UNCHANGED <<actor, seen, served>>

(* update_member locks the membership before it reads it. *)
UpdateMember(r, p, cols, state, admin) ==
  /\ pc[r] = "ready" /\ member[p] # "none"
  /\ "state" \notin cols => state = "active"
  /\ "roles" \notin cols => ~admin
  /\ Asks(r, "asked", [Nothing EXCEPT !.op = "update", !.who = p, !.value = state, !.admin = admin,
                                      !.cols = cols])
  /\ UNCHANGED <<actor, seen, served>>

CreateGroup(r, g) ==
  /\ pc[r] = "ready"
  /\ Asks(r, "asked", [Nothing EXCEPT !.op = "newgroup", !.group = g, !.value = "active", !.fresh = TRUE])
  /\ UNCHANGED <<actor, seen, served>>

UpdateGroup(r, g, state) ==
  /\ pc[r] = "ready" /\ group[g] # "none"
  /\ Asks(r, "asked", [Nothing EXCEPT !.op = "group", !.group = g, !.value = state])
  /\ UNCHANGED <<actor, seen, served>>

SetGroupMember(r, p, g, state) ==
  /\ pc[r] = "ready" /\ group[g] # "none" /\ member[p] # "none"
  /\ Asks(r, "asked", [Nothing EXCEPT !.op = "link", !.who = p, !.group = g, !.value = state,
                                      !.cols = IF link[<<p, g>>] = state THEN {} ELSE {"state"},
                                      !.fresh = (link[<<p, g>>] = "none")])
  /\ UNCHANGED <<actor, seen, served>>

SetGroupRole(r, g, state) ==
  /\ pc[r] = "ready" /\ group[g] # "none"
  /\ Asks(r, "asked", [Nothing EXCEPT !.op = "role", !.group = g, !.value = state,
                                      !.cols = IF role[g] = state THEN {} ELSE {"state"},
                                      !.fresh = (role[g] = "none")])
  /\ UNCHANGED <<actor, seen, served>>

(* issue_invitation: the row is inserted with the audit event. *)
IssueInvitation(r, i, admin) ==
  /\ pc[r] = "ready" /\ invite[i] = "none"
  /\ \A q \in Requests : job[q].op = "issue" => job[q].invitation # i
  /\ Asks(r, "taken", [Nothing EXCEPT !.op = "issue", !.invitation = i, !.admin = admin])
  /\ UNCHANGED <<actor, seen, served>>

RevokeInvitation(r, i) ==
  /\ pc[r] = "ready" /\ invite[i] # "none"
  /\ Asks(r, "asked", [Nothing EXCEPT !.op = "revoke", !.invitation = i])
  /\ UNCHANGED <<actor, seen, served>>

(* accept_invitation: any authenticated subject with the token. *)
AcceptInvitation(r, i) ==
  /\ Starts(r) /\ invite[i] # "none"
  /\ Asks(r, "asked", [Nothing EXCEPT !.op = "accept", !.invitation = i])
  /\ UNCHANGED <<actor, seen>>

(* recover_administrator: the platform administrator reads the tenant ... *)
Recover(r) ==
  /\ Starts(r) /\ "recover" \in Operations
  /\ Goes(r, "recovering")
  /\ seen' = [seen EXCEPT ![r] = epoch]
  /\ UNCHANGED <<access, invitations, tenant, epoch, audit, actor, job, next, mark, locks, clock, history>>

(* ... and the membership, both without a lock. *)
RecoverMember(r, p) ==
  /\ pc[r] = "recovering"
  /\ \E cols \in Columns(p, TRUE) :
       Asks(r, "asked", [Nothing EXCEPT !.op = "recover", !.who = p, !.value = "active", !.admin = TRUE,
                                        !.cols = cols, !.fresh = (member[p] = "none")])
  /\ UNCHANGED <<actor, seen, served>>

(* PlatformTenantService.transition: nothing but the tenant row. *)
Transition(r, target) ==
  /\ Starts(r)
  /\ Asks(r, "changed", [Nothing EXCEPT !.op = "transition", !.value = target])
  /\ UNCHANGED <<actor, seen>>

-----------------------------------------------------------------------------
(* TENANT_STATE_TRANSITIONS and MEMBERSHIP_STATE_TRANSITIONS. *)
TenantTargets(s) ==
  CASE s = "active" -> {"suspended", "archived"}
    [] s = "suspended" -> {"active", "archived"}
    [] OTHER -> {"active"}
MemberTargets(s) ==
  CASE s = "active" -> {"suspended", "removed"}
    [] s = "suspended" -> {"active", "removed"}
    [] OTHER -> {}

(* What the row, once locked, must still allow: an insert that it is       *)
(* absent, update_member that its transition is legal.                     *)
Permits(j) ==
  /\ j.fresh /\ j.op \in MemberOps => member[j.who] = "none"
  /\ j.fresh /\ j.op = "link" => link[<<j.who, j.group>>] = "none"
  /\ j.fresh /\ j.op = "role" => role[j.group] = "none"
  /\ j.op = "newgroup" => group[j.group] = "none"
  /\ j.op = "update" /\ "state" \in j.cols => j.value \in MemberTargets(member[j.who])

(* The changes reach the database: rows are locked or inserted. *)
Flush(r) ==
  /\ pc[r] = "joining" \/ (pc[r] = "asked" /\ job[r].op \notin {"accept", "revoke"})
  /\ Locks(r)
  /\ Permits(job[r])
  /\ Goes(r, IF job[r].op \in GuardedOps THEN "flushed" ELSE "changed")
  /\ UNCHANGED <<access, invitations, tenant, epoch, audit, actor, seen, job, next, mark,
                 served, clock, history>>

(* Mutant: the invitation is read without FOR UPDATE. *)
TakeUnlocked(r) ==
  LET i == job[r].invitation  p == Invitee[i]
  IN /\ pc[r] = "asked" /\ job[r].op \in {"accept", "revoke"}
     /\ invite[i] = "pending"
     /\ IF job[r].op = "revoke" THEN Goes(r, "taken") /\ UNCHANGED job
        ELSE \E cols \in Columns(p, offer[i]) :
               /\ job' = [job EXCEPT ![r] = [@ EXCEPT !.who = p, !.value = "active", !.admin = offer[i],
                                                      !.cols = cols, !.fresh = (member[p] = "none")]]
               /\ Goes(r, IF member[p] = "none" THEN "joining" ELSE "changed")
     /\ UNCHANGED <<access, invitations, tenant, epoch, audit, actor, seen, next, mark,
                    locks, served, clock, history>>

(* accept_invitation and revoke_invitation lock the invitation, which must *)
(* be pending; accepting reads the membership without a lock.              *)
Take(r) ==
  LET i == job[r].invitation  p == Invitee[i]
  IN /\ pc[r] = "asked" /\ job[r].op \in {"accept", "revoke"}
     /\ Locks(r)
     /\ invite[i] = "pending"
     /\ IF job[r].op = "revoke" THEN Goes(r, "taken") /\ UNCHANGED job
        ELSE \E cols \in Columns(p, offer[i]) :
               /\ job' = [job EXCEPT ![r] = [@ EXCEPT !.who = p, !.value = "active", !.admin = offer[i],
                                                      !.cols = cols, !.fresh = (member[p] = "none")]]
               /\ Goes(r, IF member[p] = "none" THEN "joining" ELSE "changed")
     /\ UNCHANGED <<access, invitations, tenant, epoch, audit, actor, seen, next, mark,
                    served, clock, history>>

(* Mutant: the check is left out. *)
RequireNothing(r) ==
  /\ pc[r] = "flushed"
  /\ Goes(r, "changed")
  /\ UNCHANGED <<access, invitations, tenant, epoch, audit, actor, seen, job, next, mark,
                 locks, served, clock, history>>

(* _require_active_administrator, over the committed rows and the          *)
(* request's own changes.  The code reads the memberships and then the     *)
(* roles of each in SELECTs of their own; here they are one read, and      *)
(* `exposed` covers the commits that may come between two of them.         *)
RequireActiveAdministrator(r) ==
  /\ pc[r] = "flushed"
  /\ AdminsAfter(job[r]) # {}
  /\ Goes(r, "changed")
  /\ UNCHANGED <<access, invitations, tenant, epoch, audit, actor, seen, job, next, mark,
                 locks, served, clock, history>>

(* Mutant: the epoch stays. *)
BumpNothing(r) ==
  /\ pc[r] = "changed"
  /\ Locks(r)
  /\ job[r].op = "transition" => job[r].value \in TenantTargets(tenant)
  /\ next' = [next EXCEPT ![r] = IF job[r].op = "recover" THEN seen[r] + 1 ELSE epoch]
  /\ Goes(r, IF job[r].op = "accept" /\ ~job[r].fresh THEN "merging" ELSE "bumped")
  /\ UNCHANGED <<access, invitations, tenant, epoch, audit, actor, seen, job, mark,
                 served, clock, history>>

(* Mutant: the tenant row is read without FOR UPDATE. *)
BumpUnlocked(r) ==
  /\ pc[r] = "changed"
  /\ job[r].op = "transition" => job[r].value \in TenantTargets(tenant)
  /\ next' = [next EXCEPT ![r] = IF job[r].op = "recover" THEN seen[r] + 1 ELSE epoch + 1]
  /\ Goes(r, IF job[r].op = "accept" /\ ~job[r].fresh THEN "merging" ELSE "bumped")
  /\ UNCHANGED <<access, invitations, tenant, epoch, audit, actor, seen, job, mark,
                 locks, served, clock, history>>

(* bump_acl_epoch: the tenant row is locked and its epoch raised.  In the  *)
(* session of a recovery the tenant is already loaded, and the locking     *)
(* read does not refresh it.                                               *)
Bump(r) ==
  /\ pc[r] = "changed"
  /\ Locks(r)
  /\ job[r].op = "transition" => job[r].value \in TenantTargets(tenant)
  /\ next' = [next EXCEPT ![r] = IF job[r].op = "recover" THEN seen[r] + 1 ELSE epoch + 1]
  /\ Goes(r, IF job[r].op = "accept" /\ ~job[r].fresh THEN "merging" ELSE "bumped")
  /\ UNCHANGED <<access, invitations, tenant, epoch, audit, actor, seen, job, mark,
                 served, clock, history>>

(* The flush of an acceptance writes the membership after that lock. *)
Merge(r) ==
  /\ pc[r] = "merging"
  /\ Locks(r)
  /\ Goes(r, "bumped")
  /\ UNCHANGED <<access, invitations, tenant, epoch, audit, actor, seen, job, next, mark,
                 served, clock, history>>

Latest(events) ==
  IF events = {} THEN 0 ELSE (CHOOSE e \in events : \A f \in events : f.stamp <= e.stamp).stamp

Unlocked(r) == job[r].op \in UnlockedOps

(* AuditService.record: the latest committed event is the predecessor.     *)
(* created_at is utc_now() of the host that serves the request; clocks go  *)
(* two ticks between two events, so that a lagging one can fall between.   *)
(* No two events have the same microsecond.                                *)
Record(r) ==
  /\ pc[r] \in {"bumped", "taken"}
  /\ Goes(r, "audited")
  /\ clock' = clock + 2
  /\ \E lag \in Lags :
       LET stamp == clock + 2 - lag
       IN /\ stamp > 0 /\ \A e \in audit \cup {mark[q] : q \in Requests} : e.stamp # stamp
          /\ mark' = [mark EXCEPT ![r] = [stamp |-> stamp, prev |-> Latest(audit)]]
          /\ backdated' = (backdated \/ \E e \in audit : stamp < e.stamp)
  /\ overlapped' = (overlapped \/ \E q \in Requests : pc[q] = "audited" /\ (Unlocked(r) \/ Unlocked(q)))
  /\ UNCHANGED <<access, invitations, tenant, epoch, audit, actor, seen, job, next,
                 locks, served, uses, rewound, exposed>>

(* A request that has passed the check and not yet committed, and one that *)
(* may already have read some of the rows it checks.                       *)
Checked(r) == job[r].op \in GuardedOps /\ pc[r] \in {"changed", "bumped", "audited"}
Checking(r) == pc[r] = "flushed" \/ Checked(r)

(* session.commit().  An issued invitation waits for the tenant row its    *)
(* foreign key refers to.                                                  *)
Commit(r) ==
  LET j == job[r]
  IN /\ pc[r] = "audited"
     /\ \A q \in Requests : ~WaitsFor(r, q)
     /\ member' = MemberAfter(j) /\ direct' = DirectAfter(j)
     /\ group' = GroupAfter(j) /\ link' = LinkAfter(j) /\ role' = RoleAfter(j)
     /\ invite' = InviteAfter(j)
     /\ offer' = IF j.op = "issue" THEN [offer EXCEPT ![j.invitation] = j.admin] ELSE offer
     /\ tenant' = IF j.op = "transition" THEN j.value ELSE tenant
     /\ epoch' = IF Unlocked(r) THEN epoch ELSE next[r]
     /\ audit' = audit \cup {mark[r]}
     /\ uses' = IF j.op = "accept" THEN [uses EXCEPT ![j.invitation] = @ + 1] ELSE uses
     /\ rewound' = (rewound \/ (j.op = "recover" /\ next[r] <= epoch))
     /\ exposed' = (\/ exposed
                    \/ j.op \in {"assign", "accept"} /\ AdminsAfter(j) = {}
                    \/ \E q \in Requests \ {r} : Checking(q))
     /\ Ends(r)
     /\ UNCHANGED <<served, clock, overlapped, backdated>>

(* The request ends without a change: a missing right, a stale revision,   *)
(* an illegal transition, the last administrator, a conflicting insert, an *)
(* expired or used invitation, a lost connection, or a deadlock.           *)
Fail(r) ==
  /\ pc[r] # "idle"
  /\ Ends(r)
  /\ UNCHANGED <<access, invitations, tenant, epoch, audit, served, clock, history>>

-----------------------------------------------------------------------------
Step(r) ==
  \/ ReadRoles(r) \/ Flush(r) \/ Take(r) \/ RequireActiveAdministrator(r)
  \/ Bump(r) \/ Merge(r) \/ Record(r) \/ Commit(r)

Ask(r) ==
  \/ \E p \in Principals, admin \in BOOLEAN :
       \/ AssignMember(r, p, admin)
       \/ \E cols \in SUBSET {"state", "roles"}, s \in {"active", "suspended", "removed"} :
            UpdateMember(r, p, cols, s, admin)
  \/ \E g \in Groups :
       \/ CreateGroup(r, g)
       \/ \E s \in {"active", "suspended", "removed"} : UpdateGroup(r, g, s)
       \/ \E s \in {"active", "removed"} :
            SetGroupRole(r, g, s) \/ \E p \in Principals : SetGroupMember(r, p, g, s)
  \/ \E i \in Invitations :
       RevokeInvitation(r, i) \/ \E admin \in BOOLEAN : IssueInvitation(r, i, admin)
  \/ \E p \in Principals : RecoverMember(r, p)

Next ==
  \E r \in Requests :
    \/ \E p \in Principals : ReadTenant(r, p)
    \/ \E i \in Invitations : AcceptInvitation(r, i)
    \/ Recover(r)
    \/ \E s \in {"active", "suspended", "archived"} : Transition(r, s)
    \/ Ask(r)
    \/ Step(r)
    \/ Fail(r)

Spec == Init /\ [][Next]_vars
-----------------------------------------------------------------------------
States == {"none", "active", "suspended", "removed"}
Pcs == {"idle", "tenant", "ready", "recovering", "asked", "joining", "flushed", "changed",
        "merging", "bumped", "taken", "audited"}
Jobs == [op : AllOps \cup {"none"}, who : Principals \cup {NoOne}, group : Groups \cup {NoOne},
         invitation : Invitations \cup {NoOne}, value : States \cup {"archived"}, admin : BOOLEAN,
         cols : SUBSET {"state", "roles"}, fresh : BOOLEAN]

(* Type invariant. *)
TypeOK ==
  /\ member \in [Principals -> States] /\ direct \in [Principals -> BOOLEAN]
  /\ group \in [Groups -> States]
  /\ link \in [Links -> States] /\ role \in [Groups -> States]
  /\ invite \in [Invitations -> {"none", "pending", "accepted", "revoked"}]
  /\ offer \in [Invitations -> BOOLEAN]
  /\ tenant \in {"active", "suspended", "archived"} /\ epoch \in Nat
  /\ audit \subseteq [stamp : Nat, prev : Nat] /\ clock \in Nat
  /\ pc \in [Requests -> Pcs] /\ actor \in [Requests -> Principals \cup {NoOne}]
  /\ seen \in [Requests -> Nat] /\ next \in [Requests -> Nat]
  /\ job \in [Requests -> Jobs]
  /\ mark \in [Requests -> [stamp : Nat, prev : Nat]]
  /\ served \in 0 .. MaxRequests
  /\ uses \in [Invitations -> Nat]
  /\ rewound \in BOOLEAN /\ overlapped \in BOOLEAN /\ backdated \in BOOLEAN /\ exposed \in BOOLEAN

(* An identity that carries the tenant's current epoch still holds the     *)
(* administrator right it was resolved with, in an active tenant, although *)
(* the epoch and the roles were read in separate statements and rows may   *)
(* have changed since: the comparison of epochs in validate_worker_context *)
(* and in the search adapters is enough.  The exception is a recovery that *)
(* wrote back an epoch it had read before others raised it.                *)
EpochGuards ==
  \A r \in Requests :
    pc[r] \notin {"idle", "tenant"} /\ actor[r] # NoOne /\ seen[r] = epoch /\ ~rewound
      => actor[r] \in Administrators /\ tenant = "active"

(* An invitation is accepted at most once, never after it was revoked, and *)
(* never revoked after it was accepted, whatever acceptances and           *)
(* revocations race for it: the first of them to commit settles it.        *)
InvitationSingleUse ==
  [][\A i \in Invitations :
       invite[i] \in {"accepted", "revoked"} => invite'[i] = invite[i] /\ uses'[i] = uses[i]]_vars

(* verify_chain: in the order of created_at, each event names the one      *)
(* before it.                                                              *)
VerifyChain ==
  \A e \in audit : e.prev = Latest({f \in audit : f.stamp < e.stamp})

(* Changes made under the tenant lock form one chain.  It breaks only when *)
(* an event that does not take this lock is appended beside another one,   *)
(* or when a host whose clock is behind stamps an event before one that is *)
(* already committed.                                                      *)
ChainVerifies == overlapped \/ backdated \/ VerifyChain

(* The check of the last administrator suffices for changes made one after *)
(* the other: the tenant is left without one only by an operation that     *)
(* has no check, or by a commit while another one makes its check or has   *)
(* made it and not yet committed.  AdminRemains shows that this happens.   *)
LastAdminGuarded == exposed \/ Administrators # {}

(* "rejects the change unless a platform administrator performs an audited *)
(* recovery": the tenant always has an active administrator.               *)
AdminRemains == Administrators # {}
-----------------------------------------------------------------------------
(* The inductive invariants behind the properties above.                   *)

Early == {"idle", "tenant", "ready", "recovering"}
Late == {"merging", "bumped", "audited"}

(* What a change holds follows from its operation ... *)
JobOK(j) ==
  /\ IF j.op = "transition" THEN j.value \in {"active", "suspended", "archived"} ELSE j.value \in States
  /\ j.op \in {"newgroup", "recover"} => j.value = "active"
  /\ j.op = "recover" => j.admin
  /\ j.op \in {"issue", "revoke", "accept"} => j.invitation \in Invitations

(* ... and its operation from how far the request has come.  All but       *)
(* issued and revoked invitations hold the tenant row from the epoch on.   *)
RequestOK(r) ==
  /\ JobOK(job[r])
  /\ pc[r] \in Early => job[r] = Nothing
  /\ pc[r] = "idle" => actor[r] = NoOne
  /\ pc[r] = "asked" => job[r].op \in AllOps \ {"issue", "transition"}
  /\ pc[r] \in {"joining", "merging"} => job[r].op = "accept"
  /\ pc[r] = "flushed" => job[r].op \in GuardedOps
  /\ pc[r] \in {"changed", "bumped"} => job[r].op \in AllOps \ UnlockedOps
  /\ pc[r] = "taken" => job[r].op \in UnlockedOps
  /\ pc[r] \in Late /\ ~Unlocked(r) => TenantRow \in held[r]

(* Two requests never hold the same row. *)
Exclusive ==
  \A r, q \in Requests : r # q => held[r] \cap (held[q] \cup shared[q]) = {}

(* The committed events have a latest one. *)
HasLatest == audit # {} => \E e \in audit : \A f \in audit : f.stamp <= e.stamp

LockInv ==
  /\ TypeOK /\ HasLatest
  /\ held = [r \in Requests |-> held[r]] /\ shared = [r \in Requests |-> shared[r]]
  /\ \A r \in Requests : RequestOK(r)
  /\ Exclusive

(* An accepted invitation was used once, any other never. *)
UsesMatch == \A i \in Invitations : uses[i] = IF invite[i] = "accepted" THEN 1 ELSE 0

(* A request that has taken an invitation has it locked and pending; one   *)
(* that issues an invitation is the only one to.                           *)
InviteInv ==
  /\ \A r \in Requests :
       /\ job[r].op \in {"accept", "revoke"} /\ pc[r] # "asked" =>
            <<"invite", job[r].invitation>> \in held[r] /\ invite[job[r].invitation] = "pending"
       /\ job[r].op = "issue" => invite[job[r].invitation] = "none"
  /\ \A r, q \in Requests :
       job[r].op = "issue" /\ job[q].op = "issue" /\ job[r].invitation = job[q].invitation => r = q
  /\ UsesMatch

(* Every epoch written is new, but for a recovery's; so one read before is *)
(* current only if nothing it vouches for has changed.                     *)
EpochInv ==
  \A r \in Requests :
    /\ pc[r] \in Late /\ job[r].op \notin UnlockedOps \cup {"recover"} => next[r] = epoch + 1
    /\ ~rewound => seen[r] <= epoch
    /\ pc[r] # "idle" /\ actor[r] # NoOne /\ seen[r] = epoch /\ ~rewound =>
         tenant = "active" /\ (pc[r] # "tenant" => actor[r] \in Administrators)

(* As long as no two requests are past reading the latest event and no     *)
(* clock was behind it, an event not yet committed follows it.             *)
ChainInv ==
  ~overlapped /\ ~backdated =>
    /\ \A r, q \in Requests : pc[r] = "audited" /\ pc[q] = "audited" => r = q
    /\ \A r \in Requests : pc[r] = "audited" =>
         mark[r].prev = Latest(audit) /\ \A f \in audit : f.stamp < mark[r].stamp
    /\ VerifyChain

(* As long as no commit came between, a change that passed the check       *)
(* leaves an administrator.                                                *)
AdminInv ==
  ~exposed =>
    /\ Administrators # {}
    /\ \A r \in Requests : Checked(r) => AdminsAfter(job[r]) # {}
=============================================================================
