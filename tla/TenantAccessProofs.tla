------------------------- MODULE TenantAccessProofs -------------------------
(***************************************************************************)
(* Proofs about the administration of a tenant, for any number of          *)
(* principals, groups, invitations and concurrent requests.  LockInv of    *)
(* TenantAccess is inductive; the other invariants are inductive under it. *)
(***************************************************************************)
EXTENDS TenantAccess, TLAPS

Marks == [stamp : Nat, prev : Nat]

(* The committed rows, the requests, and the counters. *)
RowsOK ==
  /\ member \in [Principals -> States] /\ direct \in [Principals -> BOOLEAN]
  /\ group \in [Groups -> States]
  /\ link \in [Links -> States] /\ role \in [Groups -> States]
  /\ invite \in [Invitations -> {"none", "pending", "accepted", "revoked"}]
  /\ offer \in [Invitations -> BOOLEAN]
  /\ tenant \in {"active", "suspended", "archived"} /\ epoch \in Nat
  /\ audit \subseteq Marks /\ HasLatest
  /\ uses \in [Invitations -> Nat]
  /\ rewound \in BOOLEAN /\ exposed \in BOOLEAN
RequestsOK ==
  /\ pc \in [Requests -> Pcs] /\ actor \in [Requests -> Principals \cup {NoOne}]
  /\ seen \in [Requests -> Nat] /\ next \in [Requests -> Nat]
  /\ job \in [Requests -> Jobs]
  /\ mark \in [Requests -> Marks]
  /\ held = [r \in Requests |-> held[r]] /\ shared = [r \in Requests |-> shared[r]]
CountersOK == clock \in Nat /\ served \in 0 .. MaxRequests /\ overlapped \in BOOLEAN /\ backdated \in BOOLEAN

LEMMA TypeParts ==
  /\ TypeOK /\ HasLatest /\ held = [r \in Requests |-> held[r]] /\ shared = [r \in Requests |-> shared[r]]
  <=> RowsOK /\ RequestsOK /\ CountersOK
BY DEF TypeOK, RowsOK, RequestsOK, CountersOK, Marks

LEMMA NothingJob == Nothing \in Jobs /\ JobOK(Nothing) /\ Nothing.op = "none" /\ NoMark \in Marks
BY DEF Nothing, Jobs, JobOK, NoMark, Marks, States, AllOps

(* What a request that does not move keeps. *)
Stays(q) ==
  /\ pc'[q] = pc[q] /\ actor'[q] = actor[q] /\ seen'[q] = seen[q] /\ job'[q] = job[q]
  /\ next'[q] = next[q] /\ mark'[q] = mark[q] /\ held'[q] = held[q] /\ shared'[q] = shared[q]

(* What only a commit changes. *)
rows == <<access, invitations, tenant, epoch, audit, uses, rewound, exposed>>

LEMMA RowsStay == RowsOK /\ UNCHANGED rows => RowsOK'
BY DEF RowsOK, HasLatest, rows, access, invitations

-----------------------------------------------------------------------------
(* The actions of a request, by what they do to it. *)

(* A new change j, asked for by an idle or a resolved request. *)
AsksFor(r, j, to) ==
  /\ pc' = [pc EXCEPT ![r] = to] /\ job' = [job EXCEPT ![r] = j]
  /\ pc[r] \in {"idle", "ready", "recovering"}
  /\ to \in {"asked", "taken", "changed"}
  /\ to = "asked" => j.op \in AllOps \ {"issue", "transition"}
  /\ to = "taken" => j.op = "issue"
  /\ to = "changed" => j.op = "transition"
  /\ j.op = "issue" => /\ invite[j.invitation] = "none"
                       /\ \A q \in Requests : job[q].op = "issue" => job[q].invitation # j.invitation
  /\ JobOK(j)
  /\ served' \in 0 .. MaxRequests
  /\ UNCHANGED <<rows, actor, seen, next, mark, locks, clock, overlapped, backdated>>

LEMMA AskShape ==
  ASSUME LockInv, NEW r \in Requests,
         \/ Ask(r)
         \/ \E i \in Invitations : AcceptInvitation(r, i)
         \/ \E s \in {"active", "suspended", "archived"} : Transition(r, s)
  PROVE  \E j \in Jobs, to \in Pcs : AsksFor(r, j, to)
<1>1. RowsOK /\ CountersOK
  BY TypeParts DEF LockInv
<1> DEFINE Goal == \E j \in Jobs, to \in Pcs : AsksFor(r, j, to)
<1>2. ASSUME NEW j \in Jobs, NEW to \in {"asked", "taken", "changed"}, Asks(r, to, j),
             UNCHANGED <<actor, seen>>, JobOK(j),
             pc[r] \in {"idle", "ready", "recovering"},
             served' = served \/ Starts(r),
             to = "asked" => j.op \in AllOps \ {"issue", "transition"},
             to = "taken" => j.op = "issue",
             to = "changed" => j.op = "transition",
             j.op = "issue" => /\ invite[j.invitation] = "none"
                               /\ \A q \in Requests : job[q].op = "issue" => job[q].invitation # j.invitation
      PROVE  Goal
  <2>1. served' \in 0 .. MaxRequests
    BY <1>1, <1>2, AccessAssumption DEF CountersOK, Starts
  <2>2. UNCHANGED <<rows, actor, seen, next, mark, locks, clock, overlapped, backdated>>
    BY <1>2 DEF Asks, rows, history
  <2>3. AsksFor(r, j, to)
    BY <1>2, <2>1, <2>2 DEF AsksFor, Asks, Goes
  <2> QED  BY <2>3 DEF Pcs
<1> HIDE DEF Goal
<1>3. ASSUME NEW p \in Principals, NEW admin \in BOOLEAN, AssignMember(r, p, admin) PROVE Goal
  <2>1. PICK fresh \in BOOLEAN : fresh = (member[p] = "none")
    OBVIOUS
  <2>2. PICK cols \in SUBSET {"state", "roles"} : Asks(r, "asked",
          [Nothing EXCEPT !.op = "assign", !.who = p, !.value = "active", !.admin = admin, !.cols = cols, !.fresh = (member[p] = "none")])
    BY <1>3 DEF AssignMember, Columns
  <2>3. PICK j : j = [Nothing EXCEPT !.op = "assign", !.who = p, !.value = "active", !.admin = admin, !.cols = cols, !.fresh = fresh]
    OBVIOUS
  <2>4. j \in Jobs /\ JobOK(j) /\ j.op = "assign"
    BY <2>3 DEF Jobs, JobOK, Nothing, States, AllOps, MemberOps, GuardedOps
  <2>5. Asks(r, "asked", j) /\ UNCHANGED <<actor, seen>>
    BY <1>3, <2>1, <2>2, <2>3 DEF AssignMember
  <2> QED  BY <1>2, <1>3, <2>4, <2>5 DEF AssignMember, AllOps, MemberOps, GuardedOps
<1>4. ASSUME NEW p \in Principals, RecoverMember(r, p) PROVE Goal
  <2>1. PICK fresh \in BOOLEAN : fresh = (member[p] = "none")
    OBVIOUS
  <2>2. PICK cols \in SUBSET {"state", "roles"} : Asks(r, "asked",
          [Nothing EXCEPT !.op = "recover", !.who = p, !.value = "active", !.admin = TRUE, !.cols = cols, !.fresh = (member[p] = "none")])
    BY <1>4 DEF RecoverMember, Columns
  <2>3. PICK j : j = [Nothing EXCEPT !.op = "recover", !.who = p, !.value = "active", !.admin = TRUE, !.cols = cols, !.fresh = fresh]
    OBVIOUS
  <2>4. j \in Jobs /\ JobOK(j) /\ j.op = "recover"
    BY <2>3 DEF Jobs, JobOK, Nothing, States, AllOps, MemberOps, GuardedOps
  <2>5. Asks(r, "asked", j) /\ UNCHANGED <<actor, seen>>
    BY <1>4, <2>1, <2>2, <2>3 DEF RecoverMember
  <2> QED  BY <1>2, <1>4, <2>4, <2>5 DEF RecoverMember, AllOps, MemberOps, GuardedOps
<1>5. ASSUME NEW p \in Principals, NEW g \in Groups, NEW s \in {"active", "removed"}, SetGroupMember(r, p, g, s) PROVE Goal
  <2>1. PICK fresh \in BOOLEAN : fresh = (link[<<p, g>>] = "none")
    OBVIOUS
  <2>2. PICK cols \in SUBSET {"state", "roles"} : cols = IF link[<<p, g>>] = s THEN {} ELSE {"state"}
    BY <1>5 DEF SetGroupMember, Columns
  <2>3. PICK j : j = [Nothing EXCEPT !.op = "link", !.who = p, !.group = g, !.value = s, !.cols = cols, !.fresh = fresh]
    OBVIOUS
  <2>4. j \in Jobs /\ JobOK(j) /\ j.op = "link"
    BY <2>3 DEF Jobs, JobOK, Nothing, States, AllOps, MemberOps, GuardedOps
  <2>5. Asks(r, "asked", j) /\ UNCHANGED <<actor, seen>>
    BY <1>5, <2>1, <2>2, <2>3 DEF SetGroupMember
  <2> QED  BY <1>2, <1>5, <2>4, <2>5 DEF SetGroupMember, AllOps, MemberOps, GuardedOps
<1>6. ASSUME NEW g \in Groups, NEW s \in {"active", "removed"}, SetGroupRole(r, g, s) PROVE Goal
  <2>1. PICK fresh \in BOOLEAN : fresh = (role[g] = "none")
    OBVIOUS
  <2>2. PICK cols \in SUBSET {"state", "roles"} : cols = IF role[g] = s THEN {} ELSE {"state"}
    BY <1>6 DEF SetGroupRole, Columns
  <2>3. PICK j : j = [Nothing EXCEPT !.op = "role", !.group = g, !.value = s, !.cols = cols, !.fresh = fresh]
    OBVIOUS
  <2>4. j \in Jobs /\ JobOK(j) /\ j.op = "role"
    BY <2>3 DEF Jobs, JobOK, Nothing, States, AllOps, MemberOps, GuardedOps
  <2>5. Asks(r, "asked", j) /\ UNCHANGED <<actor, seen>>
    BY <1>6, <2>1, <2>2, <2>3 DEF SetGroupRole
  <2> QED  BY <1>2, <1>6, <2>4, <2>5 DEF SetGroupRole, AllOps, MemberOps, GuardedOps
<1>7. ASSUME NEW p \in Principals, NEW cols \in SUBSET {"state", "roles"},
             NEW s \in {"active", "suspended", "removed"}, NEW admin \in BOOLEAN, UpdateMember(r, p, cols, s, admin) PROVE Goal
  <2>1. PICK j : j = [Nothing EXCEPT !.op = "update", !.who = p, !.value = s, !.admin = admin, !.cols = cols]
    OBVIOUS
  <2>2. j \in Jobs /\ JobOK(j) /\ j.op = "update"
    BY <2>1 DEF Jobs, JobOK, Nothing, States, AllOps, MemberOps, GuardedOps, UnlockedOps
  <2>3. Asks(r, "asked", j) /\ UNCHANGED <<actor, seen>>
    BY <1>7, <2>1 DEF UpdateMember
  <2> QED  BY <1>2, <1>7, <2>2, <2>3 DEF UpdateMember, Starts, AllOps, MemberOps, GuardedOps, UnlockedOps
<1>8. ASSUME NEW g \in Groups, CreateGroup(r, g) PROVE Goal
  <2>1. PICK j : j = [Nothing EXCEPT !.op = "newgroup", !.group = g, !.value = "active", !.fresh = TRUE]
    OBVIOUS
  <2>2. j \in Jobs /\ JobOK(j) /\ j.op = "newgroup"
    BY <2>1 DEF Jobs, JobOK, Nothing, States, AllOps, MemberOps, GuardedOps, UnlockedOps
  <2>3. Asks(r, "asked", j) /\ UNCHANGED <<actor, seen>>
    BY <1>8, <2>1 DEF CreateGroup
  <2> QED  BY <1>2, <1>8, <2>2, <2>3 DEF CreateGroup, Starts, AllOps, MemberOps, GuardedOps, UnlockedOps
<1>9. ASSUME NEW g \in Groups, NEW s \in {"active", "suspended", "removed"}, UpdateGroup(r, g, s) PROVE Goal
  <2>1. PICK j : j = [Nothing EXCEPT !.op = "group", !.group = g, !.value = s]
    OBVIOUS
  <2>2. j \in Jobs /\ JobOK(j) /\ j.op = "group"
    BY <2>1 DEF Jobs, JobOK, Nothing, States, AllOps, MemberOps, GuardedOps, UnlockedOps
  <2>3. Asks(r, "asked", j) /\ UNCHANGED <<actor, seen>>
    BY <1>9, <2>1 DEF UpdateGroup
  <2> QED  BY <1>2, <1>9, <2>2, <2>3 DEF UpdateGroup, Starts, AllOps, MemberOps, GuardedOps, UnlockedOps
<1>10. ASSUME NEW i \in Invitations, NEW admin \in BOOLEAN, IssueInvitation(r, i, admin) PROVE Goal
  <2>1. PICK j : j = [Nothing EXCEPT !.op = "issue", !.invitation = i, !.admin = admin]
    OBVIOUS
  <2>2. j \in Jobs /\ JobOK(j) /\ j.op = "issue" /\ j.invitation = i
    BY <2>1 DEF Jobs, JobOK, Nothing, States, AllOps, MemberOps, GuardedOps, UnlockedOps
  <2>3. Asks(r, "taken", j) /\ UNCHANGED <<actor, seen>>
    BY <1>10, <2>1 DEF IssueInvitation
  <2> QED  BY <1>2, <1>10, <2>2, <2>3 DEF IssueInvitation, Starts, AllOps, MemberOps, GuardedOps, UnlockedOps
<1>11. ASSUME NEW i \in Invitations, RevokeInvitation(r, i) PROVE Goal
  <2>1. PICK j : j = [Nothing EXCEPT !.op = "revoke", !.invitation = i]
    OBVIOUS
  <2>2. j \in Jobs /\ JobOK(j) /\ j.op = "revoke"
    BY <2>1 DEF Jobs, JobOK, Nothing, States, AllOps, MemberOps, GuardedOps, UnlockedOps
  <2>3. Asks(r, "asked", j) /\ UNCHANGED <<actor, seen>>
    BY <1>11, <2>1 DEF RevokeInvitation
  <2> QED  BY <1>2, <1>11, <2>2, <2>3 DEF RevokeInvitation, Starts, AllOps, MemberOps, GuardedOps, UnlockedOps
<1>12. ASSUME NEW i \in Invitations, AcceptInvitation(r, i) PROVE Goal
  <2>1. PICK j : j = [Nothing EXCEPT !.op = "accept", !.invitation = i]
    OBVIOUS
  <2>2. j \in Jobs /\ JobOK(j) /\ j.op = "accept"
    BY <2>1 DEF Jobs, JobOK, Nothing, States, AllOps, MemberOps, GuardedOps, UnlockedOps
  <2>3. Asks(r, "asked", j) /\ UNCHANGED <<actor, seen>>
    BY <1>12, <2>1 DEF AcceptInvitation
  <2> QED  BY <1>2, <1>12, <2>2, <2>3 DEF AcceptInvitation, Starts, AllOps, MemberOps, GuardedOps, UnlockedOps
<1>13. ASSUME NEW s \in {"active", "suspended", "archived"}, Transition(r, s) PROVE Goal
  <2>1. PICK j : j = [Nothing EXCEPT !.op = "transition", !.value = s]
    OBVIOUS
  <2>2. j \in Jobs /\ JobOK(j) /\ j.op = "transition"
    BY <2>1 DEF Jobs, JobOK, Nothing, States, AllOps, MemberOps, GuardedOps, UnlockedOps
  <2>3. Asks(r, "changed", j) /\ UNCHANGED <<actor, seen>>
    BY <1>13, <2>1 DEF Transition
  <2> QED  BY <1>2, <1>13, <2>2, <2>3 DEF Transition, Starts, AllOps, MemberOps, GuardedOps, UnlockedOps
<1> QED
  <2>1. ASSUME Ask(r) PROVE Goal
    BY <1>3, <1>4, <1>5, <1>6, <1>7, <1>8, <1>9, <1>10, <1>11, <2>1 DEF Ask
  <2> QED  BY <1>12, <1>13, <2>1 DEF Goal

-----------------------------------------------------------------------------
(* Locks, requests and types. *)

(* A request gets the rows it wants when nobody else has them. *)
LEMMA LocksTaken ==
  ASSUME LockInv, NEW r \in Requests, Locks(r)
  PROVE  /\ held' = [q \in Requests |-> held'[q]] /\ shared' = [q \in Requests |-> shared'[q]]
         /\ held'[r] = held[r] \cup Wants(r)
         /\ \A q \in Requests : q # r => held'[q] = held[q] /\ shared'[q] = shared[q]
         /\ \A q \in Requests : q # r => /\ held'[r] \cap (held[q] \cup shared[q]) = {}
                                         /\ held[q] \cap shared'[r] = {}
<1>1. /\ held' = [held EXCEPT ![r] = @ \cup Wants(r)]
      /\ shared' = [shared EXCEPT ![r] = @ \cup RefersTo(r)]
  BY DEF Locks
<1>2. \A q \in Requests : q # r => /\ Wants(r) \cap (held[q] \cup shared[q]) = {}
                                   /\ RefersTo(r) \cap held[q] = {}
  BY DEF Locks, WaitsFor
<1>3. \A q \in Requests : q # r => /\ held[r] \cap (held[q] \cup shared[q]) = {}
                                   /\ held[q] \cap shared[r] = {}
  BY DEF LockInv, Exclusive
<1>4. /\ held' = [q \in Requests |-> held'[q]] /\ shared' = [q \in Requests |-> shared'[q]]
      /\ held'[r] = held[r] \cup Wants(r) /\ shared'[r] = shared[r] \cup RefersTo(r)
      /\ \A q \in Requests : q # r => held'[q] = held[q] /\ shared'[q] = shared[q]
  BY <1>1 DEF LockInv
<1> QED  BY <1>2, <1>3, <1>4

(* A request that ends is as if it had never been. *)
LEMMA SessionEnds ==
  ASSUME LockInv, NEW r \in Requests, Ends(r)
  PROVE  /\ RequestsOK'
         /\ pc'[r] = "idle" /\ actor'[r] = NoOne /\ job'[r] = Nothing /\ seen'[r] = 0
         /\ mark'[r] = NoMark /\ held'[r] = {} /\ shared'[r] = {}
         /\ \A q \in Requests : q # r => Stays(q)
<1>1. RequestsOK
  BY TypeParts DEF LockInv
<1> QED  BY <1>1, NothingJob DEF Ends, Goes, RequestsOK, Stays, Pcs, Nothing

LEMMA LockMoves ==
  ASSUME LockInv, NEW r \in Requests, RowsOK', RequestsOK', CountersOK',
         \A q \in Requests : q # r => Stays(q),
         RequestOK(r)',
         \A q \in Requests : q # r => /\ held'[r] \cap (held[q] \cup shared[q]) = {}
                                      /\ held[q] \cap shared'[r] = {}
  PROVE  LockInv'
<1>1. TypeOK'
  BY DEF TypeOK, RowsOK, RequestsOK, CountersOK, Marks
<1>2. \A q \in Requests : RequestOK(q)'
  <2> SUFFICES ASSUME NEW q \in Requests, q # r PROVE RequestOK(q)'
    OBVIOUS
  <2>1. RequestOK(q) /\ Stays(q)
    BY DEF LockInv
  <2> QED  BY <2>1 DEF RequestOK, JobOK, Stays, Unlocked
<1>3. Exclusive'
  BY DEF LockInv, Exclusive, Stays
<1>4. HasLatest'
  BY DEF RowsOK
<1> QED  BY <1>1, <1>2, <1>3, <1>4 DEF LockInv, RequestsOK

(* A step that takes no lock. *)
LEMMA LockFree ==
  ASSUME LockInv, NEW r \in Requests, UNCHANGED locks, RowsOK', RequestsOK', CountersOK',
         \A q \in Requests : q # r => Stays(q), RequestOK(r)'
  PROVE  LockInv'
<1>1. \A q \in Requests : q # r => /\ held'[r] \cap (held[q] \cup shared[q]) = {}
                                   /\ held[q] \cap shared'[r] = {}
  BY DEF LockInv, Exclusive, locks
<1> QED  BY <1>1, LockMoves

LEMMA ReadTenantLock ==
  ASSUME LockInv, NEW r \in Requests, NEW p \in Principals, ReadTenant(r, p)
  PROVE  LockInv' /\ UNCHANGED rows /\ \A q \in Requests : q # r => Stays(q)
<1>1. RowsOK /\ RequestsOK /\ CountersOK /\ RequestOK(r)
  BY TypeParts DEF LockInv
<1>2. UNCHANGED rows /\ UNCHANGED locks /\ UNCHANGED <<job, next, mark, clock, overlapped, backdated>>
  BY DEF ReadTenant, rows, history
<1>3. /\ pc' = [pc EXCEPT ![r] = "tenant"] /\ actor' = [actor EXCEPT ![r] = p]
      /\ seen' = [seen EXCEPT ![r] = epoch] /\ pc[r] = "idle"
      /\ served < MaxRequests /\ served' = served + 1
  BY DEF ReadTenant, Goes, Starts
<1>4. RequestsOK' /\ \A q \in Requests : q # r => Stays(q)
  BY <1>1, <1>2, <1>3 DEF RequestsOK, RowsOK, Stays, Pcs, locks
<1>5. RequestOK(r)'
  BY <1>1, <1>2, <1>3 DEF RequestOK, RequestsOK, Early, Late, locks, Unlocked
<1>6. RowsOK' /\ CountersOK'
  BY <1>1, <1>2, <1>3, RowsStay, AccessAssumption DEF CountersOK
<1> QED  BY <1>2, <1>4, <1>5, <1>6, LockFree

LEMMA RecoverLock ==
  ASSUME LockInv, NEW r \in Requests, Recover(r)
  PROVE  LockInv' /\ UNCHANGED rows /\ \A q \in Requests : q # r => Stays(q)
<1>1. RowsOK /\ RequestsOK /\ CountersOK /\ RequestOK(r)
  BY TypeParts DEF LockInv
<1>2. UNCHANGED rows /\ UNCHANGED locks /\ UNCHANGED <<actor, job, next, mark, clock, overlapped, backdated>>
  BY DEF Recover, rows, history
<1>3. /\ pc' = [pc EXCEPT ![r] = "recovering"] /\ seen' = [seen EXCEPT ![r] = epoch] /\ pc[r] = "idle"
      /\ served < MaxRequests /\ served' = served + 1
  BY DEF Recover, Goes, Starts
<1>4. RequestsOK' /\ \A q \in Requests : q # r => Stays(q)
  BY <1>1, <1>2, <1>3 DEF RequestsOK, RowsOK, Stays, Pcs, locks
<1>5. RequestOK(r)'
  BY <1>1, <1>2, <1>3 DEF RequestOK, RequestsOK, Early, Late, locks, Unlocked
<1>6. RowsOK' /\ CountersOK'
  BY <1>1, <1>2, <1>3, RowsStay, AccessAssumption DEF CountersOK
<1> QED  BY <1>2, <1>4, <1>5, <1>6, LockFree

LEMMA AskLock ==
  ASSUME LockInv, NEW r \in Requests, NEW j \in Jobs, NEW to \in Pcs, AsksFor(r, j, to)
  PROVE  LockInv' /\ UNCHANGED rows /\ \A q \in Requests : q # r => Stays(q)
<1>1. RowsOK /\ RequestsOK /\ CountersOK /\ RequestOK(r)
  BY TypeParts DEF LockInv
<1>2. UNCHANGED rows /\ UNCHANGED locks /\ UNCHANGED <<actor, seen, next, mark, clock, overlapped, backdated>>
  BY DEF AsksFor
<1>3. pc' = [pc EXCEPT ![r] = to] /\ job' = [job EXCEPT ![r] = j] /\ JobOK(j)
  BY DEF AsksFor
<1>4. RequestsOK' /\ \A q \in Requests : q # r => Stays(q)
  BY <1>1, <1>2, <1>3 DEF RequestsOK, Stays, locks
<1>5. pc'[r] = to /\ job'[r] = j
  BY <1>1, <1>3 DEF RequestsOK
<1>6. /\ to \in {"asked", "taken", "changed"}
      /\ to = "asked" => j.op \in AllOps \ {"issue", "transition"}
      /\ to = "taken" => j.op \in UnlockedOps
      /\ to = "changed" => j.op \in AllOps \ UnlockedOps
  BY DEF AsksFor, AllOps, UnlockedOps
<1>7. RequestOK(r)'
  BY <1>3, <1>5, <1>6 DEF RequestOK, Early, Late, JobOK
<1>8. RowsOK' /\ CountersOK'
  BY <1>1, <1>2, RowsStay DEF CountersOK, AsksFor
<1> QED  BY <1>2, <1>4, <1>7, <1>8, LockFree

(* Steps that move only the program counter: roles read, check passed. *)
LEMMA GoesLock ==
  ASSUME LockInv, NEW r \in Requests, ReadRoles(r) \/ RequireActiveAdministrator(r)
  PROVE  LockInv' /\ UNCHANGED rows /\ \A q \in Requests : q # r => Stays(q)
<1>1. RowsOK /\ RequestsOK /\ CountersOK /\ RequestOK(r)
  BY TypeParts DEF LockInv
<1>2. /\ UNCHANGED rows /\ UNCHANGED locks
      /\ UNCHANGED <<actor, seen, job, next, mark, served, clock, overlapped, backdated>>
  BY DEF ReadRoles, RequireActiveAdministrator, rows, history
<1>3. PICK to \in {"ready", "changed"} :
        /\ pc' = [pc EXCEPT ![r] = to]
        /\ to = "ready" => pc[r] = "tenant"
        /\ to = "changed" => pc[r] = "flushed"
  BY DEF ReadRoles, RequireActiveAdministrator, Goes
<1>4. RequestsOK' /\ \A q \in Requests : q # r => Stays(q)
  BY <1>1, <1>2, <1>3 DEF RequestsOK, Stays, Pcs, locks
<1>5. RequestOK(r)'
  <2>1. pc'[r] = to
    BY <1>1, <1>3 DEF RequestsOK
  <2>2. to = "changed" => job[r].op \in AllOps \ UnlockedOps
    BY <1>1, <1>3 DEF RequestOK, AllOps, GuardedOps, UnlockedOps
  <2>3. to = "ready" => job[r] = Nothing
    BY <1>1, <1>3 DEF RequestOK, Early
  <2> QED  BY <1>1, <1>2, <2>1, <2>2, <2>3 DEF RequestOK, Early, Late, JobOK
<1>6. RowsOK' /\ CountersOK'
  BY <1>1, <1>2, RowsStay DEF CountersOK
<1> QED  BY <1>2, <1>4, <1>5, <1>6, LockFree

(* Steps that lock rows. *)
LEMMA FlushLock ==
  ASSUME LockInv, NEW r \in Requests, Flush(r)
  PROVE  LockInv' /\ UNCHANGED rows /\ \A q \in Requests : q # r => Stays(q)
<1>1. RowsOK /\ RequestsOK /\ CountersOK /\ RequestOK(r)
  BY TypeParts DEF LockInv
<1>2. /\ Locks(r) /\ UNCHANGED rows
      /\ UNCHANGED <<actor, seen, job, next, mark, served, clock, overlapped, backdated>>
  BY DEF Flush, rows, history
<1>3. PICK to \in {"flushed", "changed"} :
        /\ pc' = [pc EXCEPT ![r] = to]
        /\ to = "flushed" <=> job[r].op \in GuardedOps
  BY DEF Flush, Goes
<1>4. job[r].op \in AllOps \ UnlockedOps
  BY <1>1 DEF Flush, RequestOK, AllOps, MemberOps, UnlockedOps
<1>5. RequestsOK' /\ \A q \in Requests : q # r => Stays(q)
  BY <1>1, <1>2, <1>3, LocksTaken DEF RequestsOK, Stays, Pcs
<1>6. RequestOK(r)'
  <2>1. pc'[r] = to
    BY <1>1, <1>3 DEF RequestsOK
  <2> QED  BY <1>1, <1>2, <1>3, <1>4, <2>1 DEF RequestOK, Early, Late, JobOK
<1>7. RowsOK' /\ CountersOK'
  BY <1>1, <1>2, RowsStay DEF CountersOK
<1> QED  BY <1>2, <1>5, <1>6, <1>7, LocksTaken, LockMoves

LEMMA BumpLock ==
  ASSUME LockInv, NEW r \in Requests, Bump(r) \/ Merge(r)
  PROVE  LockInv' /\ UNCHANGED rows /\ \A q \in Requests : q # r => Stays(q)
<1>1. RowsOK /\ RequestsOK /\ CountersOK /\ RequestOK(r)
  BY TypeParts DEF LockInv
<1>2. /\ Locks(r) /\ UNCHANGED rows
      /\ UNCHANGED <<actor, seen, job, mark, served, clock, overlapped, backdated>>
  BY DEF Bump, Merge, rows, history
<1>3. PICK to \in {"merging", "bumped"} :
        /\ pc' = [pc EXCEPT ![r] = to]
        /\ to = "merging" => job[r].op = "accept"
  BY DEF Bump, Merge, Goes
<1>4. next' \in [Requests -> Nat] /\ \A q \in Requests : q # r => next'[q] = next[q]
  <2>1. seen[r] + 1 \in Nat /\ epoch + 1 \in Nat
    BY <1>1 DEF RequestsOK, RowsOK
  <2> QED  BY <1>1, <2>1 DEF Bump, Merge, RequestsOK
<1>5. job[r].op \in AllOps \ UnlockedOps
  BY <1>1 DEF Bump, Merge, RequestOK, AllOps, MemberOps, UnlockedOps
<1>6. TenantRow \in held'[r]
  <2>1. CASE Bump(r)
    BY <1>2, <2>1, LocksTaken DEF Bump, Wants
  <2>2. CASE Merge(r)
    BY <1>1, <1>2, <1>5, <2>2, LocksTaken DEF Merge, RequestOK, Late, Unlocked
  <2> QED  BY <2>1, <2>2
<1>7. RequestsOK' /\ \A q \in Requests : q # r => Stays(q)
  BY <1>1, <1>2, <1>3, <1>4, LocksTaken DEF RequestsOK, Stays, Pcs
<1>8. RequestOK(r)'
  <2>1. pc'[r] = to
    BY <1>1, <1>3 DEF RequestsOK
  <2> QED  BY <1>1, <1>2, <1>3, <1>5, <1>6, <2>1 DEF RequestOK, Early, Late, JobOK
<1>9. RowsOK' /\ CountersOK'
  BY <1>1, <1>2, RowsStay DEF CountersOK
<1> QED  BY <1>2, <1>6, <1>7, <1>8, <1>9, LocksTaken, LockMoves

(* An invitation is taken: the change learns its member. *)
LEMMA TakeLock ==
  ASSUME LockInv, NEW r \in Requests, Take(r)
  PROVE  /\ LockInv' /\ UNCHANGED rows /\ \A q \in Requests : q # r => Stays(q)
         /\ job'[r].op = job[r].op /\ job'[r].invitation = job[r].invitation
         /\ pc'[r] \in {"taken", "joining", "changed"}
<1>1. RowsOK /\ RequestsOK /\ CountersOK /\ RequestOK(r) /\ job[r] \in Jobs
  BY TypeParts DEF LockInv, RequestsOK
<1>2. /\ Locks(r) /\ UNCHANGED rows
      /\ UNCHANGED <<actor, seen, next, mark, served, clock, overlapped, backdated>>
      /\ pc[r] = "asked" /\ job[r].op \in {"accept", "revoke"}
  BY DEF Take, rows, history
<1>3. /\ job[r].invitation \in Invitations
      /\ Invitee[job[r].invitation] \in Principals /\ offer[job[r].invitation] \in BOOLEAN
  BY <1>1, <1>2, AccessAssumption DEF RequestOK, JobOK, RowsOK
<1>4. PICK j \in Jobs, to \in {"taken", "joining", "changed"} :
        /\ pc' = [pc EXCEPT ![r] = to] /\ job' = [job EXCEPT ![r] = j]
        /\ j.op = job[r].op /\ j.invitation = job[r].invitation /\ JobOK(j)
        /\ to = "taken" <=> job[r].op = "revoke"
  <2>1. CASE job[r].op = "revoke"
    <3>1. pc' = [pc EXCEPT ![r] = "taken"] /\ job' = job
      BY <2>1 DEF Take, Goes
    <3>2. job' = [job EXCEPT ![r] = job[r]]
      BY <1>1, <3>1 DEF RequestsOK
    <3>3. JobOK(job[r])
      BY <1>1 DEF RequestOK
    <3> QED  BY <1>1, <2>1, <3>1, <3>2, <3>3
  <2>2. CASE job[r].op = "accept"
    <3> DEFINE p == Invitee[job[r].invitation]
    <3>1. PICK cols \in Columns(p, offer[job[r].invitation]) :
            /\ job' = [job EXCEPT ![r] = [job[r] EXCEPT !.who = p, !.value = "active",
                                                        !.admin = offer[job[r].invitation],
                                                        !.cols = cols, !.fresh = (member[p] = "none")]]
            /\ Goes(r, IF member[p] = "none" THEN "joining" ELSE "changed")
      BY <2>2 DEF Take
    <3>2. PICK fresh \in BOOLEAN : fresh = (member[p] = "none")
      OBVIOUS
    <3>3. PICK j : j = [job[r] EXCEPT !.who = p, !.value = "active", !.admin = offer[job[r].invitation],
                                      !.cols = cols, !.fresh = fresh]
      OBVIOUS
    <3>4. cols \in SUBSET {"state", "roles"}
      BY DEF Columns
    <3>5. j \in Jobs /\ j.op = "accept" /\ j.invitation = job[r].invitation /\ j.value = "active"
      BY <1>1, <1>3, <2>2, <3>3, <3>4 DEF Jobs, States
    <3>6. JobOK(j)
      BY <1>3, <3>5 DEF JobOK, States
    <3>7. job' = [job EXCEPT ![r] = j]
      BY <3>1, <3>2, <3>3
    <3>8. PICK to \in {"joining", "changed"} : pc' = [pc EXCEPT ![r] = to]
      BY <3>1 DEF Goes
    <3> QED  BY <2>2, <3>5, <3>6, <3>7, <3>8
  <2> QED  BY <1>2, <2>1, <2>2
<1>5. pc'[r] = to /\ job'[r] = j
  BY <1>1, <1>4 DEF RequestsOK
<1>6. RequestsOK' /\ \A q \in Requests : q # r => Stays(q)
  BY <1>1, <1>2, <1>4, LocksTaken DEF RequestsOK, Stays, Pcs
<1>7. RequestOK(r)'
  BY <1>2, <1>4, <1>5 DEF RequestOK, Early, Late, JobOK, AllOps, MemberOps, UnlockedOps
<1>8. RowsOK' /\ CountersOK'
  BY <1>1, <1>2, RowsStay DEF CountersOK
<1> QED  BY <1>2, <1>4, <1>5, <1>6, <1>7, <1>8, LocksTaken, LockMoves

LEMMA LatestIsNat == RowsOK => Latest(audit) \in Nat
<1> SUFFICES ASSUME RowsOK, audit # {} PROVE Latest(audit) \in Nat
  BY DEF Latest
<1>1. PICK e \in audit : \A f \in audit : f.stamp <= e.stamp
  BY DEF RowsOK, HasLatest
<1>2. (CHOOSE d \in audit : \A f \in audit : f.stamp <= d.stamp) \in audit
  BY <1>1
<1> QED  BY <1>2 DEF RowsOK, Latest, Marks

(* AuditService.record. *)
LEMMA RecordLock ==
  ASSUME LockInv, NEW r \in Requests, Record(r)
  PROVE  /\ LockInv' /\ UNCHANGED rows /\ \A q \in Requests : q # r => Stays(q)
         /\ mark'[r] \in Marks /\ mark'[r].prev = Latest(audit)
         /\ \A e \in audit : e.stamp # mark'[r].stamp
         /\ backdated' = (backdated \/ \E e \in audit : mark'[r].stamp < e.stamp)
<1>1. RowsOK /\ RequestsOK /\ CountersOK /\ RequestOK(r)
  BY TypeParts DEF LockInv
<1>2. /\ UNCHANGED rows /\ UNCHANGED locks
      /\ UNCHANGED <<actor, seen, job, next, served>>
      /\ pc[r] \in {"bumped", "taken"} /\ pc' = [pc EXCEPT ![r] = "audited"] /\ clock' = clock + 2
  BY DEF Record, Goes, rows
<1>3. overlapped' \in BOOLEAN /\ backdated' \in BOOLEAN
  BY Zenon DEF Record
<1>4. PICK m \in Marks :
        /\ m.prev = Latest(audit) /\ mark' = [mark EXCEPT ![r] = m]
        /\ \A e \in audit : e.stamp # m.stamp
        /\ backdated' = (backdated \/ \E e \in audit : m.stamp < e.stamp)
  <2>1. PICK lag \in Lags :
          /\ clock + 2 - lag > 0
          /\ \A e \in audit \cup {mark[q] : q \in Requests} : e.stamp # clock + 2 - lag
          /\ mark' = [mark EXCEPT ![r] = [stamp |-> clock + 2 - lag, prev |-> Latest(audit)]]
          /\ backdated' = (backdated \/ \E e \in audit : clock + 2 - lag < e.stamp)
    BY Zenon DEF Record
  <2>2. PICK s \in Nat : s = clock + 2 - lag
    BY <1>1, <2>1, AccessAssumption DEF CountersOK
  <2> DEFINE d == [stamp |-> s, prev |-> Latest(audit)]
  <2>3. d \in Marks /\ d.stamp = s /\ d.prev = Latest(audit)
    BY <1>1, LatestIsNat DEF Marks
  <2>4. mark' = [mark EXCEPT ![r] = d] /\ \A e \in audit : e.stamp # d.stamp
    BY <2>1, <2>2
  <2>5. backdated' = (backdated \/ \E e \in audit : d.stamp < e.stamp)
    BY <2>1, <2>2, <2>3, Zenon
  <2> HIDE DEF d
  <2> QED  BY <2>3, <2>4, <2>5, Zenon
<1>5. RequestsOK' /\ \A q \in Requests : q # r => Stays(q)
  BY <1>1, <1>2, <1>4 DEF RequestsOK, Stays, Pcs, locks
<1>6. RequestOK(r)'
  <2>1. pc'[r] = "audited"
    BY <1>1, <1>2 DEF RequestsOK
  <2>2. ~Unlocked(r) => TenantRow \in held[r]
    BY <1>1, <1>2 DEF RequestOK, Late, Unlocked
  <2> QED  BY <1>1, <1>2, <2>1, <2>2 DEF RequestOK, Early, Late, JobOK, Unlocked, locks
<1>7. RowsOK' /\ CountersOK'
  BY <1>1, <1>2, <1>3, RowsStay DEF CountersOK
<1>8. mark'[r] = m
  BY <1>1, <1>4 DEF RequestsOK
<1>9. LockInv'
  BY <1>2, <1>4, <1>5, <1>6, <1>7, <1>8, LockFree
<1>10. /\ mark'[r] \in Marks /\ mark'[r].prev = Latest(audit)
       /\ \A e \in audit : e.stamp # mark'[r].stamp
       /\ backdated' = (backdated \/ \E e \in audit : mark'[r].stamp < e.stamp)
  BY <1>4, <1>8, Zenon
<1> QED  BY <1>2, <1>5, <1>9, <1>10, Zenon

LEMMA EndsLock ==
  ASSUME LockInv, NEW r \in Requests, Ends(r), RowsOK', CountersOK'
  PROVE  LockInv' /\ \A q \in Requests : q # r => Stays(q)
<1>1. RequestOK(r)'
  BY SessionEnds, NothingJob DEF RequestOK, Early, Late, Nothing
<1> QED  BY <1>1, SessionEnds, LockMoves

LEMMA FailLock ==
  ASSUME LockInv, NEW r \in Requests, Fail(r)
  PROVE  LockInv' /\ UNCHANGED rows /\ \A q \in Requests : q # r => Stays(q)
<1>1. RowsOK /\ CountersOK
  BY TypeParts DEF LockInv
<1>2. Ends(r) /\ UNCHANGED rows /\ UNCHANGED <<served, clock, overlapped, backdated>>
  BY DEF Fail, rows, history
<1>3. RowsOK' /\ CountersOK'
  BY <1>1, <1>2, RowsStay DEF CountersOK
<1> QED  BY <1>2, <1>3, EndsLock

(* session.commit(). *)
LEMMA CommitLock ==
  ASSUME LockInv, NEW r \in Requests, Commit(r)
  PROVE  LockInv' /\ \A q \in Requests : q # r => Stays(q)
<1>1. RowsOK /\ RequestsOK /\ CountersOK /\ RequestOK(r) /\ job[r] \in Jobs /\ mark[r] \in Marks
  BY TypeParts DEF LockInv, RequestsOK
<1>2. PICK j \in Jobs : j = job[r]
  BY <1>1
<1>3. JobOK(j)
  BY <1>1, <1>2 DEF RequestOK
<1>4. j.op # "transition" => j.value \in States
  BY <1>3 DEF JobOK
<1>5. j.admin \in BOOLEAN
  BY DEF Jobs
<1>6. member' \in [Principals -> States] /\ direct' \in [Principals -> BOOLEAN]
  <2>1. MemberAfter(j) \in [Principals -> States]
    BY <1>1, <1>4 DEF MemberAfter, MemberOps, RowsOK
  <2>2. DirectAfter(j) \in [Principals -> BOOLEAN]
    BY <1>1, <1>5 DEF DirectAfter, RowsOK
  <2> QED  BY <1>2, <2>1, <2>2 DEF Commit
<1>7. group' \in [Groups -> States] /\ link' \in [Links -> States] /\ role' \in [Groups -> States]
  <2>1. GroupAfter(j) \in [Groups -> States]
    BY <1>1, <1>4 DEF GroupAfter, RowsOK
  <2>2. LinkAfter(j) \in [Links -> States]
    BY <1>1, <1>4 DEF LinkAfter, RowsOK
  <2>3. RoleAfter(j) \in [Groups -> States]
    BY <1>1, <1>4 DEF RoleAfter, RowsOK
  <2> QED  BY <1>2, <2>1, <2>2, <2>3 DEF Commit
<1>8. /\ invite' \in [Invitations -> {"none", "pending", "accepted", "revoked"}]
      /\ offer' \in [Invitations -> BOOLEAN] /\ uses' \in [Invitations -> Nat]
  <2>1. InviteAfter(j) \in [Invitations -> {"none", "pending", "accepted", "revoked"}]
    BY <1>1 DEF InviteAfter, RowsOK
  <2>2. offer' \in [Invitations -> BOOLEAN]
    <3>1. offer' = offer \/ offer' = [offer EXCEPT ![j.invitation] = j.admin]
      BY <1>2 DEF Commit
    <3> QED  BY <1>1, <1>5, <3>1 DEF RowsOK
  <2>3. uses' \in [Invitations -> Nat]
    <3>1. uses' = uses \/ (j.op = "accept" /\ uses' = [uses EXCEPT ![j.invitation] = @ + 1])
      BY <1>2 DEF Commit
    <3> QED  BY <1>1, <1>3, <3>1 DEF RowsOK, JobOK
  <2> QED  BY <1>2, <2>1, <2>2, <2>3 DEF Commit
<1>9. tenant' \in {"active", "suspended", "archived"} /\ epoch' \in Nat
  BY <1>1, <1>2, <1>3 DEF Commit, JobOK, RowsOK, RequestsOK
<1>10. audit' \subseteq Marks /\ HasLatest'
  <2>1. audit' = audit \cup {mark[r]}
    BY DEF Commit
  <2>2. CASE audit = {}
    BY <1>1, <2>1, <2>2 DEF HasLatest, Marks
  <2>3. CASE audit # {}
    <3>1. PICK e \in audit : \A f \in audit : f.stamp <= e.stamp
      BY <1>1, <2>3 DEF RowsOK, HasLatest
    <3>2. e.stamp \in Nat /\ mark[r].stamp \in Nat /\ \A f \in audit : f.stamp \in Nat
      BY <1>1 DEF RowsOK, Marks
    <3>3. ASSUME mark[r].stamp <= e.stamp PROVE HasLatest'
      BY <2>1, <3>1, <3>3 DEF HasLatest
    <3>4. ASSUME e.stamp <= mark[r].stamp PROVE HasLatest'
      BY <2>1, <3>1, <3>2, <3>4 DEF HasLatest
    <3>5. HasLatest'
      BY <3>2, <3>3, <3>4
    <3> QED  BY <1>1, <2>1, <3>5 DEF RowsOK
  <2> QED  BY <1>1, <2>1, <2>2, <2>3 DEF RowsOK
<1>11. rewound' \in BOOLEAN /\ exposed' \in BOOLEAN
  BY Zenon DEF Commit
<1>12. RowsOK'
  BY <1>6, <1>7, <1>8, <1>9, <1>10, <1>11 DEF RowsOK
<1>13. CountersOK'
  BY <1>1 DEF Commit, CountersOK
<1>14. Ends(r)
  BY DEF Commit
<1> QED  BY <1>12, <1>13, <1>14, EndsLock

(* The steps of a request other than its commit. *)
Quiet(r) ==
  \/ \E p \in Principals : ReadTenant(r, p)
  \/ Recover(r)
  \/ \E j \in Jobs, to \in Pcs : AsksFor(r, j, to)
  \/ ReadRoles(r) \/ RequireActiveAdministrator(r)
  \/ Flush(r) \/ Bump(r) \/ Merge(r) \/ Take(r) \/ Record(r)
  \/ Fail(r)

LEMMA QuietOrCommit ==
  ASSUME LockInv, Next
  PROVE  \E r \in Requests : Quiet(r) \/ Commit(r)
BY AskShape DEF Next, Step, Quiet

LEMMA QuietLock ==
  ASSUME LockInv, NEW r \in Requests, Quiet(r)
  PROVE  LockInv' /\ UNCHANGED rows /\ \A q \in Requests : q # r => Stays(q)
BY ReadTenantLock, RecoverLock, AskLock, GoesLock, FlushLock, BumpLock, TakeLock, RecordLock, FailLock DEF Quiet

LEMMA InitLock == Init => LockInv
<1> SUFFICES ASSUME Init PROVE LockInv
  OBVIOUS
<1>1. RowsOK
  <2>1. PICK first \in [Principals -> {"none", "active"}], admins \in SUBSET Principals :
          member = first /\ direct = [p \in Principals |-> p \in admins]
    BY DEF Init
  <2>2. member \in [Principals -> States] /\ direct \in [Principals -> BOOLEAN]
    BY <2>1 DEF States
  <2>3. PICK made \in {"none", "active"}, joined \in {"none", "active"} :
          /\ group = [g \in Groups |-> made] /\ role = [g \in Groups |-> joined]
          /\ link = [l \in Links |-> IF member[l[1]] = "none" THEN "none" ELSE joined]
    BY DEF Init
  <2>4. group \in [Groups -> States] /\ role \in [Groups -> States] /\ link \in [Links -> States]
    BY <2>3 DEF States
  <2>5. /\ invite \in [Invitations -> {"none", "pending", "accepted", "revoked"}]
        /\ offer \in [Invitations -> BOOLEAN] /\ uses \in [Invitations -> Nat]
    BY DEF Init
  <2>6. /\ tenant = "active" /\ epoch = 2 /\ audit = {} /\ rewound = FALSE /\ exposed = FALSE
    BY DEF Init
  <2> QED  BY <2>2, <2>4, <2>5, <2>6 DEF RowsOK, HasLatest
<1>2. RequestsOK
  BY NothingJob DEF Init, RequestsOK, Pcs
<1>3. CountersOK
  <2>1. clock = 0 /\ served = 0
    BY DEF Init
  <2>2. clock \in Nat /\ served \in 0 .. MaxRequests
    BY <2>1, AccessAssumption
  <2>3. overlapped \in BOOLEAN /\ backdated \in BOOLEAN
    BY Zenon DEF Init
  <2> QED  BY <2>2, <2>3 DEF CountersOK
<1>4. \A r \in Requests : RequestOK(r)
  BY NothingJob DEF Init, RequestOK, Early, Late
<1>5. Exclusive
  BY DEF Init, Exclusive
<1> QED  BY <1>1, <1>2, <1>3, <1>4, <1>5, TypeParts DEF LockInv

LEMMA NextLock == LockInv /\ [Next]_vars => LockInv'
<1> SUFFICES ASSUME LockInv, [Next]_vars PROVE LockInv'
  OBVIOUS
<1>1. CASE Next
  BY <1>1, QuietOrCommit, QuietLock, CommitLock
<1>2. CASE UNCHANGED vars
  <2>1. UNCHANGED rows /\ UNCHANGED <<pc, actor, seen, job, next, mark, held, shared, served, clock, overlapped, backdated>>
    BY <1>2 DEF vars, rows, access, invitations, locks, history
  <2>2. RowsOK /\ RequestsOK /\ CountersOK
    BY TypeParts DEF LockInv
  <2>3. RowsOK' /\ CountersOK'
    BY <2>1, <2>2, RowsStay DEF CountersOK
  <2>4. RequestsOK'
    BY <2>1, <2>2 DEF RequestsOK
  <2>5. TypeOK' /\ HasLatest'
    BY <2>3, <2>4 DEF TypeOK, RowsOK, RequestsOK, CountersOK, Marks
  <2>6. \A r \in Requests : RequestOK(r)'
    BY <2>1 DEF LockInv, RequestOK, JobOK, Unlocked
  <2>7. Exclusive'
    BY <2>1 DEF LockInv, Exclusive
  <2> QED  BY <2>4, <2>5, <2>6, <2>7 DEF LockInv, RequestsOK
<1> QED  BY <1>1, <1>2

(* Requests, their locks and the rows keep their types and their order. *)
THEOREM LockInductive == Spec => []LockInv
BY InitLock, NextLock, PTL DEF Spec

(* Every state of the tenant's administration has its type. *)
THEOREM TypeCorrect == Spec => []TypeOK
<1>1. LockInv => TypeOK
  BY DEF LockInv
<1> QED  BY <1>1, LockInductive, PTL

-----------------------------------------------------------------------------
(* Invitations. *)

LEMMA InitInvite == Init => InviteInv
<1> SUFFICES ASSUME Init PROVE InviteInv
  OBVIOUS
<1>1. /\ \A r \in Requests : job[r].op = "none"
      /\ \A i \in Invitations : invite[i] \in {"none", "pending"} /\ uses[i] = 0
  BY NothingJob DEF Init
<1> QED  BY <1>1 DEF InviteInv, UsesMatch

(* A step that leaves the invitations, and the claims of other requests. *)
LEMMA InviteMoves ==
  ASSUME InviteInv, NEW r \in Requests, UNCHANGED <<invite, uses>>,
         \A q \in Requests : q # r => Stays(q),
         job'[r].op \in {"accept", "revoke"} /\ pc'[r] # "asked" =>
           <<"invite", job'[r].invitation>> \in held'[r] /\ invite[job'[r].invitation] = "pending",
         job'[r].op = "issue" =>
           /\ invite[job'[r].invitation] = "none"
           /\ \A q \in Requests : q # r /\ job[q].op = "issue" => job[q].invitation # job'[r].invitation
  PROVE  InviteInv'
<1>1. \A q \in Requests : q # r => pc'[q] = pc[q] /\ job'[q] = job[q] /\ held'[q] = held[q]
  BY DEF Stays
<1>2. UsesMatch'
  BY DEF InviteInv, UsesMatch
<1> QED  BY <1>1, <1>2 DEF InviteInv

LEMMA QuietInvite ==
  ASSUME LockInv, InviteInv, NEW r \in Requests, Quiet(r)
  PROVE  InviteInv'
<1>1. RequestsOK /\ RequestOK(r)
  BY TypeParts DEF LockInv
<1>2. UNCHANGED <<invite, uses>> /\ \A q \in Requests : q # r => Stays(q)
  BY QuietLock DEF rows, invitations
<1>3. ASSUME job'[r] = job[r], held[r] \subseteq held'[r],
             job[r].op \in {"accept", "revoke"} => pc[r] # "asked"
      PROVE  InviteInv'
  <2>1. job[r].op \in {"accept", "revoke"} =>
          <<"invite", job[r].invitation>> \in held[r] /\ invite[job[r].invitation] = "pending"
    BY <1>3 DEF InviteInv
  <2>2. job[r].op = "issue" =>
           /\ invite[job[r].invitation] = "none"
           /\ \A q \in Requests : q # r /\ job[q].op = "issue" => job[q].invitation # job[r].invitation
    BY DEF InviteInv
  <2> QED  BY <1>2, <1>3, <2>1, <2>2, InviteMoves
<1>4. ASSUME job'[r] = Nothing PROVE InviteInv'
  BY <1>2, <1>4, InviteMoves, NothingJob
<1>5. CASE (\E p \in Principals : ReadTenant(r, p)) \/ Recover(r) \/ ReadRoles(r)
  <2>1. job'[r] = job[r] /\ pc[r] \in Early
    BY <1>5 DEF ReadTenant, Recover, ReadRoles, Starts, Early
  <2> QED  BY <1>1, <1>4, <2>1 DEF RequestOK
<1>6. CASE Fail(r)
  BY <1>4, <1>6, SessionEnds DEF Fail
<1>7. CASE \E j \in Jobs, to \in Pcs : AsksFor(r, j, to)
  <2>1. PICK j \in Jobs, to \in Pcs : AsksFor(r, j, to)
    BY <1>7
  <2>2. pc'[r] = to /\ job'[r] = j
    BY <1>1, <2>1 DEF AsksFor, RequestsOK
  <2>3. to = "asked" \/ j.op \notin {"accept", "revoke"}
    BY <2>1 DEF AsksFor
  <2>4. j.op = "issue" => /\ invite[j.invitation] = "none"
                          /\ \A q \in Requests : job[q].op = "issue" => job[q].invitation # j.invitation
    BY <2>1 DEF AsksFor
  <2> QED  BY <1>2, <2>2, <2>3, <2>4, InviteMoves
<1>8. CASE RequireActiveAdministrator(r) \/ Record(r)
  <2>1. job' = job /\ held' = held /\ pc[r] # "asked"
    BY <1>8 DEF RequireActiveAdministrator, Record, locks
  <2> QED  BY <1>3, <2>1
<1>9. CASE Flush(r) \/ Bump(r) \/ Merge(r)
  <2>1. job' = job /\ Locks(r) /\ (job[r].op \in {"accept", "revoke"} => pc[r] # "asked")
    BY <1>9 DEF Flush, Bump, Merge
  <2>2. held[r] \subseteq held'[r]
    BY <2>1, LocksTaken
  <2> QED  BY <1>3, <2>1, <2>2
<1>10. CASE Take(r)
  <2>1. /\ job'[r].op = job[r].op /\ job'[r].invitation = job[r].invitation
        /\ pc[r] = "asked" /\ job[r].op \in {"accept", "revoke"}
        /\ Locks(r) /\ invite[job[r].invitation] = "pending"
    BY <1>10, TakeLock DEF Take
  <2>2. RowOf(job[r]) = <<"invite", job[r].invitation>>
    BY <2>1 DEF RowOf
  <2>3. Wants(r) = {RowOf(job[r])}
    BY <2>1 DEF Wants
  <2>4. <<"invite", job[r].invitation>> \in held'[r]
    BY <2>1, <2>2, <2>3, LocksTaken
  <2> QED  BY <1>2, <2>1, <2>4, InviteMoves
<1> QED  BY <1>5, <1>6, <1>7, <1>8, <1>9, <1>10 DEF Quiet

(* A commit writes only an invitation that nobody else has claimed. *)
LEMMA CommitInvite ==
  ASSUME LockInv, InviteInv, NEW r \in Requests, Commit(r)
  PROVE  InviteInv'
<1>1. RowsOK /\ RequestsOK /\ RequestOK(r) /\ job[r] \in Jobs
  BY TypeParts DEF LockInv, RequestsOK
<1>2. job'[r].op = "none" /\ \A q \in Requests : q # r => Stays(q)
  BY SessionEnds, NothingJob DEF Commit
<1>3. PICK j \in Jobs : j = job[r]
  BY <1>1
<1>4. JobOK(j) /\ pc[r] = "audited" /\ invite' = InviteAfter(j)
  BY <1>1, <1>3 DEF RequestOK, Commit
<1>5. /\ \A q \in Requests : q # r => pc'[q] = pc[q] /\ job'[q] = job[q] /\ held'[q] = held[q]
      /\ \A q \in Requests : q # r => held[q] \cap held[r] = {}
  BY <1>2 DEF Stays, LockInv, Exclusive
<1>6. CASE j.op \notin {"issue", "revoke", "accept"}
  <2>1. invite' = invite /\ uses' = uses
    BY <1>3, <1>4, <1>6 DEF InviteAfter, Commit
  <2> QED  BY <1>2, <2>1, InviteMoves
<1>7. CASE j.op \in {"issue", "revoke", "accept"}
  <2>1. PICK i \in Invitations : i = j.invitation
    BY <1>4, <1>7 DEF JobOK
  <2>2. /\ j.op = "issue" => invite[i] = "none"
        /\ j.op # "issue" => <<"invite", i>> \in held[r] /\ invite[i] = "pending"
    BY <1>3, <1>4, <1>7, <2>1 DEF InviteInv
  <2>3. PICK state \in {"pending", "revoked", "accepted"} :
          /\ invite' = [invite EXCEPT ![i] = state]
          /\ state = "accepted" <=> j.op = "accept"
    <3>1. CASE j.op = "issue"
      BY <1>4, <2>1, <3>1 DEF InviteAfter
    <3>2. CASE j.op = "revoke"
      BY <1>4, <2>1, <3>2 DEF InviteAfter
    <3>3. CASE j.op = "accept"
      BY <1>4, <2>1, <3>3 DEF InviteAfter
    <3> QED  BY <1>7, <3>1, <3>2, <3>3
  <2>4. uses' = IF j.op = "accept" THEN [uses EXCEPT ![i] = uses[i] + 1] ELSE uses
    BY <1>3, <2>1 DEF Commit
  <2>5. uses[i] = 0
    BY <2>2, <1>7 DEF InviteInv, UsesMatch
  <2>6. UsesMatch'
    BY <1>1, <2>3, <2>4, <2>5 DEF InviteInv, UsesMatch, RowsOK
  <2>7. ASSUME NEW q \in Requests, q # r
        PROVE  /\ job[q].op \in {"accept", "revoke"} /\ pc[q] # "asked" => job[q].invitation # i
               /\ job[q].op = "issue" => job[q].invitation # i
    <3>1. CASE j.op = "issue"
      BY <1>3, <2>1, <2>2, <2>7, <3>1 DEF InviteInv
    <3>2. CASE j.op # "issue"
      BY <1>5, <2>2, <2>7, <3>2 DEF InviteInv
    <3> QED  BY <3>1, <3>2
  <2>8. \A k \in Invitations : k # i => invite'[k] = invite[k]
    BY <1>1, <2>3 DEF RowsOK
  <2>9. ASSUME NEW q \in Requests
        PROVE  /\ job'[q].op \in {"accept", "revoke"} /\ pc'[q] # "asked" =>
                    <<"invite", job'[q].invitation>> \in held'[q] /\ invite'[job'[q].invitation] = "pending"
               /\ job'[q].op = "issue" => invite'[job'[q].invitation] = "none"
    <3>1. CASE q = r
      BY <1>2, <3>1
    <3>2. CASE q # r
      <4>1. job[q].op \in {"issue", "accept", "revoke"} => job[q].invitation \in Invitations
        BY DEF LockInv, RequestOK, JobOK
      <4> QED  BY <1>5, <2>7, <2>8, <3>2, <4>1 DEF InviteInv
    <3> QED  BY <3>1, <3>2
  <2>10. \A p, q \in Requests :
           job'[p].op = "issue" /\ job'[q].op = "issue" /\ job'[p].invitation = job'[q].invitation => p = q
    BY <1>2, <1>5 DEF InviteInv
  <2> QED  BY <2>6, <2>9, <2>10 DEF InviteInv
<1> QED  BY <1>6, <1>7

LEMMA NextInvite == LockInv /\ InviteInv /\ [Next]_vars => InviteInv'
<1> SUFFICES ASSUME LockInv, InviteInv, [Next]_vars PROVE InviteInv'
  OBVIOUS
<1>1. CASE Next
  BY <1>1, QuietOrCommit, QuietInvite, CommitInvite
<1>2. CASE UNCHANGED vars
  BY <1>2 DEF InviteInv, UsesMatch, vars, invitations, locks, history
<1> QED  BY <1>1, <1>2

(* A commit writes no invitation that is settled. *)
LEMMA CommitSettled ==
  ASSUME LockInv, InviteInv, NEW r \in Requests, Commit(r),
         NEW i \in Invitations, invite[i] \in {"accepted", "revoked"}
  PROVE  invite'[i] = invite[i] /\ uses'[i] = uses[i]
<1>1. RowsOK /\ RequestOK(r) /\ job[r] \in Jobs
  BY TypeParts DEF LockInv, RequestsOK
<1>2. PICK j \in Jobs : j = job[r]
  BY <1>1
<1>3. /\ JobOK(j) /\ pc[r] = "audited" /\ invite' = InviteAfter(j)
      /\ uses' = IF j.op = "accept" THEN [uses EXCEPT ![j.invitation] = @ + 1] ELSE uses
  BY <1>1, <1>2 DEF RequestOK, Commit
<1>4. j.op \in {"issue", "revoke", "accept"} => j.invitation # i
  BY <1>2, <1>3 DEF InviteInv
<1>5. invite'[i] = invite[i]
  BY <1>1, <1>3, <1>4 DEF InviteAfter, RowsOK
<1>6. uses'[i] = uses[i]
  BY <1>1, <1>3, <1>4 DEF RowsOK
<1> QED  BY <1>5, <1>6

(* accept_invitation and revoke_invitation lock the invitation and find it *)
(* pending: it is accepted at most once, and of an acceptance and a        *)
(* revocation the first to commit stands.                                  *)
THEOREM AcceptedOnce == Spec => InvitationSingleUse
<1> DEFINE Stands ==
      \A i \in Invitations :
        invite[i] \in {"accepted", "revoked"} => invite'[i] = invite[i] /\ uses'[i] = uses[i]
<1>1. LockInv /\ InviteInv /\ [Next]_vars => Stands
  <2> SUFFICES ASSUME LockInv, InviteInv, [Next]_vars PROVE Stands
    OBVIOUS
  <2>1. CASE UNCHANGED vars
    BY <2>1 DEF vars, invitations, history
  <2>2. ASSUME NEW r \in Requests, Quiet(r) PROVE Stands
    BY <2>2, QuietLock DEF rows, invitations
  <2>3. ASSUME NEW r \in Requests, Commit(r) PROVE Stands
    BY <2>3, CommitSettled
  <2> QED  BY <2>1, <2>2, <2>3, QuietOrCommit
<1>2. Spec => [](LockInv /\ InviteInv)
  BY LockInductive, InitInvite, NextInvite, PTL DEF Spec
<1> QED  BY <1>1, <1>2, PTL DEF Spec, InvitationSingleUse

-----------------------------------------------------------------------------
(* The authorization epoch. *)

(* What EpochInv says of one request. *)
EpochOK(r) ==
  /\ pc[r] \in Late /\ job[r].op \notin UnlockedOps \cup {"recover"} => next[r] = epoch + 1
  /\ ~rewound => seen[r] <= epoch
  /\ pc[r] # "idle" /\ actor[r] # NoOne /\ seen[r] = epoch /\ ~rewound =>
       tenant = "active" /\ (pc[r] # "tenant" => actor[r] \in Administrators)

LEMMA InitEpoch == Init => EpochInv
<1> SUFFICES ASSUME Init PROVE EpochInv
  OBVIOUS
<1>1. epoch = 2 /\ \A r \in Requests : pc[r] = "idle" /\ seen[r] = 0
  BY DEF Init
<1> QED  BY <1>1 DEF EpochInv, Late

LEMMA AdministratorsStay == UNCHANGED rows => Administrators' = Administrators
BY DEF rows, access, Administrators, Admins

LEMMA QuietEpoch ==
  ASSUME LockInv, EpochInv, NEW r \in Requests, Quiet(r)
  PROVE  EpochInv'
<1>1. RowsOK /\ RequestsOK /\ RequestOK(r)
  BY TypeParts DEF LockInv
<1>2. /\ UNCHANGED rows /\ \A q \in Requests : q # r => Stays(q)
      /\ Administrators' = Administrators
  BY QuietLock, AdministratorsStay
<1>3. epoch' = epoch /\ tenant' = tenant /\ rewound' = rewound
  BY <1>2 DEF rows
<1>4. EpochOK(r)
  BY DEF EpochInv, EpochOK
<1>5. SUFFICES EpochOK(r)'
  <2>1. ASSUME NEW q \in Requests, q # r PROVE EpochOK(q)'
    <3>1. EpochOK(q) /\ Stays(q)
      BY <1>2, <2>1 DEF EpochInv, EpochOK
    <3> QED  BY <1>2, <1>3, <3>1 DEF EpochOK, Stays
  <2> QED  BY <2>1 DEF EpochInv, EpochOK
<1>6. ASSUME NEW p \in Principals, ReadTenant(r, p) PROVE EpochOK(r)'
  <2>1. pc'[r] = "tenant" /\ seen'[r] = epoch /\ tenant = "active"
    BY <1>1, <1>6 DEF ReadTenant, Goes, RequestsOK
  <2> QED  BY <1>1, <1>3, <2>1 DEF EpochOK, Late, RowsOK
<1>7. CASE Recover(r)
  <2>1. pc'[r] = "recovering" /\ seen'[r] = epoch /\ actor'[r] = NoOne
    BY <1>1, <1>7 DEF Recover, Goes, Starts, RequestsOK, RequestOK
  <2> QED  BY <1>1, <1>3, <2>1 DEF EpochOK, Late, RowsOK
<1>8. CASE ReadRoles(r)
  <2>1. /\ pc'[r] = "ready" /\ seen'[r] = seen[r] /\ actor'[r] = actor[r]
        /\ pc[r] = "tenant" /\ actor[r] \in Administrators
    BY <1>1, <1>8 DEF ReadRoles, Goes, RequestsOK
  <2> QED  BY <1>2, <1>3, <1>4, <2>1 DEF EpochOK, Late
<1>9. CASE \E j \in Jobs, to \in Pcs : AsksFor(r, j, to)
  <2>1. /\ pc'[r] \in {"asked", "taken", "changed"} /\ seen'[r] = seen[r] /\ actor'[r] = actor[r]
        /\ pc[r] \in {"idle", "ready", "recovering"}
    BY <1>1, <1>9 DEF AsksFor, RequestsOK
  <2>2. pc[r] = "idle" => actor[r] = NoOne
    BY <1>1 DEF RequestOK
  <2> QED  BY <1>2, <1>3, <1>4, <2>1, <2>2 DEF EpochOK, Late
<1>10. CASE RequireActiveAdministrator(r) \/ Flush(r)
  <2>1. /\ pc'[r] \in {"flushed", "changed"} /\ seen'[r] = seen[r] /\ actor'[r] = actor[r]
        /\ pc[r] \in {"asked", "joining", "flushed"}
    BY <1>1, <1>10 DEF RequireActiveAdministrator, Flush, Goes, RequestsOK
  <2> QED  BY <1>2, <1>3, <1>4, <2>1 DEF EpochOK, Late
<1>11. CASE Take(r)
  <2>1. /\ pc'[r] \in {"taken", "joining", "changed"} /\ seen'[r] = seen[r] /\ actor'[r] = actor[r]
        /\ pc[r] = "asked"
    BY <1>11, TakeLock DEF Take
  <2> QED  BY <1>2, <1>3, <1>4, <2>1 DEF EpochOK, Late
<1>12. CASE Bump(r)
  <2>1. /\ pc'[r] \in {"merging", "bumped"} /\ seen'[r] = seen[r] /\ actor'[r] = actor[r]
        /\ job'[r] = job[r] /\ pc[r] = "changed"
        /\ job[r].op # "recover" => next'[r] = epoch + 1
    BY <1>1, <1>12 DEF Bump, Goes, RequestsOK
  <2> QED  BY <1>2, <1>3, <1>4, <2>1 DEF EpochOK
<1>13. CASE Merge(r) \/ Record(r)
  <2>1. /\ pc'[r] \in {"bumped", "audited"} /\ seen'[r] = seen[r] /\ actor'[r] = actor[r]
        /\ job'[r] = job[r] /\ next'[r] = next[r]
        /\ pc[r] \in {"merging", "bumped", "taken"}
    BY <1>1, <1>13 DEF Merge, Record, Goes, RequestsOK
  <2>2. pc[r] = "taken" => job[r].op \in UnlockedOps
    BY <1>1 DEF RequestOK
  <2>3. pc[r] \in Late \/ job[r].op \in UnlockedOps
    BY <2>1, <2>2 DEF Late
  <2> QED  BY <1>2, <1>3, <1>4, <2>1, <2>3 DEF EpochOK
<1>14. CASE Fail(r)
  <2>1. pc'[r] = "idle" /\ seen'[r] = 0
    BY <1>14, SessionEnds DEF Fail
  <2> QED  BY <1>1, <1>3, <2>1 DEF EpochOK, Late, RowsOK
<1> QED  BY <1>6, <1>7, <1>8, <1>9, <1>10, <1>11, <1>12, <1>13, <1>14 DEF Quiet

(* A commit that changes what an epoch vouches for writes a later one, or  *)
(* is a recovery that rewinds.                                             *)
LEMMA CommitEpoch ==
  ASSUME LockInv, EpochInv, NEW r \in Requests, Commit(r)
  PROVE  EpochInv'
<1>1. RowsOK /\ RequestsOK /\ RequestOK(r) /\ job[r] \in Jobs
  BY TypeParts DEF LockInv, RequestsOK
<1>2. /\ pc'[r] = "idle" /\ seen'[r] = 0 /\ \A q \in Requests : q # r => Stays(q)
  BY SessionEnds DEF Commit
<1>3. pc[r] = "audited" /\ epoch' = IF Unlocked(r) THEN epoch ELSE next[r]
  BY DEF Commit
<1>4. epoch' \in Nat
  BY <1>1, <1>3 DEF RowsOK, RequestsOK
<1>5. rewound' = (rewound \/ (job[r].op = "recover" /\ next[r] <= epoch))
  BY Zenon DEF Commit
<1>6. CASE Unlocked(r)
  <2>1. job[r].op \in UnlockedOps
    BY <1>6 DEF Unlocked
  <2>2. /\ member' = member /\ direct' = direct /\ group' = group /\ link' = link /\ role' = role
    BY <2>1 DEF Commit, MemberAfter, DirectAfter, GroupAfter, LinkAfter, RoleAfter, MemberOps, UnlockedOps
  <2>3. epoch' = epoch /\ tenant' = tenant
    BY <1>3, <1>6, <2>1 DEF Commit, UnlockedOps
  <2>4. Administrators' = Administrators
    BY <2>2 DEF Administrators
  <2>5. ~rewound' => ~rewound
    BY <1>5, Zenon
  <2>6. ASSUME NEW q \in Requests PROVE EpochOK(q)'
    <3>1. CASE q = r
      BY <1>1, <1>2, <2>3, <3>1 DEF EpochOK, Late, RowsOK
    <3>2. CASE q # r
      <4>1. EpochOK(q) /\ Stays(q)
        BY <1>2, <3>2 DEF EpochInv, EpochOK
      <4> QED  BY <2>3, <2>4, <2>5, <4>1 DEF EpochOK, Stays
    <3> QED  BY <3>1, <3>2
  <2> QED  BY <2>6 DEF EpochInv, EpochOK
<1>7. CASE ~Unlocked(r)
  <2>1. TenantRow \in held[r]
    BY <1>1, <1>3, <1>7 DEF RequestOK, Late
  <2>2. ~rewound' => ~rewound /\ epoch < epoch'
    <3> SUFFICES ASSUME ~rewound' PROVE ~rewound /\ epoch < epoch'
      OBVIOUS
    <3>1. ~rewound /\ ~(job[r].op = "recover" /\ next[r] <= epoch)
      BY <1>5, Zenon
    <3>2. CASE job[r].op = "recover"
      BY <1>1, <1>3, <1>7, <3>1, <3>2 DEF RowsOK, RequestsOK
    <3>3. CASE job[r].op # "recover"
      <4>1. next[r] = epoch + 1
        BY <1>3, <1>7, <3>3 DEF EpochInv, Late, Unlocked
      <4> QED  BY <1>1, <1>3, <1>7, <3>1, <4>1 DEF RowsOK
    <3> QED  BY <3>2, <3>3
  <2>3. ASSUME NEW q \in Requests PROVE EpochOK(q)'
    <3>1. CASE q = r
      BY <1>2, <1>4, <3>1, <2>2 DEF EpochOK, Late
    <3>2. CASE q # r
      <4>1. EpochOK(q) /\ Stays(q) /\ RequestOK(q)
        BY <1>2, <3>2 DEF EpochInv, EpochOK, LockInv
      <4>2. TenantRow \notin held[q]
        BY <2>1, <3>2 DEF LockInv, Exclusive
      <4>3. ~(pc[q] \in Late /\ job[q].op \notin UnlockedOps)
        BY <4>1, <4>2 DEF RequestOK, Unlocked
      <4>4. ~rewound' => seen[q] < epoch'
        BY <1>1, <1>4, <2>2, <4>1 DEF EpochOK, RowsOK, RequestsOK
      <4>5. ~rewound' => seen'[q] <= epoch' /\ seen'[q] # epoch'
        BY <1>1, <1>4, <4>1, <4>4 DEF Stays, RequestsOK
      <4>6. ~(pc'[q] \in Late /\ job'[q].op \notin UnlockedOps)
        BY <4>1, <4>3 DEF Stays
      <4> QED  BY <4>5, <4>6 DEF EpochOK
    <3> QED  BY <3>1, <3>2
  <2> QED  BY <2>3 DEF EpochInv, EpochOK
<1> QED  BY <1>6, <1>7

LEMMA NextEpoch == LockInv /\ EpochInv /\ [Next]_vars => EpochInv'
<1> SUFFICES ASSUME LockInv, EpochInv, [Next]_vars PROVE EpochInv'
  OBVIOUS
<1>1. CASE Next
  BY <1>1, QuietOrCommit, QuietEpoch, CommitEpoch
<1>2. CASE UNCHANGED vars
  <2>1. UNCHANGED rows
    BY <1>2 DEF vars, rows, history
  <2>2. Administrators' = Administrators
    BY <2>1, AdministratorsStay
  <2> QED  BY <1>2, <2>2 DEF EpochInv, vars, history
<1> QED  BY <1>1, <1>2

(* An identity whose epoch is still the tenant's current one still holds   *)
(* the administrator right, in an active tenant, unless a recovery wrote   *)
(* back an old epoch.                                                      *)
THEOREM EpochVouches == Spec => []EpochGuards
<1>1. Spec => []EpochInv
  BY LockInductive, InitEpoch, NextEpoch, PTL DEF Spec
<1>2. EpochInv => EpochGuards
  BY DEF EpochInv, EpochGuards
<1> QED  BY <1>1, <1>2, PTL

(* What the epoch is for: the rights and the tenant's state never change   *)
(* behind its back.                                                        *)
RecoveryCommits == \E r \in Requests : job[r].op = "recover" /\ Commit(r)

RightsMoveEpoch ==
  [][epoch' = epoch + 1 \/ UNCHANGED <<access, tenant, epoch>> \/ RecoveryCommits]_vars

(* A committed change of memberships, groups, links, roles or the tenant's *)
(* state raises the epoch by exactly one in the same transaction, and      *)
(* nothing else moves it, however requests overlap: two changes never      *)
(* share an epoch.  Only a recovery may write another value.               *)
THEOREM EveryChangeRaisesEpoch == Spec => RightsMoveEpoch
<1>1. ASSUME LockInv, EpochInv, NEW r \in Requests, Commit(r), job[r].op # "recover"
      PROVE  epoch' = epoch + 1 \/ UNCHANGED <<access, tenant, epoch>>
  <2>1. pc[r] = "audited" /\ epoch' = IF Unlocked(r) THEN epoch ELSE next[r]
    BY <1>1 DEF Commit
  <2>2. CASE Unlocked(r)
    <3>1. job[r].op \in UnlockedOps
      BY <2>2 DEF Unlocked
    <3>2. /\ member' = member /\ direct' = direct /\ group' = group /\ link' = link /\ role' = role
          /\ tenant' = tenant
      BY <1>1, <3>1 DEF Commit, MemberAfter, DirectAfter, GroupAfter, LinkAfter, RoleAfter, MemberOps, UnlockedOps
    <3> QED  BY <2>1, <2>2, <3>2 DEF access
  <2>3. CASE ~Unlocked(r)
    <3>1. next[r] = epoch + 1
      BY <1>1, <2>1, <2>3 DEF EpochInv, Late, Unlocked
    <3> QED  BY <2>1, <2>3, <3>1
  <2> QED  BY <2>2, <2>3
<1>2. ASSUME LockInv, EpochInv, [Next]_vars
      PROVE  epoch' = epoch + 1 \/ UNCHANGED <<access, tenant, epoch>> \/ RecoveryCommits
  <2>1. ASSUME NEW r \in Requests, Quiet(r) PROVE UNCHANGED <<access, tenant, epoch>>
    BY <1>2, <2>1, QuietLock DEF rows
  <2>2. CASE UNCHANGED vars
    BY <2>2 DEF vars
  <2> QED  BY <1>1, <1>2, <2>1, <2>2, QuietOrCommit DEF RecoveryCommits
<1>3. LockInv /\ EpochInv /\ [Next]_vars =>
        [epoch' = epoch + 1 \/ UNCHANGED <<access, tenant, epoch>> \/ RecoveryCommits]_vars
  BY <1>2
<1>4. Spec => []EpochInv
  BY LockInductive, InitEpoch, NextEpoch, PTL DEF Spec
<1> QED  BY <1>3, <1>4, LockInductive, PTL DEF Spec, RightsMoveEpoch

-----------------------------------------------------------------------------
(* The audit chain. *)

LEMMA InitChain == Init => ChainInv
<1> SUFFICES ASSUME Init PROVE ChainInv
  OBVIOUS
<1>1. audit = {} /\ \A r \in Requests : pc[r] = "idle"
  BY DEF Init
<1> QED  BY <1>1 DEF ChainInv, VerifyChain

(* What ChainInv says while no append overlapped another or was backdated. *)
Following ==
  /\ \A r, q \in Requests : pc[r] = "audited" /\ pc[q] = "audited" => r = q
  /\ \A r \in Requests : pc[r] = "audited" =>
       mark[r].prev = Latest(audit) /\ \A f \in audit : f.stamp < mark[r].stamp
  /\ VerifyChain

(* A step that neither records nor commits an event. *)
LEMMA ChainStays ==
  ASSUME ChainInv, NEW r \in Requests, UNCHANGED <<audit, overlapped, backdated>>,
         \A q \in Requests : q # r => Stays(q),
         pc'[r] = "audited" => pc[r] = "audited" /\ mark'[r] = mark[r]
  PROVE  ChainInv'
<1>1. \A q \in Requests : pc'[q] = "audited" => pc[q] = "audited" /\ mark'[q] = mark[q]
  BY DEF Stays
<1>2. Latest(audit)' = Latest(audit) /\ (VerifyChain => VerifyChain')
  BY DEF VerifyChain
<1>3. Following => Following'
  BY <1>1, <1>2 DEF Following
<1> QED  BY <1>3 DEF ChainInv, Following

(* The event recorded follows the latest committed one, unless the clock   *)
(* it is stamped with was behind.  Another request that has recorded and   *)
(* not committed shows as an overlap: it cannot hold the tenant row too.   *)
LEMMA RecordChain ==
  ASSUME LockInv, ChainInv, NEW r \in Requests, Record(r)
  PROVE  ChainInv'
<1>1. RowsOK /\ RequestsOK /\ RequestOK(r)
  BY TypeParts DEF LockInv
<1>2. /\ pc[r] \in {"bumped", "taken"} /\ pc'[r] = "audited" /\ audit' = audit
      /\ mark'[r].prev = Latest(audit) /\ mark'[r] \in Marks
      /\ \A e \in audit : e.stamp # mark'[r].stamp
      /\ \A q \in Requests : q # r => Stays(q)
  BY <1>1, RecordLock DEF Record, Goes, RequestsOK
<1>3. overlapped' = (overlapped \/ \E q \in Requests : pc[q] = "audited" /\ (Unlocked(r) \/ Unlocked(q)))
  BY Zenon DEF Record
<1>4. backdated' = (backdated \/ \E e \in audit : mark'[r].stamp < e.stamp)
  BY RecordLock
<1>5. SUFFICES ASSUME ~overlapped', ~backdated' PROVE Following'
  BY DEF ChainInv, Following
<1>6. ~overlapped /\ \A q \in Requests : pc[q] = "audited" => ~Unlocked(r) /\ ~Unlocked(q)
  BY <1>3, <1>5, Zenon
<1>7. ~backdated /\ \A e \in audit : ~(mark'[r].stamp < e.stamp)
  BY <1>4, <1>5, Zenon
<1>8. ASSUME NEW q \in Requests, q # r PROVE pc[q] # "audited"
  <2>1. SUFFICES ASSUME pc[q] = "audited" PROVE FALSE
    OBVIOUS
  <2>2. ~Unlocked(r) /\ ~Unlocked(q) /\ RequestOK(q)
    BY <1>6, <2>1 DEF LockInv
  <2>3. pc[r] = "bumped"
    BY <1>1, <1>2, <2>2 DEF RequestOK, Unlocked
  <2>4. TenantRow \in held[r] /\ TenantRow \in held[q]
    BY <1>1, <2>1, <2>2, <2>3 DEF RequestOK, Late
  <2> QED  BY <1>8, <2>4 DEF LockInv, Exclusive
<1>9. \A q \in Requests : pc'[q] = "audited" => q = r
  BY <1>2, <1>8 DEF Stays
<1>10. \A f \in audit : f.stamp < mark'[r].stamp
  BY <1>1, <1>2, <1>7 DEF RowsOK, Marks
<1>11. VerifyChain' /\ Latest(audit)' = Latest(audit)
  BY <1>2, <1>6, <1>7 DEF ChainInv, VerifyChain
<1> QED  BY <1>2, <1>9, <1>10, <1>11 DEF Following

LEMMA QuietChain ==
  ASSUME LockInv, ChainInv, NEW r \in Requests, Quiet(r)
  PROVE  ChainInv'
<1>1. RequestsOK
  BY TypeParts DEF LockInv
<1>2. audit' = audit /\ \A q \in Requests : q # r => Stays(q)
  BY QuietLock DEF rows
<1>3. ASSUME UNCHANGED <<overlapped, backdated>>, pc'[r] # "audited" PROVE ChainInv'
  BY <1>2, <1>3, ChainStays
<1>4. CASE (\E p \in Principals : ReadTenant(r, p)) \/ Recover(r) \/ ReadRoles(r) \/ RequireActiveAdministrator(r)
  <2>1. UNCHANGED <<overlapped, backdated>>
    BY <1>4 DEF ReadTenant, Recover, ReadRoles, RequireActiveAdministrator, history
  <2>2. pc'[r] \in {"tenant", "recovering", "ready", "changed"}
    BY <1>1, <1>4 DEF ReadTenant, Recover, ReadRoles, RequireActiveAdministrator, Goes, RequestsOK
  <2> QED  BY <1>3, <2>1, <2>2
<1>5. CASE \E j \in Jobs, to \in Pcs : AsksFor(r, j, to)
  <2>1. UNCHANGED <<overlapped, backdated>> /\ pc'[r] \in {"asked", "taken", "changed"}
    BY <1>1, <1>5 DEF AsksFor, RequestsOK
  <2> QED  BY <1>3, <2>1
<1>6. CASE Flush(r) \/ Bump(r) \/ Merge(r)
  <2>1. UNCHANGED <<overlapped, backdated>>
    BY <1>6 DEF Flush, Bump, Merge, history
  <2>2. pc'[r] \in {"flushed", "changed", "merging", "bumped"}
    BY <1>1, <1>6 DEF Flush, Bump, Merge, Goes, RequestsOK
  <2> QED  BY <1>3, <2>1, <2>2
<1>7. CASE Take(r)
  <2>1. UNCHANGED <<overlapped, backdated>> /\ pc'[r] # "audited"
    BY <1>7, TakeLock DEF Take, history
  <2> QED  BY <1>3, <2>1
<1>8. CASE Record(r)
  BY <1>8, RecordChain
<1>9. CASE Fail(r)
  <2>1. UNCHANGED <<overlapped, backdated>> /\ pc'[r] = "idle"
    BY <1>9, SessionEnds DEF Fail, history
  <2> QED  BY <1>3, <2>1
<1> QED  BY <1>4, <1>5, <1>6, <1>7, <1>8, <1>9 DEF Quiet

LEMMA CommitChain ==
  ASSUME LockInv, ChainInv, NEW r \in Requests, Commit(r)
  PROVE  ChainInv'
<1>1. RowsOK /\ RequestsOK
  BY TypeParts DEF LockInv
<1>2. /\ pc'[r] = "idle" /\ \A q \in Requests : q # r => Stays(q)
      /\ pc[r] = "audited"
  BY SessionEnds DEF Commit
<1>3. overlapped' = overlapped /\ backdated' = backdated
  BY DEF Commit
<1>4. PICK m \in Marks : m = mark[r]
  BY <1>1 DEF RequestsOK
<1>5. audit' = audit \cup {m}
  BY <1>4 DEF Commit
<1>6. SUFFICES ASSUME Following PROVE Following'
  BY <1>3 DEF ChainInv, Following
<1>7. \A q \in Requests : pc'[q] # "audited"
  BY <1>2, <1>6 DEF Following, Stays
<1>8. m.prev = Latest(audit) /\ \A f \in audit : f.stamp < m.stamp
  BY <1>2, <1>4, <1>6 DEF Following
<1>9. m.stamp \in Nat /\ \A f \in audit : f.stamp \in Nat
  BY <1>1 DEF RowsOK, Marks
<1>10. {f \in audit \cup {m} : f.stamp < m.stamp} = audit
  BY <1>8, <1>9
<1>11. ASSUME NEW e \in audit
       PROVE  {f \in audit \cup {m} : f.stamp < e.stamp} = {f \in audit : f.stamp < e.stamp}
  BY <1>8, <1>9
<1>12. \A e \in audit : e.prev = Latest({f \in audit : f.stamp < e.stamp})
  BY <1>6 DEF Following, VerifyChain
<1>13. \A e \in audit \cup {m} : e.prev = Latest({f \in audit \cup {m} : f.stamp < e.stamp})
  BY <1>8, <1>10, <1>11, <1>12
<1>14. VerifyChain'
  BY <1>5, <1>13 DEF VerifyChain, Latest
<1> QED  BY <1>7, <1>14 DEF Following

LEMMA NextChain == LockInv /\ ChainInv /\ [Next]_vars => ChainInv'
<1> SUFFICES ASSUME LockInv, ChainInv, [Next]_vars PROVE ChainInv'
  OBVIOUS
<1>1. CASE Next
  BY <1>1, QuietOrCommit, QuietChain, CommitChain
<1>2. CASE UNCHANGED vars
  BY <1>2 DEF ChainInv, VerifyChain, vars, history
<1> QED  BY <1>1, <1>2

(* Events appended under the tenant lock by hosts whose clocks agree form  *)
(* one chain that verify_chain accepts.  It can break only when issuing or *)
(* revoking an invitation, which do not take that lock, overlapped with    *)
(* another change, or when a clock that is behind stamped an event before  *)
(* one already committed.                                                  *)
THEOREM ChainIsWhole == Spec => []ChainVerifies
<1>1. Spec => []ChainInv
  BY LockInductive, InitChain, NextChain, PTL DEF Spec
<1>2. ChainInv => ChainVerifies
  BY DEF ChainInv, ChainVerifies
<1> QED  BY <1>1, <1>2, PTL

-----------------------------------------------------------------------------
(* The last administrator. *)

LEMMA InitAdmin == Init => AdminInv
<1> SUFFICES ASSUME Init PROVE AdminInv
  OBVIOUS
<1>1. PICK first \in [Principals -> {"none", "active"}], admins \in SUBSET Principals :
        /\ first[Founder] = "active" /\ Founder \in admins
        /\ member = first /\ direct = [p \in Principals |-> p \in admins]
  BY DEF Init
<1>2. direct[Founder]
  BY <1>1, AccessAssumption
<1>3. Founder \in Administrators
  BY <1>1, <1>2, AccessAssumption DEF Administrators, Admins
<1>4. \A r \in Requests : pc[r] = "idle"
  BY DEF Init
<1>5. \A r \in Requests : ~Checked(r)
  BY <1>4 DEF Checked
<1> QED  BY <1>3, <1>5 DEF AdminInv

LEMMA AdminsAfterStays ==
  ASSUME UNCHANGED rows, NEW j \in Jobs
  PROVE  AdminsAfter(j)' = AdminsAfter(j)
BY DEF rows, access, AdminsAfter, MemberAfter, DirectAfter, GroupAfter, LinkAfter, RoleAfter

LEMMA QuietAdmin ==
  ASSUME LockInv, AdminInv, NEW r \in Requests, Quiet(r)
  PROVE  AdminInv'
<1>1. RowsOK /\ RequestsOK /\ RequestOK(r)
  BY TypeParts DEF LockInv
<1>2. /\ UNCHANGED rows /\ \A q \in Requests : q # r => Stays(q)
      /\ Administrators' = Administrators
  BY QuietLock, AdministratorsStay
<1>3. exposed' = exposed
  BY <1>2 DEF rows
<1>4. \A q \in Requests : AdminsAfter(job[q])' = AdminsAfter(job'[q])
  <2> SUFFICES ASSUME NEW q \in Requests PROVE AdminsAfter(job[q])' = AdminsAfter(job'[q])
    OBVIOUS
  <2>1. RequestsOK'
    BY QuietLock DEF LockInv, RequestsOK, TypeOK, Marks
  <2>2. PICK j \in Jobs : j = job'[q]
    BY <2>1 DEF RequestsOK
  <2>3. AdminsAfter(job[q])' = AdminsAfter(j)'
    BY <2>2 DEF AdminsAfter, MemberAfter, DirectAfter, GroupAfter, LinkAfter, RoleAfter
  <2> QED  BY <1>2, <2>2, <2>3, AdminsAfterStays
<1>5. ASSUME ~Checked(r)' \/ (job'[r] = job[r] /\ (Checked(r) \/ AdminsAfter(job[r]) # {}))
      PROVE  AdminInv'
  <2> SUFFICES ASSUME ~exposed' PROVE AdminInv'
    BY DEF AdminInv
  <2>1. ~exposed
    BY <1>3
  <2>2. Administrators' # {}
    BY <1>2, <2>1 DEF AdminInv
  <2>3. ASSUME NEW q \in Requests, Checked(q)' PROVE AdminsAfter(job[q])' # {}
    <3>1. CASE q = r
      BY <1>4, <1>5, <2>1, <2>3, <3>1 DEF AdminInv
    <3>2. CASE q # r
      <4>1. Checked(q) /\ job'[q] = job[q]
        BY <1>2, <2>3, <3>2 DEF Checked, Stays
      <4> QED  BY <1>4, <2>1, <4>1 DEF AdminInv
    <3> QED  BY <3>1, <3>2
  <2> QED  BY <2>2, <2>3 DEF AdminInv
<1>6. CASE (\E p \in Principals : ReadTenant(r, p)) \/ Recover(r) \/ ReadRoles(r)
  <2>1. pc'[r] \in {"tenant", "recovering", "ready"}
    BY <1>1, <1>6 DEF ReadTenant, Recover, ReadRoles, Goes, RequestsOK
  <2> QED  BY <1>5, <2>1 DEF Checked
<1>7. CASE \E j \in Jobs, to \in Pcs : AsksFor(r, j, to)
  <2>1. PICK j \in Jobs, to \in Pcs : AsksFor(r, j, to)
    BY <1>7
  <2>2. pc'[r] = to /\ job'[r] = j
    BY <1>1, <2>1 DEF AsksFor, RequestsOK
  <2>3. to \in {"asked", "taken"} \/ j.op = "transition"
    BY <2>1 DEF AsksFor
  <2> QED  BY <1>5, <2>2, <2>3 DEF Checked, GuardedOps
<1>8. CASE RequireActiveAdministrator(r)
  BY <1>5, <1>8 DEF RequireActiveAdministrator
<1>9. CASE Flush(r)
  <2>1. job'[r] = job[r] /\ (job[r].op \in GuardedOps => pc'[r] = "flushed")
    BY <1>1, <1>9 DEF Flush, Goes, RequestsOK
  <2> QED  BY <1>5, <2>1 DEF Checked
<1>10. CASE Bump(r) \/ Merge(r) \/ Record(r)
  <2>1. job'[r] = job[r] /\ pc[r] \in {"changed", "merging", "bumped", "taken"}
    BY <1>10 DEF Bump, Merge, Record
  <2>2. /\ pc[r] = "merging" => job[r].op = "accept"
        /\ pc[r] = "taken" => job[r].op \in UnlockedOps
    BY <1>1 DEF RequestOK
  <2>3. Checked(r)' => Checked(r)
    BY <2>1, <2>2 DEF Checked, GuardedOps, UnlockedOps
  <2> QED  BY <1>5, <2>1, <2>3
<1>11. CASE Take(r)
  <2>1. job'[r].op \in {"accept", "revoke"}
    BY <1>11, TakeLock DEF Take
  <2> QED  BY <1>5, <2>1 DEF Checked, GuardedOps
<1>12. CASE Fail(r)
  BY <1>5, <1>12, SessionEnds DEF Fail, Checked
<1> QED  BY <1>6, <1>7, <1>8, <1>9, <1>10, <1>11, <1>12 DEF Quiet

(* A recovery and a new group take no administrator away. *)
LEMMA OnlyAdds ==
  ASSUME RowsOK, NEW j \in Jobs, JobOK(j), j.op \in {"recover", "newgroup"}
  PROVE  Administrators \subseteq AdminsAfter(j)
<1>1. j.value = "active" /\ (j.op = "recover" => j.admin)
  BY DEF JobOK
<1>2. LinkAfter(j) = link /\ RoleAfter(j) = role
  BY DEF LinkAfter, RoleAfter
<1> SUFFICES ASSUME NEW p \in Principals, p \in Administrators PROVE p \in AdminsAfter(j)
  BY DEF Administrators, Admins
<1>3. /\ member[p] = "active"
      /\ \/ direct[p]
         \/ \E g \in Groups : group[g] = "active" /\ link[<<p, g>>] = "active" /\ role[g] = "active"
  BY DEF Administrators, Admins
<1>4. MemberAfter(j)[p] = "active"
  BY <1>1, <1>3 DEF MemberAfter, RowsOK
<1>5. direct[p] => DirectAfter(j)[p]
  <2>1. CASE j.op = "recover"
    <3>1. DirectAfter(j) = direct \/ DirectAfter(j) = [direct EXCEPT ![j.who] = TRUE]
      BY <1>1, <2>1 DEF DirectAfter
    <3> QED  BY <3>1 DEF RowsOK
  <2>2. CASE j.op = "newgroup"
    BY <2>2 DEF DirectAfter, MemberOps
  <2> QED  BY <2>1, <2>2
<1>6. \A g \in Groups : group[g] = "active" => GroupAfter(j)[g] = "active"
  BY <1>1 DEF GroupAfter, RowsOK
<1> QED  BY <1>2, <1>3, <1>4, <1>5, <1>6 DEF AdminsAfter, Admins

LEMMA CommitAdmin ==
  ASSUME LockInv, AdminInv, NEW r \in Requests, Commit(r)
  PROVE  AdminInv'
<1>1. RowsOK /\ RequestsOK /\ RequestOK(r) /\ job[r] \in Jobs
  BY TypeParts DEF LockInv, RequestsOK
<1>2. PICK j \in Jobs : j = job[r]
  BY <1>1
<1>3. pc'[r] = "idle" /\ \A q \in Requests : q # r => Stays(q)
  BY SessionEnds DEF Commit
<1>4. SUFFICES ASSUME ~exposed' PROVE AdminInv'
  BY DEF AdminInv
<1>5. /\ ~exposed
      /\ ~(j.op \in {"assign", "accept"} /\ AdminsAfter(j) = {})
      /\ \A q \in Requests \ {r} : ~Checking(q)
  <2>1. exposed' = (\/ exposed
                    \/ job[r].op \in {"assign", "accept"} /\ AdminsAfter(job[r]) = {}
                    \/ \E q \in Requests \ {r} : Checking(q))
    BY Zenon DEF Commit
  <2> QED  BY <1>2, <1>4, <2>1, Zenon
<1>6. Administrators' = AdminsAfter(j)
  BY <1>2 DEF Commit, Administrators, AdminsAfter
<1>7. AdminsAfter(j) # {}
  <2>1. JobOK(j) /\ pc[r] = "audited"
    BY <1>1, <1>2 DEF RequestOK, Commit
  <2>2. CASE j.op \in {"assign", "accept"}
    BY <1>5, <2>2
  <2>3. CASE j.op \in GuardedOps
    <3>1. Checked(r)
      BY <1>2, <2>1, <2>3 DEF Checked
    <3> QED  BY <1>2, <1>5, <3>1 DEF AdminInv
  <2>4. CASE j.op \in {"recover", "newgroup"}
    BY <1>1, <1>5, <2>1, <2>4, OnlyAdds DEF AdminInv
  <2>5. CASE j.op \in {"issue", "revoke", "transition", "none"}
    <3>1. /\ MemberAfter(j) = member /\ DirectAfter(j) = direct /\ GroupAfter(j) = group
          /\ LinkAfter(j) = link /\ RoleAfter(j) = role
      BY <2>5 DEF MemberAfter, DirectAfter, GroupAfter, LinkAfter, RoleAfter, MemberOps
    <3>2. AdminsAfter(j) = Administrators
      BY <3>1 DEF AdminsAfter, Administrators
    <3> QED  BY <1>5, <3>2 DEF AdminInv
  <2>6. j.op \in AllOps \cup {"none"}
    BY DEF Jobs
  <2> QED  BY <2>2, <2>3, <2>4, <2>5, <2>6 DEF AllOps, MemberOps, GuardedOps, UnlockedOps
<1>8. \A q \in Requests : ~Checked(q)'
  BY <1>3, <1>5 DEF Checking, Checked, Stays
<1> QED  BY <1>6, <1>7, <1>8 DEF AdminInv

LEMMA NextAdmin == LockInv /\ AdminInv /\ [Next]_vars => AdminInv'
<1> SUFFICES ASSUME LockInv, AdminInv, [Next]_vars PROVE AdminInv'
  OBVIOUS
<1>1. CASE Next
  BY <1>1, QuietOrCommit, QuietAdmin, CommitAdmin
<1>2. CASE UNCHANGED vars
  <2>1. UNCHANGED rows /\ pc' = pc /\ job' = job
    BY <1>2 DEF vars, rows, history
  <2>2. Administrators' = Administrators /\ exposed' = exposed
    BY <2>1, AdministratorsStay DEF rows
  <2>3. \A q \in Requests : job[q] \in Jobs /\ (Checked(q)' <=> Checked(q))
    BY <2>1, TypeParts DEF LockInv, RequestsOK, Checked
  <2>4. ASSUME NEW q \in Requests PROVE AdminsAfter(job[q])' = AdminsAfter(job[q])
    <3>1. PICK j \in Jobs : j = job[q]
      BY <2>3
    <3>2. AdminsAfter(job[q])' = AdminsAfter(j)'
      BY <2>1, <3>1 DEF AdminsAfter, MemberAfter, DirectAfter, GroupAfter, LinkAfter, RoleAfter
    <3> QED  BY <2>1, <3>1, <3>2, AdminsAfterStays
  <2> QED  BY <2>2, <2>3, <2>4 DEF AdminInv
<1> QED  BY <1>1, <1>2

(* _require_active_administrator is enough for changes made one after the  *)
(* other: the tenant loses its last administrator only to an assignment or *)
(* an acceptance, which are not checked, or when another change commits    *)
(* between a check and its commit.                                         *)
THEOREM LastAdminStays == Spec => []LastAdminGuarded
<1>1. Spec => []AdminInv
  BY LockInductive, InitAdmin, NextAdmin, PTL DEF Spec
<1>2. AdminInv => LastAdminGuarded
  BY DEF AdminInv, LastAdminGuarded
<1> QED  BY <1>1, <1>2, PTL
=============================================================================
