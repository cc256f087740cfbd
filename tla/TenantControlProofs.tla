------------------------ MODULE TenantControlProofs -------------------------
(***************************************************************************)
(* Proofs about TenantControl.  ControlInv is shown inductive part by      *)
(* part: the writers and the active version, the limits in use, the usage  *)
(* row, the slots.  Each part is disturbed by few actions; the others      *)
(* leave its variables alone or only add to the configurations that have   *)
(* been active.                                                            *)
(***************************************************************************)
EXTENDS TenantControl, FiniteSetTheorems, TLAPS

(* Every way to change the tenant row starts the same: the lock and the    *)
(* revision check, then a plan with a version, contents and a switch.      *)
LEMMA Planning ==
  ASSUME TypeOK, NEW w \in Writers,
         \/ \E c \in Configs, now \in BOOLEAN : CreateVersion(w, c, now)
         \/ \E v \in Versions : ActivateVersion(w, v) \/ Rollback(w, v)
         \/ TouchTenant(w)
  PROVE  \E v \in 0 .. MaxVersions, c \in Configs, b \in BOOLEAN :
           /\ LocksTenant(w)
           /\ Planned(w, v, c, b)
           /\ b => v # 0
           /\ ~b /\ v # 0 => vstate[v] = "none"
<1>1. ASSUME NEW c \in Configs, NEW now \in BOOLEAN, CreateVersion(w, c, now)
      PROVE  \E v \in 0 .. MaxVersions, d \in Configs, b \in BOOLEAN :
               LocksTenant(w) /\ Planned(w, v, d, b) /\ (b => v # 0) /\ (~b /\ v # 0 => vstate[v] = "none")
  <2>1. PICK v \in Versions : vstate[v] = "none" /\ Planned(w, v, c, now)
    BY <1>1 DEF CreateVersion
  <2>2. v \in 0 .. MaxVersions /\ v # 0
    BY ControlAssumption DEF Versions
  <2>3. LocksTenant(w)
    BY <1>1 DEF CreateVersion
  <2> QED  BY <2>1, <2>2, <2>3
<1>2. ASSUME NEW v \in Versions, ActivateVersion(w, v)
      PROVE  \E u \in 0 .. MaxVersions, d \in Configs, b \in BOOLEAN :
               LocksTenant(w) /\ Planned(w, u, d, b) /\ (b => u # 0) /\ (~b /\ u # 0 => vstate[u] = "none")
  <2>1. v \in 0 .. MaxVersions /\ v # 0
    BY ControlAssumption DEF Versions
  <2>2. content[v] \in Configs
    BY DEF TypeOK
  <2>3. LocksTenant(w) /\ Planned(w, v, content[v], TRUE)
    BY <1>2 DEF ActivateVersion
  <2> QED  BY <2>1, <2>2, <2>3
<1>3. ASSUME NEW v \in Versions, Rollback(w, v)
      PROVE  \E c \in Configs, now \in BOOLEAN : CreateVersion(w, c, now)
  BY <1>3 DEF Rollback, TypeOK
<1>4. CASE TouchTenant(w)
  <2>1. 0 \in 0 .. MaxVersions /\ FirstConfig \in Configs
    BY ControlAssumption
  <2> QED  BY <1>4, <2>1 DEF TouchTenant
<1> QED  BY <1>1, <1>2, <1>3, <1>4

(* The cases of a step. *)
LEMMA Cases ==
  ASSUME TypeOK, [Next]_vars
  PROVE  \/ UNCHANGED vars
         \/ Bootstrap
         \/ \E w \in Writers : ReadRevision(w) \/ WriterRefused(w) \/ CommitTenant(w)
         \/ \E w \in Writers, v \in 0 .. MaxVersions, c \in Configs, b \in BOOLEAN :
              LocksTenant(w) /\ Planned(w, v, c, b) /\ (b => v # 0) /\ (~b /\ v # 0 => vstate[v] = "none")
         \/ \E x \in Reservers : ReadQuota(x) \/ Reserve(x) \/ Consume(x) \/ ReserverFails(x)
         \/ Archive \/ Restore
         \/ \E a \in Audits : CountRows(a) \/ Reconcile(a)
         \/ \E c \in Clients :
              \/ ReadLimits(c) \/ CheckRate(c) \/ AcquireMemory(c) \/ Increment(c)
              \/ GiveBack(c) \/ Release(c) \/ DeleteKey(c)
              \/ AcquireInterrupted(c) \/ ReleaseInterrupted(c)
         \/ WindowSlides \/ ExpireKey
BY Planning, Zenon DEF Next

(* Types are preserved by every step. *)
LEMMA TypeStep ==
  ASSUME TypeOK, [Next]_vars
  PROVE  TypeOK'
<1>1. CASE Bootstrap
  BY <1>1, ControlAssumption DEF Bootstrap, TypeOK, Versions, configuration, quota, leases, history
<1>2. ASSUME NEW w \in Writers, ReadRevision(w)
      PROVE  TypeOK'
  BY <1>2, ControlAssumption DEF ReadRevision, TypeOK, Counters, configuration, quota, leases, history
<1>3. ASSUME NEW w \in Writers, NEW v \in 0 .. MaxVersions, NEW d \in Configs, NEW b \in BOOLEAN,
             LocksTenant(w), Planned(w, v, d, b), b => v # 0, ~b /\ v # 0 => vstate[v] = "none"
      PROVE  TypeOK'
  <2>1. plan' \in [Writers -> [version : 0 .. MaxVersions, config : Configs, activate : BOOLEAN]]
    BY <1>3 DEF Planned, TypeOK
  <2>2. wpc' \in [Writers -> {"idle", "read", "locked", "done"}]
    BY <1>3 DEF Planned, TypeOK
  <2>3. /\ store' \in Stores /\ slots' \in Int /\ window' \in Nat /\ dropped' \in BOOLEAN
        /\ terms' \in [Clients -> Configs]
        /\ lpc' \in [Clients -> {"idle", "loaded", "rated", "counted", "holding", "clearing", "ghost", "done"}]
    BY <1>3 DEF Planned, Invalidate, DropKey, TypeOK, leases
  <2> QED  BY <1>3, <2>1, <2>2, <2>3 DEF Planned, TypeOK, configuration, quota, leases, history
<1>4. ASSUME NEW w \in Writers, WriterRefused(w)
      PROVE  TypeOK'
  <2>1. plan' \in [Writers -> [version : 0 .. MaxVersions, config : Configs, activate : BOOLEAN]]
    BY <1>4, ControlAssumption DEF WriterRefused, WriterEnds, NoPlan, TypeOK
  <2>2. wpc' \in [Writers -> {"idle", "read", "locked", "done"}] /\ based' \in [Writers -> Nat]
    BY <1>4 DEF WriterRefused, WriterEnds, TypeOK
  <2>3. faults' \in 0 .. MaxFaults
    BY <1>4, ControlAssumption DEF WriterRefused, TypeOK
  <2> QED  BY <1>4, <2>1, <2>2, <2>3 DEF WriterRefused, TypeOK, configuration, quota, leases, history
<1>5. ASSUME NEW w \in Writers, CommitTenant(w)
      PROVE  TypeOK'
  <2> DEFINE p == plan[w]
  <2>1. p \in [version : 0 .. MaxVersions, config : Configs, activate : BOOLEAN]
    BY DEF TypeOK
  <2>2. content' \in [Versions -> Configs] /\ vstate' \in [Versions -> {"none", "draft", "active", "superseded"}]
    BY <1>5, <2>1 DEF CommitTenant, TypeOK
  <2>3. pointer' \in 0 .. MaxVersions /\ revision' \in Nat /\ peak' \subseteq Configs
    BY <1>5, <2>1 DEF CommitTenant, TypeOK
  <2>4. wpc' \in [Writers -> {"idle", "read", "locked", "done"}] /\ based' \in [Writers -> Nat]
    BY <1>5 DEF CommitTenant, WriterEnds, TypeOK
  <2>5. plan' \in [Writers -> [version : 0 .. MaxVersions, config : Configs, activate : BOOLEAN]]
    BY <1>5, ControlAssumption DEF CommitTenant, WriterEnds, NoPlan, TypeOK
  <2> QED  BY <1>5, <2>2, <2>3, <2>4, <2>5 DEF CommitTenant, TypeOK, configuration, quota, leases, history
<1>6. ASSUME NEW x \in Reservers, ReadQuota(x)
      PROVE  TypeOK'
  <2>1. pointer \in Versions /\ content[pointer] \in Configs /\ QuotaOf[content[pointer]] \in Nat
    BY <1>6, ControlAssumption DEF ReadQuota, Versions, TypeOK
  <2> QED  BY <1>6, <2>1 DEF ReadQuota, QuotaEnds, Active, TypeOK, Counters, configuration, quota, leases, history
<1>7. ASSUME NEW x \in Reservers, Reserve(x)
      PROVE  TypeOK'
  BY <1>7, ControlAssumption DEF Reserve, QuotaEnds, TypeOK, Counters, configuration, quota, leases, history
<1>8. ASSUME NEW x \in Reservers, Consume(x)
      PROVE  TypeOK'
  BY <1>8, ControlAssumption DEF Consume, QuotaEnds, TypeOK, Counters, configuration, quota, leases, history
<1>9. ASSUME NEW x \in Reservers, ReserverFails(x)
      PROVE  TypeOK'
  BY <1>9, ControlAssumption DEF ReserverFails, QuotaEnds, TypeOK, Counters, configuration, quota, leases, history
<1>10. CASE Archive
  BY <1>10, ControlAssumption DEF Archive, TypeOK, Counters, configuration, quota, leases, history
<1>11. CASE Restore
  BY <1>11, ControlAssumption DEF Restore, TypeOK, Counters, configuration, quota, leases, history
<1>12. ASSUME NEW a \in Audits, CountRows(a)
      PROVE  TypeOK'
  BY <1>12, ControlAssumption DEF CountRows, QuotaEnds, TypeOK, Counters, configuration, quota, leases, history
<1>13. ASSUME NEW a \in Audits, Reconcile(a)
      PROVE  TypeOK'
  BY <1>13, ControlAssumption DEF Reconcile, QuotaEnds, TypeOK, Counters, configuration, quota, leases, history
<1>14. ASSUME NEW c \in Clients, ReadLimits(c)
      PROVE  TypeOK'
  <2>1. pointer \in Versions /\ content[pointer] \in Configs
    BY <1>14, ControlAssumption DEF ReadLimits, Versions, TypeOK
  <2> QED  BY <1>14, <2>1 DEF ReadLimits, Client, Active, TypeOK, configuration, quota, leases, history
<1>15. ASSUME NEW c \in Clients, CheckRate(c)
      PROVE  TypeOK'
  BY <1>15, ControlAssumption DEF CheckRate, Client, TypeOK, Counters, configuration, quota, leases, history
<1>16. ASSUME NEW c \in Clients, AcquireMemory(c)
      PROVE  TypeOK'
  BY <1>16, ControlAssumption DEF AcquireMemory, Client, TypeOK, Counters, configuration, quota, leases, history
<1>17. ASSUME NEW c \in Clients, Increment(c)
      PROVE  TypeOK'
  BY <1>17, ControlAssumption DEF Increment, Client, TypeOK, Counters, configuration, quota, leases, history
<1>18. ASSUME NEW c \in Clients, GiveBack(c)
      PROVE  TypeOK'
  BY <1>18, ControlAssumption DEF GiveBack, Client, TypeOK, Counters, configuration, quota, leases, history
<1>19. ASSUME NEW c \in Clients, Release(c)
      PROVE  TypeOK'
  BY <1>19, ControlAssumption DEF Release, Client, TypeOK, Counters, configuration, quota, leases, history
<1>20. ASSUME NEW c \in Clients, DeleteKey(c)
      PROVE  TypeOK'
  BY <1>20, ControlAssumption DEF DeleteKey, DropKey, TypeOK, Counters, configuration, quota, leases, history
<1>21. ASSUME NEW c \in Clients, ReleaseInterrupted(c)
      PROVE  TypeOK'
  BY <1>21, ControlAssumption DEF ReleaseInterrupted, Client, TypeOK, Counters, configuration, quota, leases, history
<1>25. ASSUME NEW c \in Clients, AcquireInterrupted(c)
      PROVE  TypeOK'
  BY <1>25, ControlAssumption DEF AcquireInterrupted, Client, TypeOK, Counters, configuration, quota, leases, history
<1>22. CASE WindowSlides
  BY <1>22, ControlAssumption DEF WindowSlides, TypeOK, Counters, configuration, quota, leases, history
<1>23. CASE ExpireKey
  BY <1>23, ControlAssumption DEF ExpireKey, DropKey, TypeOK, Counters, configuration, quota, leases, history
<1>24. CASE UNCHANGED vars
  BY <1>24, ControlAssumption DEF vars, TypeOK, Counters, configuration, quota, leases, history
<1> QED
  BY <1>1, <1>2, <1>3, <1>4, <1>5, <1>6, <1>7, <1>8, <1>9, <1>10, <1>11, <1>12, <1>13, <1>14, <1>15, <1>16, <1>17, <1>18, <1>19, <1>20, <1>21, <1>22, <1>23, <1>24, <1>25, Cases, Zenon

(* One writer past the lock, and one active version. *)
LEMMA WriterStep ==
  ASSUME TypeOK, WriterInv, [Next]_vars
  PROVE  WriterInv'
<1>1. CASE Bootstrap
  BY <1>1, ControlAssumption DEF Bootstrap, WriterInv, OneActive, TypeOK, Versions
<1>2. ASSUME NEW w \in Writers, ReadRevision(w)
      PROVE  WriterInv'
  BY <1>2 DEF ReadRevision, WriterInv, OneActive, TypeOK
<1>3. ASSUME NEW w \in Writers, NEW v \in 0 .. MaxVersions, NEW d \in Configs, NEW b \in BOOLEAN,
             LocksTenant(w), Planned(w, v, d, b), b => v # 0, ~b /\ v # 0 => vstate[v] = "none"
      PROVE  WriterInv'
  BY <1>3 DEF LocksTenant, Planned, WriterInv, OneActive, TypeOK
<1>4. ASSUME NEW w \in Writers, WriterRefused(w)
      PROVE  WriterInv'
  BY <1>4 DEF WriterRefused, WriterEnds, WriterInv, OneActive, TypeOK
<1>5. ASSUME NEW w \in Writers, CommitTenant(w)
      PROVE  WriterInv'
  <2> DEFINE p == plan[w]
  <2>1. p \in [version : 0 .. MaxVersions, config : Configs, activate : BOOLEAN]
    BY DEF TypeOK
  <2>2. \A u \in Writers : wpc'[u] # "locked"
    BY <1>5 DEF CommitTenant, WriterEnds, WriterInv, TypeOK
  <2>3. pointer # 0 /\ (p.activate => p.version # 0)
    BY <1>5 DEF CommitTenant, WriterInv
  <2>4. pointer' # 0
    BY <1>5, <2>1, <2>3 DEF CommitTenant
  <2>5. CASE p.activate
    <3>1. pointer' = p.version
      BY <1>5, <2>5 DEF CommitTenant
    <3>2. \A v \in Versions : vstate'[v] = "active" <=> v = p.version
      BY <1>5, <2>5 DEF CommitTenant, WriterInv, OneActive
    <3> QED  BY <2>2, <2>4, <3>1, <3>2 DEF WriterInv, OneActive
  <2>6. CASE ~p.activate
    <3>1. pointer' = pointer /\ (p.version # 0 => vstate[p.version] = "none")
      BY <1>5, <2>6 DEF CommitTenant, WriterInv
    <3>2. \A v \in Versions : vstate'[v] = "active" <=> v = pointer
      BY <1>5, <2>6, <3>1, ControlAssumption DEF CommitTenant, WriterInv, OneActive, Versions
    <3> QED  BY <2>2, <2>4, <3>1, <3>2 DEF WriterInv, OneActive
  <2> QED  BY <2>1, <2>5, <2>6
<1>6. ASSUME NEW x \in Reservers, ReadQuota(x)
      PROVE  WriterInv'
  BY <1>6 DEF ReadQuota, WriterInv, OneActive, configuration
<1>7. ASSUME NEW x \in Reservers, Reserve(x)
      PROVE  WriterInv'
  BY <1>7 DEF Reserve, WriterInv, OneActive, configuration
<1>8. ASSUME NEW x \in Reservers, Consume(x)
      PROVE  WriterInv'
  BY <1>8 DEF Consume, WriterInv, OneActive, configuration
<1>9. ASSUME NEW x \in Reservers, ReserverFails(x)
      PROVE  WriterInv'
  BY <1>9 DEF ReserverFails, WriterInv, OneActive, configuration
<1>10. CASE Archive
  BY <1>10 DEF Archive, WriterInv, OneActive, configuration
<1>11. CASE Restore
  BY <1>11 DEF Restore, WriterInv, OneActive, configuration
<1>12. ASSUME NEW a \in Audits, CountRows(a)
      PROVE  WriterInv'
  BY <1>12 DEF CountRows, WriterInv, OneActive, configuration
<1>13. ASSUME NEW a \in Audits, Reconcile(a)
      PROVE  WriterInv'
  BY <1>13 DEF Reconcile, WriterInv, OneActive, configuration
<1>14. ASSUME NEW c \in Clients, ReadLimits(c)
      PROVE  WriterInv'
  BY <1>14 DEF ReadLimits, WriterInv, OneActive, configuration
<1>15. ASSUME NEW c \in Clients, CheckRate(c)
      PROVE  WriterInv'
  BY <1>15 DEF CheckRate, WriterInv, OneActive, configuration
<1>16. ASSUME NEW c \in Clients, AcquireMemory(c)
      PROVE  WriterInv'
  BY <1>16 DEF AcquireMemory, WriterInv, OneActive, configuration
<1>17. ASSUME NEW c \in Clients, Increment(c)
      PROVE  WriterInv'
  BY <1>17 DEF Increment, WriterInv, OneActive, configuration
<1>18. ASSUME NEW c \in Clients, GiveBack(c)
      PROVE  WriterInv'
  BY <1>18 DEF GiveBack, WriterInv, OneActive, configuration
<1>19. ASSUME NEW c \in Clients, Release(c)
      PROVE  WriterInv'
  BY <1>19 DEF Release, WriterInv, OneActive, configuration
<1>20. ASSUME NEW c \in Clients, DeleteKey(c)
      PROVE  WriterInv'
  BY <1>20 DEF DeleteKey, WriterInv, OneActive, configuration
<1>21. ASSUME NEW c \in Clients, ReleaseInterrupted(c)
      PROVE  WriterInv'
  BY <1>21 DEF ReleaseInterrupted, WriterInv, OneActive, configuration
<1>25. ASSUME NEW c \in Clients, AcquireInterrupted(c)
      PROVE  WriterInv'
  BY <1>25 DEF AcquireInterrupted, WriterInv, OneActive, configuration
<1>22. CASE WindowSlides
  BY <1>22 DEF WindowSlides, WriterInv, OneActive, configuration
<1>23. CASE ExpireKey
  BY <1>23 DEF ExpireKey, WriterInv, OneActive, configuration
<1>24. CASE UNCHANGED vars
  BY <1>24 DEF vars, WriterInv, OneActive, configuration
<1> QED
  BY <1>1, <1>2, <1>3, <1>4, <1>5, <1>6, <1>7, <1>8, <1>9, <1>10, <1>11, <1>12, <1>13, <1>14, <1>15, <1>16, <1>17, <1>18, <1>19, <1>20, <1>21, <1>22, <1>23, <1>24, <1>25, Cases, Zenon

(* Quotas and limits that requests carry were active once. *)
LEMMA KnownStep ==
  ASSUME TypeOK, WriterInv, KnownInv, [Next]_vars
  PROVE  KnownInv'
<1>1. CASE Bootstrap
  BY <1>1, ControlAssumption DEF Bootstrap, KnownInv, WriterInv, TypeOK, Versions, quota, leases
<1>2. ASSUME NEW w \in Writers, ReadRevision(w)
      PROVE  KnownInv'
  BY <1>2 DEF ReadRevision, KnownInv, quota, leases, history
<1>3. ASSUME NEW w \in Writers, NEW v \in 0 .. MaxVersions, NEW d \in Configs, NEW b \in BOOLEAN,
             LocksTenant(w), Planned(w, v, d, b), b => v # 0, ~b /\ v # 0 => vstate[v] = "none"
      PROVE  KnownInv'
  BY <1>3 DEF Planned, Invalidate, DropKey, KnownInv, quota, leases
<1>4. ASSUME NEW w \in Writers, WriterRefused(w)
      PROVE  KnownInv'
  BY <1>4 DEF WriterRefused, KnownInv, quota, leases, history
<1>5. ASSUME NEW w \in Writers, CommitTenant(w)
      PROVE  KnownInv'
  <2> DEFINE p == plan[w]
  <2>1. p \in [version : 0 .. MaxVersions, config : Configs, activate : BOOLEAN]
    BY DEF TypeOK
  <2>2. peak \subseteq peak' /\ UNCHANGED <<qpc, note, lpc, terms>>
    BY <1>5 DEF CommitTenant, quota, leases
  <2>3. pointer # 0 /\ pointer \in Versions
    BY <1>5, ControlAssumption DEF CommitTenant, WriterInv, TypeOK, Versions
  <2>4. CASE p.activate
    <3>1. p.version \in Versions
      BY <1>5, <2>1, <2>4, ControlAssumption DEF CommitTenant, WriterInv, Versions
    <3>2. content'[pointer'] \in peak'
      BY <1>5, <2>4, <3>1 DEF CommitTenant
    <3> QED  BY <2>2, <3>2 DEF KnownInv
  <2>5. CASE ~p.activate
    <3>1. pointer # p.version
      BY <1>5, <2>1, <2>3, <2>5 DEF CommitTenant, WriterInv, OneActive
    <3>2. content'[pointer'] \in peak'
      BY <1>5, <2>3, <2>5, <3>1 DEF CommitTenant, KnownInv
    <3> QED  BY <2>2, <3>2 DEF KnownInv
  <2> QED  BY <2>1, <2>4, <2>5
<1>6. ASSUME NEW x \in Reservers, ReadQuota(x)
      PROVE  KnownInv'
  <2>1. content[pointer] \in peak
    BY <1>6 DEF ReadQuota, KnownInv
  <2> QED  BY <1>6, <2>1 DEF ReadQuota, QuotaEnds, Active, KnownInv, TypeOK, Counters, configuration, leases, history
<1>7. ASSUME NEW x \in Reservers, Reserve(x)
      PROVE  KnownInv'
  BY <1>7 DEF Reserve, QuotaEnds, KnownInv, TypeOK, Counters, configuration, leases, history
<1>8. ASSUME NEW x \in Reservers, Consume(x)
      PROVE  KnownInv'
  BY <1>8 DEF Consume, QuotaEnds, KnownInv, TypeOK, Counters, configuration, leases, history
<1>9. ASSUME NEW x \in Reservers, ReserverFails(x)
      PROVE  KnownInv'
  BY <1>9 DEF ReserverFails, QuotaEnds, KnownInv, TypeOK, Counters, configuration, leases, history
<1>10. CASE Archive
  BY <1>10 DEF Archive, KnownInv, configuration, quota, leases, history
<1>11. CASE Restore
  BY <1>11 DEF Restore, KnownInv, configuration, quota, leases, history
<1>12. ASSUME NEW a \in Audits, CountRows(a)
      PROVE  KnownInv'
  BY <1>12, ControlAssumption DEF CountRows, QuotaEnds, KnownInv, TypeOK, Counters, configuration, leases, history
<1>13. ASSUME NEW a \in Audits, Reconcile(a)
      PROVE  KnownInv'
  BY <1>13, ControlAssumption DEF Reconcile, QuotaEnds, KnownInv, TypeOK, Counters, configuration, leases, history
<1>14. ASSUME NEW c \in Clients, ReadLimits(c)
      PROVE  KnownInv'
  BY <1>14 DEF ReadLimits, Client, Active, KnownInv, TypeOK, configuration, quota, history
<1>15. ASSUME NEW c \in Clients, CheckRate(c)
      PROVE  KnownInv'
  BY <1>15 DEF CheckRate, Client, KnownInv, TypeOK, configuration, quota, history
<1>16. ASSUME NEW c \in Clients, AcquireMemory(c)
      PROVE  KnownInv'
  BY <1>16 DEF AcquireMemory, Client, KnownInv, TypeOK, configuration, quota, history
<1>17. ASSUME NEW c \in Clients, Increment(c)
      PROVE  KnownInv'
  BY <1>17 DEF Increment, Client, KnownInv, TypeOK, configuration, quota, history
<1>18. ASSUME NEW c \in Clients, GiveBack(c)
      PROVE  KnownInv'
  BY <1>18 DEF GiveBack, Client, KnownInv, TypeOK, configuration, quota, history
<1>19. ASSUME NEW c \in Clients, Release(c)
      PROVE  KnownInv'
  BY <1>19 DEF Release, Client, KnownInv, TypeOK, configuration, quota, history
<1>20. ASSUME NEW c \in Clients, DeleteKey(c)
      PROVE  KnownInv'
  BY <1>20 DEF DeleteKey, DropKey, KnownInv, TypeOK, configuration, quota, history
<1>21. ASSUME NEW c \in Clients, ReleaseInterrupted(c)
      PROVE  KnownInv'
  BY <1>21 DEF ReleaseInterrupted, Client, KnownInv, TypeOK, configuration, quota, history
<1>25. ASSUME NEW c \in Clients, AcquireInterrupted(c)
      PROVE  KnownInv'
  BY <1>25 DEF AcquireInterrupted, Client, KnownInv, TypeOK, configuration, quota, history
<1>22. CASE WindowSlides
  BY <1>22 DEF WindowSlides, KnownInv, configuration, quota, leases, history
<1>23. CASE ExpireKey
  BY <1>23 DEF ExpireKey, DropKey, KnownInv, TypeOK, configuration, quota, history
<1>24. CASE UNCHANGED vars
  BY <1>24 DEF vars, KnownInv, configuration, quota, leases, history
<1> QED
  BY <1>1, <1>2, <1>3, <1>4, <1>5, <1>6, <1>7, <1>8, <1>9, <1>10, <1>11, <1>12, <1>13, <1>14, <1>15, <1>16, <1>17, <1>18, <1>19, <1>20, <1>21, <1>22, <1>23, <1>24, <1>25, Cases, Zenon

(* The usage row covers the rows, and a count in progress does too. *)
LEMMA UsageStep ==
  ASSUME TypeOK, WriterInv, KnownInv, UsageInv, [Next]_vars
  PROVE  UsageInv'
<1>1. CASE Bootstrap
  <2>1. peak \subseteq peak'
    BY <1>1 DEF Bootstrap
  <2> QED  BY <1>1, <2>1 DEF Bootstrap, UsageInv, quota
<1>2. ASSUME NEW w \in Writers, ReadRevision(w)
      PROVE  UsageInv'
  BY <1>2 DEF ReadRevision, UsageInv, quota, history
<1>3. ASSUME NEW w \in Writers, NEW v \in 0 .. MaxVersions, NEW d \in Configs, NEW b \in BOOLEAN,
             LocksTenant(w), Planned(w, v, d, b), b => v # 0, ~b /\ v # 0 => vstate[v] = "none"
      PROVE  UsageInv'
  BY <1>3 DEF Planned, UsageInv, quota
<1>4. ASSUME NEW w \in Writers, WriterRefused(w)
      PROVE  UsageInv'
  BY <1>4 DEF WriterRefused, UsageInv, quota, history
<1>5. ASSUME NEW w \in Writers, CommitTenant(w)
      PROVE  UsageInv'
  <2>1. peak \subseteq peak'
    BY <1>5 DEF CommitTenant
  <2> QED  BY <1>5, <2>1 DEF CommitTenant, UsageInv, quota
<1>6. ASSUME NEW x \in Reservers, ReadQuota(x)
      PROVE  UsageInv'
  <2>1. used' = used /\ rows' = rows /\ escaped' = escaped /\ peak' = peak
    BY <1>6 DEF ReadQuota, history
  <2>2. \A y \in Counters : y # x => qpc'[y] = qpc[y] /\ note'[y] = note[y]
    BY <1>6 DEF ReadQuota, QuotaEnds, TypeOK, Counters
  <2>3. qpc'[x] \in {"loaded", "done"}
    BY <1>6 DEF ReadQuota, QuotaEnds, TypeOK, Counters
  <2> QED  BY <2>1, <2>2, <2>3, ControlAssumption DEF UsageInv, Counters
<1>7. ASSUME NEW x \in Reservers, Reserve(x)
      PROVE  UsageInv'
  <2>1. used' = used /\ rows' = rows /\ escaped' = escaped /\ peak' = peak
    BY <1>7 DEF Reserve, history
  <2>2. \A y \in Counters : y # x => qpc'[y] = qpc[y] /\ note'[y] = note[y]
    BY <1>7 DEF Reserve, QuotaEnds, TypeOK, Counters
  <2>3. /\ qpc'[x] \in {"reserved", "done"}
        /\ qpc'[x] = "reserved" => used + 1 <= note'[x] /\ UsageFree
    BY <1>7 DEF Reserve, QuotaEnds, TypeOK, Counters
  <2> QED  BY <2>1, <2>2, <2>3, ControlAssumption DEF UsageInv, UsageFree, Counters
<1>8. ASSUME NEW x \in Reservers, Consume(x)
      PROVE  UsageInv'
  <2>1. used' = used + 1 /\ rows' = rows + 1 /\ escaped' = (escaped \/ BeingCounted) /\ peak' = peak
    BY <1>8 DEF Consume
  <2>2. \A y \in Counters : y # x => qpc'[y] = qpc[y] /\ note'[y] = note[y]
    BY <1>8 DEF Consume, QuotaEnds, TypeOK, Counters
  <2>3. qpc'[x] = "done" /\ qpc[x] = "reserved" /\ used + 1 <= note[x]
    BY <1>8 DEF Consume, QuotaEnds, TypeOK, Counters, UsageInv
  <2>4. \E c \in peak : note[x] = QuotaOf[c]
    BY <2>3 DEF KnownInv
  <2>5. \A y \in Reservers : qpc'[y] # "reserved"
    BY <2>2, <2>3 DEF UsageInv, Counters
  <2>6. ~escaped' => \A a \in Audits : qpc'[a] # "counted"
    BY <2>1, <2>2, ControlAssumption DEF BeingCounted, Counters
  <2>7. ~escaped' => /\ rows' <= used'
                     /\ \E c \in peak' : used' <= QuotaOf[c]
    BY <2>1, <2>3, <2>4 DEF UsageInv, TypeOK
  <2> QED  BY <2>1, <2>2, <2>3, <2>5, <2>6, <2>7, ControlAssumption DEF UsageInv, Counters
<1>9. ASSUME NEW x \in Reservers, ReserverFails(x)
      PROVE  UsageInv'
  <2>1. used' = used /\ rows' = rows /\ escaped' = escaped /\ peak' = peak
    BY <1>9 DEF ReserverFails, history
  <2>2. \A y \in Counters : y # x => qpc'[y] = qpc[y] /\ note'[y] = note[y]
    BY <1>9 DEF ReserverFails, QuotaEnds, TypeOK, Counters
  <2>3. qpc'[x] = "done"
    BY <1>9 DEF ReserverFails, QuotaEnds, TypeOK, Counters
  <2> QED  BY <2>1, <2>2, <2>3, ControlAssumption DEF UsageInv, Counters
<1>10. CASE Archive
  BY <1>10 DEF Archive, UsageInv, TypeOK, Counters, history
<1>11. CASE Restore
  <2>1. UNCHANGED <<used, qpc, note, peak>> /\ rows' = rows + 1
    BY <1>11 DEF Restore
  <2>2. ~escaped' => ~escaped /\ ~BeingCounted /\ ~(rows + 1 > used)
    BY <1>11, Zenon DEF Restore
  <2>3. ~(rows + 1 > used) => rows' <= used
    BY <2>1 DEF TypeOK
  <2> QED  BY <2>1, <2>2, <2>3 DEF UsageInv, BeingCounted
<1>12. ASSUME NEW a \in Audits, CountRows(a)
      PROVE  UsageInv'
  <2>1. used' = used /\ rows' = rows /\ escaped' = escaped /\ peak' = peak
    BY <1>12 DEF CountRows, history
  <2>2. \A y \in Counters : y # a => qpc'[y] = qpc[y] /\ note'[y] = note[y]
    BY <1>12 DEF CountRows, QuotaEnds, TypeOK, Counters
  <2>3. qpc'[a] = "done" \/ (qpc'[a] = "counted" /\ note'[a] = rows)
    BY <1>12 DEF CountRows, QuotaEnds, TypeOK, Counters
  <2>4. ~escaped => rows <= rows /\ (rows = 0 \/ \E c \in peak : rows <= QuotaOf[c])
    BY ControlAssumption DEF UsageInv, TypeOK
  <2> QED  BY <2>1, <2>2, <2>3, <2>4, ControlAssumption DEF UsageInv, Counters
<1>13. ASSUME NEW a \in Audits, Reconcile(a)
      PROVE  UsageInv'
  <2>1. used' = note[a] /\ rows' = rows /\ escaped' = escaped /\ peak' = peak
    BY <1>13 DEF Reconcile, history
  <2>2. \A y \in Counters : y # a => qpc'[y] = qpc[y] /\ note'[y] = note[y]
    BY <1>13 DEF Reconcile, QuotaEnds, TypeOK, Counters
  <2>3. qpc'[a] = "done" /\ qpc[a] = "counted" /\ UsageFree
    BY <1>13 DEF Reconcile, QuotaEnds, TypeOK, Counters
  <2> QED  BY <2>1, <2>2, <2>3, ControlAssumption DEF UsageInv, UsageFree, Counters
<1>14. ASSUME NEW c \in Clients, ReadLimits(c)
      PROVE  UsageInv'
  BY <1>14 DEF ReadLimits, UsageInv, quota, history
<1>15. ASSUME NEW c \in Clients, CheckRate(c)
      PROVE  UsageInv'
  BY <1>15 DEF CheckRate, UsageInv, quota, history
<1>16. ASSUME NEW c \in Clients, AcquireMemory(c)
      PROVE  UsageInv'
  BY <1>16 DEF AcquireMemory, UsageInv, quota, history
<1>17. ASSUME NEW c \in Clients, Increment(c)
      PROVE  UsageInv'
  BY <1>17 DEF Increment, UsageInv, quota, history
<1>18. ASSUME NEW c \in Clients, GiveBack(c)
      PROVE  UsageInv'
  BY <1>18 DEF GiveBack, UsageInv, quota, history
<1>19. ASSUME NEW c \in Clients, Release(c)
      PROVE  UsageInv'
  BY <1>19 DEF Release, UsageInv, quota, history
<1>20. ASSUME NEW c \in Clients, DeleteKey(c)
      PROVE  UsageInv'
  BY <1>20 DEF DeleteKey, UsageInv, quota, history
<1>21. ASSUME NEW c \in Clients, ReleaseInterrupted(c)
      PROVE  UsageInv'
  BY <1>21 DEF ReleaseInterrupted, UsageInv, quota, history
<1>25. ASSUME NEW c \in Clients, AcquireInterrupted(c)
      PROVE  UsageInv'
  BY <1>25 DEF AcquireInterrupted, UsageInv, quota, history
<1>22. CASE WindowSlides
  BY <1>22 DEF WindowSlides, UsageInv, quota, history
<1>23. CASE ExpireKey
  BY <1>23 DEF ExpireKey, UsageInv, quota, history
<1>24. CASE UNCHANGED vars
  BY <1>24 DEF vars, UsageInv, quota, history
<1> QED
  BY <1>1, <1>2, <1>3, <1>4, <1>5, <1>6, <1>7, <1>8, <1>9, <1>10, <1>11, <1>12, <1>13, <1>14, <1>15, <1>16, <1>17, <1>18, <1>19, <1>20, <1>21, <1>22, <1>23, <1>24, <1>25, Cases, Zenon

Occupied == {"counted", "holding", "ghost"}

(* The clients that count are finitely many, and the holders are some of   *)
(* them.                                                                   *)
LEMMA Finite ==
  /\ IsFiniteSet(Counted) /\ IsFiniteSet(Holding)
  /\ Cardinality(Counted) \in Nat /\ Cardinality(Holding) \in Nat
  /\ Cardinality(Holding) <= Cardinality(Counted)
<1>1. Counted \in SUBSET Clients /\ Holding \in SUBSET Counted
  BY DEF Counted, Holding
<1>2. IsFiniteSet(Counted)
  BY <1>1, FS_Subset, ControlAssumption
<1> QED  BY <1>1, <1>2, FS_Subset, FS_CardinalityType

(* A client starts to count. *)
LEMMA Joins ==
  ASSUME TypeOK, NEW c \in Clients, NEW to \in Occupied,
         lpc[c] \notin Occupied, lpc' = [lpc EXCEPT ![c] = to]
  PROVE  Cardinality(Counted') = Cardinality(Counted) + 1
<1>1. Counted' = Counted \cup {c} /\ c \notin Counted
  BY DEF Counted, Occupied, TypeOK
<1> QED  BY <1>1, Finite, FS_AddElement

(* A client stops to count. *)
LEMMA Leaves ==
  ASSUME TypeOK, NEW c \in Clients, NEW to \in {"clearing", "done"},
         lpc[c] \in Occupied, lpc' = [lpc EXCEPT ![c] = to]
  PROVE  Cardinality(Counted') = Cardinality(Counted) - 1 /\ Cardinality(Counted) >= 1
<1>1. Counted' = Counted \ {c} /\ c \in Counted
  BY DEF Counted, Occupied, TypeOK
<1>2. Cardinality(Counted') = Cardinality(Counted) - 1
  BY <1>1, Finite, FS_RemoveElement
<1>3. Cardinality(Counted) # 0
  BY <1>1, Finite, FS_EmptySet
<1> QED  BY <1>2, <1>3, Finite

(* A client moves on without starting to hold: no more slots are held. *)
LEMMA HoldersStay ==
  ASSUME SlotsHeld, Holding' \subseteq Holding, peak \subseteq peak', dropped => dropped', TypeOK
  PROVE  SlotsHeld'
<1>1. Holding' \in SUBSET Holding
  OBVIOUS
<1>2. IsFiniteSet(Holding') /\ Cardinality(Holding') <= Cardinality(Holding)
  BY <1>1, Finite, FS_Subset
<1>3. Cardinality(Holding') \in Nat
  BY <1>2, FS_CardinalityType
<1>4. \A c \in peak : Cardinality(Holding) <= SlotsOf[c] => Cardinality(Holding') <= SlotsOf[c]
  BY <1>2, <1>3, Finite, ControlAssumption DEF TypeOK
<1> QED  BY <1>1, <1>4 DEF SlotsHeld

(* A client that starts to hold a slot within the limit of a configuration *)
(* that was active.                                                        *)
LEMMA HolderJoins ==
  ASSUME TypeOK, SlotInv, NEW c \in Clients, lpc[c] = "rated", lpc' = [lpc EXCEPT ![c] = "holding"],
         terms[c] \in peak, slots + 1 <= SlotsOf[terms[c]], slots' = slots + 1,
         peak' = peak, dropped' = dropped
  PROVE  SlotInv'
<1>1. Cardinality(Counted') = Cardinality(Counted) + 1
  BY Joins DEF Occupied
<1>2. Holding' = Holding \cup {c} /\ c \notin Holding
  BY DEF Holding, TypeOK
<1>3. Cardinality(Holding') = Cardinality(Holding) + 1
  BY <1>2, Finite, FS_AddElement
<1>4. ~dropped => Cardinality(Holding') <= SlotsOf[terms[c]]
  <2>1. ~dropped => slots = Cardinality(Counted)
    BY DEF SlotInv, SlotsAccounted
  <2>2. SlotsOf[terms[c]] \in Nat /\ slots \in Int
    BY ControlAssumption DEF TypeOK
  <2> QED  BY <1>3, <2>1, <2>2, Finite
<1>5. SlotsHeld'
  BY <1>4 DEF SlotsHeld
<1>6. slots' <= Cardinality(Counted') /\ (~dropped => slots' = Cardinality(Counted'))
  BY <1>1, Finite DEF SlotInv, SlotsAccounted, TypeOK
<1> QED  BY <1>5, <1>6 DEF SlotInv, SlotsAccounted

(* The key is deleted: what is held is held, and is counted no more. *)
LEMMA KeyDropped ==
  ASSUME TypeOK, SlotsHeld, NEW pcs, DropKey(pcs), peak' = peak,
         {c \in Clients : pcs[c] = "holding"} \subseteq Holding
  PROVE  SlotInv'
<1>1. slots' = 0 /\ (dropped => dropped') /\ dropped' \in BOOLEAN
  BY Zenon DEF DropKey
<1>2. Holding' \subseteq Holding
  BY DEF DropKey, Holding
<1>3. SlotsHeld'
  BY <1>1, <1>2, HoldersStay
<1>4. Cardinality(Counted') \in Nat
  <2>1. Counted' \in SUBSET Clients
    BY DEF Counted
  <2> QED  BY <2>1, FS_Subset, FS_CardinalityType, ControlAssumption
<1>5. ~dropped' => Counted' = {}
  BY DEF DropKey, Counted
<1>6. ~dropped' => Cardinality(Counted') = 0
  BY <1>5, FS_EmptySet
<1> QED  BY <1>1, <1>3, <1>4, <1>6 DEF SlotInv, SlotsAccounted

(* Nothing of the slots changes, or only the configurations that have been *)
(* active grow.                                                            *)
LEMMA SlotsStay ==
  ASSUME TypeOK, SlotInv, slots' = slots, Counted' = Counted, Holding' \subseteq Holding,
         dropped' = dropped, peak \subseteq peak'
  PROVE  SlotInv'
<1>1. SlotsHeld'
  BY HoldersStay DEF SlotInv, SlotsAccounted
<1> QED  BY <1>1 DEF SlotInv, SlotsAccounted

(* The counter stands for the requests it counted until it is deleted. *)
LEMMA SlotStep ==
  ASSUME TypeOK, KnownInv, SlotInv, [Next]_vars
  PROVE  SlotInv'
<1>1. CASE Bootstrap
  BY <1>1, SlotsStay DEF Bootstrap, Counted, Holding, leases, history
<1>2. ASSUME NEW w \in Writers, ReadRevision(w)
      PROVE  SlotInv'
  BY <1>2, SlotsStay DEF ReadRevision, Counted, Holding, leases, history
<1>3. ASSUME NEW w \in Writers, NEW v \in 0 .. MaxVersions, NEW d \in Configs, NEW b \in BOOLEAN,
             LocksTenant(w), Planned(w, v, d, b), b => v # 0, ~b /\ v # 0 => vstate[v] = "none"
      PROVE  SlotInv'
  <2>1. CASE b /\ store = "redis"
    <3>1. DropKey(lpc) /\ peak' = peak
      BY <1>3, <2>1 DEF Planned, Invalidate
    <3> QED  BY <3>1, KeyDropped DEF SlotInv, SlotsAccounted, Holding
  <2>2. CASE ~(b /\ store = "redis")
    <3>1. UNCHANGED <<slots, lpc, dropped, peak>>
      BY <1>3, <2>2 DEF Planned, Invalidate, leases
    <3> QED  BY <3>1, SlotsStay DEF Counted, Holding
  <2> QED  BY <2>1, <2>2
<1>4. ASSUME NEW w \in Writers, WriterRefused(w)
      PROVE  SlotInv'
  BY <1>4, SlotsStay DEF WriterRefused, Counted, Holding, leases, history
<1>5. ASSUME NEW w \in Writers, CommitTenant(w)
      PROVE  SlotInv'
  BY <1>5, SlotsStay DEF CommitTenant, Counted, Holding, leases, history
<1>6. ASSUME NEW x \in Reservers, ReadQuota(x)
      PROVE  SlotInv'
  BY <1>6, SlotsStay DEF ReadQuota, Counted, Holding, leases, history
<1>7. ASSUME NEW x \in Reservers, Reserve(x)
      PROVE  SlotInv'
  BY <1>7, SlotsStay DEF Reserve, Counted, Holding, leases, history
<1>8. ASSUME NEW x \in Reservers, Consume(x)
      PROVE  SlotInv'
  BY <1>8, SlotsStay DEF Consume, Counted, Holding, leases, history
<1>9. ASSUME NEW x \in Reservers, ReserverFails(x)
      PROVE  SlotInv'
  BY <1>9, SlotsStay DEF ReserverFails, Counted, Holding, leases, history
<1>10. CASE Archive
  BY <1>10, SlotsStay DEF Archive, Counted, Holding, leases, history
<1>11. CASE Restore
  BY <1>11, SlotsStay DEF Restore, Counted, Holding, leases, history
<1>12. ASSUME NEW a \in Audits, CountRows(a)
      PROVE  SlotInv'
  BY <1>12, SlotsStay DEF CountRows, Counted, Holding, leases, history
<1>13. ASSUME NEW a \in Audits, Reconcile(a)
      PROVE  SlotInv'
  BY <1>13, SlotsStay DEF Reconcile, Counted, Holding, leases, history
<1>14. ASSUME NEW c \in Clients, ReadLimits(c)
      PROVE  SlotInv'
  <2>1. Counted' = Counted /\ Holding' \subseteq Holding
    BY <1>14 DEF ReadLimits, Client, Active, Counted, Holding, TypeOK
  <2> QED  BY <1>14, <2>1, SlotsStay DEF ReadLimits, history
<1>15. ASSUME NEW c \in Clients, CheckRate(c)
      PROVE  SlotInv'
  <2>1. Counted' = Counted /\ Holding' \subseteq Holding
    BY <1>15 DEF CheckRate, Client, Counted, Holding, TypeOK
  <2> QED  BY <1>15, <2>1, SlotsStay DEF CheckRate, history
<1>16. ASSUME NEW c \in Clients, AcquireMemory(c)
      PROVE  SlotInv'
  <2>1. lpc[c] = "rated" /\ peak' = peak /\ dropped' = dropped
    BY <1>16 DEF AcquireMemory, Client, history
  <2>2. CASE slots < SlotsOf[terms[c]]
    <3>1. lpc' = [lpc EXCEPT ![c] = "holding"] /\ slots' = slots + 1
      BY <1>16, <2>2 DEF AcquireMemory, Client
    <3>2. terms[c] \in peak
      BY <2>1 DEF KnownInv
    <3>3. slots + 1 <= SlotsOf[terms[c]]
      BY <2>2, ControlAssumption DEF TypeOK
    <3> QED  BY <2>1, <3>1, <3>2, <3>3, HolderJoins
  <2>3. CASE ~(slots < SlotsOf[terms[c]])
    <3>1. lpc' = [lpc EXCEPT ![c] = "done"] /\ slots' = slots
      BY <1>16, <2>3 DEF AcquireMemory, Client
    <3>2. Counted' = Counted /\ Holding' \subseteq Holding
      BY <2>1, <3>1 DEF Counted, Holding, TypeOK
    <3> QED  BY <2>1, <3>1, <3>2, SlotsStay
  <2> QED  BY <2>2, <2>3
<1>17. ASSUME NEW c \in Clients, Increment(c)
      PROVE  SlotInv'
  <2>1. /\ lpc[c] = "rated" /\ peak' = peak /\ dropped' = dropped
        /\ slots' = slots + 1
    BY <1>17 DEF Increment, Client, history
  <2>2. CASE ~(slots + 1 > SlotsOf[terms[c]])
    <3>1. lpc' = [lpc EXCEPT ![c] = "holding"]
      BY <1>17, <2>2 DEF Increment, Client
    <3>2. terms[c] \in peak
      BY <2>1 DEF KnownInv
    <3>3. slots + 1 <= SlotsOf[terms[c]]
      BY <2>2, ControlAssumption DEF TypeOK
    <3> QED  BY <2>1, <3>1, <3>2, <3>3, HolderJoins
  <2>3. CASE slots + 1 > SlotsOf[terms[c]]
    <3>1. lpc' = [lpc EXCEPT ![c] = "counted"]
      BY <1>17, <2>3 DEF Increment, Client
    <3>2. Cardinality(Counted') = Cardinality(Counted) + 1
      BY <2>1, <3>1, Joins DEF Occupied
    <3>3. Holding' \subseteq Holding
      BY <2>1, <3>1 DEF Holding, TypeOK
    <3>4. SlotsHeld'
      BY <2>1, <3>3, HoldersStay DEF SlotInv, SlotsAccounted
    <3> QED  BY <2>1, <3>2, <3>4, Finite DEF SlotInv, SlotsAccounted, TypeOK
  <2> QED  BY <2>2, <2>3
<1>18. ASSUME NEW c \in Clients, GiveBack(c)
      PROVE  SlotInv'
  <2>1. /\ lpc[c] = "counted" /\ lpc' = [lpc EXCEPT ![c] = "done"]
        /\ peak' = peak /\ dropped' = dropped /\ slots' = slots - 1
    BY <1>18 DEF GiveBack, Client, history
  <2>2. Cardinality(Counted') = Cardinality(Counted) - 1
    BY <2>1, Leaves DEF Occupied
  <2>3. Holding' \subseteq Holding
    BY <2>1 DEF Holding, TypeOK
  <2>4. SlotsHeld'
    BY <2>1, <2>3, HoldersStay DEF SlotInv, SlotsAccounted
  <2> QED  BY <2>1, <2>2, <2>4, Finite DEF SlotInv, SlotsAccounted, TypeOK
<1>19. ASSUME NEW c \in Clients, Release(c)
      PROVE  SlotInv'
  <2> DEFINE to == IF store = "redis" /\ slots - 1 <= 0 THEN "clearing" ELSE "done"
  <2>1. /\ lpc[c] = "holding" /\ lpc' = [lpc EXCEPT ![c] = to]
        /\ peak' = peak /\ dropped' = dropped
        /\ slots' = IF store = "memory" /\ slots = 0 THEN 0 ELSE slots - 1
    BY <1>19 DEF Release, Client, history
  <2>5. to \in {"clearing", "done"} /\ lpc[c] \in Occupied
    BY <2>1 DEF Occupied
  <2> HIDE DEF to
  <2>2. Cardinality(Counted') = Cardinality(Counted) - 1 /\ Cardinality(Counted) >= 1
    BY <2>1, <2>5, Leaves
  <2>3. Holding' \subseteq Holding
    BY <2>1, <2>5 DEF Holding, TypeOK
  <2>4. SlotsHeld'
    BY <2>1, <2>3, HoldersStay DEF SlotInv, SlotsAccounted
  <2> QED  BY <2>1, <2>2, <2>4, Finite DEF SlotInv, SlotsAccounted, TypeOK
<1>20. ASSUME NEW c \in Clients, DeleteKey(c)
      PROVE  SlotInv'
  <2> DEFINE pcs == [lpc EXCEPT ![c] = "done"]
  <2>1. DropKey(pcs) /\ peak' = peak
    BY <1>20 DEF DeleteKey
  <2>2. {d \in Clients : pcs[d] = "holding"} \subseteq Holding
    BY DEF Holding, TypeOK
  <2> HIDE DEF pcs
  <2> QED  BY <2>1, <2>2, KeyDropped DEF SlotInv, SlotsAccounted
<1>21. ASSUME NEW c \in Clients, ReleaseInterrupted(c)
      PROVE  SlotInv'
  <2>1. peak' = peak /\ dropped' = dropped
    BY <1>21 DEF ReleaseInterrupted, history
  <2>2. Holding' \subseteq Holding
    BY <1>21 DEF ReleaseInterrupted, Client, Holding, TypeOK
  <2>3. CASE Counted' = Counted /\ slots' = slots
    BY <2>1, <2>2, <2>3, SlotsStay
  <2>4. CASE lpc[c] = "holding" /\ lpc' = [lpc EXCEPT ![c] = "done"] /\ slots' = slots - 1
    <3>1. Cardinality(Counted') = Cardinality(Counted) - 1
      BY <2>4, Leaves DEF Occupied
    <3>2. SlotsHeld'
      BY <2>1, <2>2, HoldersStay DEF SlotInv, SlotsAccounted
    <3> QED  BY <2>1, <2>4, <3>1, <3>2, Finite DEF SlotInv, SlotsAccounted, TypeOK
  <2>5. \/ Counted' = Counted /\ slots' = slots
        \/ lpc[c] = "holding" /\ lpc' = [lpc EXCEPT ![c] = "done"] /\ slots' = slots - 1
    BY <1>21 DEF ReleaseInterrupted, Client, Counted, TypeOK
  <2> QED  BY <2>3, <2>4, <2>5
<1>25. ASSUME NEW c \in Clients, AcquireInterrupted(c)
      PROVE  SlotInv'
  <2>1. peak' = peak /\ dropped' = dropped
    BY <1>25 DEF AcquireInterrupted, history
  <2>2. Holding' \subseteq Holding
    BY <1>25 DEF AcquireInterrupted, Client, Holding, TypeOK
  <2>3. CASE Counted' = Counted /\ slots' = slots
    BY <2>1, <2>2, <2>3, SlotsStay
  <2>4. CASE lpc[c] = "rated" /\ lpc' = [lpc EXCEPT ![c] = "ghost"] /\ slots' = slots + 1
    <3>1. Cardinality(Counted') = Cardinality(Counted) + 1
      BY <2>4, Joins DEF Occupied
    <3>2. SlotsHeld'
      BY <2>1, <2>2, HoldersStay DEF SlotInv, SlotsAccounted
    <3> QED  BY <2>1, <2>4, <3>1, <3>2, Finite DEF SlotInv, SlotsAccounted, TypeOK
  <2>5. \/ Counted' = Counted /\ slots' = slots
        \/ lpc[c] = "rated" /\ lpc' = [lpc EXCEPT ![c] = "ghost"] /\ slots' = slots + 1
    BY <1>25 DEF AcquireInterrupted, Client, Counted, TypeOK
  <2> QED  BY <2>3, <2>4, <2>5
<1>22. CASE WindowSlides
  BY <1>22, SlotsStay DEF WindowSlides, Counted, Holding, leases, history
<1>23. CASE ExpireKey
  <2>1. DropKey(lpc) /\ peak' = peak
    BY <1>23 DEF ExpireKey
  <2> QED  BY <2>1, KeyDropped DEF SlotInv, SlotsAccounted, Holding
<1>24. CASE UNCHANGED vars
  BY <1>24, SlotsStay DEF vars, Counted, Holding, leases, history
<1> QED
  BY <1>1, <1>2, <1>3, <1>4, <1>5, <1>6, <1>7, <1>8, <1>9, <1>10, <1>11, <1>12, <1>13, <1>14, <1>15, <1>16, <1>17, <1>18, <1>19, <1>20, <1>21, <1>22, <1>23, <1>24, <1>25, Cases, Zenon

LEMMA InitInv == Init => ControlInv
<1> SUFFICES ASSUME Init PROVE ControlInv
  OBVIOUS
<1>1. TypeOK
  <2>1. plan \in [Writers -> [version : 0 .. MaxVersions, config : Configs, activate : BOOLEAN]]
    BY ControlAssumption DEF Init, NoPlan
  <2>2. /\ store \in Stores /\ faults \in 0 .. MaxFaults /\ pointer \in 0 .. MaxVersions
        /\ peak \subseteq Configs /\ content \in [Versions -> Configs] /\ terms \in [Clients -> Configs]
    BY ControlAssumption DEF Init
  <2>3. /\ wpc \in [Writers -> {"idle", "read", "locked", "done"}] /\ based \in [Writers -> Nat]
        /\ vstate \in [Versions -> {"none", "draft", "active", "superseded"}]
        /\ qpc \in [Counters -> {"idle", "loaded", "reserved", "counted", "done"}]
        /\ note \in [Counters -> Nat]
        /\ lpc \in [Clients -> {"idle", "loaded", "rated", "counted", "holding", "clearing", "ghost", "done"}]
    BY DEF Init
  <2>4. /\ revision \in Nat /\ used \in Nat /\ rows \in Nat /\ shelved \in Nat
        /\ slots \in Int /\ window \in Nat
    BY DEF Init
  <2>5. escaped \in BOOLEAN /\ dropped \in BOOLEAN
    BY DEF Init
  <2> QED  BY <2>1, <2>2, <2>3, <2>4, <2>5 DEF TypeOK
<1>2. WriterInv /\ KnownInv
  BY ControlAssumption DEF Init, WriterInv, KnownInv, OneActive, Versions, Counters
<1>3. UsageInv
  BY DEF Init, UsageInv, Counters
<1>4. Counted = {} /\ Holding = {}
  BY DEF Init, Counted, Holding
<1>5. SlotInv
  BY <1>4, FS_EmptySet DEF Init, SlotInv, SlotsAccounted, SlotsHeld
<1> QED  BY <1>1, <1>2, <1>3, <1>5 DEF ControlInv

(* ControlInv is inductive: it holds in every reachable state, whatever    *)
(* configurations, requests and stores there are.                          *)
THEOREM ControlInvariant == Spec => []ControlInv
<1>1. ControlInv /\ [Next]_vars => ControlInv'
  BY TypeStep, WriterStep, KnownStep, UsageStep, SlotStep, Zenon DEF ControlInv
<1> QED  BY InitInv, <1>1, PTL DEF Spec

(* Every variable keeps its type: usage never goes below zero, although    *)
(* reconciliations overwrite it.                                           *)
THEOREM TypeCorrect == Spec => []TypeOK
<1>1. ControlInv => TypeOK
  BY DEF ControlInv
<1> QED  BY ControlInvariant, <1>1, PTL

(* However drafts, activations and rollbacks race, one version is active   *)
(* and the tenant names it.                                                *)
THEOREM OneVersionActive == Spec => []OneActive
<1>1. ControlInv => OneActive
  BY DEF ControlInv, WriterInv
<1> QED  BY ControlInvariant, <1>1, PTL

(* No request changes a tenant row other than the one its author saw. *)
THEOREM NoLostUpdate == Spec => []AuthorSawCurrent
<1>1. ControlInv => AuthorSawCurrent
  BY DEF ControlInv, WriterInv, AuthorSawCurrent
<1> QED  BY ControlInvariant, <1>1, PTL

(* The usage row bounds the rows and a quota bounds the usage row, for any *)
(* number of concurrent requests, until a row escapes it.                  *)
THEOREM QuotasHold == Spec => []QuotaHeld
<1>1. ControlInv => QuotaHeld
  BY DEF ControlInv, UsageInv, UsageCoversRows, QuotaHeld
<1> QED  BY ControlInvariant, <1>1, PTL

(* The counter is exactly the requests that run and those that were        *)
(* interrupted at a command of the store, for any number of requests, and  *)
(* never more than these once the counter was deleted under a request.     *)
THEOREM SlotsAreAccounted == Spec => []SlotsAccounted
<1>1. ControlInv => SlotsAccounted
  BY DEF ControlInv, SlotInv
<1> QED  BY ControlInvariant, <1>1, PTL

(* Concurrency stays within a limit that was active, until the counter is  *)
(* deleted under a request.                                                *)
THEOREM ConcurrencyBounded == Spec => []SlotsHeld
<1>1. ControlInv => SlotsHeld
  BY DEF ControlInv, SlotInv
<1> QED  BY ControlInvariant, <1>1, PTL
=============================================================================
