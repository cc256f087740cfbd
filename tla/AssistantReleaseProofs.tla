----------------------- MODULE AssistantReleaseProofs -----------------------
(***************************************************************************)
(* Proofs about the release of an assistant, for any number of sessions,   *)
(* versions, policies, datasets and items.  The inductive invariant is     *)
(* ReleaseInv of AssistantRelease.                                         *)
(***************************************************************************)
EXTENDS AssistantRelease, FiniteSetTheorems, TLAPS

PolicyRows == [default : BOOLEAN, kind : {"retrieval", "safety"}, active : BOOLEAN]
VersionRows == [asks : Drafts, state : {"draft", "active"}, errors : BOOLEAN]
RunRows == [dataset : Nat, version : Nat, results : SUBSET Results]
EventRows == [previous : Nat, new : Nat]

(* What a request record holds follows from where it is. *)
LEMMA RequestShape ==
  ASSUME NEW r \in Requests
  PROVE  /\ r.at \in {"idle", "draft", "validate", "activate", "checked", "query", "dataset", "evaluate"}
         /\ r.at = "draft" => r \in [at : {"draft"}, number : Nat, draft : Drafts]
         /\ r.at = "validate" => r \in [at : {"validate"}, version : Nat, draft : BOOLEAN]
         /\ r.at \in {"activate", "checked"}
              => r \in [at : {"activate", "checked"}, version : Nat, previous : Nat]
         /\ r.at = "query" => r \in [at : {"query"}, version : Nat]
         /\ r.at = "dataset" => r \in [at : {"dataset"}, number : Nat, content : SUBSET Items]
         /\ r.at = "evaluate"
              => r \in [at : {"evaluate"}, dataset : Nat, version : Nat, results : SUBSET Results]
BY DEF Requests, Idle

LEMMA IdleRequest == Idle \in Requests /\ Idle.at = "idle"
BY DEF Requests, Idle

(* One session moves, the others stay. *)
LEMMA GoesTo ==
  ASSUME session \in [Sessions -> Requests], NEW p \in Sessions, NEW r \in Requests, Goes(p, r)
  PROVE  /\ session' \in [Sessions -> Requests]
         /\ session'[p] = r
         /\ \A q \in Sessions : q # p => session'[q] = session[q]
BY DEF Goes

LEMMA InitType == Init => TypeOK
<1> SUFFICES ASSUME Init PROVE TypeOK
  OBVIOUS
<1>1. ConfigOK
  <2>1. <<[default |-> TRUE, kind |-> "retrieval", active |-> TRUE]>> \in Seq(PolicyRows)
    BY DEF PolicyRows
  <2>2. policies \in Seq(PolicyRows)
    BY <2>1 DEF Init
  <2>3. space \in [Spaces -> {"active", "archived"}] /\ changes \in 0..MaxChanges
    BY ReleaseAssumption DEF Init
  <2>4. profile \in BOOLEAN /\ binding \in BOOLEAN
    BY DEF Init
  <2> QED  BY <2>2, <2>3, <2>4 DEF ConfigOK, PolicyRows
<1>2. RowsOK
  <2>1. versions = <<>> /\ active = 0 /\ lock = NoOne /\ events = <<>>
    BY DEF Init
  <2> QED  BY <2>1 DEF RowsOK
<1>3. QualityOK
  BY DEF Init, QualityOK
<1>4. session \in [Sessions -> Requests] /\ \A p \in Sessions : session[p].at = "idle"
  BY IdleRequest DEF Init
<1> QED  BY <1>1, <1>2, <1>3, <1>4, ReleaseAssumption DEF TypeOK, Init

LEMMA InitRelease == Init => ReleaseInv
<1> SUFFICES ASSUME Init PROVE ReleaseInv
  OBVIOUS
<1>1. TypeOK
  BY InitType
<1>2. PolicyInv
  <2>1. /\ policies = <<[default |-> TRUE, kind |-> "retrieval", active |-> TRUE]>>
        /\ versions = <<>>
    BY DEF Init
  <2>2. DOMAIN policies = {1} /\ policies[1].default /\ policies[1].kind = "retrieval" /\ policies[1].active
    BY <2>1
  <2> QED  BY <2>1, <2>2 DEF PolicyInv, IsDefault, Retrieval
<1>3. answers = {} /\ runs = <<>> /\ events = <<>> /\ active = 0
  BY DEF Init
<1>4. HistoryInv /\ RunsAreWhole /\ ActivationsChain
  BY <1>3 DEF HistoryInv, RunsAreWhole, ActivationsChain
<1>5. RequestInv
  BY IdleRequest DEF Init, RequestInv, Sound
<1> QED  BY <1>1, <1>2, <1>4, <1>5 DEF ReleaseInv

-----------------------------------------------------------------------------
(* A request of a session that does not move stays sound when rows are only *)
(* added, and the pointer moves only when nobody else is activating.        *)
LEMMA SoundStays ==
  ASSUME TypeOK, RequestInv, NEW q \in Sessions, session'[q] = session[q],
         \A v \in DOMAIN versions : v \in DOMAIN versions' /\ versions'[v].asks = versions[v].asks,
         \A d \in DOMAIN datasets : d \in DOMAIN datasets' /\ datasets'[d] = datasets[d],
         session[q].at \in {"activate", "checked"} => active' = active
  PROVE  Sound(session[q])'
<1>1. Sound(session[q])
  BY DEF RequestInv
<1>2. session[q] \in Requests
  BY DEF TypeOK
<1>3. CASE session[q].at = "evaluate"
  <2>1. \A x \in session[q].results : Pinned(x)'
    BY <1>1, <1>3 DEF Sound, Pinned
  <2> QED  BY <1>1, <1>3, <2>1 DEF Sound
<1>4. CASE session[q].at # "evaluate"
  BY <1>1, <1>4 DEF Sound
<1> QED  BY <1>3, <1>4

(* Only the session of p moves, and its new request is sound. *)
LEMMA SessionMoves ==
  ASSUME ReleaseInv, NEW p \in Sessions, NEW r \in Requests, Goes(p, r), Sound(r),
         UNCHANGED <<config, versions, active, events, quality, answers>>,
         \/ lock' = lock /\ (r.at \in {"activate", "checked"} <=> session[p].at \in {"activate", "checked"})
         \/ lock' = p /\ lock = NoOne /\ r.at \in {"activate", "checked"}
         \/ lock' = NoOne /\ lock = p /\ r.at \notin {"activate", "checked"}
  PROVE  ReleaseInv'
<1> USE DEF ReleaseInv
<1>1. /\ session' \in [Sessions -> Requests] /\ session'[p] = r
      /\ \A q \in Sessions : q # p => session'[q] = session[q]
  BY GoesTo DEF TypeOK
<1>2. TypeOK'
  <2>1. ConfigOK'
    BY DEF TypeOK, ConfigOK, config
  <2>2. RowsOK' /\ QualityOK'
    BY DEF TypeOK, RowsOK, QualityOK, quality
  <2>3. ASSUME NEW q \in Sessions PROVE lock' = q <=> session'[q].at \in {"activate", "checked"}
    BY <1>1, ReleaseAssumption DEF TypeOK
  <2> QED  BY <1>1, <2>1, <2>2, <2>3 DEF TypeOK
<1>3. RequestInv'
  <2> SUFFICES ASSUME NEW q \in Sessions PROVE Sound(session[q])'
    BY DEF RequestInv
  <2>1. CASE q = p
    BY <1>1, <2>1 DEF Sound, Pinned, quality
  <2>2. CASE q # p
    BY <1>1, <2>2, SoundStays DEF quality
  <2> QED  BY <2>1, <2>2
<1>4. PolicyInv' /\ HistoryInv'
  BY DEF PolicyInv, HistoryInv, IsDefault, Retrieval, Pinned, config, quality
<1>5. RunsAreWhole' /\ ActivationsChain'
  BY DEF RunsAreWhole, ActivationsChain, quality
<1> QED  BY <1>2, <1>3, <1>4, <1>5

-----------------------------------------------------------------------------
(* The administrators' changes of policies, profile, secret and spaces. *)
LEMMA ConfigureStep ==
  ASSUME ReleaseInv, Configure
  PROVE  ReleaseInv'
<1> USE DEF ReleaseInv
<1>1. UNCHANGED <<versions, active, lock, events, quality, answers, session>>
  BY DEF Configure, CreatePolicy, CreateProviderProfile, BindingChanges, SetState
<1>2. ConfigOK' /\ (UNCHANGED policies \/ \E record \in PolicyRows : policies' = Append(policies, record))
  <2>1. ASSUME NEW record \in PolicyMenu, CreatePolicy(record)
        PROVE  /\ ConfigOK'
               /\ \E row \in PolicyRows : policies' = Append(policies, row)
    <3>1. record \in PolicyRows /\ policies' = Append(policies, record) /\ UNCHANGED <<space, changes>>
      BY <2>1, ReleaseAssumption DEF CreatePolicy, PolicyRows
    <3>2. policies' \in Seq(PolicyRows)
      BY <3>1 DEF TypeOK, ConfigOK, PolicyRows
    <3>3. profile' \in BOOLEAN /\ binding' \in BOOLEAN
      BY <2>1 DEF CreatePolicy, TypeOK, ConfigOK
    <3> QED  BY <3>1, <3>2, <3>3 DEF TypeOK, ConfigOK, PolicyRows
  <2>2. ASSUME CreateProviderProfile PROVE ConfigOK' /\ UNCHANGED policies
    <3>1. UNCHANGED <<policies, space, changes>>
      BY <2>2 DEF CreateProviderProfile
    <3>2. profile' \in BOOLEAN /\ binding' \in BOOLEAN
      BY <2>2 DEF CreateProviderProfile, TypeOK, ConfigOK
    <3> QED  BY <3>1, <3>2 DEF TypeOK, ConfigOK
  <2>3. ASSUME BindingChanges PROVE ConfigOK' /\ UNCHANGED policies
    <3>1. UNCHANGED <<policies, space>> /\ changes' \in 0..MaxChanges
      BY <2>3, ReleaseAssumption DEF BindingChanges, TypeOK, ConfigOK
    <3>2. profile' \in BOOLEAN /\ binding' \in BOOLEAN
      BY <2>3 DEF BindingChanges, TypeOK, ConfigOK
    <3> QED  BY <3>1, <3>2 DEF TypeOK, ConfigOK
  <2>4. ASSUME NEW s \in Spaces, SetState(s) PROVE ConfigOK' /\ UNCHANGED policies
    <3>1. UNCHANGED policies /\ changes' \in 0..MaxChanges
      BY <2>4, ReleaseAssumption DEF SetState, TypeOK, ConfigOK
    <3>2. profile' \in BOOLEAN /\ binding' \in BOOLEAN
      BY <2>4 DEF SetState, TypeOK, ConfigOK
    <3>3. space' \in [Spaces -> {"active", "archived"}]
      BY <2>4 DEF SetState, TypeOK, ConfigOK
    <3> QED  BY <3>1, <3>2, <3>3 DEF TypeOK, ConfigOK
  <2> QED  BY <2>1, <2>2, <2>3, <2>4 DEF Configure
<1>3. TypeOK'
  <2>1. RowsOK' /\ QualityOK'
    BY <1>1 DEF TypeOK, RowsOK, QualityOK, quality
  <2> QED  BY <1>1, <1>2, <2>1 DEF TypeOK
<1>4. PolicyInv'
  <2>1. CASE UNCHANGED policies
    BY <1>1, <2>1 DEF PolicyInv, IsDefault, Retrieval
  <2>2. ASSUME NEW record \in PolicyRows, policies' = Append(policies, record)
        PROVE  PolicyInv'
    <3>0. PICK n \in Nat : n = Len(policies) + 1
      BY DEF TypeOK, ConfigOK
    <3>1. /\ DOMAIN policies = 1..(n - 1)
          /\ DOMAIN policies' = 1..n
          /\ policies'[n] = record
          /\ \A k \in DOMAIN policies : policies'[k] = policies[k]
      BY <2>2, <3>0 DEF TypeOK, ConfigOK, PolicyRows
    <3>2. PICK k \in DOMAIN policies : IsDefault(k) /\ \A j \in DOMAIN policies : IsDefault(j) => j <= k
      BY DEF PolicyInv
    <3>3. \A j \in DOMAIN policies : IsDefault(j)' <=> IsDefault(j)
      BY <3>1 DEF IsDefault, Retrieval
    <3>4. CASE IsDefault(n)'
      <4>1. \A j \in DOMAIN policies' : j <= n
        BY <3>1
      <4>2. n \in DOMAIN policies'
        BY <3>1
      <4> QED  BY <1>1, <3>4, <4>1, <4>2 DEF PolicyInv
    <3>5. CASE ~IsDefault(n)'
      <4>1. k \in DOMAIN policies' /\ IsDefault(k)'
        BY <3>1, <3>2, <3>3
      <4>2. \A j \in DOMAIN policies' : IsDefault(j)' => j <= k
        BY <3>1, <3>2, <3>3, <3>5
      <4> QED  BY <1>1, <4>1, <4>2 DEF PolicyInv
    <3> QED  BY <3>4, <3>5
  <2> QED  BY <1>2, <2>1, <2>2
<1>5. HistoryInv' /\ RequestInv'
  BY <1>1 DEF HistoryInv, RequestInv, Sound, Pinned, quality
<1>6. RunsAreWhole' /\ ActivationsChain'
  BY <1>1 DEF RunsAreWhole, ActivationsChain, quality
<1> QED  BY <1>3, <1>4, <1>5, <1>6

(* Release gates and their overrides. *)
LEMMA JudgeStep ==
  ASSUME ReleaseInv, Judge
  PROVE  ReleaseInv'
<1> USE DEF ReleaseInv
<1>1. /\ UNCHANGED <<config, versions, active, lock, events, datasets, runs, answers, session>>
      /\ gates' \subseteq GateMenu /\ overrides' \subseteq gates' \X Nat
  <2>1. ASSUME NEW g \in GateMenu, CreateGate(g)
        PROVE  /\ UNCHANGED <<config, versions, active, lock, events, datasets, runs, answers, session>>
               /\ gates' \subseteq GateMenu /\ overrides' \subseteq gates' \X Nat
    <3>1. gates \subseteq GateMenu /\ overrides \subseteq gates \X Nat
      BY DEF TypeOK, QualityOK
    <3>2. gates' = gates \cup {g} /\ overrides' = overrides
      BY <2>1 DEF CreateGate
    <3> QED  BY <2>1, <3>1, <3>2 DEF CreateGate
  <2>2. ASSUME NEW g \in gates, NEW r \in DOMAIN runs, OverrideGate(g, r)
        PROVE  /\ UNCHANGED <<config, versions, active, lock, events, datasets, runs, answers, session>>
               /\ gates' \subseteq GateMenu /\ overrides' \subseteq gates' \X Nat
    <3>1. r \in Nat /\ gates \subseteq GateMenu /\ overrides \subseteq gates \X Nat
      BY DEF TypeOK, QualityOK
    <3>2. gates' = gates /\ overrides' = overrides \cup {<<g, r>>}
      BY <2>2 DEF OverrideGate
    <3> QED  BY <2>2, <3>1, <3>2 DEF OverrideGate
  <2> QED  BY <2>1, <2>2 DEF Judge
<1>2. TypeOK'
  <2>1. ConfigOK'
    BY <1>1 DEF TypeOK, ConfigOK, config
  <2>2. RowsOK' /\ QualityOK'
    BY <1>1 DEF TypeOK, RowsOK, QualityOK
  <2> QED  BY <1>1, <2>1, <2>2 DEF TypeOK
<1>3. PolicyInv' /\ HistoryInv' /\ RequestInv'
  BY <1>1 DEF PolicyInv, HistoryInv, RequestInv, Sound, IsDefault, Retrieval, Pinned, config
<1>4. RunsAreWhole' /\ ActivationsChain'
  BY <1>1 DEF RunsAreWhole, ActivationsChain
<1> QED  BY <1>2, <1>3, <1>4

(* With a newest default policy, a draft is never left without a policy. *)
LEMMA DefaultExists ==
  ASSUME ConfigOK, PolicyInv
  PROVE  DefaultPolicy \in Nat \ {0}
<1> DEFINE D == {0} \cup {k \in DOMAIN policies : policies[k].default /\ Retrieval(k)}
<1>1. PICK k \in DOMAIN policies : IsDefault(k) /\ \A j \in DOMAIN policies : IsDefault(j) => j <= k
  BY DEF PolicyInv
<1>2. DOMAIN policies \subseteq Nat \ {0}
  BY DEF ConfigOK
<1>3. k \in D /\ \A j \in D : k >= j
  BY <1>1, <1>2 DEF IsDefault
<1>4. \E x \in D : \A y \in D : x >= y
  BY <1>3
<1>5. Max(D) \in D /\ \A y \in D : Max(D) >= y
  BY <1>4 DEF Max
<1>6. Max(D) >= k /\ D \subseteq Nat
  BY <1>2, <1>3, <1>5
<1>7. Max(D) \in Nat \ {0}
  BY <1>2, <1>5, <1>6
<1> QED  BY <1>7 DEF DefaultPolicy

-----------------------------------------------------------------------------
(* The requests that only move their own session. *)
LEMMA DraftReadStep ==
  ASSUME ReleaseInv, NEW p \in Sessions, NEW draft \in DraftMenu, DraftRead(p, draft)
  PROVE  ReleaseInv'
<1> DEFINE r == [at |-> "draft", number |-> Len(versions) + 1,
                 draft |-> [draft EXCEPT !.policy = IF @ = 0 THEN DefaultPolicy ELSE @]]
<1>1. DefaultPolicy \in Nat \ {0}
  BY DefaultExists DEF ReleaseInv, TypeOK
<1>2. draft \in Drafts
  BY ReleaseAssumption DEF Drafts
<1>3. r.draft \in Drafts /\ r.draft.policy # 0
  BY <1>1, <1>2 DEF Drafts
<1>4. Len(versions) + 1 \in Nat
  BY DEF ReleaseInv, TypeOK, RowsOK
<1>5. r \in Requests /\ r.at = "draft"
  BY <1>3, <1>4 DEF Requests
<1>6. Sound(r)
  BY <1>3, <1>5 DEF Sound
<1>7. Goes(p, r) /\ session[p].at = "idle" /\ lock' = lock
      /\ UNCHANGED <<config, versions, active, events, quality, answers>>
  BY DEF DraftRead, At
<1> HIDE DEF r
<1> QED  BY <1>5, <1>6, <1>7, SessionMoves

LEMMA ValidateReadStep ==
  ASSUME ReleaseInv, NEW p \in Sessions, NEW v \in DOMAIN versions, ValidateRead(p, v)
  PROVE  ReleaseInv'
<1> DEFINE r == [at |-> "validate", version |-> v, draft |-> versions[v].state = "draft"]
<1>1. v \in Nat
  BY DEF ReleaseInv, TypeOK, RowsOK
<1>2. r \in Requests /\ r.at = "validate"
  BY <1>1 DEF Requests
<1>3. Sound(r)
  BY <1>2 DEF Sound
<1>4. Goes(p, r) /\ session[p].at = "idle" /\ lock' = lock
      /\ UNCHANGED <<config, versions, active, events, quality, answers>>
  BY DEF ValidateRead, At
<1> HIDE DEF r
<1> QED  BY <1>2, <1>3, <1>4, SessionMoves

LEMMA ActivateLockStep ==
  ASSUME ReleaseInv, NEW p \in Sessions, NEW v \in DOMAIN versions, ActivateLock(p, v)
  PROVE  ReleaseInv'
<1> DEFINE r == [at |-> "activate", version |-> v, previous |-> active]
<1>1. v \in Nat /\ active \in Nat
  BY DEF ReleaseInv, TypeOK, RowsOK
<1>2. r \in Requests /\ r.at = "activate"
  BY <1>1 DEF Requests
<1>3. Sound(r)
  BY <1>2 DEF Sound
<1>4. Goes(p, r) /\ lock = NoOne /\ lock' = p
      /\ UNCHANGED <<config, versions, active, events, quality, answers>>
  BY DEF ActivateLock, At
<1> HIDE DEF r
<1> QED  BY <1>2, <1>3, <1>4, SessionMoves

(* A request that ends without a write: nothing but its session moves. *)
LEMMA EndsQuietly ==
  ASSUME ReleaseInv, NEW p \in Sessions, Goes(p, Idle),
         lock' = IF lock = p THEN NoOne ELSE lock,
         UNCHANGED <<config, versions, active, events, quality, answers>>
  PROVE  ReleaseInv'
<1>1. Sound(Idle)
  BY IdleRequest DEF Sound
<1>2. lock = p <=> session[p].at \in {"activate", "checked"}
  BY DEF ReleaseInv, TypeOK
<1> QED  BY <1>1, <1>2, IdleRequest, SessionMoves

LEMMA ActivateCheckStep ==
  ASSUME ReleaseInv, NEW p \in Sessions, ActivateCheck(p)
  PROVE  ReleaseInv'
<1>1. session[p] \in Requests /\ session[p].at = "activate" /\ lock = p /\ Sound(session[p])
  BY DEF ActivateCheck, At, ReleaseInv, TypeOK, RequestInv
<1>2. CASE Invalid(session[p].version)
  BY <1>1, <1>2, EndsQuietly DEF ActivateCheck
<1>3. CASE ~Invalid(session[p].version)
  <2> DEFINE r == [session[p] EXCEPT !.at = "checked"]
  <2>1. session[p] \in [at : {"activate", "checked"}, version : Nat, previous : Nat]
    BY <1>1, RequestShape
  <2>2. /\ r \in Requests /\ r.at = "checked"
        /\ r.version = session[p].version /\ r.previous = session[p].previous
    BY <2>1 DEF Requests
  <2>3. Sound(r)
    BY <1>1, <2>2 DEF Sound
  <2>4. Goes(p, r) /\ lock' = lock /\ UNCHANGED <<config, versions, active, events, quality, answers>>
    BY <1>3 DEF ActivateCheck
  <2> HIDE DEF r
  <2> QED  BY <1>1, <2>2, <2>3, <2>4, SessionMoves
<1> QED  BY <1>2, <1>3

LEMMA QueryStartStep ==
  ASSUME ReleaseInv, NEW p \in Sessions, QueryStart(p)
  PROVE  ReleaseInv'
<1> DEFINE r == [at |-> "query", version |-> active]
<1>1. active \in Nat /\ active \in DOMAIN versions
  BY DEF QueryStart, ReleaseInv, TypeOK, RowsOK
<1>2. r \in Requests /\ r.at = "query"
  BY <1>1 DEF Requests
<1>3. Sound(r)
  BY <1>1, <1>2 DEF Sound
<1>4. Goes(p, r) /\ session[p].at = "idle" /\ lock' = lock
      /\ UNCHANGED <<config, versions, active, events, quality, answers>>
  BY DEF QueryStart, At
<1> HIDE DEF r
<1> QED  BY <1>2, <1>3, <1>4, SessionMoves

LEMMA DatasetReadStep ==
  ASSUME ReleaseInv, NEW p \in Sessions, NEW content \in DatasetMenu, DatasetRead(p, content)
  PROVE  ReleaseInv'
<1> DEFINE r == [at |-> "dataset", number |-> Len(datasets) + 1, content |-> content]
<1>1. Len(datasets) + 1 \in Nat /\ content \in SUBSET Items
  BY ReleaseAssumption DEF ReleaseInv, TypeOK, QualityOK
<1>2. r \in Requests /\ r.at = "dataset"
  BY <1>1 DEF Requests
<1>3. Sound(r)
  BY <1>2 DEF Sound
<1>4. Goes(p, r) /\ session[p].at = "idle" /\ lock' = lock
      /\ UNCHANGED <<config, versions, active, events, quality, answers>>
  BY DEF DatasetRead, At
<1> HIDE DEF r
<1> QED  BY <1>2, <1>3, <1>4, SessionMoves

LEMMA EvalStartStep ==
  ASSUME ReleaseInv, NEW p \in Sessions, NEW d \in DOMAIN datasets, NEW v \in DOMAIN versions, EvalStart(p, d, v)
  PROVE  ReleaseInv'
<1> DEFINE r == [at |-> "evaluate", dataset |-> d, version |-> v, results |-> {}]
<1>1. d \in Nat /\ v \in Nat
  BY DEF ReleaseInv, TypeOK, RowsOK, QualityOK
<1>2. r \in Requests /\ r.at = "evaluate"
  BY <1>1 DEF Requests
<1>3. Sound(r)
  BY <1>2 DEF Sound
<1>4. Goes(p, r) /\ session[p].at = "idle" /\ lock' = lock
      /\ UNCHANGED <<config, versions, active, events, quality, answers>>
  BY DEF EvalStart, At
<1> HIDE DEF r
<1> QED  BY <1>2, <1>3, <1>4, SessionMoves

(* A version that is answered at all is answered under the policy it names. *)
LEMMA ResolvesPinned ==
  ASSUME ReleaseInv, NEW v \in DOMAIN versions, Resolved(v) # 0
  PROVE  Resolved(v) = versions[v].asks.policy /\ Resolved(v) \in Nat
<1>1. versions[v].asks.policy # 0
  BY DEF ReleaseInv, PolicyInv
<1>2. versions[v].asks.policy \in Nat
  <2>1. versions \in Seq(VersionRows)
    BY DEF ReleaseInv, TypeOK, RowsOK, VersionRows
  <2>2. versions[v] \in VersionRows
    BY <2>1
  <2> QED  BY <2>2 DEF VersionRows, Drafts
<1> QED  BY <1>1, <1>2 DEF Resolved

LEMMA EvalItemStep ==
  ASSUME ReleaseInv, NEW p \in Sessions, NEW i \in Items, NEW o \in ObservationMenu, EvalItem(p, i, o)
  PROVE  ReleaseInv'
<1> DEFINE v == session[p].version
           x == [item |-> i, version |-> v, policy |-> Resolved(v), seen |-> o]
           r == [session[p] EXCEPT !.results = @ \cup {x}]
<1>1. session[p] \in Requests /\ session[p].at = "evaluate" /\ Sound(session[p])
  BY DEF EvalItem, At, ReleaseInv, TypeOK, RequestInv
<1>2. session[p] \in [at : {"evaluate"}, dataset : Nat, version : Nat, results : SUBSET Results]
  BY <1>1, RequestShape
<1>3. v \in Nat /\ v \in DOMAIN versions /\ Resolved(v) # 0
  BY <1>1, <1>2 DEF Sound, EvalItem
<1>4. Resolved(v) = versions[v].asks.policy /\ Resolved(v) \in Nat
  BY <1>3, ResolvesPinned
<1>5. x \in Results /\ x.item = i /\ x.version = v /\ x.policy = Resolved(v)
  BY <1>3, <1>4 DEF Results
<1>6. Pinned(x)
  BY <1>3, <1>4, <1>5 DEF Pinned
<1>7. i \in datasets[session[p].dataset] /\ \A y \in session[p].results : y.item # i
  BY DEF EvalItem, NextItem, Unevaluated
<1>8. Goes(p, r) /\ lock' = lock /\ UNCHANGED <<config, versions, active, events, quality, answers>>
  BY DEF EvalItem
<1> HIDE DEF x
<1>9. /\ r \in Requests /\ r.at = "evaluate" /\ r.version = v /\ r.dataset = session[p].dataset
      /\ r.results = session[p].results \cup {x}
  BY <1>2, <1>5 DEF Requests
<1> HIDE DEF r
<1>10. \A y \in r.results : Pinned(y) /\ y.item \in datasets[r.dataset] /\ y.version = r.version
  BY <1>1, <1>5, <1>6, <1>7, <1>9 DEF Sound
<1>11. \A y, z \in r.results : y.item = z.item => y = z
  BY <1>1, <1>5, <1>7, <1>9 DEF Sound
<1>12. Sound(r)
  BY <1>1, <1>9, <1>10, <1>11 DEF Sound
<1> QED  BY <1>1, <1>8, <1>9, <1>12, SessionMoves

-----------------------------------------------------------------------------
(* The requests that write: a row is added or changed, the asks of the     *)
(* existing versions and the existing datasets stay, and the session ends. *)
LEMMA WriterEnds ==
  ASSUME ReleaseInv, NEW p \in Sessions, Goes(p, Idle),
         lock' = IF lock = p THEN NoOne ELSE lock,
         \A v \in DOMAIN versions : v \in DOMAIN versions' /\ versions'[v].asks = versions[v].asks,
         \A d \in DOMAIN datasets : d \in DOMAIN datasets' /\ datasets'[d] = datasets[d],
         active' = active \/ lock = p
  PROVE  /\ RequestInv'
         /\ session' \in [Sessions -> Requests]
         /\ \A q \in Sessions : lock' = q <=> session'[q].at \in {"activate", "checked"}
         /\ lock' \in Sessions \cup {NoOne}
<1> USE DEF ReleaseInv
<1>1. /\ session' \in [Sessions -> Requests] /\ session'[p] = Idle
      /\ \A q \in Sessions : q # p => session'[q] = session[q]
  BY IdleRequest, GoesTo DEF TypeOK
<1>2. \A q \in Sessions : lock' = q <=> session'[q].at \in {"activate", "checked"}
  BY <1>1, IdleRequest, ReleaseAssumption DEF TypeOK
<1>3. lock' \in Sessions \cup {NoOne}
  BY DEF TypeOK, RowsOK
<1>4. RequestInv'
  <2> SUFFICES ASSUME NEW q \in Sessions PROVE Sound(session[q])'
    BY DEF RequestInv
  <2>1. CASE q = p
    BY <1>1, <2>1, IdleRequest DEF Sound
  <2>2. CASE q # p
    <3>1. session[q].at \in {"activate", "checked"} => active' = active
      BY <2>2 DEF TypeOK
    <3> QED  BY <1>1, <2>2, <3>1, SoundStays
  <2> QED  BY <2>1, <2>2
<1> QED  BY <1>1, <1>2, <1>3, <1>4

(* A row is appended to a sequence of rows. *)
LEMMA RowAdded ==
  ASSUME NEW S, NEW s \in Seq(S), NEW e \in S
  PROVE  /\ Append(s, e) \in Seq(S)
         /\ DOMAIN s = 1..Len(s) /\ Len(s) \in Nat
         /\ DOMAIN Append(s, e) = 1..(Len(s) + 1) /\ Len(Append(s, e)) = Len(s) + 1
         /\ \A k \in DOMAIN s : k \in DOMAIN Append(s, e) /\ Append(s, e)[k] = s[k]
         /\ Append(s, e)[Len(s) + 1] = e
         /\ \A k \in DOMAIN Append(s, e) : k = Len(s) + 1 \/ k \in DOMAIN s
OBVIOUS

LEMMA DraftInsertStep ==
  ASSUME ReleaseInv, NEW p \in Sessions, DraftInsert(p)
  PROVE  ReleaseInv'
<1> DEFINE row == [asks |-> session[p].draft, state |-> "draft", errors |-> FALSE]
<1>1. session[p] \in Requests /\ session[p].at = "draft" /\ Sound(session[p]) /\ lock # p
  BY DEF DraftInsert, At, ReleaseInv, TypeOK, RequestInv
<1>2. UNCHANGED <<config, active, lock, events, quality, answers>> /\ Goes(p, Idle)
  BY DEF DraftInsert
<1>3. CASE versions' = versions
  BY <1>1, <1>2, <1>3, EndsQuietly
<1>4. CASE versions' = Append(versions, row)
  <2> USE DEF ReleaseInv
  <2>1. session[p] \in [at : {"draft"}, number : Nat, draft : Drafts] /\ session[p].draft.policy # 0
    BY <1>1, RequestShape DEF Sound
  <2>2. row \in VersionRows /\ row.asks.policy # 0
    BY <2>1 DEF VersionRows
  <2> HIDE DEF row
  <2>3. versions \in Seq(VersionRows)
    BY DEF TypeOK, RowsOK, VersionRows
  <2>4. /\ versions' \in Seq(VersionRows)
        /\ Len(versions) \in Nat /\ Len(versions') = Len(versions) + 1
        /\ \A k \in DOMAIN versions : k \in DOMAIN versions' /\ versions'[k] = versions[k]
        /\ \A k \in DOMAIN versions' : versions'[k] = row \/ k \in DOMAIN versions
    BY <1>4, <2>2, <2>3, RowAdded
  <2>5. UNCHANGED <<datasets, runs, gates, overrides>>
    BY <1>2 DEF quality
  <2>6. /\ RequestInv' /\ session' \in [Sessions -> Requests] /\ lock' \in Sessions \cup {NoOne}
        /\ \A q \in Sessions : lock' = q <=> session'[q].at \in {"activate", "checked"}
    BY <1>1, <1>2, <2>4, <2>5, WriterEnds
  <2>7. TypeOK'
    <3>1. ConfigOK'
      BY <1>2 DEF TypeOK, ConfigOK, config
    <3>2. RowsOK'
      <4>1. active' \in 0..Len(versions')
        BY <1>2, <2>4 DEF TypeOK, RowsOK
      <4> QED  BY <1>2, <2>4, <2>6, <4>1 DEF TypeOK, RowsOK, VersionRows
    <3>3. QualityOK'
      BY <1>2, <2>5 DEF TypeOK, QualityOK
    <3> QED  BY <2>6, <3>1, <3>2, <3>3 DEF TypeOK
  <2>8. PolicyInv'
    <3>1. \A v \in DOMAIN versions' : versions'[v].asks.policy # 0
      BY <2>2, <2>4 DEF PolicyInv
    <3> QED  BY <1>2, <3>1 DEF PolicyInv, IsDefault, Retrieval, config
  <2>9. HistoryInv'
    BY <1>2, <2>4, <2>5 DEF HistoryInv, Pinned
  <2>10. RunsAreWhole' /\ ActivationsChain'
    BY <1>2, <2>5 DEF RunsAreWhole, ActivationsChain
  <2> QED  BY <2>6, <2>7, <2>8, <2>9, <2>10
<1> QED  BY <1>3, <1>4 DEF DraftInsert

LEMMA VersionRow ==
  ASSUME ReleaseInv, NEW v \in DOMAIN versions
  PROVE  versions[v] \in VersionRows
<1>1. versions \in Seq(VersionRows)
  BY DEF ReleaseInv, TypeOK, RowsOK, VersionRows
<1> QED  BY <1>1

(* A version row changes, what it asks for stays. *)
LEMMA RowChanged ==
  ASSUME ReleaseInv, NEW v \in DOMAIN versions, NEW row \in VersionRows,
         row.asks = versions[v].asks, versions' = [versions EXCEPT ![v] = row]
  PROVE  /\ versions' \in Seq(VersionRows) /\ Len(versions') = Len(versions)
         /\ DOMAIN versions' = DOMAIN versions
         /\ \A k \in DOMAIN versions : versions'[k].asks = versions[k].asks
<1>1. versions \in Seq(VersionRows)
  BY DEF ReleaseInv, TypeOK, RowsOK, VersionRows
<1> QED  BY <1>1

LEMMA ValidateWriteStep ==
  ASSUME ReleaseInv, NEW p \in Sessions, ValidateWrite(p)
  PROVE  ReleaseInv'
<1> DEFINE v == session[p].version
           row == [versions[v] EXCEPT !.errors = Invalid(v)]
<1>1. session[p] \in Requests /\ session[p].at = "validate" /\ Sound(session[p]) /\ lock # p
  BY DEF ValidateWrite, At, ReleaseInv, TypeOK, RequestInv
<1>2. UNCHANGED <<config, active, lock, events, quality, answers>> /\ Goes(p, Idle)
  BY DEF ValidateWrite
<1>3. CASE versions' = versions
  BY <1>1, <1>2, <1>3, EndsQuietly
<1>4. CASE versions' = [versions EXCEPT ![v].errors = Invalid(v)]
  <2> USE DEF ReleaseInv
  <2>1. v \in DOMAIN versions
    BY <1>1 DEF Sound
  <2>2. Invalid(v) \in BOOLEAN
    BY DEF Invalid
  <2>3. versions[v] \in VersionRows
    BY <2>1, VersionRow
  <2>4. row \in VersionRows /\ row.asks = versions[v].asks
    BY <2>2, <2>3 DEF VersionRows
  <2>5. versions' = [versions EXCEPT ![v] = row]
    BY <1>4, <2>1
  <2> HIDE DEF row, v
  <2>6. /\ versions' \in Seq(VersionRows) /\ Len(versions') = Len(versions)
        /\ DOMAIN versions' = DOMAIN versions
        /\ \A k \in DOMAIN versions : versions'[k].asks = versions[k].asks
    BY <2>1, <2>4, <2>5, RowChanged
  <2>7. UNCHANGED <<datasets, runs, gates, overrides>>
    BY <1>2 DEF quality
  <2>8. /\ RequestInv' /\ session' \in [Sessions -> Requests] /\ lock' \in Sessions \cup {NoOne}
        /\ \A q \in Sessions : lock' = q <=> session'[q].at \in {"activate", "checked"}
    BY <1>1, <1>2, <2>6, <2>7, WriterEnds
  <2>9. TypeOK'
    <3>1. ConfigOK'
      BY <1>2 DEF TypeOK, ConfigOK, config
    <3>2. RowsOK'
      BY <1>2, <2>6, <2>8 DEF TypeOK, RowsOK, VersionRows
    <3>3. QualityOK'
      BY <1>2, <2>7 DEF TypeOK, QualityOK
    <3> QED  BY <2>8, <3>1, <3>2, <3>3 DEF TypeOK
  <2>10. PolicyInv'
    BY <1>2, <2>6 DEF PolicyInv, IsDefault, Retrieval, config
  <2>11. HistoryInv'
    BY <1>2, <2>6, <2>7 DEF HistoryInv, Pinned
  <2>12. RunsAreWhole' /\ ActivationsChain'
    BY <1>2, <2>7 DEF RunsAreWhole, ActivationsChain
  <2> QED  BY <2>8, <2>9, <2>10, <2>11, <2>12
<1> QED  BY <1>3, <1>4 DEF ValidateWrite

(* The lock makes the version that is replaced the one the trail ends with. *)
LEMMA ActivateCommitStep ==
  ASSUME ReleaseInv, NEW p \in Sessions, ActivateCommit(p)
  PROVE  ReleaseInv'
<1> DEFINE v == session[p].version
           row == [[versions[v] EXCEPT !.errors = @ /\ versions[v].state # "draft"] EXCEPT !.state = "active"]
           event == [previous |-> session[p].previous, new |-> v]
<1> USE DEF ReleaseInv
<1>1. session[p] \in Requests /\ session[p].at = "checked" /\ Sound(session[p]) /\ lock = p
  BY DEF ActivateCommit, At, TypeOK, RequestInv
<1>2. UNCHANGED <<config, quality, answers>> /\ Goes(p, Idle) /\ lock' = NoOne /\ active' = v
  BY DEF ActivateCommit
<1>3. events' = Append(events, event)
  BY DEF ActivateCommit
<1>4. v \in DOMAIN versions /\ session[p].previous = active
  BY <1>1 DEF Sound
<1>5. /\ versions' \in Seq(VersionRows) /\ Len(versions') = Len(versions)
      /\ DOMAIN versions' = DOMAIN versions
      /\ \A k \in DOMAIN versions : versions'[k].asks = versions[k].asks
  <2>1. versions[v] \in VersionRows
    BY <1>4, VersionRow
  <2>2. (versions[v].errors /\ versions[v].state # "draft") \in BOOLEAN
    OBVIOUS
  <2>3. row \in VersionRows /\ row.asks = versions[v].asks
    BY <2>1, <2>2 DEF VersionRows
  <2>4. versions' = [versions EXCEPT ![v] = row]
    BY <1>4 DEF ActivateCommit
  <2> HIDE DEF row, v
  <2> QED  BY <1>4, <2>3, <2>4, RowChanged
<1>6. UNCHANGED <<datasets, runs, gates, overrides>>
  BY <1>2 DEF quality
<1>7. /\ RequestInv' /\ session' \in [Sessions -> Requests] /\ lock' \in Sessions \cup {NoOne}
      /\ \A q \in Sessions : lock' = q <=> session'[q].at \in {"activate", "checked"}
  BY <1>1, <1>2, <1>5, <1>6, WriterEnds
<1>8. event \in EventRows /\ event.previous = active /\ event.new = v /\ v \in Nat
  BY <1>4 DEF EventRows, TypeOK, RowsOK
<1>9. events \in Seq(EventRows)
  BY DEF TypeOK, RowsOK, EventRows
<1> HIDE DEF event, v
<1>10. /\ events' \in Seq(EventRows) /\ Len(events) \in Nat /\ Len(events') = Len(events) + 1
       /\ DOMAIN events = 1..Len(events) /\ DOMAIN events' = 1..(Len(events) + 1)
       /\ \A k \in DOMAIN events : events'[k] = events[k]
       /\ events'[Len(events) + 1] = event
  BY <1>3, <1>8, <1>9, RowAdded
<1>11. TypeOK'
  <2>1. ConfigOK'
    BY <1>2 DEF TypeOK, ConfigOK, config
  <2>2. active' \in 0..Len(versions')
    BY <1>2, <1>4, <1>5 DEF TypeOK, RowsOK
  <2>3. RowsOK'
    BY <1>5, <1>7, <1>10, <2>2 DEF RowsOK, VersionRows, EventRows
  <2>4. QualityOK'
    BY <1>2, <1>6 DEF TypeOK, QualityOK
  <2> QED  BY <1>7, <2>1, <2>3, <2>4 DEF TypeOK
<1>12. PolicyInv'
  BY <1>2, <1>5 DEF PolicyInv, IsDefault, Retrieval, config
<1>13. HistoryInv' /\ RunsAreWhole'
  BY <1>2, <1>5, <1>6 DEF HistoryInv, Pinned, RunsAreWhole
<1>14. ActivationsChain'
  <2>1. active' = events'[Len(events')].new /\ events' # <<>>
    BY <1>2, <1>8, <1>10
  <2>2. ASSUME NEW i \in DOMAIN events'
        PROVE  events'[i].previous = IF i = 1 THEN 0 ELSE events'[i - 1].new
    <3>1. CASE i \in DOMAIN events
      BY <1>10, <3>1 DEF ActivationsChain
    <3>2. CASE i = Len(events) + 1
      <4>1. CASE events = <<>>
        BY <1>8, <1>10, <3>2, <4>1 DEF ActivationsChain
      <4>2. CASE events # <<>>
        <5>1. Len(events) # 0
          BY <1>9, <4>2
        <5>2. active = events[Len(events)].new
          BY <4>2 DEF ActivationsChain
        <5> QED  BY <1>8, <1>10, <3>2, <5>1, <5>2
      <4> QED  BY <4>1, <4>2
    <3> QED  BY <1>10, <3>1, <3>2
  <2> QED  BY <2>1, <2>2 DEF ActivationsChain
<1> QED  BY <1>7, <1>11, <1>12, <1>13, <1>14

LEMMA QueryFinishStep ==
  ASSUME ReleaseInv, NEW p \in Sessions, QueryFinish(p)
  PROVE  ReleaseInv'
<1> DEFINE v == session[p].version
           a == [version |-> v, policy |-> Resolved(v)]
<1>1. session[p] \in Requests /\ session[p].at = "query" /\ Sound(session[p]) /\ lock # p
  BY DEF QueryFinish, At, ReleaseInv, TypeOK, RequestInv
<1>2. UNCHANGED <<config, versions, active, lock, events, quality>> /\ Goes(p, Idle)
  BY DEF QueryFinish
<1>3. CASE answers' = answers
  BY <1>1, <1>2, <1>3, EndsQuietly
<1>4. CASE answers' = answers \cup {a} /\ Resolved(v) # 0
  <2> USE DEF ReleaseInv
  <2>1. v \in DOMAIN versions /\ v \in Nat
    BY <1>1 DEF Sound, TypeOK, RowsOK
  <2>2. Resolved(v) = versions[v].asks.policy /\ Resolved(v) \in Nat
    BY <1>4, <2>1, ResolvesPinned
  <2>3. a \in [version : Nat, policy : Nat] /\ Pinned(a)
    BY <2>1, <2>2 DEF Pinned
  <2> HIDE DEF a
  <2>4. UNCHANGED <<datasets, runs, gates, overrides>>
    BY <1>2 DEF quality
  <2>5. /\ RequestInv' /\ session' \in [Sessions -> Requests] /\ lock' \in Sessions \cup {NoOne}
        /\ \A q \in Sessions : lock' = q <=> session'[q].at \in {"activate", "checked"}
    BY <1>1, <1>2, <2>4, WriterEnds
  <2>6. TypeOK'
    <3>1. ConfigOK'
      BY <1>2 DEF TypeOK, ConfigOK, config
    <3>2. RowsOK'
      BY <1>2 DEF TypeOK, RowsOK
    <3>3. QualityOK'
      BY <1>4, <2>3, <2>4 DEF TypeOK, QualityOK
    <3> QED  BY <2>5, <3>1, <3>2, <3>3 DEF TypeOK
  <2>7. PolicyInv'
    BY <1>2 DEF PolicyInv, IsDefault, Retrieval, config
  <2>8. HistoryInv'
    BY <1>2, <1>4, <2>3, <2>4 DEF HistoryInv, Pinned
  <2>9. RunsAreWhole' /\ ActivationsChain'
    BY <1>2, <2>4 DEF RunsAreWhole, ActivationsChain
  <2> QED  BY <2>5, <2>6, <2>7, <2>8, <2>9
<1> QED  BY <1>3, <1>4 DEF QueryFinish

LEMMA DatasetInsertStep ==
  ASSUME ReleaseInv, NEW p \in Sessions, DatasetInsert(p)
  PROVE  ReleaseInv'
<1>1. session[p] \in Requests /\ session[p].at = "dataset" /\ lock # p
  BY DEF DatasetInsert, At, ReleaseInv, TypeOK
<1>2. UNCHANGED <<config, versions, active, lock, events, runs, gates, overrides, answers>> /\ Goes(p, Idle)
  BY DEF DatasetInsert
<1>3. CASE datasets' = datasets
  BY <1>1, <1>2, <1>3, EndsQuietly DEF quality
<1>4. CASE datasets' = Append(datasets, session[p].content)
  <2> USE DEF ReleaseInv
  <2>1. session[p] \in [at : {"dataset"}, number : Nat, content : SUBSET Items]
    BY <1>1, RequestShape
  <2>2. session[p].content \in SUBSET Items /\ datasets \in Seq(SUBSET Items)
    BY <2>1 DEF TypeOK, QualityOK
  <2>3. /\ datasets' \in Seq(SUBSET Items)
        /\ \A d \in DOMAIN datasets : d \in DOMAIN datasets' /\ datasets'[d] = datasets[d]
    BY <1>4, <2>2, RowAdded
  <2>4. /\ RequestInv' /\ session' \in [Sessions -> Requests] /\ lock' \in Sessions \cup {NoOne}
        /\ \A q \in Sessions : lock' = q <=> session'[q].at \in {"activate", "checked"}
    BY <1>1, <1>2, <2>3, WriterEnds
  <2>5. TypeOK'
    <3>1. ConfigOK'
      BY <1>2 DEF TypeOK, ConfigOK, config
    <3>2. RowsOK'
      BY <1>2 DEF TypeOK, RowsOK
    <3>3. QualityOK'
      BY <1>2, <2>3 DEF TypeOK, QualityOK
    <3> QED  BY <2>4, <3>1, <3>2, <3>3 DEF TypeOK
  <2>6. PolicyInv'
    BY <1>2 DEF PolicyInv, IsDefault, Retrieval, config
  <2>7. HistoryInv'
    BY <1>2, <2>3 DEF HistoryInv, Pinned
  <2>8. RunsAreWhole'
    <3>1. \A r \in DOMAIN runs : datasets'[runs[r].dataset] = datasets[runs[r].dataset]
      BY <2>3 DEF HistoryInv
    <3> QED  BY <1>2, <3>1 DEF RunsAreWhole
  <2>9. ActivationsChain'
    BY <1>2 DEF ActivationsChain
  <2> QED  BY <2>4, <2>5, <2>6, <2>7, <2>8, <2>9
<1> QED  BY <1>3, <1>4 DEF DatasetInsert

(* An unfinished run that has nothing left to measure is whole. *)
LEMMA EvalCommitStep ==
  ASSUME ReleaseInv, NEW p \in Sessions, EvalCommit(p)
  PROVE  ReleaseInv'
<1> DEFINE run == [dataset |-> session[p].dataset, version |-> session[p].version,
                   results |-> session[p].results]
<1> USE DEF ReleaseInv
<1>1. session[p] \in Requests /\ session[p].at = "evaluate" /\ Sound(session[p]) /\ lock # p
  BY DEF EvalCommit, At, TypeOK, RequestInv
<1>2. UNCHANGED <<config, versions, active, lock, events, datasets, gates, overrides, answers>> /\ Goes(p, Idle)
  BY DEF EvalCommit
<1>3. runs' = Append(runs, run)
  BY DEF EvalCommit
<1>4. session[p] \in [at : {"evaluate"}, dataset : Nat, version : Nat, results : SUBSET Results]
  BY <1>1, RequestShape
<1>5. run \in RunRows /\ run.dataset \in DOMAIN datasets
  BY <1>1, <1>4 DEF RunRows, Sound
<1>6. {x.item : x \in run.results} = datasets[run.dataset]
  <2>1. datasets[session[p].dataset] \subseteq {x.item : x \in session[p].results}
    BY DEF EvalCommit, Unevaluated
  <2>2. {x.item : x \in session[p].results} \subseteq datasets[session[p].dataset]
    BY <1>1 DEF Sound
  <2> QED  BY <2>1, <2>2
<1>7. /\ \A x \in run.results : Pinned(x) /\ x.version = run.version
      /\ \A x, y \in run.results : x.item = y.item => x = y
  BY <1>1 DEF Sound
<1> HIDE DEF run
<1>8. runs \in Seq(RunRows)
  BY DEF TypeOK, QualityOK, RunRows
<1>9. /\ runs' \in Seq(RunRows)
      /\ \A r \in DOMAIN runs : runs'[r] = runs[r]
      /\ \A r \in DOMAIN runs' : runs'[r] = run \/ r \in DOMAIN runs
  BY <1>3, <1>5, <1>8, RowAdded
<1>10. /\ RequestInv' /\ session' \in [Sessions -> Requests] /\ lock' \in Sessions \cup {NoOne}
       /\ \A q \in Sessions : lock' = q <=> session'[q].at \in {"activate", "checked"}
  BY <1>1, <1>2, WriterEnds
<1>11. TypeOK'
  <2>1. ConfigOK'
    BY <1>2 DEF TypeOK, ConfigOK, config
  <2>2. RowsOK'
    BY <1>2 DEF TypeOK, RowsOK
  <2>3. QualityOK'
    BY <1>2, <1>9 DEF TypeOK, QualityOK, RunRows
  <2> QED  BY <1>10, <2>1, <2>2, <2>3 DEF TypeOK
<1>12. PolicyInv' /\ ActivationsChain'
  BY <1>2 DEF PolicyInv, IsDefault, Retrieval, config, ActivationsChain
<1>13. HistoryInv'
  BY <1>2, <1>5, <1>7, <1>9 DEF HistoryInv, Pinned
<1>14. RunsAreWhole'
  <2> SUFFICES ASSUME NEW r \in DOMAIN runs'
               PROVE  /\ {x.item : x \in runs'[r].results} = datasets'[runs'[r].dataset]
                      /\ \A x, y \in runs'[r].results : x.item = y.item => x = y
                      /\ \A x \in runs'[r].results : x.version = runs'[r].version
    BY DEF RunsAreWhole
  <2>1. CASE runs'[r] = run
    BY <1>2, <1>6, <1>7, <2>1
  <2>2. CASE r \in DOMAIN runs
    BY <1>2, <1>9, <2>2 DEF RunsAreWhole
  <2> QED  BY <1>9, <2>1, <2>2
<1> QED  BY <1>10, <1>11, <1>12, <1>13, <1>14

LEMMA RollBackStep ==
  ASSUME ReleaseInv, NEW p \in Sessions, RollBack(p)
  PROVE  ReleaseInv'
BY EndsQuietly DEF RollBack
-----------------------------------------------------------------------------
LEMMA ReleaseStep == ReleaseInv /\ [Next]_vars => ReleaseInv'
<1> SUFFICES ASSUME ReleaseInv, [Next]_vars PROVE ReleaseInv'
  OBVIOUS
<1>1. CASE Configure \/ Judge
  BY <1>1, ConfigureStep, JudgeStep
<1>2. ASSUME NEW p \in Sessions, Release(p) PROVE ReleaseInv'
  BY <1>2, DraftReadStep, DraftInsertStep, ValidateReadStep, ValidateWriteStep, ActivateLockStep,
     ActivateCheckStep, ActivateCommitStep, RollBackStep DEF Release
<1>3. ASSUME NEW p \in Sessions, Ask(p) PROVE ReleaseInv'
  BY <1>3, QueryStartStep, QueryFinishStep DEF Ask
<1>4. ASSUME NEW p \in Sessions, Evaluate(p) PROVE ReleaseInv'
  BY <1>4, DatasetReadStep, DatasetInsertStep, EvalStartStep, EvalItemStep, EvalCommitStep DEF Evaluate
<1>5. CASE UNCHANGED vars
  <2>1. /\ UNCHANGED <<space, policies, profile, binding, changes, versions, active, lock, events>>
        /\ UNCHANGED <<datasets, runs, gates, overrides, answers, session>>
    BY <1>5 DEF vars, config, quality
  <2>2. TypeOK'
    BY <2>1 DEF ReleaseInv, TypeOK, ConfigOK, RowsOK, QualityOK
  <2>3. PolicyInv' /\ HistoryInv' /\ RequestInv'
    BY <2>1 DEF ReleaseInv, PolicyInv, IsDefault, Retrieval, HistoryInv, RequestInv, Sound, Pinned
  <2>4. RunsAreWhole' /\ ActivationsChain'
    BY <2>1 DEF ReleaseInv, RunsAreWhole, ActivationsChain
  <2> QED  BY <2>2, <2>3, <2>4 DEF ReleaseInv
<1> QED  BY <1>1, <1>2, <1>3, <1>4, <1>5 DEF Next

(* The inductive invariant of the release of an assistant. *)
THEOREM ReleaseInvariant == Spec => []ReleaseInv
<1>1. Init => ReleaseInv
  BY InitRelease
<1>2. ReleaseInv /\ [Next]_vars => ReleaseInv'
  BY ReleaseStep
<1> QED  BY <1>1, <1>2, PTL DEF Spec

(* The rows and the requests keep their types, and the assistant row is    *)
(* locked exactly while a session activates a version.                     *)
THEOREM ReleaseTypeCorrect == Spec => []TypeOK
<1>1. ReleaseInv => TypeOK
  BY DEF ReleaseInv
<1> QED  BY <1>1, ReleaseInvariant, PTL

(* However many administrators activate and roll back at once, the audit   *)
(* events of activate form one chain that ends in the active version.      *)
THEOREM ActivationTrail == Spec => []ActivationsChain
<1>1. ReleaseInv => ActivationsChain
  BY DEF ReleaseInv
<1> QED  BY <1>1, ReleaseInvariant, PTL

(* The policy create_draft pins is the only one a version ever answers     *)
(* under, in queries and in evaluations.                                   *)
THEOREM PolicyPinned == Spec => []OnePolicyPerVersion
<1>1. ReleaseInv => OnePolicyPerVersion
  <2> SUFFICES ASSUME HistoryInv PROVE OnePolicyPerVersion
    BY DEF ReleaseInv
  <2> DEFINE evaluated == UNION {runs[r].results : r \in DOMAIN runs}
             used == answers \cup {[version |-> x.version, policy |-> x.policy] : x \in evaluated}
  <2>1. \A x \in evaluated : Pinned(x)
    BY DEF HistoryInv
  <2>2. \A a \in used : a.policy = versions[a.version].asks.policy
    BY <2>1 DEF HistoryInv, Pinned
  <2> QED  BY <2>2 DEF OnePolicyPerVersion
<1> QED  BY <1>1, ReleaseInvariant, PTL

(* A committed evaluation run is complete, without repetition and about    *)
(* one version, whatever was activated while it ran.                       *)
THEOREM WholeRuns == Spec => []RunsAreWhole
<1>1. ReleaseInv => RunsAreWhole
  BY DEF ReleaseInv
<1> QED  BY <1>1, ReleaseInvariant, PTL

(* The observation of one result cites nothing outside the expected scope. *)
Contained(x) ==
  ExpectedSources[x.item] = {} \/ x.seen.cited \subseteq ExpectedSources[x.item]

(* access_control is all or nothing for one item. *)
LEMMA ContainedMeasure ==
  ASSUME NEW metric, metric = "access_control", NEW x
  PROVE  Measure(metric, x.item, x.seen) = IF Contained(x) THEN Scale ELSE 0
BY DEF Measure, AccessControl, Contained

(* The sum Passes compares. *)
Total(metric, R) == MapThenSumSet(LAMBDA x : Measure(metric, x.item, x.seen), R)

(* For access_control it counts the contained results.  The fold is a      *)
(* recursive function, that is a CHOOSE of a fixed point: count is one, so *)
(* the chosen one satisfies the equation, and a smallest set where the two *)
(* differ cannot exist.                                                    *)
LEMMA TotalAccess ==
  ASSUME NEW metric, metric = "access_control", NEW R, IsFiniteSet(R)
  PROVE  Total(metric, R) = Scale * Cardinality({x \in R : Contained(x)})
<1> DEFINE pick(s) == CHOOSE x \in s : TRUE
           m(x) == Measure(metric, x.item, x.seen)
           step(g) == [s \in SUBSET R |-> IF s = {} THEN 0 ELSE m(pick(s)) + g[s \ {pick(s)}]]
           iter == CHOOSE g : g = step(g)
           count == [s \in SUBSET R |-> Scale * Cardinality({x \in s : Contained(x)})]
<1>1. Total(metric, R) = iter[R]
  BY DEF Total, MapThenSumSet, MapThenFoldSet
<1>2. ASSUME NEW s \in SUBSET R, s # {}
      PROVE  pick(s) \in s /\ s \ {pick(s)} \in SUBSET R
  BY <1>2
<1>3. \A s \in SUBSET R : IsFiniteSet({x \in s : Contained(x)}) /\ Cardinality({x \in s : Contained(x)}) \in Nat
  <2> SUFFICES ASSUME NEW s \in SUBSET R
               PROVE  IsFiniteSet({x \in s : Contained(x)}) /\ Cardinality({x \in s : Contained(x)}) \in Nat
    OBVIOUS
  <2>1. {x \in s : Contained(x)} \in SUBSET R
    OBVIOUS
  <2> QED  BY <2>1, FS_Subset, FS_CardinalityType
<1>4. ASSUME NEW s \in SUBSET R, s # {}
      PROVE  count[s] = m(pick(s)) + count[s \ {pick(s)}]
  <2> DEFINE y == pick(s)
             in == {x \in s : Contained(x)}
             rest == {x \in s \ {y} : Contained(x)}
  <2>1. y \in s /\ s \ {y} \in SUBSET R
    BY <1>2, <1>4
  <2>2. count[s] = Scale * Cardinality(in) /\ count[s \ {y}] = Scale * Cardinality(rest)
    BY <2>1
  <2>3. m(y) = IF Contained(y) THEN Scale ELSE 0
    BY ContainedMeasure
  <2>4. IsFiniteSet(in) /\ Cardinality(in) \in Nat /\ Cardinality(rest) \in Nat
    BY <1>3, <2>1
  <2>5. rest = in \ {y} /\ (y \in in <=> Contained(y))
    BY <2>1
  <2>6. Cardinality(rest) = IF Contained(y) THEN Cardinality(in) - 1 ELSE Cardinality(in)
    <3>1. Cardinality(in \ {y}) = IF y \in in THEN Cardinality(in) - 1 ELSE Cardinality(in)
      <4> HIDE DEF y, in
      <4> QED  BY <2>4, FS_RemoveElement
    <3> HIDE DEF y, in, rest
    <3> QED  BY <2>5, <3>1
  <2> HIDE DEF y, in, rest, count, m
  <2>7. CASE Contained(y)
    <3>1. Cardinality(in) = Cardinality(rest) + 1
      BY <2>4, <2>6, <2>7
    <3>2. Scale * (Cardinality(rest) + 1) = Scale + Scale * Cardinality(rest)
      BY <2>4, ReleaseAssumption
    <3>3. count[s] = m(y) + count[s \ {y}]
      BY <2>2, <2>3, <2>7, <3>1, <3>2
    <3> QED  BY <3>3 DEF y
  <2>8. CASE ~Contained(y)
    <3>1. count[s] = m(y) + count[s \ {y}]
      BY <2>2, <2>3, <2>4, <2>6, <2>8, ReleaseAssumption
    <3> QED  BY <3>1 DEF y
  <2> QED  BY <2>7, <2>8
<1>5. count[{}] = 0
  <2>1. {x \in {} : Contained(x)} = {}
    OBVIOUS
  <2> QED  BY <2>1, FS_EmptySet, ReleaseAssumption
<1>6. count = step(count)
  <2>1. \A s \in SUBSET R : count[s] = step(count)[s]
    BY <1>4, <1>5
  <2> QED  BY <2>1
<1>7. iter = step(iter)
  BY <1>6
<1>8. ASSUME iter[R] # count[R] PROVE FALSE
  <2> HIDE DEF iter, count, pick, m
  <2> DEFINE T == {s \in SUBSET R : iter[s] # count[s]}
  <2>1. SUBSET R = FiniteSubsetsOf(R)
    BY FS_FiniteSubsetsOfFinite
  <2>2. T \subseteq FiniteSubsetsOf(R) /\ T # {}
    BY <1>8, <2>1
  <2>3. PICK s \in T : \A t \in T : ~(<<t, s>> \in StrictSubsetOrdering(R))
    BY <2>2, FS_StrictSubsetOrderingWellFounded, WFMin
  <2>4. \A t \in SUBSET R : t \subseteq s /\ t # s => iter[t] = count[t]
    BY <2>3 DEF StrictSubsetOrdering
  <2>5. CASE s = {}
    BY <1>5, <1>7, <2>3, <2>5
  <2>6. CASE s # {}
    <3>1. pick(s) \in s /\ s \ {pick(s)} \in SUBSET R
      BY <1>2, <2>6
    <3>2. iter[s \ {pick(s)}] = count[s \ {pick(s)}]
      BY <2>4, <3>1
    <3>3. iter[s] = m(pick(s)) + iter[s \ {pick(s)}]
      BY <1>7, <2>6
    <3> QED  BY <1>4, <2>3, <2>6, <3>2, <3>3
  <2> QED  BY <2>5, <2>6
<1> QED  BY <1>1, <1>8

(* No item is measured twice, so a run has finitely many results. *)
LEMMA FiniteRuns ==
  ASSUME ReleaseInv, NEW r \in DOMAIN runs
  PROVE  IsFiniteSet(runs[r].results)
<1> DEFINE R == runs[r].results
           f == [x \in R |-> x.item]
<1>1. R \subseteq Results
  <2>1. runs \in Seq(RunRows)
    BY DEF ReleaseInv, TypeOK, QualityOK, RunRows
  <2>2. runs[r] \in RunRows
    BY <2>1
  <2> QED  BY <2>2 DEF RunRows
<1>2. \A x \in R : x.item \in Items
  BY <1>1 DEF Results
<1>3. \A x, y \in R : x.item = y.item => x = y
  BY DEF ReleaseInv, RunsAreWhole
<1>4. f \in Injection(R, Items)
  BY <1>2, <1>3 DEF Injection, IsInjective
<1>5. IsFiniteSet(Items)
  BY FS_Interval, ReleaseAssumption DEF Items
<1> HIDE DEF R, f
<1>6. IsFiniteSet(R)
  BY <1>4, <1>5, FS_Injection
<1> QED  BY <1>6 DEF R

(* A mandatory gate of gate_status that asks for access_control >= 1.0     *)
(* looks at a mean, and still lets no run pass in which one answer cited a *)
(* document outside the expected scope of its item.                        *)
THEOREM EligibleContained == Spec => []EligibleRunsContained
<1>1. ReleaseInv => EligibleRunsContained
  <2> SUFFICES ASSUME ReleaseInv, NEW g \in gates, NEW r \in DOMAIN runs,
                      g.metric = "access_control", g.operator = ">=", g.threshold = Scale,
                      g.mandatory, Eligible(r), <<g, r>> \notin overrides,
                      NEW x \in runs[r].results, ExpectedSources[x.item] # {}
               PROVE  x.seen.cited \subseteq ExpectedSources[x.item]
    BY DEF EligibleRunsContained
  <2> DEFINE R == runs[r].results
             good == {y \in R : Contained(y)}
  <2>1. Passes(g, r)
    BY DEF Eligible
  <2>2. Total(g.metric, R) >= g.threshold * Cardinality(R)
    BY <2>1, Zenon DEF Passes, Total
  <2>3. IsFiniteSet(R)
    BY FiniteRuns
  <2>4. Total(g.metric, R) = Scale * Cardinality(good)
    BY <2>3, TotalAccess, Zenon
  <2>5. Scale * Cardinality(good) >= Scale * Cardinality(R)
    BY <2>2, <2>4, Zenon
  <2>6. good \in SUBSET R
    OBVIOUS
  <2>7. Cardinality(good) \in Nat /\ Cardinality(R) \in Nat /\ Cardinality(good) <= Cardinality(R)
    BY <2>3, <2>6, FS_Subset, FS_CardinalityType
  <2>8. Cardinality(R) = Cardinality(good)
    <3> HIDE DEF R, good
    <3>1. ASSUME NEW a \in Nat, NEW b \in Nat, NEW s \in Nat \ {0}, s * a >= s * b, a <= b
          PROVE  a = b
      <4>1. CASE a < b
        <5>1. PICK d \in Nat : b = a + 1 + d
          <6>1. b - a - 1 \in Nat /\ b = a + 1 + (b - a - 1)
            BY <4>1
          <6> QED  BY <6>1
        <5>2. s * b = s * a + s + s * d /\ s * d \in Nat /\ s * a \in Nat
          BY <5>1
        <5> QED  BY <3>1, <5>2
      <4> QED  BY <3>1, <4>1
    <3> QED  BY <2>5, <2>7, <3>1, ReleaseAssumption
  <2>9. good = R
    BY <2>3, <2>6, <2>8, FS_Subset
  <2> QED  BY <2>9 DEF Contained
<1> QED  BY <1>1, ReleaseInvariant, PTL
=============================================================================
