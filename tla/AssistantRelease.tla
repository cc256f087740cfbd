-------------------------- MODULE AssistantRelease --------------------------
(***************************************************************************)
(* One assistant from draft to release: its configuration versions         *)
(* (AssistantService), the policy versions and the provider profile they   *)
(* refer to (ConfigurationService), the evaluation datasets, runs, release *)
(* gates and overrides (EvaluationService), and the queries that read the  *)
(* active version.                                                         *)
(*                                                                         *)
(* Every session is one API request at a time in one transaction; requests *)
(* interleave between their statements.  Version numbers are positions of  *)
(* a sequence: UniqueConstraint(assistant_id, version) refuses a number    *)
(* that is taken.  Metric values are scaled: Scale stands for 1.0.         *)
(***************************************************************************)
EXTENDS Naturals, Sequences, FiniteSets, FiniteSetsExt

CONSTANTS
  Sessions,        \* API sessions of administrators, quality users and readers
  NoOne,           \* nobody holds the assistant row
  Spaces,          \* knowledge spaces of the tenant
  Documents,       \* documents an answer may cite
  ItemCount,       \* evaluation items are 1..ItemCount
  ExpectedSources, \* item -> expected_source_scope
  Answerable,      \* items with expected_answerability
  PolicyMenu,      \* policy versions that may be created
  DraftMenu,       \* configurations a draft may ask for; policy 0: none named
  DatasetMenu,     \* contents of dataset versions: sets of items
  ObservationMenu, \* what the runner may observe for an item
  GateMenu,        \* release gates that may be created
  Scale,           \* the metric value 1.0
  Production,      \* settings.environment = "production"
  MaxVersions,     \* bound on assistant versions
  MaxPolicies,     \* bound on policy versions
  MaxActivations,  \* bound on activations
  MaxDatasets,     \* bound on dataset versions
  MaxRuns,         \* bound on committed evaluation runs
  MaxChanges       \* bound on changes of spaces and secret bindings

Items == 1..ItemCount
Metrics == {"access_control", "refusal_correctness", "retrieval_relevance"}

ASSUME ReleaseAssumption ==
  /\ NoOne \notin Sessions
  /\ ItemCount \in Nat
  /\ ExpectedSources \in [Items -> SUBSET Documents]
  /\ Answerable \subseteq Items
  /\ PolicyMenu \subseteq [default : BOOLEAN, kind : {"retrieval", "safety"}, active : BOOLEAN]
  /\ DraftMenu \subseteq [spaces : (SUBSET Spaces) \ {{}}, policy : 0..MaxPolicies, provider : BOOLEAN]
  /\ DatasetMenu \subseteq (SUBSET Items) \ {{}}
  /\ ObservationMenu \subseteq [refused : BOOLEAN, cited : SUBSET Documents]
  /\ \A o \in ObservationMenu : o.refused => o.cited = {}
  /\ GateMenu \subseteq [metric : Metrics, operator : {">=", "<=", ">", "<"},
                         threshold : 0..Scale, mandatory : BOOLEAN]
  /\ Scale \in Nat \ {0}
  /\ \A n \in 1..Cardinality(Documents) : Scale % n = 0
  /\ Production \in BOOLEAN
  /\ MaxPolicies \in Nat /\ MaxChanges \in Nat

VARIABLES
  space,       \* space -> "active" or "archived"
  policies,    \* policy versions, oldest first
  profile,     \* the provider profile has been created
  binding,     \* its secret binding is valid
  versions,    \* assistant versions by number; empty before create_assistant
  active,      \* active_version_id, 0 is NULL
  lock,        \* session holding the assistant row FOR UPDATE, or NoOne
  events,      \* committed assistant.activate audit events
  datasets,    \* dataset versions by number: the set of their items
  runs,        \* committed evaluation runs
  gates,       \* release gates
  overrides,   \* <<gate, run>> with a recorded override
  changes,     \* changes of spaces and bindings so far
  answers,     \* what the answered queries used: [version, policy]
  session      \* session -> its request, with what it has read

config == <<space, policies, profile, binding, changes>>
quality == <<datasets, runs, gates, overrides>>
vars == <<config, versions, active, lock, events, quality, answers, session>>

Idle == [at |-> "idle"]

(* The state after bootstrap_tenant: a default retrieval policy is active. *)
Init ==
  /\ space = [s \in Spaces |-> "active"]
  /\ policies = <<[default |-> TRUE, kind |-> "retrieval", active |-> TRUE]>>
  /\ profile = FALSE /\ binding = TRUE
  /\ versions = <<>> /\ active = 0 /\ lock = NoOne /\ events = <<>>
  /\ datasets = <<>> /\ runs = <<>> /\ gates = {} /\ overrides = {}
  /\ answers = {} /\ changes = 0
  /\ session = [p \in Sessions |-> Idle]

Goes(p, request) == session' = [session EXCEPT ![p] = request]
At(p, where) == session[p].at = where

-----------------------------------------------------------------------------
(* ConfigurationService.create_policy: a new version, draft or active; no  *)
(* later operation changes it.                                             *)
CreatePolicy(record) ==
  /\ Len(policies) < MaxPolicies
  /\ policies' = Append(policies, record)
  /\ UNCHANGED <<space, profile, binding, changes, versions, active, lock, events, quality, answers, session>>

(* create_provider_profile refuses a binding that is not valid. *)
CreateProviderProfile ==
  /\ ~profile /\ binding
  /\ profile' = TRUE
  /\ UNCHANGED <<space, policies, binding, changes, versions, active, lock, events, quality, answers, session>>

(* secret_bindings.valid is maintained outside the application. *)
BindingChanges ==
  /\ changes < MaxChanges /\ changes' = changes + 1
  /\ binding' = ~binding
  /\ UNCHANGED <<space, policies, profile, versions, active, lock, events, quality, answers, session>>

(* KnowledgeService.set_state. *)
SetState(s) ==
  /\ changes < MaxChanges /\ changes' = changes + 1
  /\ space' = [space EXCEPT ![s] = IF @ = "active" THEN "archived" ELSE "active"]
  /\ UNCHANGED <<policies, profile, binding, versions, active, lock, events, quality, answers, session>>

Retrieval(k) == policies[k].kind = "retrieval" /\ policies[k].active

(* The newest active version of the default retrieval policy, 0 for none. *)
DefaultPolicy ==
  Max({0} \cup {k \in DOMAIN policies : policies[k].default /\ Retrieval(k)})

(* Mutant: the draft does not pin the default policy. *)
DraftReadUnpinned(p, draft) ==
  /\ At(p, "idle")
  /\ Len(versions) < MaxVersions
  /\ draft.policy \in 0..Len(policies)
  /\ Goes(p, [at |-> "draft", number |-> Len(versions) + 1, draft |-> draft])
  /\ UNCHANGED <<config, versions, active, lock, events, quality, answers>>

(* create_draft (and create_assistant, whose first draft is number 1):     *)
(* read max(version) and fill in the default retrieval policy.             *)
DraftRead(p, draft) ==
  /\ At(p, "idle")
  /\ Len(versions) < MaxVersions
  /\ draft.policy \in 0..Len(policies)
  /\ Goes(p, [at |-> "draft", number |-> Len(versions) + 1,
              draft |-> [draft EXCEPT !.policy = IF @ = 0 THEN DefaultPolicy ELSE @]])
  /\ UNCHANGED <<config, versions, active, lock, events, quality, answers>>

(* INSERT and COMMIT; a number taken meanwhile violates the constraint. *)
DraftInsert(p) ==
  /\ At(p, "draft")
  /\ versions' = IF session[p].number = Len(versions) + 1
                 THEN Append(versions, [asks |-> session[p].draft, state |-> "draft", errors |-> FALSE])
                 ELSE versions
  /\ Goes(p, Idle)
  /\ UNCHANGED <<config, active, lock, events, quality, answers>>

(* validate_version finds an error: spaces, provider, secret, policy. *)
Invalid(v) ==
  \/ \E s \in versions[v].asks.spaces : space[s] # "active"
  \/ Production /\ ~versions[v].asks.provider
  \/ versions[v].asks.provider /\ ~(profile /\ binding)
  \/ versions[v].asks.policy # 0 /\ ~Retrieval(versions[v].asks.policy)

(* The validate endpoint loads the version, then checks it; the errors are *)
(* stored when the version was a draft as loaded.                          *)
ValidateRead(p, v) ==
  /\ At(p, "idle")
  /\ Goes(p, [at |-> "validate", version |-> v, draft |-> versions[v].state = "draft"])
  /\ UNCHANGED <<config, versions, active, lock, events, quality, answers>>

ValidateWrite(p) ==
  LET v == session[p].version
  IN /\ At(p, "validate")
     /\ versions' = IF session[p].draft THEN [versions EXCEPT ![v].errors = Invalid(v)] ELSE versions
     /\ Goes(p, Idle)
     /\ UNCHANGED <<config, active, lock, events, quality, answers>>

(* Mutant: the assistant is read without FOR UPDATE. *)
ActivateLockFree(p, v) ==
  /\ At(p, "idle")
  /\ Goes(p, [at |-> "activate", version |-> v, previous |-> active])
  /\ UNCHANGED <<config, versions, active, lock, events, quality, answers>>

(* activate: SELECT the assistant FOR UPDATE and remember what it points to. *)
ActivateLock(p, v) ==
  /\ At(p, "idle")
  /\ lock = NoOne
  /\ lock' = p
  /\ Goes(p, [at |-> "activate", version |-> v, previous |-> active])
  /\ UNCHANGED <<config, versions, active, events, quality, answers>>

(* activate: validate again; an error rolls the transaction back. *)
ActivateCheck(p) ==
  LET v == session[p].version
  IN /\ At(p, "activate")
     /\ IF Invalid(v)
        THEN Goes(p, Idle) /\ lock' = NoOne
        ELSE Goes(p, [session[p] EXCEPT !.at = "checked"]) /\ UNCHANGED lock
     /\ UNCHANGED <<config, versions, active, events, quality, answers>>

(* activate: switch the pointer, write the audit event, commit. *)
ActivateCommit(p) ==
  LET v == session[p].version
  IN /\ At(p, "checked")
     /\ Len(events) < MaxActivations
     /\ versions' = [versions EXCEPT ![v].errors = @ /\ versions[v].state # "draft",
                                     ![v].state = "active"]
     /\ active' = v
     /\ events' = Append(events, [previous |-> session[p].previous, new |-> v])
     /\ lock' = NoOne
     /\ Goes(p, Idle)
     /\ UNCHANGED <<config, quality, answers>>

(* The request raises or its connection is lost: its transaction is rolled *)
(* back, an unfinished evaluation run with all its results.                *)
RollBack(p) ==
  /\ ~At(p, "idle")
  /\ lock' = IF lock = p THEN NoOne ELSE lock
  /\ Goes(p, Idle)
  /\ UNCHANGED <<config, versions, active, events, quality, answers>>
-----------------------------------------------------------------------------
(* _retrieval_policy, _model_for_query and retrieval_scope: the policy     *)
(* version v is answered under, 0 when one of them refuses.                *)
Resolved(v) ==
  LET k == IF versions[v].asks.policy = 0 THEN DefaultPolicy ELSE versions[v].asks.policy
  IN IF \/ k = 0 \/ ~Retrieval(k)
        \/ Production /\ ~versions[v].asks.provider
        \/ versions[v].asks.provider /\ ~(profile /\ binding)
        \/ \A s \in versions[v].asks.spaces : space[s] # "active"
     THEN 0 ELSE k

(* get_active_snapshot. *)
QueryStart(p) ==
  /\ At(p, "idle")
  /\ active # 0
  /\ Goes(p, [at |-> "query", version |-> active])
  /\ UNCHANGED <<config, versions, active, lock, events, quality, answers>>

(* The rest of the query: resolve the policy and the model, answer, record. *)
QueryFinish(p) ==
  LET v == session[p].version
  IN /\ At(p, "query")
     /\ answers' = IF Resolved(v) = 0 THEN answers
                   ELSE answers \cup {[version |-> v, policy |-> Resolved(v)]}
     /\ Goes(p, Idle)
     /\ UNCHANGED <<config, versions, active, lock, events, quality>>
-----------------------------------------------------------------------------
(* create_dataset_version: the next number, refused when it is taken, and  *)
(* the dataset points to it.  The sequence's last element is the active    *)
(* version.                                                                *)
DatasetRead(p, content) ==
  /\ At(p, "idle")
  /\ Len(datasets) < MaxDatasets
  /\ Goes(p, [at |-> "dataset", number |-> Len(datasets) + 1, content |-> content])
  /\ UNCHANGED <<config, versions, active, lock, events, quality, answers>>

DatasetInsert(p) ==
  /\ At(p, "dataset")
  /\ datasets' = IF session[p].number = Len(datasets) + 1
                 THEN Append(datasets, session[p].content) ELSE datasets
  /\ Goes(p, Idle)
  /\ UNCHANGED <<config, versions, active, lock, events, runs, gates, overrides, answers>>

(* Mutant: one expected source among the citations is enough. *)
AccessControlLax(i, o) ==
  IF ExpectedSources[i] = {} \/ o.cited = {} \/ ExpectedSources[i] \cap o.cited # {} THEN Scale ELSE 0

AccessControl(i, o) ==
  IF ExpectedSources[i] = {} \/ o.cited \subseteq ExpectedSources[i] THEN Scale ELSE 0

(* evaluate_item: the metrics of one observation. *)
Measure(metric, i, o) ==
  CASE metric = "access_control" -> AccessControl(i, o)
    [] metric = "refusal_correctness" -> IF o.refused # (i \in Answerable) THEN Scale ELSE 0
    [] metric = "retrieval_relevance" ->
         IF o.cited # {}
         THEN (Cardinality(ExpectedSources[i] \cap o.cited) * Scale) \div Cardinality(o.cited)
         ELSE IF i \in Answerable THEN 0 ELSE Scale

(* EvaluationService.run: the snapshots must be active. *)
EvalStart(p, d, v) ==
  /\ At(p, "idle")
  /\ Len(runs) < MaxRuns
  /\ versions[v].state = "active"
  /\ Goes(p, [at |-> "evaluate", dataset |-> d, version |-> v, results |-> {}])
  /\ UNCHANGED <<config, versions, active, lock, events, quality, answers>>

Unevaluated(p) == datasets[session[p].dataset] \ {r.item : r \in session[p].results}
NextItem(p, i) == i \in Unevaluated(p) /\ \A j \in Unevaluated(p) : i <= j

(* Mutant: the runner asks the assistant, not the version under evaluation. *)
EvalItemOnAssistant(p, i, o) ==
  /\ At(p, "evaluate")
  /\ NextItem(p, i)
  /\ Resolved(active) # 0
  /\ Goes(p, [session[p] EXCEPT !.results = @ \cup
       {[item |-> i, version |-> active, policy |-> Resolved(active), seen |-> o]}])
  /\ UNCHANGED <<config, versions, active, lock, events, quality, answers>>

(* One item: the runner executes a query of the version under evaluation   *)
(* in the run's own transaction.  An item that raises ends in RollBack.    *)
EvalItem(p, i, o) ==
  LET v == session[p].version
  IN /\ At(p, "evaluate")
     /\ NextItem(p, i)
     /\ Resolved(v) # 0
     /\ Goes(p, [session[p] EXCEPT !.results = @ \cup
          {[item |-> i, version |-> v, policy |-> Resolved(v), seen |-> o]}])
     /\ UNCHANGED <<config, versions, active, lock, events, quality, answers>>

(* All items evaluated: aggregates, status "succeeded", commit. *)
EvalCommit(p) ==
  /\ At(p, "evaluate")
  /\ Unevaluated(p) = {}
  /\ Len(runs) < MaxRuns
  /\ runs' = Append(runs, [dataset |-> session[p].dataset, version |-> session[p].version,
                           results |-> session[p].results])
  /\ Goes(p, Idle)
  /\ UNCHANGED <<config, versions, active, lock, events, datasets, gates, overrides, answers>>

CreateGate(g) ==
  /\ gates' = gates \cup {g}
  /\ UNCHANGED <<config, versions, active, lock, events, datasets, runs, overrides, answers, session>>

(* override_gate, with its audit event in the same transaction. *)
OverrideGate(g, r) ==
  /\ overrides' = overrides \cup {<<g, r>>}
  /\ UNCHANGED <<config, versions, active, lock, events, datasets, runs, gates, answers, session>>

(* The mean of a metric over the run's items against a gate's threshold. *)
Passes(g, r) ==
  LET results == runs[r].results
      total == MapThenSumSet(LAMBDA x : Measure(g.metric, x.item, x.seen), results)
      bound == g.threshold * Cardinality(results)
  IN CASE g.operator = ">=" -> total >= bound
       [] g.operator = "<=" -> total <= bound
       [] g.operator = ">"  -> total > bound
       [] g.operator = "<"  -> total < bound

(* gate_status: every mandatory gate passes or is overridden for this run. *)
Eligible(r) ==
  \A g \in gates : g.mandatory => Passes(g, r) \/ <<g, r>> \in overrides
-----------------------------------------------------------------------------
Configure ==
  \/ \E record \in PolicyMenu : CreatePolicy(record)
  \/ CreateProviderProfile
  \/ BindingChanges
  \/ \E s \in Spaces : SetState(s)

Release(p) ==
  \/ \E draft \in DraftMenu : DraftRead(p, draft)
  \/ DraftInsert(p)
  \/ \E v \in DOMAIN versions : ValidateRead(p, v) \/ ActivateLock(p, v)
  \/ ValidateWrite(p)
  \/ ActivateCheck(p)
  \/ ActivateCommit(p)
  \/ RollBack(p)

Ask(p) == QueryStart(p) \/ QueryFinish(p)

Evaluate(p) ==
  \/ \E content \in DatasetMenu : DatasetRead(p, content)
  \/ DatasetInsert(p)
  \/ \E d \in DOMAIN datasets, v \in DOMAIN versions : EvalStart(p, d, v)
  \/ \E i \in Items, o \in ObservationMenu : EvalItem(p, i, o)
  \/ EvalCommit(p)

Judge ==
  \/ \E g \in GateMenu \ gates : CreateGate(g)
  \/ \E g \in gates, r \in DOMAIN runs : <<g, r>> \notin overrides /\ OverrideGate(g, r)

Next ==
  \/ Configure \/ Judge
  \/ \E p \in Sessions : Release(p) \/ Ask(p) \/ Evaluate(p)

Spec == Init /\ [][Next]_vars
-----------------------------------------------------------------------------
Drafts == [spaces : SUBSET Spaces, policy : Nat, provider : BOOLEAN]
Results == [item : Items, version : Nat, policy : Nat, seen : ObservationMenu]
Requests ==
  {Idle}
    \cup [at : {"draft"}, number : Nat, draft : Drafts]
    \cup [at : {"validate"}, version : Nat, draft : BOOLEAN]
    \cup [at : {"activate", "checked"}, version : Nat, previous : Nat]
    \cup [at : {"query"}, version : Nat]
    \cup [at : {"dataset"}, number : Nat, content : SUBSET Items]
    \cup [at : {"evaluate"}, dataset : Nat, version : Nat, results : SUBSET Results]

ConfigOK ==
  /\ space \in [Spaces -> {"active", "archived"}]
  /\ policies \in Seq([default : BOOLEAN, kind : {"retrieval", "safety"}, active : BOOLEAN])
  /\ profile \in BOOLEAN /\ binding \in BOOLEAN /\ changes \in 0..MaxChanges
RowsOK ==
  /\ versions \in Seq([asks : Drafts, state : {"draft", "active"}, errors : BOOLEAN])
  /\ active \in 0..Len(versions)
  /\ lock \in Sessions \cup {NoOne}
  /\ events \in Seq([previous : Nat, new : Nat])
QualityOK ==
  /\ datasets \in Seq(SUBSET Items)
  /\ runs \in Seq([dataset : Nat, version : Nat, results : SUBSET Results])
  /\ gates \subseteq GateMenu /\ overrides \subseteq gates \X Nat
  /\ answers \subseteq [version : Nat, policy : Nat]

(* Type invariant; the assistant row is locked by the session that is      *)
(* activating a version.                                                   *)
TypeOK ==
  /\ ConfigOK /\ RowsOK /\ QualityOK
  /\ session \in [Sessions -> Requests]
  /\ \A p \in Sessions : lock = p <=> session[p].at \in {"activate", "checked"}

(* activate audits the version it replaced.  Concurrent activations and    *)
(* rollbacks leave a trail without gaps or forks: each event replaces the  *)
(* version the one before it installed, and the last one installed the     *)
(* version that is active now.                                             *)
ActivationsChain ==
  /\ active = IF events = <<>> THEN 0 ELSE events[Len(events)].new
  /\ \A i \in DOMAIN events : events[i].previous = IF i = 1 THEN 0 ELSE events[i - 1].new

(* A version is a frozen snapshot: every answer it gave, to a user or to   *)
(* an evaluation, was retrieved under one and the same policy version,     *)
(* although newer default policies are activated between two answers.      *)
OnePolicyPerVersion ==
  LET used == answers \cup {[version |-> x.version, policy |-> x.policy] :
                              x \in UNION {runs[r].results : r \in DOMAIN runs}}
  IN \A a, b \in used : a.version = b.version => a.policy = b.policy

(* A committed run measured every item of its dataset version, each one    *)
(* once and on the assistant version the run names, although other         *)
(* versions were activated while it ran.                                   *)
RunsAreWhole ==
  \A r \in DOMAIN runs :
    /\ {x.item : x \in runs[r].results} = datasets[runs[r].dataset]
    /\ \A x, y \in runs[r].results : x.item = y.item => x = y
    /\ \A x \in runs[r].results : x.version = runs[r].version

(* A mandatory gate that asks for access_control >= 1.0 does what it is    *)
(* for, although it looks at a mean: in a run that is eligible without an  *)
(* override of that gate no answer cited a document outside its item's     *)
(* expected scope.                                                         *)
EligibleRunsContained ==
  \A g \in gates, r \in DOMAIN runs :
    /\ g.metric = "access_control" /\ g.operator = ">=" /\ g.threshold = Scale /\ g.mandatory
    /\ Eligible(r) /\ <<g, r>> \notin overrides
    => \A x \in runs[r].results :
         ExpectedSources[x.item] # {} => x.seen.cited \subseteq ExpectedSources[x.item]

(* A release candidate that violates a mandatory gate must not be          *)
(* promoted.  The code does not have this: activate never asks for the     *)
(* gate status.                                                            *)
PromotedPassesGates ==
  [][events' # events => \A r \in DOMAIN runs : runs[r].version = active' => Eligible(r)]_vars
-----------------------------------------------------------------------------
(* The parts of the inductive invariant. *)

(* There is a newest default policy, so that every version names a policy. *)
IsDefault(k) == policies[k].default /\ Retrieval(k)
PolicyInv ==
  /\ \E k \in DOMAIN policies :
       IsDefault(k) /\ \A j \in DOMAIN policies : IsDefault(j) => j <= k
  /\ \A v \in DOMAIN versions : versions[v].asks.policy # 0

(* What was answered under a version was answered under the policy it names. *)
Pinned(x) == x.version \in DOMAIN versions /\ x.policy = versions[x.version].asks.policy
HistoryInv ==
  /\ \A a \in answers : Pinned(a)
  /\ \A r \in DOMAIN runs :
       runs[r].dataset \in DOMAIN datasets /\ \A x \in runs[r].results : Pinned(x)

(* A request refers to rows that exist; the version an activation will     *)
(* report as replaced is the one it replaces; an unfinished run has        *)
(* measured some items of its dataset, each once.                          *)
Sound(r) ==
  /\ r.at \in {"validate", "activate", "checked", "query", "evaluate"} => r.version \in DOMAIN versions
  /\ r.at = "draft" => r.draft.policy # 0
  /\ r.at \in {"activate", "checked"} => r.previous = active
  /\ r.at = "evaluate" =>
       /\ r.dataset \in DOMAIN datasets
       /\ \A x \in r.results : Pinned(x) /\ x.item \in datasets[r.dataset] /\ x.version = r.version
       /\ \A x, y \in r.results : x.item = y.item => x = y
RequestInv == \A p \in Sessions : Sound(session[p])

ReleaseInv ==
  /\ TypeOK /\ PolicyInv /\ HistoryInv /\ RequestInv
  /\ RunsAreWhole /\ ActivationsChain
=============================================================================
