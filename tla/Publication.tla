---------------------------- MODULE Publication -----------------------------
(***************************************************************************)
(* One document: its row, its versions, its index generations and their    *)
(* chunks in PostgreSQL, the dense and the lexical index, and everything   *)
(* that moves them: ingestion attempts (_process), generation rollbacks,   *)
(* deletions, the cleanup message of a deletion, the retention sweep.      *)
(*                                                                         *)
(* An attempt creates one generation, so generations are named by their    *)
(* attempts.  The index calls of an operation are steps of their own; its  *)
(* database writes are one step, its commit.  A session keeps the document *)
(* as it loaded it ("view") and writes back only the attributes it changed *)
(* ("FlushDoc"); the documents row is never locked in between.             *)
(*                                                                         *)
(* An index is what Qdrant, Milvus and OpenSearch keep: the generations    *)
(* with staged content and, among them, those flagged published.  The      *)
(* flag is moved by two calls, unpublish the document and publish the      *)
(* target.                                                                 *)
(***************************************************************************)
EXTENDS Naturals, FiniteSets

CONSTANTS
  Attempts,    \* processing attempts, and the generations they create
  Versions,    \* contents that may be uploaded
  Kinds,       \* "upload", "rebuild": the jobs considered
  Rollbacks,   \* POST .../generations/{id}/rollback requests
  Deletes,     \* DELETE /documents/{id} requests
  Sweeps,      \* index.generation_cleanup messages
  None,        \* NULL
  Torn,        \* operations an index may fail between the two calls
  Faults,      \* "refuse", "undo", "abort": what else may fail
  MaxFaults,   \* bound on failures
  WorkerCount, \* workers; each processes one attempt at a time
  MaxOpen      \* how many operations may overlap

ASSUME PublicationAssumption ==
  /\ None \notin Attempts \cup Versions
  /\ Attempts \cap (Rollbacks \cup Deletes \cup Sweeps) = {}
  /\ Rollbacks \cap (Deletes \cup Sweeps) = {}
  /\ Deletes \cap Sweeps = {}
  /\ Kinds \subseteq {"upload", "rebuild"}
  /\ Torn \subseteq Attempts \cup Rollbacks
  /\ Faults \subseteq {"refuse", "undo", "abort"}
  /\ MaxFaults \in Nat
  /\ WorkerCount \in Nat \ {0}
  /\ MaxOpen \in Nat \ {0}

Indexes == {"dense", "lexical"}
Processes == Attempts \cup Rollbacks \cup Deletes \cup Sweeps

VARIABLES
  doc,      \* the documents row: state, active version and generation
  ver,      \* version -> state, "none" before it is uploaded
  gen,      \* generation -> state of its committed row, "none" without one
  chunks,   \* generation -> "none", "off" or "on": its chunk rows
  staged,   \* index -> generations with content
  shown,    \* index -> generations flagged published
  job,      \* attempt -> version, kind and ACL epoch of its job
  epoch,    \* the tenant's ACL epoch
  holder,   \* attempt whose generation row is inserted and not committed
  pc, at,   \* process -> control state and index it works on
  view,     \* process -> what its session loaded
  target,   \* process -> generation a rollback or sweep is about
  audited,  \* generations with a rollback audit event
  erased,   \* versions that existed when a deletion committed (history)
  crossed,  \* generations a rollback and a sweep were about at the same time (history)
  unrestored, \* indexes a failed operation left as they were, until the next publication (history)
  faults

rows == <<doc, ver, gen, chunks>>
indexes == <<staged, shown>>
history == <<erased, crossed, unrestored>>
vars == <<rows, indexes, job, epoch, holder, pc, at, view, target, audited, history, faults>>

NoView == [state |-> "none", version |-> None, gen |-> None, vstate |-> "none", gstate |-> "none"]

(* The document row exists, nothing has been published. *)
Init ==
  /\ doc = [state |-> "active", version |-> None, gen |-> None]
  /\ ver = [v \in Versions |-> "none"]
  /\ gen = [a \in Attempts |-> "none"]
  /\ chunks = [a \in Attempts |-> "none"]
  /\ staged = [i \in Indexes |-> {}]
  /\ shown = [i \in Indexes |-> {}]
  /\ job = [a \in Attempts |-> [version |-> None, kind |-> "none", epoch |-> 0]]
  /\ epoch = 0
  /\ holder = None
  /\ pc = [p \in Processes |-> "new"]
  /\ at = [p \in Processes |-> "dense"]
  /\ view = [p \in Processes |-> NoView]
  /\ target = [p \in Processes |-> None]
  /\ audited = {} /\ erased = {} /\ crossed = {} /\ unrestored = {}
  /\ faults = 0

Resting == {"new", "queued", "cleanup", "done", "failed", "aborted", "retried", "rejected"}
Open == {p \in Processes : pc[p] \notin Resting}
MayOpen == Cardinality(Open) < MaxOpen
WorkerFree == Cardinality(Open \cap Attempts) < WorkerCount

GenerationsOf(v) == {g \in Attempts : job[g].version = v}

Goto(p, to) == pc' = [pc EXCEPT ![p] = to]
Enter(p, to, i) == Goto(p, to) /\ at' = [at EXCEPT ![p] = i]

(* The attributes a session changed are written, the others keep the value *)
(* they have in the row now.                                               *)
FlushDoc(old, new) ==
  [state   |-> IF new.state # old.state THEN new.state ELSE doc.state,
   version |-> IF new.version # old.version THEN new.version ELSE doc.version,
   gen     |-> IF new.gen # old.gen THEN new.gen ELSE doc.gen]

Loaded(vstate, gstate) ==
  [state |-> doc.state, version |-> doc.version, gen |-> doc.gen,
   vstate |-> vstate, gstate |-> gstate]

-----------------------------------------------------------------------------
(* Jobs.                                                                   *)

(* submit_upload of changed content: a staging version and a queued job.   *)
SubmitUpload(a, v) ==
  /\ "upload" \in Kinds
  /\ pc[a] = "new"
  /\ ver[v] = "none"
  /\ ver' = [ver EXCEPT ![v] = "staging"]
  /\ job' = [job EXCEPT ![a] = [version |-> v, kind |-> "upload", epoch |-> epoch]]
  /\ Goto(a, "queued")
  /\ UNCHANGED <<doc, gen, chunks, indexes, epoch, holder, at, view, target, audited, history, faults>>

(* submit_rebuild, also reached by submit_upload when the content is that  *)
(* of the active version and the processing policy changed.                *)
SubmitRebuild(a) ==
  /\ "rebuild" \in Kinds
  /\ pc[a] = "new"
  /\ doc.state # "deleted"
  /\ doc.version # None
  /\ ver[doc.version] = "active"
  /\ job' = [job EXCEPT ![a] = [version |-> doc.version, kind |-> "rebuild", epoch |-> epoch]]
  /\ Goto(a, "queued")
  /\ UNCHANGED <<rows, indexes, epoch, holder, at, view, target, audited, history, faults>>

(* The job of a failed or aborted attempt is tried again. *)
Reattempt(a, b) ==
  /\ pc[a] \in {"failed", "aborted"}
  /\ pc[b] = "new"
  /\ job' = [job EXCEPT ![b] = job[a]]
  /\ pc' = [pc EXCEPT ![a] = "retried", ![b] = "queued"]
  /\ UNCHANGED <<rows, indexes, epoch, holder, at, view, target, audited, history, faults>>

(* Upload jobs carry the ACL epoch they were submitted under. *)
EpochStale(a) == job[a].kind = "upload" /\ job[a].epoch # epoch

RejectStale(a) ==
  /\ pc[a] = "queued"
  /\ EpochStale(a)
  /\ Goto(a, "rejected")
  /\ UNCHANGED <<rows, indexes, job, epoch, holder, at, view, target, audited, history, faults>>

(* A worker finds the job admissible and counts the attempt: the flush is  *)
(* awaited before anything of the document is read.                        *)
Admit(a) ==
  /\ pc[a] = "queued"
  /\ MayOpen /\ WorkerFree
  /\ ~EpochStale(a)
  /\ Goto(a, "admitted")
  /\ UNCHANGED <<rows, indexes, job, epoch, holder, at, view, target, audited, history, faults>>

(* It loads the version and the document, in whatever state they are now. *)
Load(a) ==
  /\ pc[a] = "admitted"
  /\ view' = [view EXCEPT ![a] = Loaded(ver[job[a].version], "none")]
  /\ Goto(a, "loaded")
  /\ UNCHANGED <<rows, indexes, job, epoch, holder, at, target, audited, history, faults>>

(* Mutant: generation numbers are not unique. *)
InsertAnyNumber(a) ==
  /\ pc[a] = "loaded"
  /\ holder' = a
  /\ Enter(a, "stage", "dense")
  /\ UNCHANGED <<rows, indexes, job, epoch, view, target, audited, history, faults>>

(* It inserts its generation row.  UNIQUE(document_id, generation_number)  *)
(* makes a second attempt wait for the first one to commit or roll back;   *)
(* one that computed its number before that commit is aborted.             *)
Insert(a) ==
  /\ pc[a] = "loaded"
  /\ holder = None
  /\ holder' = a
  /\ Enter(a, "stage", "dense")
  /\ UNCHANGED <<rows, indexes, job, epoch, view, target, audited, history, faults>>

(* dense_index.stage, lexical_index.stage; then the chunks are flushed and *)
(* publication starts.                                                     *)
Stage(a) ==
  /\ pc[a] = "stage"
  /\ staged' = [staged EXCEPT ![at[a]] = @ \cup {a}]
  /\ IF at[a] = "dense" THEN Enter(a, "stage", "lexical") ELSE Enter(a, "hide", "dense")
  /\ UNCHANGED <<rows, shown, job, epoch, holder, view, target, audited, history, faults>>

-----------------------------------------------------------------------------
(* Publishing in both indexes, by an attempt or by a rollback.             *)

Publishers == Attempts \cup Rollbacks

Goal(p) == IF p \in Attempts THEN {p} ELSE {target[p]}

(* _publish_index with the version and generation that were active: the    *)
(* whole version if the document had no generation.                        *)
Previous(p) ==
  {g \in GenerationsOf(view[p].version) : view[p].gen \in {None, g}}

(* Mutant: a failed publication is not undone. *)
RaiseWithoutUndo(p) ==
  IF p \in Attempts THEN Enter(p, IF pc[p] = "stage" THEN "failing_early" ELSE "failing", "dense")
  ELSE Enter(p, "failed", "dense")

(* An exception: an attempt that started publishing restores both indexes; *)
(* a rollback restores those it has finished.                              *)
Raise(p) ==
  IF p \in Attempts
    THEN IF pc[p] = "stage" THEN Enter(p, "failing_early", "dense") ELSE Enter(p, "undo_hide", "dense")
    ELSE IF at[p] = "dense" THEN Enter(p, "failed", "dense") ELSE Enter(p, "undo_hide", "dense")

(* publish_generation: find the staged content, then unpublish the whole   *)
(* document; nothing staged is an error.                                   *)
Hide(p) ==
  /\ pc[p] = "hide"
  /\ IF Goal(p) \cap staged[at[p]] = {}
       THEN Raise(p) /\ UNCHANGED shown
       ELSE Enter(p, "show", at[p]) /\ shown' = [shown EXCEPT ![at[p]] = {}]
  /\ UNCHANGED <<rows, staged, job, epoch, holder, view, target, audited, history, faults>>

(* publish_generation: flag the target's content. *)
Show(p) ==
  /\ pc[p] = "show"
  /\ shown' = [shown EXCEPT ![at[p]] = @ \cup (Goal(p) \cap staged[at[p]])]
  /\ IF at[p] = "dense" THEN Enter(p, "hide", "lexical") ELSE Enter(p, "check", "dense")
  /\ unrestored' = unrestored \ {at[p]}
  /\ UNCHANGED <<rows, staged, job, epoch, holder, view, target, audited, erased, crossed, faults>>

Fault == faults < MaxFaults /\ faults' = faults + 1

(* An index, the parser or the embedding fails, or the runtime check after *)
(* publication sees a cancellation.  An index that fails between the two   *)
(* calls of a rollback is not among those the rollback restores.           *)
Fail(p) ==
  /\ \/ "refuse" \in Faults /\ pc[p] \in {"stage", "hide"}
     \/ "refuse" \in Faults /\ p \in Attempts /\ pc[p] = "check"
     \/ p \in Torn /\ pc[p] = "show"
  /\ Fault
  /\ Raise(p)
  /\ unrestored' = IF p \in Rollbacks /\ pc[p] = "show" THEN unrestored \cup {at[p]} ELSE unrestored
  /\ UNCHANGED <<rows, indexes, job, epoch, holder, view, target, audited, erased, crossed>>

(* Where the restoring loop goes after an index. *)
AfterUndo(p) ==
  IF p \in Attempts
    THEN IF at[p] = "dense" THEN Enter(p, "undo_hide", "lexical") ELSE Enter(p, "failing", "dense")
    ELSE Enter(p, "failed", "dense")

(* Restore the previous generation, or delete the document from the index  *)
(* if there was none; errors are suppressed.                               *)
UndoHide(p) ==
  LET i == at[p] IN
  /\ pc[p] = "undo_hide"
  /\ \/ /\ view[p].version = None
        /\ staged' = [staged EXCEPT ![i] = {}]
        /\ shown' = [shown EXCEPT ![i] = {}]
        /\ AfterUndo(p)
     \/ /\ view[p].version # None
        /\ IF Previous(p) \cap staged[i] = {}
             THEN UNCHANGED shown /\ AfterUndo(p)
             ELSE shown' = [shown EXCEPT ![i] = {}] /\ Enter(p, "undo_show", i)
        /\ UNCHANGED staged
  /\ UNCHANGED <<rows, job, epoch, holder, view, target, audited, history, faults>>

UndoShow(p) ==
  /\ pc[p] = "undo_show"
  /\ shown' = [shown EXCEPT ![at[p]] = @ \cup (Previous(p) \cap staged[at[p]])]
  /\ unrestored' = unrestored \ {at[p]}
  /\ AfterUndo(p)
  /\ UNCHANGED <<rows, staged, job, epoch, holder, view, target, audited, erased, crossed, faults>>

(* The restoring call raises as well, which is suppressed. *)
UndoFails(p) ==
  /\ "undo" \in Faults
  /\ pc[p] \in {"undo_hide", "undo_show"}
  /\ Fault
  /\ unrestored' = unrestored \cup {at[p]}
  /\ AfterUndo(p)
  /\ UNCHANGED <<rows, indexes, job, epoch, holder, view, target, audited, erased, crossed>>

-----------------------------------------------------------------------------
(* The commits of an attempt.                                              *)

(* Version states after v replaced the version that the session loaded as  *)
(* active; v itself is written only if it was loaded in another state.     *)
SwitchVersion(p, v) ==
  [u \in Versions |->
     IF u = v THEN (IF view[p].vstate # "active" THEN "active" ELSE ver[u])
     ELSE IF u = view[p].version THEN "superseded"
     ELSE ver[u]]

(* The generation loaded as active is superseded, if its row still exists. *)
Supersede(p, states) ==
  [g \in Attempts |->
     IF g = view[p].gen /\ gen[g] # "none" THEN "superseded" ELSE states[g]]

(* Mutant: the active generation is not written. *)
SwitchVersionOnly(a) ==
  LET v == job[a].version IN
  /\ pc[a] = "check"
  /\ doc' = FlushDoc(view[a], [state |-> "active", version |-> v, gen |-> view[a].gen])
  /\ ver' = SwitchVersion(a, v)
  /\ chunks' = [chunks EXCEPT ![a] = "on"]
  /\ gen' = Supersede(a, [gen EXCEPT ![a] = "active"])
  /\ holder' = None
  /\ Goto(a, "done")
  /\ UNCHANGED <<indexes, job, epoch, at, view, target, audited, history, faults>>

(* The switch: the chunks of the previous version are deactivated, all of  *)
(* the new version's are activated, older generations of it included.      *)
Switch(a) ==
  LET v == job[a].version IN
  /\ pc[a] = "check"
  /\ doc' = FlushDoc(view[a], [state |-> "active", version |-> v, gen |-> a])
  /\ ver' = SwitchVersion(a, v)
  /\ chunks' = [g \in Attempts |->
       IF g = a \/ (g \in GenerationsOf(v) /\ chunks[g] # "none") THEN "on"
       ELSE IF g \in GenerationsOf(view[a].version) /\ chunks[g] # "none" THEN "off"
       ELSE chunks[g]]
  /\ gen' = Supersede(a, [gen EXCEPT ![a] = "active"])
  /\ holder' = None
  /\ Goto(a, "done")
  /\ UNCHANGED <<indexes, job, epoch, at, view, target, audited, history, faults>>

(* The failure is committed, with the chunks if they had been flushed. *)
CommitFailure(a) ==
  /\ pc[a] \in {"failing_early", "failing"}
  /\ gen' = [gen EXCEPT ![a] = "failed"]
  /\ chunks' = [chunks EXCEPT ![a] = IF pc[a] = "failing" THEN "off" ELSE "none"]
  /\ holder' = None
  /\ Goto(a, "failed")
  /\ UNCHANGED <<doc, ver, indexes, job, epoch, at, view, target, audited, history, faults>>

(* The lease is lost, the worker crashes, the database refuses: everything *)
(* is rolled back, the indexes stay as they are.                           *)
Abort(a) ==
  /\ "abort" \in Faults
  /\ pc[a] \notin Resting
  /\ Fault
  /\ holder' = IF holder = a THEN None ELSE holder
  /\ Goto(a, "aborted")
  /\ UNCHANGED <<rows, indexes, job, epoch, at, view, target, audited, history>>

-----------------------------------------------------------------------------
(* Which generations an operation of the set S is under way for. *)
Aims(S) == {target[p] : p \in Open \cap S}

(* rollback_generation.                                                    *)

RollbackRead(q, g) ==
  /\ pc[q] = "new"
  /\ MayOpen
  /\ doc.state # "deleted"
  /\ doc.gen # g
  /\ gen[g] \in {"active", "superseded"}
  /\ ver[job[g].version] \in {"active", "superseded"}
  /\ view' = [view EXCEPT ![q] = Loaded(ver[job[g].version], gen[g])]
  /\ target' = [target EXCEPT ![q] = g]
  /\ Enter(q, "hide", "dense")
  /\ crossed' = crossed \cup ({g} \cap Aims(Sweeps))
  /\ UNCHANGED <<rows, indexes, job, epoch, holder, audited, erased, unrestored, faults>>

(* The target's row has changes to write unless it was loaded as active;   *)
(* if it is gone the UPDATE matches no row and the request fails.          *)
TargetGone(q) == gen[target[q]] = "none" /\ view[q].gstate # "active"

RollbackCommit(q) ==
  LET g == target[q]
      v == job[g].version
  IN
  /\ pc[q] = "check"
  /\ ~TargetGone(q)
  /\ doc' = FlushDoc(view[q], [state |-> "active", version |-> v, gen |-> g])
  /\ ver' = SwitchVersion(q, v)
  /\ chunks' = [h \in Attempts |-> IF chunks[h] = "none" THEN "none" ELSE IF h = g THEN "on" ELSE "off"]
  /\ gen' = Supersede(q, [gen EXCEPT ![g] = IF view[q].gstate # "active" THEN "active" ELSE @])
  /\ audited' = audited \cup {g}
  /\ Goto(q, "done")
  /\ UNCHANGED <<indexes, job, epoch, holder, at, view, target, history, faults>>

RollbackGone(q) ==
  /\ pc[q] = "check"
  /\ TargetGone(q)
  /\ Goto(q, "failed")
  /\ UNCHANGED <<rows, indexes, job, epoch, holder, at, view, target, audited, history, faults>>

-----------------------------------------------------------------------------
(* delete_document and the document.cleanup message it leaves.             *)

DeleteRead(d) ==
  /\ pc[d] = "new"
  /\ MayOpen
  /\ doc.state # "deleted"
  /\ view' = [view EXCEPT ![d] = Loaded("none", "none")]
  /\ Goto(d, "commit")
  /\ UNCHANGED <<rows, indexes, job, epoch, holder, at, target, audited, history, faults>>

DeleteCommit(d) ==
  /\ pc[d] = "commit"
  /\ doc' = FlushDoc(view[d], [view[d] EXCEPT !.state = "deleted", !.gen = None])
  /\ ver' = [v \in Versions |-> IF v = view[d].version THEN "tombstoned" ELSE ver[v]]
  /\ chunks' = [g \in Attempts |-> IF chunks[g] = "none" THEN "none" ELSE "off"]
  /\ epoch' = epoch + 1
  /\ erased' = erased \cup {v \in Versions : ver[v] # "none"}
  /\ Enter(d, "cleanup", "dense")
  /\ UNCHANGED <<gen, indexes, job, holder, view, target, audited, crossed, unrestored, faults>>

(* _handle_cleanup: the document is deleted from both indexes, whatever    *)
(* its state is by now.                                                    *)
Cleanup(d) ==
  /\ pc[d] = "cleanup"
  /\ staged' = [staged EXCEPT ![at[d]] = {}]
  /\ shown' = [shown EXCEPT ![at[d]] = {}]
  /\ IF at[d] = "dense" THEN Enter(d, "cleanup", "lexical") ELSE Enter(d, "done", "dense")
  /\ UNCHANGED <<rows, job, epoch, holder, view, target, audited, history, faults>>

-----------------------------------------------------------------------------
(* IndexGenerationCleanupService.sweep for one generation.                 *)

(* The candidates are superseded generations past their retention period, *)
(* which any of them may be.                                              *)

(* Mutant: only the audit reference is looked at. *)
SweepReadUnlessAudited(s, g) ==
  /\ pc[s] = "new"
  /\ MayOpen
  /\ gen[g] \in {"active", "superseded"}
  /\ g \notin audited
  /\ target' = [target EXCEPT ![s] = g]
  /\ Enter(s, "sweep", "dense")
  /\ crossed' = crossed \cup ({g} \cap Aims(Rollbacks))
  /\ UNCHANGED <<rows, indexes, job, epoch, holder, view, audited, erased, unrestored, faults>>

(* Kept are the document's active generation and audited ones. *)
SweepRead(s, g) ==
  /\ pc[s] = "new"
  /\ MayOpen
  /\ gen[g] = "superseded"
  /\ doc.gen # g
  /\ g \notin audited
  /\ target' = [target EXCEPT ![s] = g]
  /\ Enter(s, "sweep", "dense")
  /\ crossed' = crossed \cup ({g} \cap Aims(Rollbacks))
  /\ UNCHANGED <<rows, indexes, job, epoch, holder, view, audited, erased, unrestored, faults>>

SweepIndex(s) ==
  LET i == at[s] IN
  /\ pc[s] = "sweep"
  /\ staged' = [staged EXCEPT ![i] = @ \ {target[s]}]
  /\ shown' = [shown EXCEPT ![i] = @ \ {target[s]}]
  /\ IF i = "dense" THEN Enter(s, "sweep", "lexical") ELSE Enter(s, "commit", "dense")
  /\ UNCHANGED <<rows, job, epoch, holder, view, target, audited, history, faults>>

SweepCommit(s) ==
  /\ pc[s] = "commit"
  /\ gen' = [gen EXCEPT ![target[s]] = "none"]
  /\ chunks' = [chunks EXCEPT ![target[s]] = "none"]
  /\ Goto(s, "done")
  /\ UNCHANGED <<doc, ver, indexes, job, epoch, holder, at, view, target, audited, history, faults>>

-----------------------------------------------------------------------------
AttemptStep(a) ==
  \/ \E v \in Versions : SubmitUpload(a, v)
  \/ \E b \in Attempts : Reattempt(a, b)
  \/ SubmitRebuild(a) \/ RejectStale(a) \/ Admit(a) \/ Load(a) \/ Insert(a) \/ Stage(a)
  \/ Switch(a) \/ CommitFailure(a) \/ Abort(a)

PublishStep(p) == Hide(p) \/ Show(p) \/ Fail(p) \/ UndoHide(p) \/ UndoShow(p) \/ UndoFails(p)

RollbackStep(q) ==
  (\E g \in Attempts : RollbackRead(q, g)) \/ RollbackCommit(q) \/ RollbackGone(q)

DeleteStep(d) == DeleteRead(d) \/ DeleteCommit(d) \/ Cleanup(d)

SweepStep(s) == (\E g \in Attempts : SweepRead(s, g)) \/ SweepIndex(s) \/ SweepCommit(s)

Next ==
  \/ \E a \in Attempts : AttemptStep(a)
  \/ \E p \in Publishers : PublishStep(p)
  \/ \E q \in Rollbacks : RollbackStep(q)
  \/ \E d \in Deletes : DeleteStep(d)
  \/ \E s \in Sweeps : SweepStep(s)

Spec == Init /\ [][Next]_vars

-----------------------------------------------------------------------------
(* The generations whose chunks pass the authority query of retrieval, if  *)
(* an index returns them.                                                  *)
Readable ==
  {g \in Attempts :
     /\ doc.state = "active"
     /\ chunks[g] = "on"
     /\ doc.version # None /\ job[g].version = doc.version
     /\ doc.gen \in {None, g}}

VersionStates == {"none", "staging", "active", "superseded", "tombstoned"}
GenerationStates == {"none", "active", "superseded", "failed"}

Views ==
  [state : {"none", "active", "deleted"}, version : Versions \cup {None},
   gen : Attempts \cup {None}, vstate : VersionStates, gstate : GenerationStates]

Inserted == {"stage", "hide", "show", "check", "undo_hide", "undo_show", "failing_early", "failing"}
PcValues == Resting \cup Inserted \cup {"admitted", "loaded", "commit", "sweep"}

RowsOK ==
  /\ doc \in [state : {"active", "deleted"}, version : Versions \cup {None}, gen : Attempts \cup {None}]
  /\ ver \in [Versions -> VersionStates]
  /\ gen \in [Attempts -> GenerationStates]
  /\ chunks \in [Attempts -> {"none", "off", "on"}]

IndexesOK ==
  /\ staged \in [Indexes -> SUBSET Attempts]
  /\ shown \in [Indexes -> SUBSET Attempts]

ProcessesOK ==
  /\ pc \in [Processes -> PcValues]
  /\ at \in [Processes -> Indexes]
  /\ view \in [Processes -> Views]
  /\ target \in [Processes -> Attempts \cup {None}]
  /\ holder \in Attempts \cup {None}
  /\ \A a \in Attempts : pc[a] \in Inserted <=> holder = a

JobsOK ==
  /\ job \in [Attempts -> [version : Versions \cup {None}, kind : Kinds \cup {"none"}, epoch : Nat]]
  /\ \A a \in Attempts : pc[a] # "new" => job[a].version \in Versions
  /\ epoch \in Nat /\ faults \in Nat
  /\ audited \subseteq Attempts
  /\ erased \subseteq Versions /\ crossed \subseteq Attempts /\ unrestored \subseteq Indexes

(* Type invariant.  The uncommitted generation row belongs to the attempt  *)
(* that inserted it, so attempts of one document are never past their      *)
(* insertion together.                                                     *)
TypeOK == RowsOK /\ IndexesOK /\ ProcessesOK /\ JobsOK

(* The authority query accepts the chunks of one generation at a time,     *)
(* although it skips the comparison for documents without an active        *)
(* generation and although switches leave several generations' chunks      *)
(* active.                                                                 *)
OneReadable == \A g, h \in Readable : g = h

(* Nothing of a generation that failed, was rolled back or is still being  *)
(* processed can be read, whatever the indexes and the chunk rows say.     *)
OnlyPublishedReadable == \A g \in Readable : pc[g] = "done" /\ gen[g] # "failed"

(* Once a deletion has committed, nothing that was uploaded before it can  *)
(* be read again.                                                          *)
ErasedUnreadable == \A g \in Readable : job[g].version \notin erased

(* The only uploads that bring deleted content back are those admitted     *)
(* before the deletion that loaded the document after it.                  *)
ErasedUnlessLoadedDeleted ==
  \A g \in Readable : job[g].version \in erased => view[g].state = "deleted"

(* When no operation is under way both indexes serve the active generation *)
(* of the document, whatever failed on the way, except an index that a     *)
(* rollback failed on half way, or that could not be restored, and that    *)
(* nothing was published in since.                                         *)
IndexesServeActive ==
  Open = {} /\ doc.state = "active" /\ doc.gen # None =>
    \A i \in Indexes \ unrestored : doc.gen \in shown[i]

(* The retention sweep never removes the generation a document uses, with  *)
(* attempts, deletions, rollbacks and other sweeps beside it, unless a     *)
(* rollback to that very generation was under way together with the sweep  *)
(* of it.                                                                  *)
ActiveNotSwept == doc.gen \in Attempts \ crossed => gen[doc.gen] # "none"

(* The same without the exemption: false, the sweep holds no lock between  *)
(* its checks and its deletions.                                           *)
ActiveKept == doc.gen # None => gen[doc.gen] # "none"

=============================================================================
