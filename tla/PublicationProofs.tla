------------------------- MODULE PublicationProofs --------------------------
(***************************************************************************)
(* What can be read of a document, for any number of attempts, versions,   *)
(* rollbacks, deletions, sweeps and failures.  The properties are not      *)
(* inductive: they rest on which generations a session may have loaded     *)
(* ("Activated") and on what a commit is certain to write although it      *)
(* writes only what it changed ("SessionsOK").                             *)
(***************************************************************************)
EXTENDS Publication, FiniteSetTheorems, TLAPS

(* Every generation the document, a session or a request refers to was     *)
(* activated by a committed switch.                                        *)
Activated ==
  /\ doc.gen # None => pc[doc.gen] = "done"
  /\ \A p \in Processes : view[p].gen # None => pc[view[p].gen] = "done"
  /\ \A p \in Processes : target[p] # None => pc[target[p]] = "done"
  /\ \A g \in Attempts :
       /\ gen[g] \in {"active", "superseded"} => pc[g] = "done"
       /\ gen[g] = "failed" => pc[g] \in {"failed", "retried"}

(* A rollback under way has a target other than the generation it loaded   *)
(* as active; a deletion under way loaded a document that was not deleted. *)
SessionsOK ==
  /\ \A q \in Rollbacks : pc[q] \in Inserted => target[q] # None /\ view[q].gen # target[q]
  /\ \A d \in Deletes : pc[d] = "commit" => view[d].state # "deleted"

(* A live document that has a version has a generation. *)
VersionHasGeneration ==
  doc.state = "active" /\ doc.version # None => doc.gen # None

Inv == TypeOK /\ Activated /\ SessionsOK /\ VersionHasGeneration

LEMMA InitInv == Init => Inv
BY PublicationAssumption
   DEF Init, Inv, TypeOK, RowsOK, IndexesOK, ProcessesOK, JobsOK, Activated, SessionsOK,
       VersionHasGeneration, NoView, Views, VersionStates, GenerationStates, PcValues, Resting,
       Inserted, Indexes, Processes

(* What a session that loaded the document holds. *)
LEMMA LoadedType ==
  ASSUME RowsOK, NEW s \in VersionStates, NEW t \in GenerationStates
  PROVE  Loaded(s, t) \in Views
BY DEF RowsOK, Loaded, Views

(* Where a process goes: a step that only moves one process within or      *)
(* outside the phase in which its generation row is uncommitted.           *)
LEMMA MoveOK ==
  ASSUME ProcessesOK, NEW p \in Processes, NEW s \in PcValues, NEW i \in Indexes, Enter(p, s, i),
         UNCHANGED <<view, target, holder>>,
         p \in Attempts => (s \in Inserted <=> pc[p] \in Inserted)
  PROVE  ProcessesOK'
<1>1. pc' \in [Processes -> PcValues] /\ at' \in [Processes -> Indexes]
  BY DEF ProcessesOK, Enter, Goto
<1>2. \A a \in Attempts : pc'[a] \in Inserted <=> pc[a] \in Inserted
  BY DEF ProcessesOK, Enter, Goto, Processes
<1>. QED  BY <1>1, <1>2 DEF ProcessesOK

LEMMA StageMoves ==
  ASSUME ProcessesOK, NEW a \in Attempts, Stage(a)
  PROVE  ProcessesOK'
<1> USE DEF Stage, PcValues, Inserted, Indexes, Processes
<1>1. CASE at[a] = "dense"   BY <1>1, MoveOK
<1>2. CASE at[a] # "dense"   BY <1>2, MoveOK
<1>. QED  BY <1>1, <1>2

(* A process that moves, other than from where a generation was activated  *)
(* or given up, leaves what refers to activated generations alone.         *)
LEMMA ActivatedStays ==
  ASSUME Activated, NEW p \in Processes, pc[p] \notin {"done", "failed", "retried"},
         \A r \in Processes : r # p => pc'[r] = pc[r],
         RowsOK, ProcessesOK, UNCHANGED <<doc, gen, view, target>>
  PROVE  Activated'
<1>1. \A g \in Attempts : g # p => pc'[g] = pc[g]
  BY DEF Processes
<1>2. \A g \in Attempts : pc[g] \in {"done", "failed", "retried"} => pc'[g] = pc[g]
  BY <1>1
<1>3. doc.gen # None => pc'[doc.gen] = "done"
  BY <1>2 DEF Activated, RowsOK
<1>4. \A r \in Processes : view[r].gen # None => pc'[view[r].gen] = "done"
  BY <1>2 DEF Activated, ProcessesOK, Views
<1>5. \A r \in Processes : target[r] # None => pc'[target[r]] = "done"
  BY <1>2 DEF Activated, ProcessesOK
<1>6. \A g \in Attempts :
        /\ gen[g] \in {"active", "superseded"} => pc'[g] = "done"
        /\ gen[g] = "failed" => pc'[g] \in {"failed", "retried"}
  BY <1>2 DEF Activated
<1>. QED  BY <1>3, <1>4, <1>5, <1>6 DEF Activated

LEMMA StageActivated ==
  ASSUME Activated, RowsOK, ProcessesOK, NEW a \in Attempts, Stage(a)
  PROVE  Activated'
BY ActivatedStays DEF Stage, Enter, Goto, Processes, ProcessesOK, rows

LEMMA CleanupActivated ==
  ASSUME Activated, RowsOK, ProcessesOK, NEW d \in Deletes, Cleanup(d)
  PROVE  Activated'
BY ActivatedStays DEF Cleanup, Enter, Goto, Processes, ProcessesOK, rows

LEMMA SweepCommitRows ==
  ASSUME RowsOK, NEW s \in Sweeps, SweepCommit(s)
  PROVE  RowsOK'
<1>1. gen' \in [Attempts -> GenerationStates]  BY DEF SweepCommit, RowsOK, GenerationStates
<1>2. chunks' \in [Attempts -> {"none", "off", "on"}]  BY DEF SweepCommit, RowsOK
<1>. QED  BY <1>1, <1>2 DEF SweepCommit, RowsOK

LEMMA CleanupMoves ==
  ASSUME ProcessesOK, NEW d \in Deletes, Cleanup(d)
  PROVE  ProcessesOK'
<1> USE PublicationAssumption DEF Cleanup, PcValues, Resting, Inserted, Indexes, Processes
<1>1. CASE at[d] = "dense"   BY <1>1, MoveOK
<1>2. CASE at[d] # "dense"   BY <1>2, MoveOK
<1>. QED  BY <1>1, <1>2

LEMMA SweepMoves ==
  ASSUME ProcessesOK, NEW s \in Sweeps, SweepIndex(s)
  PROVE  ProcessesOK'
<1> USE PublicationAssumption DEF SweepIndex, PcValues, Resting, Inserted, Indexes, Processes
<1>1. CASE at[s] = "dense"   BY <1>1, MoveOK
<1>2. CASE at[s] # "dense"   BY <1>2, MoveOK
<1>. QED  BY <1>1, <1>2

LEMMA LoadMoves ==
  ASSUME TypeOK, NEW a \in Attempts, Load(a)
  PROVE  ProcessesOK'
<1>1. ver[job[a].version] \in VersionStates  BY DEF Load, TypeOK, RowsOK, JobsOK
<1>2. Loaded(ver[job[a].version], "none") \in Views
  BY <1>1, LoadedType DEF TypeOK, GenerationStates
<1>3. view' \in [Processes -> Views]  BY <1>2 DEF Load, TypeOK, ProcessesOK
<1>4. pc' \in [Processes -> PcValues] /\ \A b \in Attempts : pc'[b] \in Inserted <=> pc[b] \in Inserted
  BY DEF Load, Goto, TypeOK, ProcessesOK, PcValues, Inserted, Processes
<1>. QED  BY <1>3, <1>4 DEF Load, TypeOK, ProcessesOK

LEMMA SubmitMoves ==
  ASSUME ProcessesOK, NEW a \in Attempts, NEW v \in Versions, SubmitUpload(a, v)
  PROVE  ProcessesOK'
<1>1. pc' \in [Processes -> PcValues]
  BY DEF SubmitUpload, Goto, ProcessesOK, PcValues, Resting, Processes
<1>2. \A c \in Attempts : pc'[c] \in Inserted <=> pc[c] \in Inserted
  BY DEF SubmitUpload, Goto, ProcessesOK, Inserted, Processes
<1>. QED  BY <1>1, <1>2 DEF SubmitUpload, ProcessesOK

LEMMA ReattemptMoves ==
  ASSUME ProcessesOK, NEW a \in Attempts, NEW b \in Attempts, Reattempt(a, b)
  PROVE  ProcessesOK'
<1>1. pc' \in [Processes -> PcValues]
  BY DEF Reattempt, ProcessesOK, PcValues, Resting, Processes
<1>2. \A c \in Attempts : pc'[c] \in Inserted <=> pc[c] \in Inserted
  BY DEF Reattempt, ProcessesOK, Inserted, Processes
<1>. QED  BY <1>1, <1>2 DEF Reattempt, ProcessesOK

(* The steps of an attempt outside the indexes' publication calls. *)
LEMMA AttemptKeepsInv ==
  ASSUME Inv, NEW a \in Attempts, AttemptStep(a)
  PROVE  Inv'
<1> USE PublicationAssumption DEF Inv, TypeOK, RowsOK, IndexesOK, ProcessesOK, JobsOK, Activated,
      SessionsOK, VersionHasGeneration, Views, VersionStates, GenerationStates, PcValues, Resting,
      Inserted, Indexes, Processes, Publishers, rows, indexes, history, Goto, Enter
<1>1. ASSUME NEW v \in Versions, SubmitUpload(a, v) PROVE Inv'
  <2>1. RowsOK'  BY <1>1, SMTT(20) DEF SubmitUpload
  <2>2. IndexesOK'  BY <1>1, SMTT(20) DEF SubmitUpload
  <2>3. ProcessesOK'  BY <1>1, SubmitMoves
  <2>4. JobsOK'  BY <1>1, SMTT(20) DEF SubmitUpload
  <2>5. Activated'  BY <1>1, SMTT(20) DEF SubmitUpload
  <2>6. SessionsOK'  BY <1>1, SMTT(20) DEF SubmitUpload
  <2>7. VersionHasGeneration'  BY <1>1, SMTT(20) DEF SubmitUpload
  <2>. QED  BY <2>1, <2>2, <2>3, <2>4, <2>5, <2>6, <2>7
<1>2. ASSUME NEW b \in Attempts, Reattempt(a, b) PROVE Inv'
  <2>1. RowsOK'  BY <1>2, SMTT(20) DEF Reattempt
  <2>2. IndexesOK'  BY <1>2, SMTT(20) DEF Reattempt
  <2>3. ProcessesOK'  BY <1>2, ReattemptMoves
  <2>4. JobsOK'  BY <1>2, SMTT(20) DEF Reattempt
  <2>5. Activated'  BY <1>2, SMTT(20) DEF Reattempt
  <2>6. SessionsOK'  BY <1>2, SMTT(20) DEF Reattempt
  <2>7. VersionHasGeneration'  BY <1>2, SMTT(20) DEF Reattempt
  <2>. QED  BY <2>1, <2>2, <2>3, <2>4, <2>5, <2>6, <2>7
<1>3. ASSUME SubmitRebuild(a) PROVE Inv'
  BY <1>3, SMTT(30) DEF SubmitRebuild
<1>4. ASSUME RejectStale(a) PROVE Inv'
  BY <1>4, SMTT(30) DEF RejectStale
<1>11. ASSUME Admit(a) PROVE Inv'
  BY <1>11, SMTT(30) DEF Admit
<1>5. ASSUME Load(a) PROVE Inv'
  <2>1. RowsOK'  BY <1>5, SMTT(20) DEF Load, Loaded
  <2>2. IndexesOK'  BY <1>5, SMTT(20) DEF Load, Loaded
  <2>3. ProcessesOK'  BY <1>5, LoadMoves
  <2>4. JobsOK'  BY <1>5, SMTT(20) DEF Load, Loaded
  <2>5. Activated'  BY <1>5, SMTT(20) DEF Load, Loaded
  <2>6. SessionsOK'  BY <1>5, SMTT(20) DEF Load, Loaded
  <2>7. VersionHasGeneration'  BY <1>5, SMTT(20) DEF Load, Loaded
  <2>. QED  BY <2>1, <2>2, <2>3, <2>4, <2>5, <2>6, <2>7
<1>6. ASSUME Insert(a) PROVE Inv'
  BY <1>6, SMTT(30) DEF Insert
<1>7. ASSUME Stage(a) PROVE Inv'
  <2>1. RowsOK'  BY <1>7, SMTT(20) DEF Stage
  <2>2. IndexesOK'  BY <1>7, SMTT(20) DEF Stage
  <2>3. ProcessesOK'  BY <1>7, StageMoves
  <2>4. JobsOK'  BY <1>7, SMTT(20) DEF Stage
  <2>5. Activated'  BY <1>7, StageActivated
  <2>6. SessionsOK'  BY <1>7, SMTT(20) DEF Stage
  <2>7. VersionHasGeneration'  BY <1>7, SMTT(20) DEF Stage
  <2>. QED  BY <2>1, <2>2, <2>3, <2>4, <2>5, <2>6, <2>7
<1>8. ASSUME Switch(a) PROVE Inv'
  <2>1. RowsOK'  BY <1>8, SMTT(20) DEF Switch, FlushDoc, SwitchVersion, Supersede
  <2>2. IndexesOK'  BY <1>8, SMTT(20) DEF Switch, FlushDoc, SwitchVersion, Supersede
  <2>3. ProcessesOK'  BY <1>8, SMTT(20) DEF Switch, FlushDoc, SwitchVersion, Supersede
  <2>4. JobsOK'  BY <1>8, SMTT(20) DEF Switch, FlushDoc, SwitchVersion, Supersede
  <2>5. Activated'  BY <1>8, SMTT(20) DEF Switch, FlushDoc, SwitchVersion, Supersede
  <2>6. SessionsOK'  BY <1>8, SMTT(20) DEF Switch, FlushDoc, SwitchVersion, Supersede
  <2>7. VersionHasGeneration'  BY <1>8, SMTT(20) DEF Switch, FlushDoc, SwitchVersion, Supersede
  <2>. QED  BY <2>1, <2>2, <2>3, <2>4, <2>5, <2>6, <2>7
<1>9. ASSUME CommitFailure(a) PROVE Inv'
  <2>1. RowsOK'  BY <1>9, SMTT(20) DEF CommitFailure
  <2>2. IndexesOK'  BY <1>9, SMTT(20) DEF CommitFailure
  <2>3. ProcessesOK'  BY <1>9, SMTT(20) DEF CommitFailure
  <2>4. JobsOK'  BY <1>9, SMTT(20) DEF CommitFailure
  <2>5. Activated'  BY <1>9, SMTT(20) DEF CommitFailure
  <2>6. SessionsOK'  BY <1>9, SMTT(20) DEF CommitFailure
  <2>7. VersionHasGeneration'  BY <1>9, SMTT(20) DEF CommitFailure
  <2>. QED  BY <2>1, <2>2, <2>3, <2>4, <2>5, <2>6, <2>7
<1>10. ASSUME Abort(a) PROVE Inv'
  BY <1>10, SMTT(30) DEF Abort, Fault
<1>. QED  BY <1>1, <1>2, <1>3, <1>4, <1>5, <1>6, <1>7, <1>8, <1>9, <1>10, <1>11 DEF AttemptStep

(* The steps of a publication move one publisher and the two indexes; only *)
(* a rollback may end there, when it fails.                                *)
LEMMA PublisherMoves ==
  ASSUME Inv, NEW p \in Publishers, pc[p] \in Inserted, NEW s \in Inserted \cup {"failed"},
         NEW i \in Indexes, Enter(p, s, i), p \in Attempts => s # "failed", IndexesOK', faults' \in Nat,
         unrestored' \subseteq Indexes,
         UNCHANGED <<rows, job, epoch, holder, view, target, audited, erased, crossed>>
  PROVE  Inv'
<1>1. p \in Processes /\ s \in PcValues
  BY DEF Publishers, Processes, PcValues, Resting
<1>2. /\ pc'[p] = s
      /\ \A r \in Processes : r # p => pc'[r] = pc[r]
  BY <1>1 DEF Enter, Goto, Inv, TypeOK, ProcessesOK
<1>3. /\ pc[p] \notin {"new", "done", "failed", "retried", "commit"}
      /\ s \notin {"new", "done", "retried", "commit"}
  BY DEF Inserted
<1>4. RowsOK'
  BY DEF Inv, TypeOK, RowsOK, rows
<1>5. ProcessesOK'
  <2>1. p \in Attempts => (s \in Inserted <=> pc[p] \in Inserted)
    BY DEF Inserted
  <2>. QED  BY <1>1, <2>1, MoveOK DEF Inv, TypeOK
<1>6. JobsOK'
  <2>1. \A a \in Attempts : pc'[a] # "new" => pc[a] # "new"
    BY <1>2, <1>3 DEF Processes
  <2>. QED  BY <2>1 DEF Inv, TypeOK, JobsOK
<1>7. Activated'
  <2>1. \A g \in Attempts : pc[g] = "done" => pc'[g] = "done"
    BY <1>2, <1>3 DEF Processes
  <2>2. \A g \in Attempts : pc[g] \in {"failed", "retried"} => pc'[g] \in {"failed", "retried"}
    BY <1>2, <1>3 DEF Processes
  <2>3. doc.gen \in Attempts \cup {None} /\ \A r \in Processes : view[r].gen \in Attempts \cup {None}
    BY DEF Inv, TypeOK, RowsOK, ProcessesOK, Views
  <2>4. \A r \in Processes : target[r] \in Attempts \cup {None}
    BY DEF Inv, TypeOK, ProcessesOK
  <2>. QED  BY <2>1, <2>2, <2>3, <2>4 DEF Inv, Activated, rows
<1>8. SessionsOK'
  <2>1. \A q \in Rollbacks : pc'[q] \in Inserted => pc[q] \in Inserted
    BY <1>2 DEF Processes
  <2>2. \A d \in Deletes : pc'[d] = pc[d]
    BY <1>2, PublicationAssumption DEF Processes, Publishers
  <2>. QED  BY <2>1, <2>2 DEF Inv, SessionsOK
<1>9. VersionHasGeneration'
  BY DEF Inv, VersionHasGeneration, rows
<1>. QED  BY <1>4, <1>5, <1>6, <1>7, <1>8, <1>9 DEF Inv, TypeOK

(* Where an exception leads. *)
LEMMA RaiseMoves ==
  ASSUME NEW p \in Publishers, Raise(p)
  PROVE  \E s \in Inserted \cup {"failed"}, i \in Indexes :
           Enter(p, s, i) /\ (p \in Attempts => s # "failed")
<1>1. "dense" \in Indexes /\ {"failing_early", "undo_hide", "failed"} \subseteq Inserted \cup {"failed"}
  BY DEF Indexes, Inserted
<1>. QED  BY <1>1 DEF Raise

(* Where the restoring code goes after an index. *)
LEMMA UndoMoves ==
  ASSUME NEW p \in Publishers, AfterUndo(p)
  PROVE  \E s \in Inserted \cup {"failed"}, i \in Indexes :
           Enter(p, s, i) /\ (p \in Attempts => s # "failed")
<1>1. Indexes = {"dense", "lexical"} /\ {"failing", "undo_hide", "failed"} \subseteq Inserted \cup {"failed"}
  BY DEF Indexes, Inserted
<1>. QED  BY <1>1 DEF AfterUndo

(* Publishing and restoring, by an attempt or a rollback. *)
LEMMA PublishKeepsInv ==
  ASSUME Inv, NEW p \in Publishers, PublishStep(p)
  PROVE  Inv'
<1> DEFINE Moves(s, i) == Enter(p, s, i) /\ (p \in Attempts => s # "failed")
<1>1. at[p] \in Indexes /\ Indexes = {"dense", "lexical"} /\ faults \in Nat
  BY DEF Inv, TypeOK, ProcessesOK, JobsOK, Publishers, Processes, Indexes
<1>2. {"hide", "show", "check", "undo_hide", "undo_show"} \subseteq Inserted
  BY DEF Inserted
<1>3. pc[p] \in Inserted
  BY <1>2, PublicationAssumption
     DEF PublishStep, Hide, Show, Fail, UndoHide, UndoShow, UndoFails, Inserted
<1>4. UNCHANGED <<rows, job, epoch, holder, view, target, audited, erased, crossed>> /\ faults' \in Nat
  BY <1>1 DEF PublishStep, Hide, Show, Fail, UndoHide, UndoShow, UndoFails, Fault, indexes, history
<1>7. unrestored' \subseteq Indexes
  <2>1. unrestored' \subseteq unrestored \cup {at[p]}
    BY DEF PublishStep, Hide, Show, Fail, UndoHide, UndoShow, UndoFails, history
  <2>. QED  BY <1>1, <2>1 DEF Inv, TypeOK, JobsOK
<1>5. IndexesOK'
  <2>1. staged \in [Indexes -> SUBSET Attempts] /\ shown \in [Indexes -> SUBSET Attempts]
    BY DEF Inv, TypeOK, IndexesOK
  <2>2. staged' = staged \/ staged' = [staged EXCEPT ![at[p]] = {}]
    BY DEF PublishStep, Hide, Show, Fail, UndoHide, UndoShow, UndoFails, indexes
  <2>3. \/ shown' = shown
        \/ shown' = [shown EXCEPT ![at[p]] = {}]
        \/ \E G : shown' = [shown EXCEPT ![at[p]] = shown[at[p]] \cup (G \cap staged[at[p]])]
    BY DEF PublishStep, Hide, Show, Fail, UndoHide, UndoShow, UndoFails, indexes
  <2>4. shown' \in [Indexes -> SUBSET Attempts]
    BY <1>1, <2>1, <2>3
  <2>. QED  BY <1>1, <2>1, <2>2, <2>4 DEF IndexesOK
<1>6. \E s \in Inserted \cup {"failed"}, i \in Indexes : Moves(s, i)
  <2>1. CASE Hide(p)
    <3>1. Raise(p) \/ Moves("show", at[p])
      BY <2>1 DEF Hide
    <3>. QED  BY <1>1, <1>2, <3>1, RaiseMoves
  <2>2. CASE Show(p)
    <3>1. Moves("hide", "lexical") \/ Moves("check", "dense")
      BY <2>2 DEF Show
    <3>. QED  BY <1>1, <1>2, <3>1
  <2>3. CASE Fail(p)
    BY <2>3, RaiseMoves DEF Fail
  <2>4. CASE UndoHide(p)
    <3>1. AfterUndo(p) \/ Moves("undo_show", at[p])
      BY <2>4 DEF UndoHide
    <3>. QED  BY <1>1, <1>2, <3>1, UndoMoves
  <2>5. CASE UndoShow(p)
    BY <2>5, UndoMoves DEF UndoShow
  <2>6. CASE UndoFails(p)
    BY <2>6, UndoMoves DEF UndoFails
  <2>. QED  BY <2>1, <2>2, <2>3, <2>4, <2>5, <2>6 DEF PublishStep
<1>. QED  BY <1>3, <1>4, <1>5, <1>6, <1>7, PublisherMoves

(* Reading and committing a rollback. *)
LEMMA RollbackKeepsInv ==
  ASSUME Inv, NEW q \in Rollbacks, RollbackStep(q)
  PROVE  Inv'
<1> USE PublicationAssumption DEF Inv, TypeOK, RowsOK, IndexesOK, ProcessesOK, JobsOK, Activated,
      SessionsOK, VersionHasGeneration, Views, VersionStates, GenerationStates, PcValues, Resting,
      Inserted, Indexes, Processes, Publishers, rows, indexes, history, Goto, Enter
<1>1. ASSUME NEW g \in Attempts, RollbackRead(q, g) PROVE Inv'
  <2>1. RowsOK'  BY <1>1, SMTT(20) DEF RollbackRead, Loaded
  <2>2. IndexesOK'  BY <1>1, SMTT(20) DEF RollbackRead, Loaded
  <2>3. ProcessesOK'  BY <1>1, SMTT(20) DEF RollbackRead, Loaded
  <2>4. JobsOK'  BY <1>1, SMTT(20) DEF RollbackRead, Loaded
  <2>5. Activated'  BY <1>1, SMTT(20) DEF RollbackRead, Loaded
  <2>6. SessionsOK'  BY <1>1, SMTT(20) DEF RollbackRead, Loaded
  <2>7. VersionHasGeneration'  BY <1>1, SMTT(20) DEF RollbackRead, Loaded
  <2>. QED  BY <2>1, <2>2, <2>3, <2>4, <2>5, <2>6, <2>7
<1>2. ASSUME RollbackCommit(q) PROVE Inv'
  <2>1. RowsOK'  BY <1>2, SMTT(20) DEF RollbackCommit, FlushDoc, SwitchVersion, Supersede
  <2>2. IndexesOK'  BY <1>2, SMTT(20) DEF RollbackCommit, FlushDoc, SwitchVersion, Supersede
  <2>3. ProcessesOK'  BY <1>2, SMTT(20) DEF RollbackCommit, FlushDoc, SwitchVersion, Supersede
  <2>4. JobsOK'  BY <1>2, SMTT(20) DEF RollbackCommit, FlushDoc, SwitchVersion, Supersede
  <2>5. Activated'  BY <1>2, SMTT(20) DEF RollbackCommit, FlushDoc, SwitchVersion, Supersede
  <2>6. SessionsOK'  BY <1>2, SMTT(20) DEF RollbackCommit, FlushDoc, SwitchVersion, Supersede
  <2>7. VersionHasGeneration'  BY <1>2, SMTT(20) DEF RollbackCommit, FlushDoc, SwitchVersion, Supersede
  <2>. QED  BY <2>1, <2>2, <2>3, <2>4, <2>5, <2>6, <2>7
<1>3. ASSUME RollbackGone(q) PROVE Inv'
  BY <1>3, SMTT(30) DEF RollbackGone
<1>. QED  BY <1>1, <1>2, <1>3 DEF RollbackStep

(* Deleting the document and cleaning up after it. *)
LEMMA DeleteKeepsInv ==
  ASSUME Inv, NEW d \in Deletes, DeleteStep(d)
  PROVE  Inv'
<1> USE PublicationAssumption DEF Inv, TypeOK, RowsOK, IndexesOK, ProcessesOK, JobsOK, Activated,
      SessionsOK, VersionHasGeneration, Views, VersionStates, GenerationStates, PcValues, Resting,
      Inserted, Indexes, Processes, Publishers, rows, indexes, history, Goto, Enter
<1>1. ASSUME DeleteRead(d) PROVE Inv'
  <2>1. RowsOK'  BY <1>1, SMTT(20) DEF DeleteRead, Loaded
  <2>2. IndexesOK'  BY <1>1, SMTT(20) DEF DeleteRead, Loaded
  <2>3. ProcessesOK'  BY <1>1, SMTT(20) DEF DeleteRead, Loaded
  <2>4. JobsOK'  BY <1>1, SMTT(20) DEF DeleteRead, Loaded
  <2>5. Activated'  BY <1>1, SMTT(20) DEF DeleteRead, Loaded
  <2>6. SessionsOK'  BY <1>1, SMTT(20) DEF DeleteRead, Loaded
  <2>7. VersionHasGeneration'  BY <1>1, SMTT(20) DEF DeleteRead, Loaded
  <2>. QED  BY <2>1, <2>2, <2>3, <2>4, <2>5, <2>6, <2>7
<1>2. ASSUME DeleteCommit(d) PROVE Inv'
  <2>1. RowsOK'  BY <1>2, SMTT(20) DEF DeleteCommit, FlushDoc
  <2>2. IndexesOK'  BY <1>2, SMTT(20) DEF DeleteCommit, FlushDoc
  <2>3. ProcessesOK'  BY <1>2, SMTT(20) DEF DeleteCommit, FlushDoc
  <2>4. JobsOK'  BY <1>2, SMTT(20) DEF DeleteCommit, FlushDoc
  <2>5. Activated'  BY <1>2, SMTT(20) DEF DeleteCommit, FlushDoc
  <2>6. SessionsOK'  BY <1>2, SMTT(20) DEF DeleteCommit, FlushDoc
  <2>7. VersionHasGeneration'  BY <1>2, SMTT(20) DEF DeleteCommit, FlushDoc
  <2>. QED  BY <2>1, <2>2, <2>3, <2>4, <2>5, <2>6, <2>7
<1>3. ASSUME Cleanup(d) PROVE Inv'
  <2>1. RowsOK'  BY <1>3, SMTT(20) DEF Cleanup
  <2>2. IndexesOK'  BY <1>3, SMTT(20) DEF Cleanup
  <2>3. ProcessesOK'  BY <1>3, CleanupMoves
  <2>4. JobsOK'  BY <1>3, SMTT(20) DEF Cleanup
  <2>5. Activated'  BY <1>3, CleanupActivated
  <2>6. SessionsOK'  BY <1>3, SMTT(20) DEF Cleanup
  <2>7. VersionHasGeneration'  BY <1>3, SMTT(20) DEF Cleanup
  <2>. QED  BY <2>1, <2>2, <2>3, <2>4, <2>5, <2>6, <2>7
<1>. QED  BY <1>1, <1>2, <1>3 DEF DeleteStep

(* Sweeping a superseded generation. *)
LEMMA SweepKeepsInv ==
  ASSUME Inv, NEW s \in Sweeps, SweepStep(s)
  PROVE  Inv'
<1> USE PublicationAssumption DEF Inv, TypeOK, RowsOK, IndexesOK, ProcessesOK, JobsOK, Activated,
      SessionsOK, VersionHasGeneration, Views, VersionStates, GenerationStates, PcValues, Resting,
      Inserted, Indexes, Processes, Publishers, rows, indexes, history, Goto, Enter
<1>1. ASSUME NEW g \in Attempts, SweepRead(s, g) PROVE Inv'
  BY <1>1, SMTT(30) DEF SweepRead
<1>2. ASSUME SweepIndex(s) PROVE Inv'
  <2>1. RowsOK'  BY <1>2, SMTT(20) DEF SweepIndex
  <2>2. IndexesOK'  BY <1>2, SMTT(20) DEF SweepIndex
  <2>3. ProcessesOK'  BY <1>2, SweepMoves
  <2>4. JobsOK'  BY <1>2, SMTT(20) DEF SweepIndex
  <2>5. Activated'  BY <1>2, SMTT(20) DEF SweepIndex
  <2>6. SessionsOK'  BY <1>2, SMTT(20) DEF SweepIndex
  <2>7. VersionHasGeneration'  BY <1>2, SMTT(20) DEF SweepIndex
  <2>. QED  BY <2>1, <2>2, <2>3, <2>4, <2>5, <2>6, <2>7
<1>3. ASSUME SweepCommit(s) PROVE Inv'
  <2>1. RowsOK'  BY <1>3, SweepCommitRows
  <2>2. IndexesOK'  BY <1>3, SMTT(20) DEF SweepCommit
  <2>3. ProcessesOK'  BY <1>3, SMTT(20) DEF SweepCommit
  <2>4. JobsOK'  BY <1>3, SMTT(20) DEF SweepCommit
  <2>5. Activated'  BY <1>3, SMTT(20) DEF SweepCommit
  <2>6. SessionsOK'  BY <1>3, SMTT(20) DEF SweepCommit
  <2>7. VersionHasGeneration'  BY <1>3, SMTT(20) DEF SweepCommit
  <2>. QED  BY <2>1, <2>2, <2>3, <2>4, <2>5, <2>6, <2>7
<1>. QED  BY <1>1, <1>2, <1>3 DEF SweepStep

LEMMA StepInv == Inv /\ [Next]_vars => Inv'
<1> SUFFICES ASSUME Inv, [Next]_vars PROVE Inv'
  OBVIOUS
<1>1. CASE UNCHANGED vars
  BY <1>1 DEF vars, rows, indexes, history, Inv, TypeOK, RowsOK, IndexesOK, ProcessesOK, JobsOK, Activated,
              SessionsOK, VersionHasGeneration
<1>2. CASE Next
  BY <1>2, AttemptKeepsInv, PublishKeepsInv, RollbackKeepsInv, DeleteKeepsInv, SweepKeepsInv
     DEF Next
<1>. QED  BY <1>1, <1>2

LEMMA Invariance == Spec => []Inv
BY InitInv, StepInv, PTL DEF Spec

(* Type correctness: in particular two attempts of a document are never    *)
(* both past the insertion of their generation rows.                       *)
THEOREM PublicationTypeCorrect == Spec => []TypeOK
<1>1. Inv => TypeOK  BY DEF Inv
<1>. QED  BY <1>1, Invariance, PTL

(* A reader is offered one generation of a document at a time: wherever    *)
(* the authority query could skip its comparison of generations, there is  *)
(* an active generation to compare with.                                   *)
THEOREM ReadersSeeOneGeneration == Spec => []OneReadable
<1>1. Inv => OneReadable
  BY DEF Inv, TypeOK, RowsOK, VersionHasGeneration, OneReadable, Readable
<1>. QED  BY <1>1, Invariance, PTL

(* A reader is offered only generations whose switch has committed.        *)
THEOREM ReadersSeeCommitted == Spec => []OnlyPublishedReadable
<1>1. Inv => OnlyPublishedReadable
  BY DEF Inv, TypeOK, RowsOK, VersionHasGeneration, Activated, OnlyPublishedReadable, Readable
<1>. QED  BY <1>1, Invariance, PTL

-----------------------------------------------------------------------------
(* Sweeps.  A sweep holds no lock between its checks and its deletions; it *)
(* is safe because a generation is made active only by the attempt that    *)
(* created it, once, or by a rollback to it, and because a rollback leaves *)
(* an audit event behind.  What remains is named: a rollback and a sweep   *)
(* under way for the same generation ("crossed").                          *)
SweptInv ==
  /\ ActiveNotSwept
  /\ \A s \in Sweeps : pc[s] \in {"sweep", "commit"} =>
       /\ target[s] \in Attempts
       /\ target[s] \notin crossed =>
            target[s] # doc.gen /\ \A q \in Rollbacks : pc[q] \in Inserted => target[q] # target[s]
  /\ \A q \in Rollbacks : pc[q] \in Inserted /\ target[q] \notin crossed => gen[target[q]] # "none"

(* Steps that touch neither the rows nor the targets. *)
LEMMA QuietSwept ==
  ASSUME SweptInv, UNCHANGED <<doc, gen, target, crossed>>,
         \A q \in Rollbacks : pc'[q] \in Inserted => pc[q] \in Inserted,
         \A s \in Sweeps : pc'[s] \in {"sweep", "commit"} => pc[s] \in {"sweep", "commit"}
  PROVE  SweptInv'
BY DEF SweptInv, ActiveNotSwept

(* A step of an attempt moves no other process. *)
LEMMA AttemptMovesItself ==
  ASSUME Inv, NEW a \in Attempts, NEW to, Goto(a, to), NEW r \in Rollbacks \cup Deletes \cup Sweeps
  PROVE  pc'[r] = pc[r]
BY PublicationAssumption DEF Inv, TypeOK, ProcessesOK, Processes, Goto

LEMMA RestingNotInserted == Resting \cap (Inserted \cup {"sweep", "commit"}) = {}
BY DEF Resting, Inserted

LEMMA SweptStep ==
  ASSUME Inv, SweptInv, [Next]_vars
  PROVE  SweptInv'
<1> USE PublicationAssumption DEF Processes
<1>1. /\ doc \in [state : {"active", "deleted"}, version : Versions \cup {None}, gen : Attempts \cup {None}]
      /\ gen \in [Attempts -> GenerationStates] /\ pc \in [Processes -> PcValues]
      /\ target \in [Processes -> Attempts \cup {None}] /\ view \in [Processes -> Views]
      /\ crossed \subseteq Attempts
  BY DEF Inv, TypeOK, RowsOK, ProcessesOK, JobsOK
<1>2. /\ doc.gen \in Attempts \ crossed => gen[doc.gen] # "none"
      /\ \A q \in Rollbacks : pc[q] \in Inserted /\ target[q] \notin crossed => gen[target[q]] # "none"
      /\ \A s \in Sweeps : pc[s] \in {"sweep", "commit"} =>
           /\ target[s] \in Attempts
           /\ target[s] \notin crossed =>
                target[s] # doc.gen /\ \A q \in Rollbacks : pc[q] \in Inserted => target[q] # target[s]
  BY DEF SweptInv, ActiveNotSwept
<1>3. ASSUME NEW a \in Attempts, AttemptStep(a) PROVE SweptInv'
  <2>1. \A r \in Rollbacks \cup Sweeps : pc'[r] = pc[r]
    <3>1. CASE \E b \in Attempts : Reattempt(a, b)
      BY <1>1, <3>1 DEF Reattempt
    <3>2. CASE \E to : Goto(a, to)
      BY <3>2, AttemptMovesItself
    <3>3. QED
      BY <1>3, <3>1, <3>2
         DEF AttemptStep, SubmitUpload, SubmitRebuild, RejectStale, Admit, Load, Insert, Stage, Switch,
             CommitFailure, Abort, Enter
  <2>2. UNCHANGED <<target, crossed>>
    BY <1>3 DEF AttemptStep, SubmitUpload, SubmitRebuild, Reattempt, RejectStale, Admit, Load, Insert, Stage,
                Switch, CommitFailure, Abort, history
  <2>3. CASE Switch(a)
    <3>1. \A p \in Processes : target[p] # a
      BY <2>3 DEF Switch, Inv, Activated
    <3>2. doc'.gen \in {doc.gen, a}
      BY <2>3 DEF Switch, FlushDoc
    <3>3. gen'[a] # "none" /\ \A g \in Attempts : gen[g] # "none" => gen'[g] # "none"
      BY <1>1, <2>3 DEF Switch, Supersede
    <3>4. doc'.gen \in Attempts \ crossed => gen'[doc'.gen] # "none"
      BY <1>2, <3>2, <3>3
    <3>5. \A q \in Rollbacks : pc[q] \in Inserted => target[q] \in Attempts
      BY <1>1 DEF Inv, SessionsOK
    <3>6. QED
      BY <1>2, <2>1, <2>2, <3>1, <3>2, <3>3, <3>4, <3>5 DEF SweptInv, ActiveNotSwept
  <2>4. CASE CommitFailure(a)
    <3>1. doc' = doc /\ \A g \in Attempts : gen[g] # "none" => gen'[g] # "none"
      BY <1>1, <2>4 DEF CommitFailure
    <3>2. \A q \in Rollbacks : pc[q] \in Inserted => target[q] \in Attempts
      BY <1>1 DEF Inv, SessionsOK
    <3>3. QED
      BY <1>1, <1>2, <2>1, <2>2, <3>1, <3>2 DEF SweptInv, ActiveNotSwept
  <2>5. QED
    BY <1>3, <2>1, <2>2, <2>3, <2>4, QuietSwept
       DEF AttemptStep, SubmitUpload, SubmitRebuild, Reattempt, RejectStale, Admit, Load, Insert, Stage, Abort,
           rows
<1>4. ASSUME NEW p \in Publishers, PublishStep(p) PROVE SweptInv'
  <2>1. UNCHANGED <<doc, gen, target, crossed>>
    BY <1>4 DEF PublishStep, Hide, Show, Fail, UndoHide, UndoShow, UndoFails, rows, history
  <2>2. pc[p] \in Inserted /\ \E to : Goto(p, to)
    BY <1>4 DEF PublishStep, Hide, Show, Fail, UndoHide, UndoShow, UndoFails, Raise, AfterUndo, Enter,
                Inserted
  <2>3. \A r \in Processes : r # p => pc'[r] = pc[r]
    BY <1>1, <2>2 DEF Goto
  <2>4. p \notin Sweeps
    BY DEF Publishers
  <2>5. QED
    BY <2>1, <2>2, <2>3, <2>4, QuietSwept
<1>5. ASSUME NEW q \in Rollbacks, RollbackStep(q) PROVE SweptInv'
  <2>1. ASSUME NEW g \in Attempts, RollbackRead(q, g) PROVE SweptInv'
    <3>1. /\ gen[g] # "none" /\ UNCHANGED <<doc, gen>> /\ target'[q] = g
          /\ crossed' = crossed \cup ({g} \cap Aims(Sweeps))
          /\ \A r \in Processes : r # q => pc'[r] = pc[r] /\ target'[r] = target[r]
      BY <1>1, <2>1 DEF RollbackRead, rows, Enter, Goto
    <3>2. \A s \in Sweeps : pc[s] \in {"sweep", "commit"} => target[s] \in Aims(Sweeps)
      BY DEF Aims, Open, Resting
    <3>3. \A s \in Sweeps : s # q
      OBVIOUS
    <3>4. ActiveNotSwept'
      BY <1>2, <3>1 DEF ActiveNotSwept
    <3>5. \A s \in Sweeps : pc'[s] \in {"sweep", "commit"} =>
            /\ target'[s] \in Attempts
            /\ target'[s] \notin crossed' =>
                 target'[s] # doc'.gen /\ \A r \in Rollbacks : pc'[r] \in Inserted => target'[r] # target'[s]
      BY <1>2, <3>1, <3>2, <3>3
    <3>6. \A r \in Rollbacks : pc'[r] \in Inserted /\ target'[r] \notin crossed' => gen'[target'[r]] # "none"
      BY <1>2, <3>1
    <3>7. QED
      BY <3>4, <3>5, <3>6 DEF SweptInv
  <2>2. ASSUME RollbackCommit(q) PROVE SweptInv'
    <3>1. pc[q] \in Inserted /\ target[q] \in Attempts
      BY <1>1, <2>2 DEF RollbackCommit, Inserted, Inv, SessionsOK
    <3>2. /\ UNCHANGED <<target, crossed>>
          /\ \A r \in Processes : r # q => pc'[r] = pc[r]
      BY <1>1, <2>2 DEF RollbackCommit, Goto, history
    <3>3. pc'[q] = "done" /\ "done" \notin Inserted /\ \A s \in Sweeps : s # q
      BY <1>1, <2>2 DEF RollbackCommit, Goto, Inserted
    <3>4. doc'.gen \in {doc.gen, target[q]}
      BY <2>2 DEF RollbackCommit, FlushDoc
    <3>5. \A g \in Attempts : gen[g] # "none" => gen'[g] # "none"
      BY <1>1, <2>2 DEF RollbackCommit, Supersede
    <3>6. ActiveNotSwept'
      BY <1>2, <3>1, <3>2, <3>4, <3>5 DEF ActiveNotSwept
    <3>7. \A r \in Rollbacks : pc[r] \in Inserted => target[r] \in Attempts
      BY <1>1 DEF Inv, SessionsOK
    <3>8. QED
      BY <1>2, <3>1, <3>2, <3>3, <3>4, <3>5, <3>6, <3>7 DEF SweptInv
  <2>3. ASSUME RollbackGone(q) PROVE SweptInv'
    BY <1>1, <2>3, QuietSwept DEF RollbackGone, Goto, Inserted, rows, history
  <2>4. QED
    BY <1>5, <2>1, <2>2, <2>3 DEF RollbackStep
<1>6. ASSUME NEW d \in Deletes, DeleteStep(d) PROVE SweptInv'
  <2>1. \A r \in Rollbacks \cup Sweeps : pc'[r] = pc[r]
    BY <1>1, <1>6 DEF DeleteStep, DeleteRead, DeleteCommit, Cleanup, Enter, Goto
  <2>2. ASSUME DeleteCommit(d) PROVE SweptInv'
    <3>1. doc'.gen \in {None, doc.gen} /\ UNCHANGED <<gen, target, crossed>>
      BY <1>1, <2>2 DEF DeleteCommit, FlushDoc, Views
    <3>2. QED
      BY <1>2, <2>1, <3>1 DEF SweptInv, ActiveNotSwept
  <2>3. CASE DeleteRead(d) \/ Cleanup(d)
    BY <2>1, <2>3, QuietSwept DEF DeleteRead, Cleanup, rows, history
  <2>4. QED
    BY <1>6, <2>2, <2>3 DEF DeleteStep
<1>7. ASSUME NEW s \in Sweeps, SweepStep(s) PROVE SweptInv'
  <2>1. ASSUME NEW g \in Attempts, SweepRead(s, g) PROVE SweptInv'
    <3>1. /\ g # doc.gen /\ UNCHANGED <<doc, gen>> /\ target'[s] = g
          /\ crossed' = crossed \cup ({g} \cap Aims(Rollbacks))
          /\ \A r \in Processes : r # s => pc'[r] = pc[r] /\ target'[r] = target[r]
      BY <1>1, <2>1 DEF SweepRead, rows, Enter, Goto
    <3>2. \A q \in Rollbacks : pc[q] \in Inserted => target[q] \in Aims(Rollbacks)
      BY RestingNotInserted DEF Aims, Open
    <3>3. \A q \in Rollbacks : q # s
      OBVIOUS
    <3>4. ActiveNotSwept'
      BY <1>2, <3>1 DEF ActiveNotSwept
    <3>5. \A t \in Sweeps : pc'[t] \in {"sweep", "commit"} =>
            /\ target'[t] \in Attempts
            /\ target'[t] \notin crossed' =>
                 target'[t] # doc'.gen /\ \A r \in Rollbacks : pc'[r] \in Inserted => target'[r] # target'[t]
      BY <1>2, <3>1, <3>2, <3>3
    <3>6. \A r \in Rollbacks : pc'[r] \in Inserted /\ target'[r] \notin crossed' => gen'[target'[r]] # "none"
      BY <1>2, <3>1, <3>3
    <3>7. QED
      BY <3>4, <3>5, <3>6 DEF SweptInv
  <2>2. ASSUME SweepIndex(s) PROVE SweptInv'
    <3>1. pc[s] = "sweep" /\ UNCHANGED <<doc, gen, target, crossed>> /\ \E to : Goto(s, to)
      BY <2>2 DEF SweepIndex, Enter, rows, history
    <3>2. \A r \in Processes : r # s => pc'[r] = pc[r]
      BY <1>1, <3>1 DEF Goto
    <3>3. \A q \in Rollbacks : q # s
      OBVIOUS
    <3>4. QED
      BY <3>1, <3>2, <3>3, QuietSwept
  <2>3. ASSUME SweepCommit(s) PROVE SweptInv'
    <3>1. /\ pc[s] = "commit" /\ UNCHANGED <<doc, target, crossed>> /\ pc'[s] = "done"
          /\ \A g \in Attempts : g # target[s] => gen'[g] = gen[g]
          /\ \A r \in Processes : r # s => pc'[r] = pc[r]
      BY <1>1, <2>3 DEF SweepCommit, Goto, history
    <3>2. \A q \in Rollbacks : q # s /\ (pc[q] \in Inserted => target[q] \in Attempts)
      BY <1>1 DEF Inv, SessionsOK
    <3>3. ActiveNotSwept'
      BY <1>2, <3>1 DEF ActiveNotSwept
    <3>4. \A r \in Rollbacks : pc'[r] \in Inserted /\ target'[r] \notin crossed' => gen'[target'[r]] # "none"
      BY <1>2, <3>1, <3>2
    <3>5. QED
      BY <1>2, <3>1, <3>2, <3>3, <3>4 DEF SweptInv
  <2>4. QED
    BY <1>7, <2>1, <2>2, <2>3 DEF SweepStep
<1>8. CASE UNCHANGED vars
  BY <1>8, QuietSwept DEF vars, rows, history
<1>9. QED
  BY <1>3, <1>4, <1>5, <1>6, <1>7, <1>8 DEF Next

LEMMA SweptInit == Init => SweptInv
BY PublicationAssumption, RestingNotInserted DEF Init, SweptInv, ActiveNotSwept, Processes, Resting

LEMMA Swept == Spec => []SweptInv
<1>1. Inv /\ SweptInv /\ [Next]_vars => SweptInv'
  BY SweptStep
<1>2. QED
  BY <1>1, SweptInit, Invariance, PTL DEF Spec

(* The retention sweep never removes the generation the document uses,     *)
(* whatever overlaps with it, fails or is deleted, unless a rollback to    *)
(* that generation was under way together with the sweep of it.            *)
THEOREM SweepSparesActive == Spec => []ActiveNotSwept
<1>1. SweptInv => ActiveNotSwept
  BY DEF SweptInv
<1>2. QED
  BY <1>1, Swept, PTL

-----------------------------------------------------------------------------
(* Operations that do not overlap.  Nothing in the code keeps a rollback   *)
(* and an attempt of one document apart; the theorems below say what holds *)
(* while they happen to take turns.                                        *)
OneAtATime == \A p, q \in Open : p = q

(* Only four steps open an operation, and only if they may; an attempt     *)
(* needs a worker besides.                                                 *)
MayStart(p) == MayOpen /\ (p \in Attempts => WorkerFree)

LEMMA OpenEffect ==
  ASSUME Inv, [Next]_vars
  PROVE  Open' \subseteq Open \/ \E p \in Processes : MayStart(p) /\ Open' \subseteq Open \cup {p}
<1> USE PublicationAssumption DEF Inv, TypeOK, ProcessesOK, Processes, Publishers
<1> DEFINE Moves(p) == \A r \in Processes : r # p => pc'[r] = pc[r]
           Claim == Open' \subseteq Open \/ \E p \in Processes : MayStart(p) /\ Open' \subseteq Open \cup {p}
<1>1. ASSUME NEW p \in Processes, Moves(p), pc[p] \notin Resting \/ pc'[p] \in Resting \/ MayStart(p) PROVE Claim
  BY <1>1 DEF Open
<1>2. ASSUME NEW p \in Processes, NEW to, Goto(p, to) PROVE Moves(p)
  BY <1>2 DEF Goto
<1>3. ASSUME NEW p \in Processes, NEW to, Goto(p, to),
             pc[p] \notin Resting \/ to \in Resting \/ MayStart(p)
      PROVE  Claim
  <2>1. pc'[p] = to
    BY <1>3 DEF Goto
  <2>2. QED
    BY <1>1, <1>2, <1>3, <2>1
<1>4. ASSUME NEW a \in Attempts, AttemptStep(a) PROVE Claim
  <2>1. ASSUME NEW b \in Attempts, Reattempt(a, b) PROVE Claim
    BY <2>1 DEF Reattempt, Open, Resting
  <2>2. ASSUME NEW v \in Versions, SubmitUpload(a, v) PROVE Claim
    BY <1>3, <2>2 DEF SubmitUpload, Resting
  <2>3. CASE SubmitRebuild(a) \/ RejectStale(a) \/ Admit(a)
    BY <1>3, <2>3 DEF SubmitRebuild, RejectStale, Admit, Resting, MayStart
  <2>4. CASE Load(a) \/ Insert(a) \/ Stage(a) \/ Switch(a) \/ CommitFailure(a) \/ Abort(a)
    BY <1>3, <2>4 DEF Load, Insert, Stage, Switch, CommitFailure, Abort, Enter, Resting
  <2>5. QED
    BY <1>4, <2>1, <2>2, <2>3, <2>4 DEF AttemptStep
<1>5. ASSUME NEW p \in Publishers, PublishStep(p) PROVE Claim
  <2>1. pc[p] \notin Resting
    BY <1>5 DEF PublishStep, Hide, Show, Fail, UndoHide, UndoShow, UndoFails, Resting
  <2>2. \E to : Goto(p, to)
    BY <1>5 DEF PublishStep, Hide, Show, Fail, UndoHide, UndoShow, UndoFails, Raise, AfterUndo, Enter
  <2>3. QED
    BY <1>3, <2>1, <2>2
<1>6. ASSUME NEW q \in Rollbacks, RollbackStep(q) PROVE Claim
  BY <1>3, <1>6 DEF RollbackStep, RollbackRead, RollbackCommit, RollbackGone, Enter, Resting, MayStart
<1>7. ASSUME NEW d \in Deletes, DeleteStep(d) PROVE Claim
  BY <1>3, <1>7 DEF DeleteStep, DeleteRead, DeleteCommit, Cleanup, Enter, Resting, MayStart
<1>8. ASSUME NEW t \in Sweeps, SweepStep(t) PROVE Claim
  BY <1>3, <1>8 DEF SweepStep, SweepRead, SweepIndex, SweepCommit, Enter, Resting, MayStart
<1>9. CASE UNCHANGED vars
  BY <1>9 DEF vars, Open
<1>10. QED
  BY <1>4, <1>5, <1>6, <1>7, <1>8, <1>9 DEF Next

LEMMA MayOpenAlone ==
  ASSUME MaxOpen = 1, OneAtATime, MayOpen
  PROVE  Open = {}
<1> SUFFICES ASSUME NEW p \in Open PROVE FALSE
  OBVIOUS
<1>1. Open = {p}
  BY DEF OneAtATime
<1>2. Cardinality(Open) = 1
  BY <1>1, FS_Singleton
<1>3. QED
  BY <1>2 DEF MayOpen

LEMMA OneAtATimeStep ==
  ASSUME MaxOpen = 1, Inv, OneAtATime, [Next]_vars
  PROVE  OneAtATime'
<1>1. CASE Open' \subseteq Open
  BY <1>1 DEF OneAtATime
<1>2. CASE \E p \in Processes : MayStart(p) /\ Open' \subseteq Open \cup {p}
  BY <1>2, MayOpenAlone DEF OneAtATime, MayStart
<1>3. QED
  BY <1>1, <1>2, OpenEffect

(* While one operation is open every other process rests. *)
LEMMA OthersRest ==
  ASSUME OneAtATime, NEW p \in Processes, pc[p] \notin Resting
  PROVE  \A r \in Processes : r # p => pc[r] \in Resting
BY DEF OneAtATime, Open

-----------------------------------------------------------------------------
(* Publishers take turns when all operations on the document do, and also  *)
(* when there is one worker and nobody rolls back: sweeps may then overlap *)
(* with the attempts and with each other.                                  *)
TakingTurns == MaxOpen = 1 \/ (WorkerCount = 1 /\ Rollbacks = {})

PublishersAlone == \A p, q \in Open \cap Publishers : p = q

TurnsInv ==
  /\ MaxOpen = 1 => OneAtATime
  /\ PublishersAlone
  /\ crossed = {}
  /\ SweptInv

LEMMA WorkersAlone ==
  ASSUME WorkerCount = 1, Rollbacks = {}, PublishersAlone, WorkerFree
  PROVE  Open \cap Publishers = {}
<1>1. Publishers = Attempts
  BY DEF Publishers
<1> SUFFICES ASSUME NEW p \in Open \cap Attempts PROVE FALSE
  BY <1>1
<1>2. Open \cap Attempts = {p}
  BY <1>1 DEF PublishersAlone
<1>3. Cardinality(Open \cap Attempts) = 1
  BY <1>2, FS_Singleton
<1>4. QED
  BY <1>3 DEF WorkerFree

LEMMA PublishersAloneStep ==
  ASSUME WorkerCount = 1, Rollbacks = {}, Inv, PublishersAlone, [Next]_vars
  PROVE  PublishersAlone'
<1>1. Publishers = Attempts
  BY DEF Publishers
<1>2. CASE Open' \subseteq Open
  BY <1>2 DEF PublishersAlone
<1>3. ASSUME NEW p \in Processes, MayStart(p), Open' \subseteq Open \cup {p} PROVE PublishersAlone'
  <2>1. CASE p \in Attempts
    BY <1>3, <2>1, WorkersAlone DEF PublishersAlone, MayStart
  <2>2. CASE p \notin Attempts
    BY <1>1, <1>3, <2>2 DEF PublishersAlone
  <2>3. QED
    BY <2>1, <2>2
<1>4. QED
  BY <1>2, <1>3, OpenEffect

(* Rollbacks and sweeps that take turns never cross. *)
LEMMA NeverCrossed ==
  ASSUME TakingTurns, MaxOpen = 1 => OneAtATime, crossed = {}, [Next]_vars
  PROVE  crossed' = {}
<1>1. MayOpen => Aims(Rollbacks) = {} /\ (Rollbacks # {} => Aims(Sweeps) = {})
  <2>1. CASE MaxOpen = 1
    BY <2>1, MayOpenAlone DEF Aims
  <2>2. CASE Rollbacks = {}
    BY <2>2 DEF Aims
  <2>3. QED
    BY <2>1, <2>2 DEF TakingTurns
<1>2. ASSUME NEW q \in Rollbacks, NEW g \in Attempts, RollbackRead(q, g) PROVE crossed' = {}
  BY <1>1, <1>2 DEF RollbackRead
<1>3. ASSUME NEW s \in Sweeps, NEW g \in Attempts, SweepRead(s, g) PROVE crossed' = {}
  BY <1>1, <1>3 DEF SweepRead
<1>4. ASSUME NEW a \in Attempts, AttemptStep(a) PROVE crossed' = crossed
  BY <1>4 DEF AttemptStep, SubmitUpload, SubmitRebuild, Reattempt, RejectStale, Admit, Load, Insert, Stage,
              Switch, CommitFailure, Abort, history
<1>5. ASSUME NEW p \in Publishers, PublishStep(p) PROVE crossed' = crossed
  BY <1>5 DEF PublishStep, Hide, Show, Fail, UndoHide, UndoShow, UndoFails, history
<1>6. ASSUME NEW d \in Deletes, DeleteStep(d) PROVE crossed' = crossed
  BY <1>6 DEF DeleteStep, DeleteRead, DeleteCommit, Cleanup, history
<1>7. ASSUME NEW q \in Rollbacks, RollbackCommit(q) \/ RollbackGone(q) PROVE crossed' = crossed
  BY <1>7 DEF RollbackCommit, RollbackGone, history
<1>8. ASSUME NEW s \in Sweeps, SweepIndex(s) \/ SweepCommit(s) PROVE crossed' = crossed
  BY <1>8 DEF SweepIndex, SweepCommit, history
<1>9. CASE UNCHANGED vars
  BY <1>9 DEF vars, history
<1>10. QED
  BY <1>2, <1>3, <1>4, <1>5, <1>6, <1>7, <1>8, <1>9 DEF Next, RollbackStep, SweepStep

LEMMA Turns ==
  ASSUME TakingTurns
  PROVE  Spec => []TurnsInv
<1> DEFINE Apart == (MaxOpen = 1 => OneAtATime) /\ PublishersAlone /\ crossed = {}
<1>1. Init => Apart
  BY DEF Init, OneAtATime, PublishersAlone, Open, Resting, Processes
<1>2. Inv /\ Apart /\ [Next]_vars => Apart'
  <2> SUFFICES ASSUME Inv, Apart, [Next]_vars PROVE Apart'
    OBVIOUS
  <2>1. crossed' = {}
    BY NeverCrossed
  <2>2. CASE MaxOpen = 1
    <3>1. OneAtATime'
      BY <2>2, OneAtATimeStep
    <3>2. PublishersAlone'
      BY <3>1 DEF OneAtATime, PublishersAlone
    <3>3. QED
      BY <2>1, <3>1, <3>2
  <2>3. CASE MaxOpen # 1
    <3>1. PublishersAlone'
      BY <2>3, PublishersAloneStep DEF TakingTurns
    <3>2. QED
      BY <2>1, <2>3, <3>1
  <2>4. QED
    BY <2>2, <2>3
<1>3. Apart /\ SweptInv => TurnsInv
  BY DEF TurnsInv
<1> HIDE DEF Apart
<1>4. QED
  BY <1>1, <1>2, <1>3, Swept, Invariance, PTL DEF Spec

(* While a publisher is open the others rest, and it started alone.        *)
LEMMA PublishersRest ==
  ASSUME PublishersAlone, NEW p \in Publishers, pc[p] \notin Resting
  PROVE  \A r \in Publishers : r # p => pc[r] \in Resting
BY DEF PublishersAlone, Open, Publishers, Processes

LEMMA StartsAlone ==
  ASSUME TakingTurns, TurnsInv, NEW p \in Publishers, MayStart(p)
  PROVE  \A r \in Publishers : pc[r] \in Resting
<1>1. CASE MaxOpen = 1
  BY <1>1, MayOpenAlone DEF TurnsInv, MayStart, Open, Publishers, Processes
<1>2. CASE WorkerCount = 1 /\ Rollbacks = {}
  <2>1. p \in Attempts
    BY <1>2 DEF Publishers
  <2>2. QED
    BY <1>2, <2>1, WorkersAlone DEF TurnsInv, MayStart, Open, Publishers, Processes
<1>3. QED
  BY <1>1, <1>2 DEF TakingTurns

-----------------------------------------------------------------------------
(* The indexes.  An operation under way may have taken the document's      *)
(* generation out of an index ("Hidden") and put its own in ("Placed");    *)
(* every other index still serves the active one.                          *)
Hidden(p, i) ==
  \/ pc[p] \in {"hide", "show"} /\ at[p] = "lexical" /\ i = "dense"
  \/ pc[p] = "show" /\ at[p] = i
  \/ pc[p] = "check"
  \/ pc[p] \in {"undo_hide", "undo_show"} /\ (at[p] = i \/ (p \in Attempts /\ at[p] = "dense"))

Placed(p, i) ==
  \/ pc[p] \in {"hide", "show"} /\ at[p] = "lexical" /\ i = "dense"
  \/ pc[p] = "check"

(* An attempt that was admitted has not loaded anything yet. *)
Loadless == Resting \cup {"admitted"}

(* A publisher under way holds the document as it is, so that it can put   *)
(* back what it took out.                                                  *)
SessionServes(p) ==
  /\ view[p].version = doc.version /\ view[p].gen = doc.gen
  /\ \A i \in Indexes : Placed(p, i) => Goal(p) \subseteq shown[i]
  /\ pc[p] = "show" => Goal(p) \subseteq staged[at[p]]
  /\ p \in Rollbacks /\ pc[p] \in {"undo_hide", "undo_show"} => at[p] = "dense"

(* The active generation belongs to the active version and its content is  *)
(* staged in both indexes. *)
ActiveStaged ==
  doc.gen # None => job[doc.gen].version = doc.version /\ \A i \in Indexes : doc.gen \in staged[i]

ActiveServed ==
  doc.gen # None =>
    \A i \in Indexes \ unrestored : (\A p \in Publishers : ~Hidden(p, i)) => doc.gen \in shown[i]

ServeInv ==
  /\ \A i \in Indexes : shown[i] \subseteq staged[i]
  /\ \A p \in Publishers : pc[p] \notin Loadless => SessionServes(p)
  /\ ActiveStaged
  /\ ActiveServed

(* The failures the code sees to are all but crashes and lost leases.      *)
Mended == "abort" \notin Faults

(* When everybody but p rests, ServeInv is about p. *)
ServesAround(p) ==
  /\ pc[p] \notin Loadless => SessionServes(p)
  /\ ActiveStaged
  /\ doc.gen # None => \A i \in Indexes \ unrestored : ~Hidden(p, i) => doc.gen \in shown[i]

LEMMA RestingHidesNothing ==
  ASSUME NEW p, pc[p] \in Loadless, NEW i
  PROVE  ~Hidden(p, i)
BY DEF Hidden, Loadless, Resting

LEMMA ServeUnfold ==
  ASSUME ServeInv, NEW p \in Publishers, \A r \in Publishers : r # p => pc[r] \in Resting
  PROVE  ServesAround(p)
<1>1. \A r \in Publishers, i \in Indexes : r # p => ~Hidden(r, i)
  BY RestingHidesNothing DEF Loadless
<1>2. QED
  BY <1>1 DEF ServeInv, ActiveServed, ServesAround

LEMMA ServeFold ==
  ASSUME NEW p \in Publishers, \A r \in Publishers : r # p => pc'[r] \in Resting,
         ServesAround(p)', \A i \in Indexes : shown'[i] \subseteq staged'[i]
  PROVE  ServeInv'
<1>1. ActiveServed'
  BY DEF ServesAround, ActiveServed, Indexes
<1>2. \A r \in Publishers : pc'[r] \notin Loadless => SessionServes(r)'
  BY DEF ServesAround, Loadless, Resting
<1>3. QED
  BY <1>1, <1>2 DEF ServeInv, ServesAround, Indexes, Publishers, Loadless, Resting

(* The job of an activated generation never changes. *)
LEMMA JobKept ==
  ASSUME Inv, [Next]_vars, NEW g \in Attempts, pc[g] = "done"
  PROVE  job'[g] = job[g]
<1>1. job \in [Attempts -> [version : Versions \cup {None}, kind : Kinds \cup {"none"}, epoch : Nat]]
  BY DEF Inv, TypeOK, JobsOK
<1>2. ASSUME NEW a \in Attempts, AttemptStep(a) PROVE job'[g] = job[g]
  BY <1>1, <1>2
     DEF AttemptStep, SubmitUpload, SubmitRebuild, Reattempt, RejectStale, Admit, Load, Insert, Stage,
         Switch, CommitFailure, Abort
<1>3. QED
  BY <1>2
     DEF Next, PublishStep, Hide, Show, Fail, UndoHide, UndoShow, UndoFails, RollbackStep, RollbackRead,
         RollbackCommit, RollbackGone, DeleteStep, DeleteRead, DeleteCommit, Cleanup, SweepStep,
         SweepRead, SweepIndex, SweepCommit, vars

(* Steps that change neither the document nor the indexes, and no          *)
(* publisher under way.                                                    *)
LEMMA QuietServe ==
  ASSUME Inv, ServeInv, [Next]_vars, UNCHANGED <<doc, staged, shown, unrestored>>,
         \A r \in Publishers :
           \/ pc[r] \in Loadless /\ pc'[r] \in Loadless
           \/ pc'[r] = pc[r] /\ at'[r] = at[r] /\ view'[r] = view[r] /\ target'[r] = target[r]
  PROVE  ServeInv'
<1>1. \A r \in Publishers, i \in Indexes : Hidden(r, i)' <=> Hidden(r, i)
  BY RestingHidesNothing DEF Hidden, Loadless, Resting
<1>2. ActiveServed'
  BY <1>1 DEF ServeInv, ActiveServed
<1>3. ActiveStaged'
  <2>1. doc.gen # None => doc.gen \in Attempts /\ pc[doc.gen] = "done"
    BY DEF Inv, TypeOK, RowsOK, Activated
  <2>2. QED
    BY <2>1, JobKept DEF ServeInv, ActiveStaged
<1>4. ASSUME NEW r \in Publishers, pc'[r] \notin Loadless PROVE SessionServes(r)'
  <2>1. pc'[r] = pc[r] /\ at'[r] = at[r] /\ view'[r] = view[r] /\ target'[r] = target[r] /\ SessionServes(r)
    BY <1>4 DEF ServeInv
  <2>2. QED
    BY <2>1 DEF SessionServes, Placed, Goal
<1>5. QED
  BY <1>2, <1>3, <1>4 DEF ServeInv

(* An operation may end, with the indexes as they are, once it hides       *)
(* nothing.                                                                *)
LEMMA MoveServes ==
  ASSUME Inv, ServeInv, [Next]_vars, UNCHANGED <<doc, view, target>>,
         NEW p \in Publishers, \A r \in Publishers : r # p => pc[r] \in Resting /\ pc'[r] = pc[r],
         \A i \in Indexes : shown'[i] \subseteq staged'[i],
         pc[p] \notin Loadless,
         \A i \in Indexes : Placed(p, i)' => Goal(p) \subseteq shown'[i],
         pc'[p] = "show" => Goal(p) \subseteq staged'[at'[p]],
         p \in Rollbacks /\ pc'[p] \in {"undo_hide", "undo_show"} => at'[p] = "dense",
         doc.gen # None => \A i \in Indexes :
           /\ doc.gen \in staged'[i]
           /\ i \notin unrestored' /\ ~Hidden(p, i)' => doc.gen \in shown'[i]
  PROVE  ServeInv'
<1>1. SessionServes(p)
  BY DEF ServeInv
<1>2. SessionServes(p)'
  BY <1>1 DEF SessionServes, Goal
<1>3. ActiveStaged'
  <2>1. doc.gen # None => doc.gen \in Attempts /\ pc[doc.gen] = "done"
    BY DEF Inv, TypeOK, RowsOK, Activated
  <2>2. QED
    BY <2>1, JobKept DEF ServeInv, ActiveStaged
<1>4. ServesAround(p)'
  BY <1>2, <1>3 DEF ServesAround
<1>5. QED
  BY <1>4, ServeFold

(* What a publisher under way may rely on. *)
LEMMA PublisherFacts ==
  ASSUME Inv, ServeInv, NEW p \in Publishers, pc[p] \notin Loadless,
         \A r \in Publishers : r # p => pc[r] \in Resting
  PROVE  /\ pc \in [Processes -> PcValues] /\ at \in [Processes -> Indexes] /\ p \in Processes
         /\ staged \in [Indexes -> SUBSET Attempts] /\ shown \in [Indexes -> SUBSET Attempts]
         /\ at[p] = "dense" \/ at[p] = "lexical"
         /\ \A i \in Indexes : shown[i] \subseteq staged[i]
         /\ SessionServes(p)
         /\ doc.gen # None => \A i \in Indexes :
             doc.gen \in staged[i] /\ (i \notin unrestored /\ ~Hidden(p, i) => doc.gen \in shown[i])
         /\ doc.gen # None => doc.version # None /\ doc.gen \in Previous(p)
<1>1. /\ pc \in [Processes -> PcValues] /\ at \in [Processes -> Indexes] /\ p \in Processes
      /\ staged \in [Indexes -> SUBSET Attempts] /\ shown \in [Indexes -> SUBSET Attempts]
  BY DEF Inv, TypeOK, ProcessesOK, IndexesOK, Publishers, Processes
<1>2. SessionServes(p) /\ \A i \in Indexes : shown[i] \subseteq staged[i]
  BY DEF ServeInv
<1>3. doc.gen # None => \A i \in Indexes :
             doc.gen \in staged[i] /\ (i \notin unrestored /\ ~Hidden(p, i) => doc.gen \in shown[i])
  BY ServeUnfold DEF ServesAround, ActiveStaged
<1>4. doc.gen # None => doc.version # None /\ doc.gen \in Previous(p)
  <2> SUFFICES ASSUME doc.gen # None PROVE doc.version # None /\ doc.gen \in Previous(p)
    OBVIOUS
  <2>1. doc.gen \in Attempts /\ pc[doc.gen] = "done"
    BY DEF Inv, TypeOK, RowsOK, Activated
  <2>2. job[doc.gen].version \in Versions
    BY <2>1 DEF Inv, TypeOK, JobsOK
  <2>3. job[doc.gen].version = doc.version
    BY DEF ServeInv, ActiveStaged
  <2>4. QED
    BY <1>2, <2>1, <2>2, <2>3, PublicationAssumption DEF SessionServes, Previous, GenerationsOf
<1>5. QED
  BY <1>1, <1>2, <1>3, <1>4 DEF Indexes

(* Publishing and restoring. *)
LEMMA PublishServes ==
  ASSUME Inv, ServeInv, [Next]_vars, NEW p \in Publishers, PublishStep(p),
         \A r \in Publishers : r # p => pc[r] \in Resting
  PROVE  ServeInv'
<1>1. pc[p] \notin Loadless
  BY DEF PublishStep, Hide, Show, Fail, UndoHide, UndoShow, UndoFails, Loadless, Resting
<1>2. /\ pc \in [Processes -> PcValues] /\ at \in [Processes -> Indexes] /\ p \in Processes
      /\ staged \in [Indexes -> SUBSET Attempts] /\ shown \in [Indexes -> SUBSET Attempts]
      /\ at[p] = "dense" \/ at[p] = "lexical"
      /\ \A i \in Indexes : shown[i] \subseteq staged[i]
      /\ SessionServes(p)
  BY <1>1, PublisherFacts
<1>3. doc.gen # None => \A i \in Indexes :
             doc.gen \in staged[i] /\ (i \notin unrestored /\ ~Hidden(p, i) => doc.gen \in shown[i])
  BY <1>1, PublisherFacts
<1>4. doc.gen # None => doc.version # None /\ doc.gen \in Previous(p)
  BY <1>1, PublisherFacts
<1>5. UNCHANGED <<doc, view, target>>
  BY DEF PublishStep, Hide, Show, Fail, UndoHide, UndoShow, UndoFails, rows
<1>6. \A r \in Publishers : r # p => pc[r] \in Resting /\ pc'[r] = pc[r]
  <2>1. \E to : Goto(p, to)
    BY DEF PublishStep, Hide, Show, Fail, UndoHide, UndoShow, UndoFails, Raise, AfterUndo, Enter
  <2>2. QED
    BY <1>2, <2>1 DEF Goto
<1>7. p \in Rollbacks => p \notin Attempts
  BY PublicationAssumption
<1>8. p \notin Attempts => p \in Rollbacks
  BY DEF Publishers
(* Where a step leads, and what it does to the indexes, given both. *)
<1>9. ASSUME NEW to, NEW j \in Indexes, Enter(p, to, j) PROVE pc'[p] = to /\ at'[p] = j
  BY <1>2, <1>9 DEF Enter, Goto
<1>10. ASSUME Raise(p), UNCHANGED <<staged, shown>>, unrestored \subseteq unrestored',
              \/ pc[p] \in {"stage", "hide"}
              \/ p \in Attempts /\ pc[p] \in {"check", "show"}
              \/ p \notin Attempts /\ pc[p] = "show" /\ at[p] \in unrestored'
       PROVE  ServeInv'
  <2>1. CASE p \in Attempts /\ pc[p] = "stage"
    <3>1. pc'[p] = "failing_early"
      BY <1>9, <1>10, <2>1 DEF Raise, Indexes
    <3>2. \A i \in Indexes : ~Placed(p, i)' /\ ~Hidden(p, i)
      BY <2>1, <3>1 DEF Placed, Hidden
    <3>3. QED
      BY <1>1, <1>2, <1>3, <1>5, <1>6, <1>7, <1>10, <3>1, <3>2, MoveServes
  <2>2. CASE p \in Attempts /\ pc[p] # "stage"
    <3>1. pc'[p] = "undo_hide" /\ at'[p] = "dense"
      BY <1>9, <1>10, <2>2 DEF Raise, Indexes
    <3>2. \A i \in Indexes : ~Placed(p, i)' /\ Hidden(p, i)'
      BY <2>2, <3>1 DEF Placed, Hidden
    <3>3. QED
      BY <1>1, <1>2, <1>3, <1>5, <1>6, <1>7, <1>10, <3>1, <3>2, MoveServes
  <2>3. CASE p \notin Attempts /\ at[p] = "dense"
    <3>1. pc'[p] = "failed"
      BY <1>9, <1>10, <2>3 DEF Raise, Indexes
    <3>2. \A i \in Indexes : ~Placed(p, i)' /\ (Hidden(p, i) => i \in unrestored')
      BY <1>10, <2>3, <3>1 DEF Placed, Hidden
    <3>3. QED
      BY <1>1, <1>2, <1>3, <1>5, <1>6, <1>7, <1>10, <3>1, <3>2, MoveServes
  <2>4. CASE p \notin Attempts /\ at[p] = "lexical"
    <3>1. pc'[p] = "undo_hide" /\ at'[p] = "dense"
      BY <1>9, <1>10, <2>4 DEF Raise, Indexes
    <3>2. \A i \in Indexes : ~Placed(p, i)' /\ (Hidden(p, i) => Hidden(p, i)' \/ i \in unrestored')
      BY <1>10, <2>4, <3>1 DEF Placed, Hidden
    <3>3. QED
      BY <1>1, <1>2, <1>3, <1>5, <1>6, <1>7, <1>10, <3>1, <3>2, MoveServes
  <2>5. QED
    BY <1>2, <2>1, <2>2, <2>3, <2>4
<1>11. CASE Hide(p)
  <2>1. CASE Goal(p) \cap staged[at[p]] = {}
    BY <1>10, <1>11, <2>1 DEF Hide, history
  <2>2. CASE Goal(p) \cap staged[at[p]] # {}
    <3>1. pc[p] = "hide" /\ pc'[p] = "show" /\ at'[p] = at[p] /\ UNCHANGED <<staged, unrestored>>
          /\ shown' = [shown EXCEPT ![at[p]] = {}]
      BY <1>2, <1>9, <1>11, <2>2 DEF Hide, history
    <3>2. Goal(p) \subseteq staged[at[p]]
      BY <2>2 DEF Goal
    <3>3. \A i \in Indexes : shown'[i] = IF i = at[p] THEN {} ELSE shown[i]
      BY <1>2, <3>1
    <3>4. \A i \in Indexes : /\ Placed(p, i)' => Placed(p, i) /\ i # at[p]
                             /\ Hidden(p, i) \/ i = at[p] => Hidden(p, i)'
      BY <1>2, <3>1 DEF Placed, Hidden, Indexes
    <3>5. \A i \in Indexes : Placed(p, i)' => Goal(p) \subseteq shown'[i]
      BY <1>2, <3>3, <3>4 DEF SessionServes
    <3>6. doc.gen # None => \A i \in Indexes :
             doc.gen \in staged'[i] /\ (i \notin unrestored' /\ ~Hidden(p, i)' => doc.gen \in shown'[i])
      BY <1>3, <3>1, <3>3, <3>4
    <3>7. QED
      BY <1>1, <1>2, <1>5, <1>6, <3>1, <3>2, <3>3, <3>5, <3>6, MoveServes
  <2>3. QED
    BY <2>1, <2>2
<1>12. CASE Show(p)
  <2>1. pc[p] = "show" /\ staged' = staged /\ Goal(p) \subseteq staged[at[p]]
        /\ unrestored' = unrestored \ {at[p]}
    BY <1>2, <1>12 DEF Show, SessionServes
  <2>2. \A i \in Indexes : shown'[i] = IF i = at[p] THEN shown[i] \cup Goal(p) ELSE shown[i]
    BY <1>2, <1>12, <2>1 DEF Show
  <2>3. pc'[p] = IF at[p] = "dense" THEN "hide" ELSE "check"
    BY <1>9, <1>12 DEF Show, Indexes
  <2>4. at[p] = "dense" => at'[p] = "lexical"
    BY <1>9, <1>12 DEF Show, Indexes
  <2>5. \A i \in Indexes : /\ Placed(p, i)' => Placed(p, i) \/ i = at[p]
                           /\ Hidden(p, i) \/ i = at[p] => Hidden(p, i)'
    BY <1>2, <2>1, <2>3, <2>4 DEF Placed, Hidden, Indexes
  <2>6. \A i \in Indexes : Placed(p, i)' => Goal(p) \subseteq shown'[i]
    BY <1>2, <2>2, <2>5 DEF SessionServes
  <2>7. \A i \in Indexes : shown'[i] \subseteq staged'[i]
    BY <1>2, <2>1, <2>2
  <2>8. doc.gen # None => \A i \in Indexes :
             doc.gen \in staged'[i] /\ (i \notin unrestored' /\ ~Hidden(p, i)' => doc.gen \in shown'[i])
    BY <1>3, <2>1, <2>2, <2>5
  <2>9. QED
    BY <1>1, <1>5, <1>6, <2>3, <2>6, <2>7, <2>8, MoveServes
<1>13. CASE Fail(p)
  <2>1. /\ Raise(p) /\ UNCHANGED <<staged, shown>>
        /\ unrestored' = IF p \in Rollbacks /\ pc[p] = "show" THEN unrestored \cup {at[p]} ELSE unrestored
        /\ pc[p] \in {"stage", "hide", "show"} \/ (p \in Attempts /\ pc[p] = "check")
    BY <1>13 DEF Fail, indexes
  <2>2. QED
    BY <1>7, <1>8, <1>10, <2>1
(* After restoring an index, or finding nothing to restore. *)
<1>14. ASSUME AfterUndo(p), pc[p] \in {"undo_hide", "undo_show"},
              \A i \in Indexes : shown'[i] \subseteq staged'[i],
              \A i \in Indexes : i # at[p] => shown'[i] = shown[i] /\ staged'[i] = staged[i],
              unrestored \ {at[p]} \subseteq unrestored',
              doc.gen # None =>
                doc.gen \in staged'[at[p]] /\ (at[p] \in unrestored' \/ doc.gen \in shown'[at[p]])
       PROVE  ServeInv'
  <2>1. p \in Attempts /\ at[p] = "dense" => pc'[p] = "undo_hide" /\ at'[p] = "lexical"
    BY <1>9, <1>14 DEF AfterUndo, Indexes
  <2>2. ~(p \in Attempts /\ at[p] = "dense") => pc'[p] \in {"failing", "failed"}
    BY <1>9, <1>14 DEF AfterUndo, Indexes
  <2>3. p \in Rollbacks => at[p] = "dense"
    BY <1>2, <1>14 DEF SessionServes
  <2>4. \A i \in Indexes : /\ ~Placed(p, i)'
                           /\ i # at[p] /\ Hidden(p, i) => Hidden(p, i)'
    BY <1>2, <1>7, <1>14, <2>1, <2>2, <2>3 DEF Placed, Hidden, Indexes
  <2>5. doc.gen # None => \A i \in Indexes :
             doc.gen \in staged'[i] /\ (i \notin unrestored' /\ ~Hidden(p, i)' => doc.gen \in shown'[i])
    BY <1>3, <1>14, <2>4
  <2>6. pc'[p] # "show" /\ (p \in Rollbacks => pc'[p] \notin {"undo_hide", "undo_show"})
    BY <1>7, <2>1, <2>2
  <2>7. QED
    BY <1>1, <1>5, <1>6, <1>14, <2>4, <2>5, <2>6, MoveServes
<1>15. CASE UndoHide(p)
  <2>1. pc[p] = "undo_hide" /\ view[p].version = doc.version
    BY <1>2, <1>15 DEF UndoHide, SessionServes
  <2>2. CASE view[p].version = None
    <3>1. /\ AfterUndo(p) /\ doc.gen = None /\ UNCHANGED unrestored
          /\ staged' = [staged EXCEPT ![at[p]] = {}] /\ shown' = [shown EXCEPT ![at[p]] = {}]
      BY <1>4, <1>15, <2>1, <2>2 DEF UndoHide, history
    <3>2. \A i \in Indexes : /\ shown'[i] \subseteq staged'[i]
                             /\ i # at[p] => shown'[i] = shown[i] /\ staged'[i] = staged[i]
      BY <1>2, <3>1
    <3>3. QED
      BY <1>14, <2>1, <3>1, <3>2
  <2>3. CASE view[p].version # None /\ Previous(p) \cap staged[at[p]] = {}
    <3>1. AfterUndo(p) /\ UNCHANGED <<staged, shown, unrestored>>
      BY <1>15, <2>3 DEF UndoHide, history
    <3>2. doc.gen = None
      BY <1>2, <1>3, <1>4, <2>3
    <3>3. QED
      BY <1>2, <1>14, <2>1, <3>1, <3>2
  <2>4. CASE view[p].version # None /\ Previous(p) \cap staged[at[p]] # {}
    <3>1. pc'[p] = "undo_show" /\ at'[p] = at[p] /\ UNCHANGED <<staged, unrestored>>
          /\ shown' = [shown EXCEPT ![at[p]] = {}]
      BY <1>2, <1>9, <1>15, <2>4 DEF UndoHide, history
    <3>2. \A i \in Indexes : shown'[i] = IF i = at[p] THEN {} ELSE shown[i]
      BY <1>2, <3>1
    <3>3. \A i \in Indexes : ~Placed(p, i)' /\ (Hidden(p, i)' <=> Hidden(p, i)) /\ (i = at[p] => Hidden(p, i))
      BY <2>1, <3>1 DEF Placed, Hidden
    <3>4. doc.gen # None => \A i \in Indexes :
             doc.gen \in staged'[i] /\ (i \notin unrestored' /\ ~Hidden(p, i)' => doc.gen \in shown'[i])
      BY <1>3, <3>1, <3>2, <3>3
    <3>5. p \in Rollbacks => at'[p] = "dense"
      BY <1>2, <2>1, <3>1 DEF SessionServes
    <3>6. QED
      BY <1>1, <1>2, <1>5, <1>6, <3>1, <3>2, <3>3, <3>4, <3>5, MoveServes
  <2>5. QED
    BY <2>2, <2>3, <2>4
<1>16. CASE UndoShow(p)
  <2>1. /\ pc[p] = "undo_show" /\ AfterUndo(p) /\ staged' = staged /\ unrestored' = unrestored \ {at[p]}
        /\ \A i \in Indexes : shown'[i] = IF i = at[p] THEN shown[i] \cup (Previous(p) \cap staged[i]) ELSE shown[i]
    BY <1>2, <1>16 DEF UndoShow
  <2>2. \A i \in Indexes : /\ shown'[i] \subseteq staged'[i]
                           /\ i # at[p] => shown'[i] = shown[i] /\ staged'[i] = staged[i]
    BY <1>2, <2>1
  <2>3. doc.gen # None => doc.gen \in shown'[at[p]] /\ doc.gen \in staged'[at[p]]
    BY <1>2, <1>3, <1>4, <2>1
  <2>4. QED
    BY <1>14, <2>1, <2>2, <2>3
<1>17. CASE UndoFails(p)
  <2>1. /\ pc[p] \in {"undo_hide", "undo_show"} /\ AfterUndo(p) /\ UNCHANGED <<staged, shown>>
        /\ unrestored' = unrestored \cup {at[p]}
    BY <1>17 DEF UndoFails, indexes
  <2>2. doc.gen # None => doc.gen \in staged'[at[p]]
    BY <1>2, <1>3, <2>1
  <2>3. QED
    BY <1>2, <1>14, <2>1, <2>2
<1>18. QED
  BY <1>11, <1>12, <1>13, <1>15, <1>16, <1>17 DEF PublishStep

(* Committing a generation that both indexes show. *)
LEMMA CommitServes ==
  ASSUME Inv, Inv', ServeInv, [Next]_vars, UNCHANGED <<staged, shown>>,
         NEW p \in Publishers, pc[p] = "check", pc'[p] = "done",
         \A r \in Publishers : r # p => pc[r] \in Resting /\ pc'[r] = pc[r],
         NEW g \in Attempts, Goal(p) = {g}, pc'[g] = "done", view[p].gen # g, UNCHANGED job,
         doc' = FlushDoc(view[p], [state |-> "active", version |-> job[g].version, gen |-> g])
  PROVE  ServeInv'
<1>1. SessionServes(p) /\ \A i \in Indexes : shown[i] \subseteq staged[i]
  BY DEF ServeInv, Loadless, Resting
<1>2. \A i \in Indexes : g \in shown[i] /\ g \in staged[i]
  BY <1>1 DEF SessionServes, Placed, Indexes
<1>3. doc'.gen = g /\ doc'.version = job'[g].version
  BY <1>1 DEF FlushDoc, SessionServes
<1>4. pc'[p] \in Loadless
  BY DEF Loadless, Resting
<1>5. ServesAround(p)'
  BY <1>2, <1>3, <1>4 DEF ServesAround, ActiveStaged
<1>6. QED
  BY <1>1, <1>5, ServeFold

(* The other steps of an attempt. *)
LEMMA AttemptServes ==
  ASSUME Mended, TakingTurns, Inv, TurnsInv, ServeInv, [Next]_vars, NEW a \in Attempts, AttemptStep(a)
  PROVE  ServeInv'
<1> USE DEF Processes, Publishers
<1>1. /\ pc \in [Processes -> PcValues] /\ at \in [Processes -> Indexes]
      /\ view \in [Processes -> Views]
      /\ staged \in [Indexes -> SUBSET Attempts] /\ shown \in [Indexes -> SUBSET Attempts]
      /\ at[a] = "dense" \/ at[a] = "lexical"
  BY DEF Inv, TypeOK, ProcessesOK, IndexesOK, Indexes
<1>2. pc[a] \notin Resting => \A r \in Publishers : r # a => pc[r] \in Resting
  BY PublishersRest DEF TurnsInv
<1>3. CASE \/ \E v \in Versions : SubmitUpload(a, v)
           \/ \E b \in Attempts : Reattempt(a, b)
           \/ SubmitRebuild(a) \/ RejectStale(a) \/ Admit(a)
  <2>1. UNCHANGED <<doc, staged, shown, at, view, target, unrestored>>
    BY <1>3 DEF SubmitUpload, Reattempt, SubmitRebuild, RejectStale, Admit, rows, indexes, history
  <2>2. \A r \in Publishers : pc'[r] = pc[r] \/ (pc[r] \in Loadless /\ pc'[r] \in Loadless)
    BY <1>1, <1>3 DEF SubmitUpload, Reattempt, SubmitRebuild, RejectStale, Admit, Goto, Loadless, Resting
  <2>3. QED
    BY <2>1, <2>2, QuietServe
<1>4. CASE Load(a)
  <2>1. /\ UNCHANGED <<doc, staged, shown, unrestored, job>> /\ pc[a] = "admitted" /\ pc'[a] = "loaded"
        /\ view'[a].version = doc.version /\ view'[a].gen = doc.gen
        /\ \A r \in Publishers : r # a => pc'[r] = pc[r]
    BY <1>1, <1>4 DEF Load, Loaded, Goto, rows, indexes, history
  <2>8. \A r \in Publishers : r # a => pc[r] \in Resting
    BY <1>2, <2>1 DEF Resting
  <2>2. \A r \in Publishers : pc[r] \in Loadless
    BY <2>1, <2>8 DEF Loadless
  <2>3. ServesAround(a)
    BY <2>8, ServeUnfold
  <2>4. \A i \in Indexes : ~Hidden(a, i) /\ ~Placed(a, i)'
    BY <2>1, <2>2, RestingHidesNothing DEF Placed
  <2>5. ServesAround(a)'
    BY <2>1, <2>3, <2>4 DEF ServesAround, SessionServes, ActiveStaged
  <2>6. \A i \in Indexes : shown'[i] \subseteq staged'[i]
    BY <2>1 DEF ServeInv
  <2>7. QED
    BY <2>1, <2>8, <2>5, <2>6, ServeFold
<1>5. ASSUME pc[a] \in {"loaded", "stage", "failing_early", "failing"},
             NEW to \in {"stage", "hide", "failed"}, NEW j \in Indexes, Goto(a, to), at'[a] = j,
             to = "hide" => j = "dense",
             UNCHANGED <<doc, view, target, shown, unrestored>>,
             \A i \in Indexes : staged[i] \subseteq staged'[i]
      PROVE  ServeInv'
  <2>1. pc[a] \notin Loadless /\ \A i \in Indexes : ~Hidden(a, i)
    BY <1>5 DEF Loadless, Resting, Hidden
  <2>2. pc'[a] = to /\ \A r \in Publishers : r # a => pc[r] \in Resting /\ pc'[r] = pc[r]
    BY <1>1, <1>2, <1>5, <2>1 DEF Goto, Loadless
  <2>3. \A i \in Indexes : ~Placed(a, i)'
    BY <1>5, <2>2 DEF Placed
  <2>4. /\ \A i \in Indexes : shown[i] \subseteq staged[i]
        /\ doc.gen # None => \A i \in Indexes : doc.gen \in staged[i] /\ (i \notin unrestored => doc.gen \in shown[i])
    BY <2>1, <2>2, PublisherFacts
  <2>5. QED
    BY <1>5, <2>1, <2>2, <2>3, <2>4, MoveServes
<1>6. CASE Insert(a)
  BY <1>1, <1>5, <1>6 DEF Insert, Enter, Indexes, rows, indexes, history
<1>7. CASE Stage(a)
  <2>1. \A i \in Indexes : staged[i] \subseteq staged'[i]
    BY <1>1, <1>7 DEF Stage
  <2>2. UNCHANGED <<doc, view, target, shown, unrestored>> /\ pc[a] = "stage"
    BY <1>7 DEF Stage, rows, history
  <2>3. CASE at[a] = "dense"
    BY <1>1, <1>5, <1>7, <2>1, <2>2, <2>3 DEF Stage, Enter, Indexes
  <2>4. CASE at[a] = "lexical"
    BY <1>1, <1>5, <1>7, <2>1, <2>2, <2>4 DEF Stage, Enter, Indexes
  <2>5. QED
    BY <1>1, <2>3, <2>4
<1>8. CASE CommitFailure(a)
  BY <1>1, <1>5, <1>8 DEF CommitFailure, Indexes, indexes, history
<1>9. CASE Switch(a)
  <2>1. pc[a] = "check" /\ pc[a] \notin Resting
    BY <1>9 DEF Switch, Resting
  <2>2. pc'[a] = "done" /\ \A r \in Publishers : r # a => pc[r] \in Resting /\ pc'[r] = pc[r]
    BY <1>1, <1>2, <1>9, <2>1 DEF Switch, Goto
  <2>3. view[a].gen # a
    BY <2>1, PublicationAssumption DEF Inv, Activated
  <2>4. UNCHANGED <<staged, shown, job>> /\ Goal(a) = {a}
        /\ doc' = FlushDoc(view[a], [state |-> "active", version |-> job[a].version, gen |-> a])
    BY <1>9 DEF Switch, Goal, indexes
  <2>5. Inv'
    BY StepInv
  <2>6. QED
    BY <2>1, <2>2, <2>3, <2>4, <2>5, CommitServes
<1>10. ~Abort(a)
  BY DEF Abort, Mended
<1>11. QED
  BY <1>3, <1>4, <1>6, <1>7, <1>8, <1>9, <1>10 DEF AttemptStep

(* The other steps of a rollback. *)
LEMMA RollbackServes ==
  ASSUME TakingTurns, Inv, TurnsInv, ServeInv, [Next]_vars, NEW q \in Rollbacks, RollbackStep(q)
  PROVE  ServeInv'
<1> USE PublicationAssumption DEF Processes, Publishers
<1>1. /\ pc \in [Processes -> PcValues] /\ at \in [Processes -> Indexes]
      /\ view \in [Processes -> Views] /\ target \in [Processes -> Attempts \cup {None}]
  BY DEF Inv, TypeOK, ProcessesOK
<1>2. ASSUME NEW g \in Attempts, RollbackRead(q, g) PROVE ServeInv'
  <2>1. /\ UNCHANGED <<doc, staged, shown, unrestored, job>> /\ pc'[q] = "hide" /\ at'[q] = "dense"
        /\ view'[q].version = doc.version /\ view'[q].gen = doc.gen
        /\ \A r \in Publishers : r # q => pc'[r] = pc[r]
    BY <1>1, <1>2 DEF RollbackRead, Loaded, Enter, Goto, rows, indexes
  <2>2. \A r \in Publishers : pc[r] \in Resting
    BY <1>2, StartsAlone DEF RollbackRead, MayStart
  <2>3. ServesAround(q)
    BY <2>2, ServeUnfold
  <2>4. \A i \in Indexes : ~Hidden(q, i) /\ ~Placed(q, i)'
    BY <2>1, <2>2, RestingHidesNothing DEF Placed, Loadless
  <2>5. ServesAround(q)'
    BY <2>1, <2>3, <2>4 DEF ServesAround, SessionServes, ActiveStaged
  <2>6. \A i \in Indexes : shown'[i] \subseteq staged'[i]
    BY <2>1 DEF ServeInv
  <2>7. QED
    BY <2>1, <2>2, <2>5, <2>6, ServeFold
<1>3. CASE RollbackCommit(q)
  <2>1. pc[q] = "check" /\ pc[q] \notin Resting /\ pc[q] \in Inserted
    BY <1>3 DEF RollbackCommit, Resting, Inserted
  <2>2. pc'[q] = "done" /\ \A r \in Publishers : r # q => pc[r] \in Resting /\ pc'[r] = pc[r]
    BY <1>1, <1>3, <2>1, PublishersRest DEF RollbackCommit, Goto, TurnsInv
  <2>3. PICK g \in Attempts : g = target[q]
    BY <1>1, <2>1 DEF Inv, SessionsOK
  <2>4. view[q].gen # g /\ pc[g] = "done" /\ g # q
    BY <2>1, <2>3 DEF Inv, SessionsOK, Activated
  <2>5. UNCHANGED <<staged, shown, job>> /\ Goal(q) = {g}
        /\ doc' = FlushDoc(view[q], [state |-> "active", version |-> job[g].version, gen |-> g])
    BY <1>3, <2>3 DEF RollbackCommit, Goal, indexes
  <2>6. Inv' /\ pc'[g] = "done"
    BY <2>2, <2>4, StepInv
  <2>7. QED
    BY <2>1, <2>2, <2>4, <2>5, <2>6, CommitServes
<1>4. ~RollbackGone(q)
  BY DEF RollbackGone, TargetGone, TurnsInv, SweptInv, Inserted
<1>5. QED
  BY <1>2, <1>3, <1>4 DEF RollbackStep

(* A sweep takes something out of the indexes, but not what they serve. *)
LEMMA SweepServes ==
  ASSUME TakingTurns, Inv, TurnsInv, ServeInv, [Next]_vars, NEW s \in Sweeps, SweepStep(s)
  PROVE  ServeInv'
<1> USE PublicationAssumption DEF Processes, Publishers
<1>1. /\ pc \in [Processes -> PcValues] /\ at \in [Processes -> Indexes]
      /\ target \in [Processes -> Attempts \cup {None}]
      /\ staged \in [Indexes -> SUBSET Attempts] /\ shown \in [Indexes -> SUBSET Attempts]
  BY DEF Inv, TypeOK, ProcessesOK, IndexesOK
<1>2. \A r \in Publishers : r # s
  OBVIOUS
<1>3. ASSUME NEW r \in Publishers
      PROVE  pc'[r] = pc[r] /\ at'[r] = at[r] /\ view'[r] = view[r] /\ target'[r] = target[r]
  BY <1>1, <1>2 DEF SweepStep, SweepRead, SweepIndex, SweepCommit, Enter, Goto
<1>4. CASE SweepCommit(s) \/ \E g \in Attempts : SweepRead(s, g)
  <2>1. UNCHANGED <<doc, staged, shown, unrestored>>
    BY <1>4 DEF SweepRead, SweepCommit, rows, indexes, history
  <2>2. QED
    BY <1>3, <2>1, QuietServe
<1>5. CASE SweepIndex(s)
  <2>1. pc[s] = "sweep" /\ pc[s] \notin Resting /\ UNCHANGED <<doc, job, unrestored>>
    BY <1>5 DEF SweepIndex, Resting, rows, history
  <2>2. target[s] # doc.gen
    BY <2>1 DEF TurnsInv, SweptInv
  <2>3. \A i \in Indexes : \/ staged'[i] = staged[i] /\ shown'[i] = shown[i]
                           \/ staged'[i] = staged[i] \ {target[s]} /\ shown'[i] = shown[i] \ {target[s]}
    BY <1>1, <1>5 DEF SweepIndex
  <2>4. \A i \in Indexes : shown'[i] \subseteq staged'[i]
    BY <2>3 DEF ServeInv
  <2>5. ActiveStaged'
    BY <2>1, <2>2, <2>3 DEF ServeInv, ActiveStaged
  <2>6. \A r \in Publishers, i \in Indexes : (Hidden(r, i)' <=> Hidden(r, i)) /\ (Placed(r, i)' <=> Placed(r, i))
    BY <1>3 DEF Hidden, Placed
  <2>7. ActiveServed'
    BY <2>1, <2>2, <2>3, <2>6 DEF ServeInv, ActiveServed
  <2>8. ASSUME NEW r \in Publishers, pc[r] \notin Loadless, SessionServes(r)
        PROVE  (Placed(r, "dense") \/ Placed(r, "lexical") \/ pc[r] = "show") => target[s] \notin Goal(r)
    <3>1. pc[r] \notin Resting
      BY <2>8 DEF Loadless
    <3>2. CASE r \in Attempts
      BY <1>1, <3>1, <3>2 DEF Inv, Activated, Goal, Resting
    <3>3. CASE r \in Rollbacks
      <4>1. Placed(r, "dense") \/ Placed(r, "lexical") \/ pc[r] = "show" => pc[r] \in Inserted
        BY DEF Placed, Inserted
      <4>2. pc[r] \in Inserted => target[r] # target[s]
        BY <2>1, <3>3 DEF TurnsInv, SweptInv
      <4>3. r \notin Attempts
        BY <3>3
      <4>4. QED
        BY <4>1, <4>2, <4>3 DEF Goal
    <3>4. QED
      BY <3>2, <3>3
  <2>9. ASSUME NEW r \in Publishers, pc'[r] \notin Loadless PROVE SessionServes(r)'
    <3>1. /\ pc'[r] = pc[r] /\ at'[r] = at[r] /\ view'[r] = view[r] /\ target'[r] = target[r]
          /\ pc[r] \notin Loadless /\ SessionServes(r)
      BY <1>3, <2>9 DEF ServeInv
    <3>2. Goal(r)' = Goal(r) /\ at[r] \in Indexes
      BY <1>1, <3>1 DEF Goal
    <3>3. (Placed(r, "dense") \/ Placed(r, "lexical") \/ pc[r] = "show") => target[s] \notin Goal(r)
      BY <2>8, <3>1
    <3>4. \A i \in Indexes : Placed(r, i)' => Goal(r)' \subseteq shown'[i]
      BY <2>3, <2>6, <3>1, <3>2, <3>3 DEF SessionServes, Indexes
    <3>5. pc'[r] = "show" => Goal(r)' \subseteq staged'[at'[r]]
      BY <2>3, <3>1, <3>2, <3>3 DEF SessionServes
    <3>6. QED
      BY <2>1, <3>1, <3>4, <3>5 DEF SessionServes
  <2>10. QED
    BY <2>4, <2>5, <2>7, <2>9 DEF ServeInv
<1>6. QED
  BY <1>4, <1>5 DEF SweepStep

LEMMA ServeStep ==
  ASSUME TakingTurns, Deletes = {}, Mended, Inv, TurnsInv, ServeInv, [Next]_vars
  PROVE  ServeInv'
<1>1. PublishersAlone
  BY DEF TurnsInv
<1>2. ASSUME NEW p \in Publishers, PublishStep(p) PROVE ServeInv'
  <2>1. pc[p] \notin Resting
    BY <1>2 DEF PublishStep, Hide, Show, Fail, UndoHide, UndoShow, UndoFails, Resting
  <2>2. \A r \in Publishers : r # p => pc[r] \in Resting
    BY <1>1, <2>1, PublishersRest
  <2>3. QED
    BY <1>2, <2>2, PublishServes
<1>3. CASE UNCHANGED vars
  BY <1>3, QuietServe DEF vars, rows, indexes, history
<1>4. QED
  BY <1>1, <1>2, <1>3, AttemptServes, RollbackServes, SweepServes DEF Next

LEMMA ServeInit == Init => ServeInv
BY DEF Init, ServeInv, ActiveStaged, ActiveServed, Loadless, Resting, Publishers, Processes

LEMMA Served ==
  ASSUME TakingTurns, Deletes = {}, Mended
  PROVE  Spec => []ServeInv
<1>1. Inv /\ TurnsInv /\ ServeInv /\ [Next]_vars => ServeInv'
  BY ServeStep
<1>2. QED
  BY <1>1, ServeInit, Invariance, Turns, PTL DEF Spec

(* The restoring code of attempts and rollbacks does its job: whenever     *)
(* nothing is under way both indexes serve the active generation, however  *)
(* often the indexes, the parser or the embedding failed, between the two  *)
(* calls of a publication too, except an index that could not be restored  *)
(* or that a rollback left half way, and that nothing was published in     *)
(* since.  This is so while publishers of a document that is not deleted   *)
(* take turns, sweeps beside them or not, and no worker crashes or loses   *)
(* its lease.                                                              *)
THEOREM RestorationWorks ==
  ASSUME TakingTurns, Deletes = {}, Mended
  PROVE  Spec => []IndexesServeActive
<1>1. Inv /\ ServeInv => IndexesServeActive
  <2> SUFFICES ASSUME Inv, ServeInv, Open = {}, doc.gen # None, NEW i \in Indexes \ unrestored
               PROVE  doc.gen \in shown[i]
    BY DEF IndexesServeActive
  <2>1. \A p \in Publishers : pc[p] \in Loadless
    BY DEF Open, Publishers, Processes, Loadless
  <2>2. \A p \in Publishers : ~Hidden(p, i)
    BY <2>1, RestingHidesNothing
  <2>3. QED
    BY <2>2 DEF ServeInv, ActiveServed
<1>2. QED
  BY <1>1, Served, Invariance, PTL

-----------------------------------------------------------------------------
(* Deleted content.  With uploads only and one worker, the attempt under   *)
(* way either was submitted after every committed deletion, or loaded the  *)
(* document before the deletion; then it does not write the state, and the *)
(* document stays deleted.  Or it was admitted before the deletion and     *)
(* loaded the document after it: then it publishes it.                     *)
UploadsOnly ==
  /\ Kinds = {"upload"} /\ Rollbacks = {} /\ WorkerCount = 1
  /\ \A d, e \in Deletes : d = e

SubmittedAfter(a) == job[a].version \notin erased

LoadedBefore(a) == view[a].state = "active" /\ doc.state = "deleted"

LoadedDeleted(a) == view[a].state = "deleted"

UploadInv ==
  /\ \A a \in Attempts : pc[a] # "new" => job[a].kind = "upload" /\ job[a].epoch <= epoch
  /\ \A a \in Attempts : pc[a] # "new" /\ job[a].epoch = epoch => SubmittedAfter(a)
  /\ \A v \in erased : ver[v] # "none"
  /\ \A a \in Attempts : pc[a] = "admitted" => SubmittedAfter(a) \/ doc.state = "deleted"
  /\ \A a \in Attempts : pc[a] \notin Loadless =>
       view[a].version = doc.version /\ (SubmittedAfter(a) \/ LoadedBefore(a) \/ LoadedDeleted(a))
  /\ \A d \in Deletes : pc[d] \in {"new", "commit"} =>
       doc.state = "active" /\ \A a \in Attempts : pc[a] \notin Loadless => view[a].state = "active"
  /\ doc.state = "active" => doc.version \notin erased \/ (doc.gen # None /\ LoadedDeleted(doc.gen))

(* Steps that neither submit, load nor commit anything. *)
LEMMA QuietUpload ==
  ASSUME Inv, UploadInv, UNCHANGED <<doc, ver, job, epoch, erased>>,
         \A a \in Attempts : /\ view'[a] = view[a]
                             /\ pc[a] = "new" => pc'[a] = "new"
                             /\ pc[a] \in Loadless => pc'[a] \in Loadless
                             /\ pc'[a] = "admitted" => pc[a] = "admitted",
         \A d \in Deletes : pc'[d] \in {"new", "commit"} => pc[d] \in {"new", "commit"}
  PROVE  UploadInv'
BY DEF Inv, TypeOK, RowsOK, UploadInv, SubmittedAfter, LoadedBefore, LoadedDeleted

(* A step that moves one process, which is not a deletion. *)
LEMMA QuietMove ==
  ASSUME Inv, UploadInv, UNCHANGED <<doc, ver, job, epoch, erased>>,
         NEW p \in Processes \ Deletes, NEW to, Goto(p, to),
         \A a \in Attempts : view'[a] = view[a],
         p \in Attempts => pc[p] # "new" /\ to # "admitted" /\ (pc[p] \in Loadless => to \in Loadless)
  PROVE  UploadInv'
<1>1. pc' = [pc EXCEPT ![p] = to] /\ pc \in [Processes -> PcValues]
  BY DEF Goto, Inv, TypeOK, ProcessesOK
<1>2. \A a \in Attempts : /\ pc[a] = "new" => pc'[a] = "new"
                          /\ pc[a] \in Loadless => pc'[a] \in Loadless
                          /\ pc'[a] = "admitted" => pc[a] = "admitted"
  BY <1>1 DEF Processes
<1>3. \A d \in Deletes : pc'[d] = pc[d]
  BY <1>1 DEF Processes
<1>4. QED
  BY <1>2, <1>3, QuietUpload

LEMMA UploadAttempt ==
  ASSUME UploadsOnly, Inv, PublishersAlone, UploadInv, NEW a \in Attempts, AttemptStep(a)
  PROVE  UploadInv'
<1> USE PublicationAssumption DEF Processes
<1>1. /\ pc \in [Processes -> PcValues] /\ view \in [Processes -> Views]
      /\ job \in [Attempts -> [version : Versions \cup {None}, kind : Kinds \cup {"none"}, epoch : Nat]]
      /\ epoch \in Nat /\ erased \subseteq Versions /\ ver \in [Versions -> VersionStates]
      /\ doc.gen # None => doc.gen \in Attempts /\ pc[doc.gen] = "done"
  BY DEF Inv, TypeOK, ProcessesOK, JobsOK, RowsOK, Activated
<1>2. ASSUME NEW v \in Versions, SubmitUpload(a, v) PROVE UploadInv'
  <2>1. /\ pc[a] = "new" /\ ver[v] = "none" /\ UNCHANGED <<doc, epoch, erased, view>>
        /\ pc' = [pc EXCEPT ![a] = "queued"] /\ ver' = [ver EXCEPT ![v] = "staging"]
        /\ job' = [job EXCEPT ![a] = [version |-> v, kind |-> "upload", epoch |-> epoch]]
    BY <1>2 DEF SubmitUpload, Goto, history
  <2>2. v \notin erased /\ \A u \in erased : ver'[u] # "none"
    BY <1>1, <2>1 DEF UploadInv
  <2>3. job'[a] = [version |-> v, kind |-> "upload", epoch |-> epoch]
        /\ \A b \in Attempts : b # a => job'[b] = job[b] /\ pc'[b] = pc[b]
    BY <1>1, <2>1
  <2>4. pc'[a] = "queued" /\ "queued" \in Loadless /\ \A d \in Deletes : pc'[d] = pc[d]
    BY <1>1, <2>1 DEF Loadless, Resting
  <2>5. QED
    BY <1>1, <2>1, <2>2, <2>3, <2>4 DEF UploadInv, SubmittedAfter, LoadedBefore, LoadedDeleted
<1>3. ASSUME NEW b \in Attempts, Reattempt(a, b) PROVE UploadInv'
  <2>1. /\ pc[a] # "new" /\ pc[b] = "new" /\ UNCHANGED <<doc, ver, epoch, erased, view>>
        /\ pc' = [pc EXCEPT ![a] = "retried", ![b] = "queued"] /\ job' = [job EXCEPT ![b] = job[a]]
    BY <1>3 DEF Reattempt, rows, history
  <2>2. job'[b] = job[a] /\ \A c \in Attempts : c # b => job'[c] = job[c]
    BY <1>1, <2>1
  <2>3. /\ pc'[b] = "queued" /\ pc'[a] \in {"queued", "retried"}
        /\ \A r \in Attempts \cup Deletes : r \notin {a, b} => pc'[r] = pc[r]
    BY <1>1, <2>1 DEF Resting
  <2>4. \A d \in Deletes : pc'[d] = pc[d]
    BY <2>3
  <2>5. \A c \in Attempts : pc'[c] # "new" => \E e \in Attempts : pc[e] # "new" /\ job'[c] = job[e]
    BY <2>1, <2>2, <2>3
  <2>6. \A c \in Attempts : pc'[c] \notin Resting => c \notin {a, b} /\ pc'[c] = pc[c]
    BY <2>3 DEF Resting
  <2>13. Resting \subseteq Loadless /\ "admitted" \notin Resting
    BY DEF Loadless, Resting
  <2>7. \A c \in Attempts : pc'[c] # "new" => job'[c].kind = "upload" /\ job'[c].epoch <= epoch'
    BY <2>1, <2>5 DEF UploadInv
  <2>8. \A c \in Attempts : pc'[c] # "new" /\ job'[c].epoch = epoch' => SubmittedAfter(c)'
    BY <2>1, <2>5 DEF UploadInv, SubmittedAfter
  <2>9. \A c \in Attempts : pc'[c] \notin Loadless =>
          view[c].version = doc.version /\ (SubmittedAfter(c)' \/ LoadedBefore(c)' \/ LoadedDeleted(c)')
    <3> SUFFICES ASSUME NEW c \in Attempts, pc'[c] \notin Loadless
                 PROVE  /\ view[c].version = doc.version
                        /\ SubmittedAfter(c)' \/ LoadedBefore(c)' \/ LoadedDeleted(c)'
      OBVIOUS
    <3>1. pc[c] \notin Loadless /\ job'[c] = job[c]
      BY <2>2, <2>6, <2>13
    <3>2. view[c].version = doc.version /\ (SubmittedAfter(c) \/ LoadedBefore(c) \/ LoadedDeleted(c))
      BY <3>1 DEF UploadInv
    <3>3. QED
      BY <2>1, <3>1, <3>2 DEF SubmittedAfter, LoadedBefore, LoadedDeleted
  <2>14. \A c \in Attempts : pc'[c] = "admitted" => SubmittedAfter(c)' \/ doc.state = "deleted"
    <3> SUFFICES ASSUME NEW c \in Attempts, pc'[c] = "admitted" PROVE SubmittedAfter(c)' \/ doc.state = "deleted"
      OBVIOUS
    <3>1. pc[c] = "admitted" /\ job'[c] = job[c]
      BY <2>2, <2>6, <2>13
    <3>2. QED
      BY <2>1, <3>1 DEF UploadInv, SubmittedAfter
  <2>10. \A d \in Deletes : pc'[d] \in {"new", "commit"} =>
           doc.state = "active" /\ \A c \in Attempts : pc'[c] \notin Loadless => view[c].state = "active"
    BY <2>4, <2>6, <2>13 DEF UploadInv
  <2>11. /\ \A v \in erased : ver[v] # "none"
         /\ doc.state = "active" => doc.version \notin erased \/ (doc.gen # None /\ LoadedDeleted(doc.gen))
    BY DEF UploadInv
  <2>15. doc.gen # None => (LoadedDeleted(doc.gen)' <=> LoadedDeleted(doc.gen))
    BY <2>1 DEF LoadedDeleted
  <2>12. QED
    BY <2>1, <2>7, <2>8, <2>9, <2>10, <2>11, <2>14, <2>15 DEF UploadInv
<1>4. ~SubmitRebuild(a)
  BY DEF SubmitRebuild, UploadsOnly
<1>9. CASE Admit(a)
  <2>1. /\ pc[a] = "queued" /\ ~EpochStale(a) /\ UNCHANGED <<doc, ver, epoch, erased, job, view>>
        /\ pc' = [pc EXCEPT ![a] = "admitted"]
    BY <1>9 DEF Admit, Goto, rows, history
  <2>2. SubmittedAfter(a)
    BY <2>1 DEF UploadInv, EpochStale
  <2>3. /\ pc'[a] = "admitted" /\ "admitted" \in Loadless
        /\ \A b \in Attempts : b # a => pc'[b] = pc[b]
        /\ \A d \in Deletes : pc'[d] = pc[d]
    BY <1>1, <2>1 DEF Loadless
  <2>4. QED
    BY <1>1, <2>1, <2>2, <2>3 DEF UploadInv, SubmittedAfter, LoadedBefore, LoadedDeleted
<1>5. CASE Load(a)
  <2>1. /\ pc[a] = "admitted" /\ UNCHANGED <<doc, ver, epoch, erased, job>>
        /\ pc' = [pc EXCEPT ![a] = "loaded"]
        /\ view' = [view EXCEPT ![a] = Loaded(ver[job[a].version], "none")]
    BY <1>5 DEF Load, Goto, rows, history
  <2>2. SubmittedAfter(a) \/ doc.state = "deleted"
    BY <2>1 DEF UploadInv
  <2>3. /\ view'[a].version = doc.version /\ view'[a].state = doc.state /\ pc'[a] = "loaded"
        /\ \A b \in Attempts : b # a => view'[b] = view[b] /\ pc'[b] = pc[b]
        /\ \A d \in Deletes : pc'[d] = pc[d]
    BY <1>1, <2>1 DEF Loaded
  <2>4. \A b \in Attempts : pc'[b] \notin Loadless =>
          /\ view'[b].version = doc.version
          /\ SubmittedAfter(b)' \/ LoadedBefore(b)' \/ LoadedDeleted(b)'
    BY <2>1, <2>2, <2>3 DEF UploadInv, SubmittedAfter, LoadedBefore, LoadedDeleted
  <2>5. \A d \in Deletes : pc'[d] \in {"new", "commit"} =>
          doc.state = "active" /\ \A b \in Attempts : pc'[b] \notin Loadless => view'[b].state = "active"
    BY <2>3 DEF UploadInv
  <2>6. doc.state = "active" => doc.version \notin erased \/ (doc.gen # None /\ LoadedDeleted(doc.gen)')
    BY <1>1, <2>1, <2>3 DEF UploadInv, LoadedDeleted
  <2>7. \A b \in Attempts : pc'[b] = "admitted" => SubmittedAfter(b)' \/ doc.state = "deleted"
    BY <2>1, <2>3 DEF UploadInv, SubmittedAfter
  <2>8. \A b \in Attempts : pc'[b] # "new" => pc[b] # "new"
    BY <2>1, <2>3
  <2>9. QED
    BY <2>1, <2>4, <2>5, <2>6, <2>7, <2>8 DEF UploadInv, SubmittedAfter
<1>6. CASE Switch(a)
  <2>1. /\ pc[a] = "check" /\ "check" \notin Loadless /\ "done" \in Resting
        /\ UNCHANGED <<job, epoch, erased, view>>
        /\ pc' = [pc EXCEPT ![a] = "done"] /\ ver' = SwitchVersion(a, job[a].version)
        /\ doc' = FlushDoc(view[a], [state |-> "active", version |-> job[a].version, gen |-> a])
    BY <1>6 DEF Switch, Goto, Loadless, Resting, history
  <2>2. \A b \in Attempts : pc'[b] \in Resting
    BY <1>1, <2>1, PublishersRest DEF Publishers, Loadless
  <2>3. \A u \in erased : ver'[u] # "none"
    BY <1>1, <2>1 DEF UploadInv, SwitchVersion
  <2>4. view[a].version = doc.version /\ (SubmittedAfter(a) \/ LoadedBefore(a) \/ LoadedDeleted(a))
    BY <2>1 DEF UploadInv
  <2>5. /\ doc'.version = job[a].version
        /\ view[a].state = "active" => doc'.state = doc.state
    BY <2>1, <2>4 DEF FlushDoc
  <2>11. doc'.gen = a
    <3>1. view[a].gen # a
      BY <2>1, PublicationAssumption DEF Inv, Activated
    <3>2. QED
      BY <2>1, <3>1 DEF FlushDoc
  <2>6. doc'.state = "active" => doc'.version \notin erased \/ LoadedDeleted(a)'
    BY <2>1, <2>4, <2>5 DEF SubmittedAfter, LoadedBefore, LoadedDeleted
  <2>7. \A d \in Deletes : pc'[d] = pc[d]
    BY <1>1, <2>1
  <2>8. \A d \in Deletes : pc'[d] \in {"new", "commit"} => doc'.state = "active"
    BY <2>1, <2>5, <2>7 DEF UploadInv
  <2>9. \A b \in Attempts : pc'[b] # "new" => pc[b] # "new"
    BY <1>1, <2>1
  <2>12. \A b \in Attempts : pc'[b] \in Loadless /\ pc'[b] # "admitted"
    BY <2>2 DEF Loadless, Resting
  <2>10. QED
    BY <2>1, <2>3, <2>6, <2>8, <2>9, <2>11, <2>12, PublicationAssumption DEF UploadInv, SubmittedAfter
<1>7. CASE RejectStale(a) \/ Insert(a) \/ Stage(a) \/ CommitFailure(a) \/ Abort(a)
  <2>1. UNCHANGED <<doc, ver, job, epoch, erased, view>> /\ pc[a] # "new"
    BY <1>7 DEF RejectStale, Insert, Stage, CommitFailure, Abort, rows, history, Resting
  <2>2. \E to : Goto(a, to) /\ to # "admitted" /\ (pc[a] \in Loadless => to \in Loadless)
    BY <1>7 DEF RejectStale, Insert, Stage, CommitFailure, Abort, Enter, Loadless, Resting
  <2>3. QED
    BY <2>1, <2>2, QuietMove
<1>8. QED
  BY <1>2, <1>3, <1>4, <1>5, <1>6, <1>7, <1>9 DEF AttemptStep

LEMMA UploadDelete ==
  ASSUME UploadsOnly, Inv, UploadInv, NEW d \in Deletes, DeleteStep(d)
  PROVE  UploadInv'
<1> USE PublicationAssumption DEF Processes
<1>1. /\ pc \in [Processes -> PcValues] /\ view \in [Processes -> Views]
      /\ job \in [Attempts -> [version : Versions \cup {None}, kind : Kinds \cup {"none"}, epoch : Nat]]
      /\ epoch \in Nat /\ erased \subseteq Versions /\ ver \in [Versions -> VersionStates]
  BY DEF Inv, TypeOK, ProcessesOK, JobsOK, RowsOK
<1>2. CASE DeleteRead(d) \/ Cleanup(d)
  <2>1. /\ UNCHANGED <<doc, ver, job, epoch, erased>>
        /\ \A a \in Attempts : view'[a] = view[a] /\ pc'[a] = pc[a]
    BY <1>1, <1>2 DEF DeleteRead, Cleanup, Enter, Goto, rows, history
  <2>2. \A e \in Deletes : pc'[e] \in {"new", "commit"} => pc[e] \in {"new", "commit"}
    BY <1>1, <1>2 DEF DeleteRead, Cleanup, Enter, Goto
  <2>3. QED
    BY <2>1, <2>2, QuietUpload
<1>3. CASE DeleteCommit(d)
  <2>1. /\ pc[d] = "commit" /\ UNCHANGED <<job, view>> /\ epoch' = epoch + 1
        /\ pc' = [pc EXCEPT ![d] = "cleanup"]
        /\ doc' = FlushDoc(view[d], [view[d] EXCEPT !.state = "deleted", !.gen = None])
        /\ ver' = [v \in Versions |-> IF v = view[d].version THEN "tombstoned" ELSE ver[v]]
        /\ erased' = erased \cup {v \in Versions : ver[v] # "none"}
    BY <1>3 DEF DeleteCommit, Enter, Goto
  <2>2. view[d].state # "deleted"
    BY <2>1 DEF Inv, SessionsOK
  <2>3. doc'.state = "deleted" /\ doc'.version = doc.version
    BY <1>1, <2>1, <2>2 DEF FlushDoc, Views
  <2>4. \A v \in erased' : ver'[v] # "none"
    BY <1>1, <2>1 DEF UploadInv
  <2>5. \A a \in Attempts : pc'[a] = pc[a]
    BY <1>1, <2>1
  <2>6. \A a \in Attempts : pc[a] # "new" => job[a].epoch <= epoch'  /\ job[a].epoch # epoch'
    BY <1>1, <2>1 DEF UploadInv
  <2>7. \A a \in Attempts : pc[a] \notin Loadless => view[a].version = doc.version /\ view[a].state = "active"
    BY <2>1 DEF UploadInv
  <2>8. \A e \in Deletes : pc'[e] \notin {"new", "commit"}
    BY <1>1, <2>1 DEF UploadsOnly
  <2>9. \A a \in Attempts : pc[a] # "new" => job[a].kind = "upload"
    BY DEF UploadInv
  <2>10. QED
    BY <2>1, <2>3, <2>4, <2>5, <2>6, <2>7, <2>8, <2>9 DEF UploadInv, LoadedBefore
<1>4. QED
  BY <1>2, <1>3 DEF DeleteStep

LEMMA UploadStep ==
  ASSUME UploadsOnly, Inv, PublishersAlone, UploadInv, [Next]_vars
  PROVE  UploadInv'
<1> USE PublicationAssumption DEF Processes
<1>1. ASSUME NEW p \in Publishers, PublishStep(p) PROVE UploadInv'
  <2>1. UNCHANGED <<doc, ver, job, epoch, erased, view>> /\ pc[p] # "new" /\ pc[p] \notin Loadless
    BY <1>1 DEF PublishStep, Hide, Show, Fail, UndoHide, UndoShow, UndoFails, rows, history, Loadless, Resting
  <2>2. \E to : Goto(p, to) /\ to # "admitted"
    BY <1>1 DEF PublishStep, Hide, Show, Fail, UndoHide, UndoShow, UndoFails, Raise, AfterUndo, Enter
  <2>3. p \in Processes \ Deletes
    BY DEF Publishers
  <2>4. QED
    BY <2>1, <2>2, <2>3, QuietMove
<1>2. ASSUME NEW s \in Sweeps, SweepStep(s) PROVE UploadInv'
  <2>1. UNCHANGED <<doc, ver, job, epoch, erased, view>> /\ \E to : Goto(s, to)
    BY <1>2 DEF SweepStep, SweepRead, SweepIndex, SweepCommit, Enter, rows, history
  <2>2. s \in Processes \ Deletes /\ s \notin Attempts
    OBVIOUS
  <2>3. QED
    BY <2>1, <2>2, QuietMove
<1>3. ~(\E q \in Rollbacks : RollbackStep(q))
  BY DEF UploadsOnly
<1>4. CASE UNCHANGED vars
  BY <1>4, QuietUpload DEF vars, rows, history
<1>5. QED
  BY <1>1, <1>2, <1>3, <1>4, UploadAttempt, UploadDelete DEF Next

(* Once a deletion has committed, what was uploaded before it can be read  *)
(* again only if the upload that published it was admitted before the      *)
(* deletion and loaded the document after it, whatever crashes, fails or   *)
(* overlaps with it, if uploads and sweeps are all that happens besides    *)
(* and one worker processes them.                                          *)
THEOREM UploadsStayErased ==
  ASSUME UploadsOnly
  PROVE  Spec => []ErasedUnlessLoadedDeleted
<1>1. Init => PublishersAlone
  BY DEF Init, PublishersAlone, Open, Resting
<1>2. Inv /\ PublishersAlone /\ [Next]_vars => PublishersAlone'
  BY PublishersAloneStep DEF UploadsOnly
<1>3. Init => UploadInv
  BY PublicationAssumption DEF Init, UploadInv, SubmittedAfter, LoadedBefore, Loadless, Resting, Processes
<1>4. Inv /\ PublishersAlone /\ UploadInv /\ [Next]_vars => UploadInv'
  BY UploadStep
<1>5. Inv /\ UploadInv => ErasedUnlessLoadedDeleted
  BY DEF Inv, VersionHasGeneration, UploadInv, LoadedDeleted, ErasedUnlessLoadedDeleted, Readable
<1>6. QED
  BY <1>1, <1>2, <1>3, <1>4, <1>5, Invariance, PTL DEF Spec
=============================================================================
