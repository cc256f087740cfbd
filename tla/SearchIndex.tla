---------------------------- MODULE SearchIndex -----------------------------
(***************************************************************************)
(* The search adapters at the level of their requests, and the retrieval   *)
(* that reads them.  One document, its generations and their chunks, in a  *)
(* dense and a lexical index.                                              *)
(*                                                                         *)
(* The memory adapters keep the chunks and one pointer per document.       *)
(* Qdrant, Milvus and OpenSearch keep a published flag in every chunk,     *)
(* which a publication clears for the document and sets for its target.    *)
(* Qdrant applies such an update in the server.  Milvus has none: the      *)
(* adapter reads the rows and writes all of them back.  OpenSearch takes a *)
(* snapshot, then writes chunk by chunk and skips those that changed since *)
(* (conflicts=proceed).                                                    *)
(*                                                                         *)
(* The adapter calls come from jobs, rollbacks, deletions and sweeps.  No  *)
(* lock orders them, so the callers here make them in any order.           *)
(***************************************************************************)
EXTENDS Naturals, FiniteSets

CONSTANTS
  Generations,
  Versions,
  VersionOf,   \* generation -> its version
  Pieces,      \* chunks of a generation
  Callers,     \* concurrent callers of the adapters
  None,        \* NULL
  MaxEvents,   \* bound on calls, commits and reads together
  MaxFaults,   \* bound on failing requests
  MaxEpoch     \* bound on the tenant's ACL epoch

ASSUME SearchAssumption ==
  /\ VersionOf \in [Generations -> Versions]
  /\ None \notin Generations \cup Versions
  /\ MaxEvents \in Nat /\ MaxFaults \in Nat /\ MaxEpoch \in Nat \ {0}

Indexes == {"dense", "lexical"}
Engines == [dense : {"memory", "qdrant", "milvus"}, lexical : {"memory", "opensearch"}]
Chunks == Generations \X Pieces

VARIABLES
  engine,   \* index -> adapter the container was configured with
  stored,   \* index -> chunk -> "absent", "hidden" or "shown"
  pointer,  \* index -> active generation of a memory adapter
  cached,   \* index -> ACL epoch the adapter was told, 0 before that
  call,     \* caller -> the adapter call it is in
  snap,     \* caller -> rows its request has read and not yet written
  stale,    \* caller -> those of them that others wrote since
  active,   \* documents.active_generation_id
  epoch,    \* tenants.acl_epoch
  pending,  \* the query: indexes that have not answered
  scope,    \* its authorization scope: epoch and generations
  found,    \* chunks the indexes returned
  raised,   \* indexes whose search raised
  answer,   \* its result
  report,   \* a reconciliation: generation, indexes left, indexes found stale
  events, faults,
  gone,     \* history: index -> chunks purged and not staged again
  mixed     \* history: indexes in which calls overlapped

indexes == <<stored, pointer>>
requests == <<call, snap, stale>>
query == <<pending, scope, found, raised, answer>>
vars == <<engine, indexes, cached, requests, active, epoch, query, report, events, faults, gone, mixed>>

Idle == [step |-> "idle", at |-> "dense", target |-> {}, read |-> FALSE]
NoScope == [epoch |-> 0, gens |-> {}]
NoAnswer == [status |-> "none", chunks |-> {}]
NoReport == [gen |-> None, left |-> {}, stale |-> {}, touched |-> {}]

ChunksOf(gens) == gens \X Pieces
Stored(x) == {c \in Chunks : stored[x][c] # "absent"}

(* Both indexes are empty, or serve the document's active generation. *)
Init ==
  /\ engine \in Engines
  /\ active \in Generations \cup {None}
  /\ stored = [x \in Indexes |-> [c \in Chunks |->
       IF c[1] # active THEN "absent" ELSE IF engine[x] = "memory" THEN "hidden" ELSE "shown"]]
  /\ pointer = [x \in Indexes |-> IF engine[x] = "memory" THEN active ELSE None]
  /\ cached = [x \in Indexes |-> 0]
  /\ call = [w \in Callers |-> Idle]
  /\ snap = [w \in Callers |-> {}] /\ stale = [w \in Callers |-> {}]
  /\ epoch = 1
  /\ pending = {} /\ scope = NoScope /\ found = {} /\ raised = {} /\ answer = NoAnswer
  /\ report = NoReport
  /\ events = 0 /\ faults = 0
  /\ gone = [x \in Indexes |-> {}] /\ mixed = {}

-----------------------------------------------------------------------------
(* What a search of the index can return: the chunks of the active         *)
(* generation in memory, the chunks flagged published elsewhere.           *)
MemoryShown(x) == {c \in Stored(x) : c[1] = pointer[x]}
QdrantShown(x) == {c \in Chunks : stored[x][c] = "shown"}
MilvusShown(x) == {c \in Chunks : stored[x][c] = "shown"}
OpenSearchShown(x) == {c \in Chunks : stored[x][c] = "shown"}
Shown(x) ==
  CASE engine[x] = "memory" -> MemoryShown(x)
    [] engine[x] = "qdrant" -> QdrantShown(x)
    [] engine[x] = "milvus" -> MilvusShown(x)
    [] engine[x] = "opensearch" -> OpenSearchShown(x)

(* Rows S of the index get a new value; requests that have read them will  *)
(* find them changed.                                                      *)
Write(w, x, S, value) ==
  /\ stored' = [stored EXCEPT ![x] = [c \in Chunks |-> IF c \in S THEN value ELSE @[c]]]
  /\ stale' = [v \in Callers |->
       IF v = w THEN stale[v] ELSE IF call[v].at = x THEN stale[v] \cup (S \cap snap[v]) ELSE stale[v]]

Event == events < MaxEvents /\ events' = events + 1
Fault == faults < MaxFaults /\ faults' = faults + 1

Busy(x) == \E w \in Callers : call[w].step # "idle" /\ call[w].at = x

Begin(w, x, step, target) ==
  /\ call[w].step = "idle"
  /\ Event
  /\ call' = [call EXCEPT ![w] = [step |-> step, at |-> x, target |-> target, read |-> FALSE]]
  /\ mixed' = IF Busy(x) THEN mixed \cup {x} ELSE mixed
  /\ report' = [report EXCEPT !.touched = IF report = NoReport THEN @ ELSE @ \cup {x}]
  /\ UNCHANGED <<engine, indexes, cached, snap, stale, active, epoch, query, faults, gone>>

(* The next request of the call, or its end. *)
Proceed(w, step) ==
  call' = [call EXCEPT ![w] = IF step = "idle" THEN Idle ELSE [@ EXCEPT !.step = step, !.read = FALSE]]

CallStage(w, x, g) == Begin(w, x, "stage", {g})
CallPublishGeneration(w, x, g) == Begin(w, x, "lookup", {g})
CallPublish(w, x, v) == Begin(w, x, "lookup", {g \in Generations : VersionOf[g] = v})
CallDeleteGeneration(w, x, g) == Begin(w, x, "delete", {g})
CallDeleteDocument(w, x) == Begin(w, x, "drop", Generations)

Is(w, e, step) == engine[call[w].at] = e /\ call[w].step = step

-----------------------------------------------------------------------------
(* stage: the rows are written unpublished.                                *)

StageRows(w, S) ==
  /\ Write(w, call[w].at, S, "hidden")
  /\ gone' = [gone EXCEPT ![call[w].at] = @ \ S]
  /\ Proceed(w, "idle")
  /\ UNCHANGED <<engine, pointer, cached, snap, active, epoch, query, report, events, mixed>>

(* A row that replaces one of the active generation stays visible. *)
MemoryStage(w) ==
  Is(w, "memory", "stage") /\ StageRows(w, ChunksOf(call[w].target)) /\ UNCHANGED faults
QdrantStage(w) ==
  Is(w, "qdrant", "stage") /\ StageRows(w, ChunksOf(call[w].target)) /\ UNCHANGED faults
MilvusStage(w) ==
  Is(w, "milvus", "stage") /\ StageRows(w, ChunksOf(call[w].target)) /\ UNCHANGED faults

(* A bulk request may fail for some rows, which raises after the others    *)
(* were written.                                                           *)
OpenSearchStage(w) ==
  /\ Is(w, "opensearch", "stage")
  /\ \E S \in SUBSET ChunksOf(call[w].target) :
       StageRows(w, S) /\ IF S = ChunksOf(call[w].target) THEN UNCHANGED faults ELSE Fault

-----------------------------------------------------------------------------
(* publish and publish_generation find the document through a staged row   *)
(* of the target; without one they raise.                                  *)

Candidates(w) == ChunksOf(call[w].target) \cap Stored(call[w].at)

(* The pointer moves to the generation of the row found. *)
MemoryPublish(w) ==
  /\ Is(w, "memory", "lookup")
  /\ \/ Candidates(w) = {} /\ UNCHANGED pointer
     \/ \E c \in Candidates(w) : pointer' = [pointer EXCEPT ![call[w].at] = c[1]]
  /\ Proceed(w, "idle")
  /\ UNCHANGED <<engine, stored, cached, snap, stale, active, epoch, query, report, events, faults, gone, mixed>>

(* Mutant: a target with a published row is taken for published already. *)
LookupSkips(w) ==
  /\ Proceed(w, IF Candidates(w) = {} \/ \E c \in Candidates(w) : stored[call[w].at][c] = "shown" THEN "idle" ELSE "hide")
  /\ UNCHANGED <<engine, indexes, cached, snap, stale, active, epoch, query, report, events, faults, gone, mixed>>

Lookup(w) ==
  /\ Proceed(w, IF Candidates(w) = {} THEN "idle" ELSE "hide")
  /\ UNCHANGED <<engine, indexes, cached, snap, stale, active, epoch, query, report, events, faults, gone, mixed>>

QdrantLookup(w) == Is(w, "qdrant", "lookup") /\ Lookup(w)
MilvusLookup(w) == Is(w, "milvus", "lookup") /\ Lookup(w)
OpenSearchLookup(w) == Is(w, "opensearch", "lookup") /\ Lookup(w)

-----------------------------------------------------------------------------
(* Updates and deletions.                                                  *)

(* Mutant: only the target is hidden before it is shown. *)
MatchingTarget(w) == Stored(call[w].at) \cap ChunksOf(call[w].target)

(* The rows a request is about, what it makes of them, and what follows. *)
Matching(w) ==
  Stored(call[w].at) \cap (IF call[w].step = "hide" THEN Chunks ELSE ChunksOf(call[w].target))
Value(w) ==
  CASE call[w].step = "hide" -> "hidden" [] call[w].step = "show" -> "shown" [] OTHER -> "absent"
After(w) == IF call[w].step = "hide" THEN "show" ELSE "idle"

Flags(w) == call[w].step \in {"hide", "show"}
Deletes(w) == call[w].step \in {"delete", "drop"}
Purge(w, S) == IF Deletes(w) THEN [gone EXCEPT ![call[w].at] = @ \cup S] ELSE gone

(* A request the server applies as a whole. *)
Apply(w) ==
  /\ Write(w, call[w].at, Matching(w), Value(w))
  /\ gone' = Purge(w, Matching(w))
  /\ Proceed(w, After(w))
  /\ UNCHANGED <<engine, cached, snap, active, epoch, query, report, events, faults, mixed>>

QdrantSetPublished(w) ==
  engine[call[w].at] = "qdrant" /\ Flags(w) /\ Apply(w) /\ UNCHANGED pointer
QdrantDelete(w) ==
  engine[call[w].at] = "qdrant" /\ Deletes(w) /\ Apply(w) /\ UNCHANGED pointer
MilvusDelete(w) ==
  engine[call[w].at] = "milvus" /\ Deletes(w) /\ Apply(w) /\ UNCHANGED pointer

(* Mutant: deletions leave the rows. *)
MemoryDeletePointer(w) ==
  /\ engine[call[w].at] = "memory" /\ Deletes(w)
  /\ pointer' = [pointer EXCEPT ![call[w].at] = None]
  /\ gone' = Purge(w, Matching(w))
  /\ Proceed(w, "idle")
  /\ UNCHANGED <<engine, stored, cached, snap, stale, active, epoch, query, report, events, faults, mixed>>

(* Deleting the document clears the pointer, deleting a generation not. *)
MemoryDelete(w) ==
  /\ engine[call[w].at] = "memory" /\ Deletes(w)
  /\ Apply(w)
  /\ pointer' = IF call[w].step = "drop" THEN [pointer EXCEPT ![call[w].at] = None] ELSE pointer

(* The rows are read first ... *)
Read(w) ==
  /\ ~call[w].read
  /\ snap' = [snap EXCEPT ![w] = Matching(w)]
  /\ stale' = [stale EXCEPT ![w] = {}]
  /\ call' = [call EXCEPT ![w].read = TRUE]
  /\ UNCHANGED <<engine, indexes, cached, active, epoch, query, report, events, faults, gone, mixed>>

(* ... and those of S written afterwards. *)
WriteBack(w, S, written) ==
  /\ call[w].read
  /\ Write(w, call[w].at, written, Value(w))
  /\ gone' = Purge(w, S)
  /\ snap' = [snap EXCEPT ![w] = @ \ S]
  /\ IF S = snap[w] THEN Proceed(w, After(w)) ELSE UNCHANGED call
  /\ UNCHANGED <<engine, pointer, cached, active, epoch, query, report, events, faults, mixed>>

MilvusQueryAll(w) == engine[call[w].at] = "milvus" /\ Flags(w) /\ Read(w)

(* All rows are upserted as they were read, but for the flag. *)
MilvusUpsert(w) == engine[call[w].at] = "milvus" /\ Flags(w) /\ WriteBack(w, snap[w], snap[w])

(* update_by_query and delete_by_query go row by row and skip the rows     *)
(* that changed since (conflicts=proceed).                                 *)
RowByRow(w) ==
  \E S \in SUBSET snap[w] :
    /\ Cardinality(S) = (IF snap[w] = {} THEN 0 ELSE 1)
    /\ WriteBack(w, S, S \ stale[w])

OpenSearchUpdate(w) ==
  engine[call[w].at] = "opensearch" /\ Flags(w) /\ (Read(w) \/ RowByRow(w))
OpenSearchDelete(w) ==
  engine[call[w].at] = "opensearch" /\ Deletes(w) /\ (Read(w) \/ RowByRow(w))

(* A request is refused or the client gives it up, and the call raises;    *)
(* what was written stays.  A request given up counts as over, although    *)
(* the server may still be applying it.                                    *)
CallRaises(w) ==
  /\ call[w].step # "idle"
  /\ Fault
  /\ Proceed(w, "idle")
  /\ snap' = [snap EXCEPT ![w] = {}]
  /\ UNCHANGED <<engine, indexes, cached, stale, active, epoch, query, report, events, gone, mixed>>

-----------------------------------------------------------------------------
(* Rows of PostgreSQL that retrieval reads, moved by their owners.         *)

Switch(g) ==
  /\ Event
  /\ g # active
  /\ active' = g
  /\ UNCHANGED <<engine, indexes, cached, requests, epoch, query, report, faults, gone, mixed>>

BumpEpoch ==
  /\ Event
  /\ epoch < MaxEpoch
  /\ epoch' = epoch + 1
  /\ UNCHANGED <<engine, indexes, cached, requests, active, query, report, faults, gone, mixed>>

(* Mutant: the epoch of the change to come is passed on. *)
SetAclEpochAhead(e) ==
  /\ Event
  /\ e \in 1 .. epoch
  /\ cached' = [x \in Indexes |-> e + 1]
  /\ UNCHANGED <<engine, indexes, requests, active, epoch, query, report, faults, gone, mixed>>

(* set_acl_epoch: a publication or rollback in this process passes on the  *)
(* epoch of the tenant row its session has loaded.                         *)
SetAclEpoch(e) ==
  /\ Event
  /\ e \in 1 .. epoch
  /\ cached' = [x \in Indexes |-> e]
  /\ UNCHANGED <<engine, indexes, requests, active, epoch, query, report, faults, gone, mixed>>

-----------------------------------------------------------------------------
(* RetrievalService._retrieve.                                             *)

(* retrieval_scope: the epoch of an identity resolved before, and the      *)
(* active generations of the spaces.                                       *)
CompileScope(e) ==
  /\ scope = NoScope
  /\ e \in 1 .. epoch
  /\ scope' = [epoch |-> e, gens |-> {active} \ {None}]
  /\ pending' = Indexes
  /\ UNCHANGED <<engine, indexes, cached, requests, active, epoch, found, raised, answer,
                 report, events, faults, gone, mixed>>

(* _authorized compares the epochs once per document in the index, *)
MemoryRejects(x) == cached[x] \notin {0, scope.epoch} /\ Stored(x) # {}
(* _validate_scope before the request. *)
RemoteRejects(x) == cached[x] \notin {0, scope.epoch}
ScopeRejected(x) == IF engine[x] = "memory" THEN MemoryRejects(x) ELSE RemoteRejects(x)

InScope(c) == scope.gens = {} \/ c[1] \in scope.gens

(* gather(dense.retrieve, lexical.retrieve): either first.  An adapter     *)
(* returns the best of the visible chunks in scope; how many is left to    *)
(* the ranking that follows.                                               *)
Search(x) ==
  /\ x \in pending
  /\ ~ScopeRejected(x)
  /\ found' = found \cup {c \in Shown(x) : InScope(c)}
  /\ pending' = pending \ {x}
  /\ UNCHANGED <<engine, indexes, cached, requests, active, epoch, scope, raised, answer,
                 report, events, faults, gone, mixed>>

SearchRaises(x) ==
  /\ x \in pending
  /\ IF ScopeRejected(x) THEN UNCHANGED faults ELSE Fault
  /\ raised' = raised \cup {x}
  /\ pending' = pending \ {x}
  /\ UNCHANGED <<engine, indexes, cached, requests, active, epoch, scope, found, answer,
                 report, events, gone, mixed>>

(* The authority check: one statement reads which candidates belong to the *)
(* active generation.  Both searches must have answered, or one if the     *)
(* policy allows it.  Ranking, relevance and budget keep some of the rest. *)
Judge(kept) ==
  /\ scope # NoScope /\ pending = {} /\ answer = NoAnswer
  /\ raised # Indexes
  /\ kept \subseteq {c \in found : c[1] = active /\ InScope(c)}
  /\ answer' = [status |-> IF raised = {} THEN "ok" ELSE "degraded", chunks |-> kept]
  /\ found' = {} /\ raised' = {}
  /\ UNCHANGED <<engine, indexes, cached, requests, active, epoch, pending, scope,
                 report, events, faults, gone, mixed>>

Unavailable ==
  /\ scope # NoScope /\ pending = {} /\ answer = NoAnswer
  /\ raised # {}
  /\ answer' = [NoAnswer EXCEPT !.status = "unavailable"]
  /\ found' = {} /\ raised' = {}
  /\ UNCHANGED <<engine, indexes, cached, requests, active, epoch, pending, scope,
                 report, events, faults, gone, mixed>>

-----------------------------------------------------------------------------
(* IndexReconciliationService.inspect of the active generation.            *)

Reconcile ==
  /\ Event
  /\ report = NoReport /\ active # None
  /\ report' = [gen |-> active, left |-> Indexes, stale |-> {},
                touched |-> {x \in Indexes : Busy(x)}]
  /\ UNCHANGED <<engine, indexes, cached, requests, active, epoch, query, faults, gone, mixed>>

(* The dense index is inspected first. *)
Inspecting(x) == x \in report.left /\ (x = "lexical" => "dense" \notin report.left)
Reported(x, bad) ==
  report' = [report EXCEPT !.left = @ \ {x}, !.stale = IF bad THEN @ \cup {x} ELSE @]

(* inspect_generation: the rows of the generation, published or not. *)
InspectGeneration(x) == Stored(x) \cap ChunksOf({report.gen})

(* Their number and their metadata are compared with the chunks in         *)
(* PostgreSQL.                                                             *)
Inspect(x) ==
  /\ Inspecting(x)
  /\ Reported(x, InspectGeneration(x) # ChunksOf({report.gen}))
  /\ UNCHANGED <<engine, indexes, cached, requests, active, epoch, query, events, faults, gone, mixed>>

(* Mutant: an index that does not answer is not reported. *)
InspectForgives(x) ==
  /\ Inspecting(x)
  /\ Fault
  /\ Reported(x, FALSE)
  /\ UNCHANGED <<engine, indexes, cached, requests, active, epoch, query, events, gone, mixed>>

InspectRaises(x) ==
  /\ Inspecting(x)
  /\ Fault
  /\ Reported(x, TRUE)
  /\ UNCHANGED <<engine, indexes, cached, requests, active, epoch, query, events, gone, mixed>>

-----------------------------------------------------------------------------
AdapterCall(w) ==
  \E x \in Indexes :
    \/ \E g \in Generations : CallStage(w, x, g) \/ CallPublishGeneration(w, x, g) \/ CallDeleteGeneration(w, x, g)
    \/ \E v \in Versions : CallPublish(w, x, v)
    \/ CallDeleteDocument(w, x)

Request(w) ==
  \/ MemoryStage(w) \/ QdrantStage(w) \/ MilvusStage(w) \/ OpenSearchStage(w)
  \/ MemoryPublish(w) \/ QdrantLookup(w) \/ MilvusLookup(w) \/ OpenSearchLookup(w)
  \/ QdrantSetPublished(w) \/ MilvusQueryAll(w) \/ MilvusUpsert(w) \/ OpenSearchUpdate(w)
  \/ MemoryDelete(w) \/ QdrantDelete(w) \/ MilvusDelete(w) \/ OpenSearchDelete(w)
  \/ CallRaises(w)

Retrieval ==
  \/ \E e \in 1 .. MaxEpoch : CompileScope(e)
  \/ \E x \in Indexes : Search(x) \/ SearchRaises(x)
  \/ \E kept \in SUBSET found : Judge(kept)
  \/ Unavailable

Next ==
  \/ \E w \in Callers : AdapterCall(w) \/ Request(w)
  \/ \E g \in Generations \cup {None} : Switch(g)
  \/ BumpEpoch
  \/ \E e \in 1 .. MaxEpoch : SetAclEpoch(e)
  \/ Retrieval
  \/ Reconcile
  \/ \E x \in Indexes : Inspect(x) \/ InspectRaises(x)

Spec == Init /\ [][Next]_vars
-----------------------------------------------------------------------------
Calls ==
  [step : {"idle", "stage", "lookup", "hide", "show", "delete", "drop"}, at : Indexes,
   target : SUBSET Generations, read : BOOLEAN]

(* Type invariant. *)
TypeOK ==
  /\ engine \in Engines
  /\ stored \in [Indexes -> [Chunks -> {"absent", "hidden", "shown"}]]
  /\ pointer \in [Indexes -> Generations \cup {None}]
  /\ cached \in [Indexes -> 0 .. MaxEpoch] /\ epoch \in 1 .. MaxEpoch
  /\ call \in [Callers -> Calls]
  /\ snap \in [Callers -> SUBSET Chunks] /\ stale \in [Callers -> SUBSET Chunks]
  /\ active \in Generations \cup {None}
  /\ pending \subseteq Indexes /\ raised \subseteq Indexes /\ found \subseteq Chunks
  /\ scope \in [epoch : 0 .. MaxEpoch, gens : SUBSET Generations]
  /\ answer \in [status : {"none", "ok", "degraded", "unavailable"}, chunks : SUBSET Chunks]
  /\ report \in [gen : Generations \cup {None}, left : SUBSET Indexes, stale : SUBSET Indexes,
                 touched : SUBSET Indexes]
  /\ events \in 0 .. MaxEvents /\ faults \in 0 .. MaxFaults
  /\ gone \in [Indexes -> SUBSET Chunks] /\ mixed \subseteq Indexes

(* An index never shows two versions of the document: a publication that   *)
(* fails between hiding and showing, or half way through either, leaves    *)
(* less than one, never a mixture.  Two overlapping publications can mix   *)
(* them, except in the memory adapters.                                    *)
OneVersionShown ==
  \A x \in Indexes : x \notin mixed \/ engine[x] = "memory" =>
    \A c, d \in Shown(x) : VersionOf[c[1]] = VersionOf[d[1]]

(* What a deletion removed stays away until it is staged again.  With      *)
(* Milvus, whose publications write back rows they read before, and with   *)
(* OpenSearch, whose deletions skip rows that a publication has just       *)
(* written, this needs calls that do not overlap; the others guarantee it  *)
(* whatever overlaps.                                                      *)
PurgeFinal ==
  \A x \in Indexes : x \notin mixed \/ engine[x] \in {"memory", "qdrant"} =>
    gone[x] \cap Stored(x) = {}

(* A publication that ends without raising has made the index show the     *)
(* stored chunks of its target, all of them and nothing else, whatever the *)
(* calls before it left half done: rows shown and rows hidden by one that  *)
(* failed between its requests, or a target staged in part.  A memory      *)
(* adapter shows one generation of the target, whatever overlaps.          *)
Publishes(w) ==
  /\ call[w].step \in {"lookup", "show"} /\ call'[w].step = "idle"
  /\ call[w].step = "lookup" => Candidates(w) # {}
  /\ faults' = faults
ShowsExactly(x, gens) ==
  IF engine[x] = "memory"
  THEN \E g \in gens : Shown(x)' = Stored(x)' \cap ChunksOf({g})
  ELSE Shown(x)' = Stored(x)' \cap ChunksOf(gens)
PublishedExactly ==
  [][\A w \in Callers, x \in Indexes :
       Publishes(w) /\ call[w].at = x /\ (x \notin mixed \/ engine[x] = "memory") =>
         ShowsExactly(x, call[w].target)]_vars

(* An index that a reconciliation does not report, and that no call        *)
(* touched since it began, has all chunks of the generation.               *)
ReportSound ==
  report # NoReport =>
    \A x \in Indexes \ (report.left \cup report.stale \cup report.touched) :
      ChunksOf({report.gen}) \subseteq Stored(x)

(* "has not fallen behind the current ACL version": a scope compiled at    *)
(* the tenant's current epoch is not rejected as stale.                    *)
CurrentScopeAccepted ==
  \A x \in pending : scope.epoch = epoch => ~ScopeRejected(x)
-----------------------------------------------------------------------------
(* The inductive invariant behind the properties above.                    *)

At(w, x) == call[w].step # "idle" /\ call[w].at = x
Flagged(x) == {c \in Chunks : stored[x][c] = "shown"}
OneVersion(gens) == \A g, h \in gens : VersionOf[g] = VersionOf[h]

(* Only Milvus's updates and OpenSearch's requests read rows to write them *)
(* later, no row is held outside of that, and a publication is about the   *)
(* generations of one version.                                             *)
CallerOK(w) ==
  /\ call[w].read => \/ engine[call[w].at] = "milvus" /\ Flags(w)
                     \/ engine[call[w].at] = "opensearch" /\ (Flags(w) \/ Deletes(w))
  /\ ~call[w].read => snap[w] = {}
  /\ call[w].step \in {"lookup", "hide", "show"} => OneVersion(call[w].target)
CallersOK == \A w \in Callers : CallerOK(w)

(* A call that has the index to itself: the rows it has read are there and *)
(* unchanged, it has read every row still flagged that it is to hide and   *)
(* every row not yet flagged that it is to show, and it shows its target   *)
(* only when nothing else is flagged.                                      *)
Undisturbed(w) ==
  /\ call[w].read => snap[w] \subseteq Matching(w) /\ stale[w] = {}
  /\ call[w].step = "hide" /\ call[w].read => Flagged(call[w].at) \subseteq snap[w]
  /\ call[w].step = "show" /\ call[w].read => Matching(w) \ snap[w] \subseteq Flagged(call[w].at)
  /\ call[w].step = "show" => Flagged(call[w].at) \subseteq ChunksOf(call[w].target)

(* In an index whose calls never overlapped there is one call at a time,   *)
(* undisturbed, and the flags are on one version.                          *)
Alone(x) ==
  /\ \A v, w \in Callers : At(v, x) /\ At(w, x) => v = w
  /\ \A w \in Callers : At(w, x) => Undisturbed(w)
  /\ \A c, d \in Flagged(x) : VersionOf[c[1]] = VersionOf[d[1]]
AloneInv == \A x \in Indexes \ mixed : Alone(x)

(* A reconciliation knows of every call since it began. *)
ReportInv ==
  report # NoReport =>
    /\ report.gen # None
    /\ \A x \in Indexes : Busy(x) => x \in report.touched

SearchInv ==
  /\ TypeOK
  /\ CallersOK /\ AloneInv /\ PurgeFinal
  /\ ReportInv /\ ReportSound
=============================================================================
