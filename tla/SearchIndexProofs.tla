------------------------- MODULE SearchIndexProofs --------------------------
(***************************************************************************)
(* Proofs about the search adapters and the retrieval that reads them, for *)
(* any generations, versions, chunks and callers, and any configuration of *)
(* the adapters.  The inductive invariant is SearchInv of SearchIndex.     *)
(***************************************************************************)
EXTENDS SearchIndex, TLAPS

States == {"absent", "hidden", "shown"}
Steps == {"idle", "stage", "lookup", "hide", "show", "delete", "drop"}

(* What the adapters keep, and what the query and the report keep. *)
AdapterOK ==
  /\ engine \in Engines
  /\ stored \in [Indexes -> [Chunks -> States]]
  /\ pointer \in [Indexes -> Generations \cup {None}]
  /\ call \in [Callers -> Calls]
  /\ snap \in [Callers -> SUBSET Chunks] /\ stale \in [Callers -> SUBSET Chunks]
  /\ gone \in [Indexes -> SUBSET Chunks] /\ mixed \subseteq Indexes
TenantOK ==
  /\ cached \in [Indexes -> 0 .. MaxEpoch] /\ epoch \in 1 .. MaxEpoch
  /\ active \in Generations \cup {None}
  /\ events \in 0 .. MaxEvents /\ faults \in 0 .. MaxFaults
QueryOK ==
  /\ pending \subseteq Indexes /\ raised \subseteq Indexes /\ found \subseteq Chunks
  /\ scope \in [epoch : 0 .. MaxEpoch, gens : SUBSET Generations]
  /\ answer \in [status : {"none", "ok", "degraded", "unavailable"}, chunks : SUBSET Chunks]
ReportOK ==
  report \in [gen : Generations \cup {None}, left : SUBSET Indexes, stale : SUBSET Indexes,
              touched : SUBSET Indexes]

LEMMA TypeParts == TypeOK <=> AdapterOK /\ TenantOK /\ QueryOK /\ ReportOK
BY DEF TypeOK, AdapterOK, TenantOK, QueryOK, ReportOK, States

LEMMA IdleCall == Idle \in Calls /\ Idle.step = "idle" /\ ~Idle.read
BY DEF Idle, Calls, Indexes

(* Every chunk belongs to a generation. *)
LEMMA ChunkGenerations ==
  /\ \A c \in Chunks : c[1] \in Generations
  /\ \A gens \in SUBSET Generations : ChunksOf(gens) \subseteq Chunks
BY DEF Chunks, ChunksOf

-----------------------------------------------------------------------------
(* What the requests make of the rows. *)

LEMMA WriteRows ==
  ASSUME AdapterOK, NEW w \in Callers, NEW x \in Indexes, NEW S \in SUBSET Chunks,
         NEW value \in States, Write(w, x, S, value)
  PROVE  /\ stored' \in [Indexes -> [Chunks -> States]]
         /\ stale' \in [Callers -> SUBSET Chunks]
         /\ stale'[w] = stale[w]
         /\ \A v \in Callers : call[v].at # x => stale'[v] = stale[v]
         /\ \A y \in Indexes : y # x => stored'[y] = stored[y]
         /\ \A c \in S : stored'[x][c] = value
         /\ \A c \in Chunks \ S : stored'[x][c] = stored[x][c]
BY DEF Write, AdapterOK

(* The call of w goes on to its next request, or ends. *)
LEMMA ProceedTo ==
  ASSUME AdapterOK, NEW w \in Callers, NEW step \in Steps, Proceed(w, step)
  PROVE  /\ call' \in [Callers -> Calls]
         /\ \A v \in Callers : v # w => call'[v] = call[v]
         /\ step = "idle" => call'[w] = Idle
         /\ step # "idle" => /\ call'[w].step = step /\ call'[w].at = call[w].at
                             /\ call'[w].target = call[w].target /\ call'[w].read = FALSE
<1>1. call[w] \in Calls
  BY DEF AdapterOK
<1>2. CASE step = "idle"
  BY <1>2, IdleCall DEF Proceed, AdapterOK
<1>3. CASE step # "idle"
  <2> DEFINE r == [call[w] EXCEPT !.step = step, !.read = FALSE]
  <2>1. /\ r \in Calls /\ r.step = step /\ r.at = call[w].at
        /\ r.target = call[w].target /\ r.read = FALSE
    BY <1>1 DEF Calls, Steps
  <2>2. call' = [call EXCEPT ![w] = r]
    BY <1>3 DEF Proceed
  <2> HIDE DEF r
  <2> QED  BY <1>3, <2>1, <2>2 DEF AdapterOK
<1> QED  BY <1>2, <1>3

(* The rows of a request are stored rows of its index. *)
LEMMA RequestRows ==
  ASSUME AdapterOK, NEW w \in Callers
  PROVE  /\ call[w] \in Calls /\ call[w].at \in Indexes /\ call[w].target \in SUBSET Generations
         /\ call[w].step \in Steps /\ call[w].read \in BOOLEAN
         /\ Matching(w) \subseteq Stored(call[w].at) /\ Stored(call[w].at) \subseteq Chunks
         /\ ChunksOf(call[w].target) \subseteq Chunks
         /\ Value(w) \in States /\ After(w) \in Steps
<1>1. call[w] \in Calls
  BY DEF AdapterOK
<1>2. /\ call[w].at \in Indexes /\ call[w].target \in SUBSET Generations
      /\ call[w].step \in Steps /\ call[w].read \in BOOLEAN
  BY <1>1 DEF Calls, Steps
<1>3. ChunksOf(call[w].target) \subseteq Chunks
  BY <1>2, ChunkGenerations
<1>4. Value(w) \in States /\ After(w) \in Steps
  BY DEF Value, After, States, Steps
<1> QED  BY <1>1, <1>2, <1>3, <1>4 DEF Matching, Stored

-----------------------------------------------------------------------------
(* A request of w, in its index x, keeps the invariant when it leaves the   *)
(* other index and the other calls alone, and its own call and index in     *)
(* order.                                                                   *)
LEMMA RequestMoves ==
  ASSUME SearchInv, NEW w \in Callers, NEW x \in Indexes, At(w, x), AdapterOK', TenantOK',
         UNCHANGED <<engine, query, report, mixed>>,
         \A y \in Indexes : y # x => stored'[y] = stored[y] /\ gone'[y] = gone[y],
         \A v \in Callers : v # w => /\ call'[v] = call[v] /\ snap'[v] = snap[v]
                                     /\ call[v].at # x => stale'[v] = stale[v],
         call'[w] = Idle \/ call'[w].at = x,
         CallerOK(w)',
         x \notin mixed => /\ call'[w].step # "idle" => Undisturbed(w)'
                           /\ \A c, d \in Flagged(x)' : VersionOf[c[1]] = VersionOf[d[1]],
         x \notin mixed \/ engine[x] \in {"memory", "qdrant"} => gone'[x] \cap Stored(x)' = {}
  PROVE  SearchInv'
<1> USE DEF SearchInv
<1>1. AdapterOK /\ TenantOK /\ QueryOK /\ ReportOK
  BY TypeParts
<1>2. TypeOK'
  <2>1. QueryOK'
    BY <1>1 DEF QueryOK, query
  <2>2. ReportOK'
    BY <1>1 DEF ReportOK
  <2>3. TypeOK' <=> AdapterOK' /\ TenantOK' /\ QueryOK' /\ ReportOK'
    BY TypeParts, PTL
  <2> QED  BY <2>1, <2>2, <2>3
<1>3. CallersOK'
  BY DEF CallersOK, CallerOK, Flags, Deletes
<1>4. call'[w].step # "idle" => call'[w].at = x
  BY IdleCall
<1>5. ASSUME NEW y \in Indexes \ mixed PROVE Alone(y)'
  <2>1. Alone(y)
    BY DEF AloneInv
  <2>2. CASE y = x
    <3>1. \A v \in Callers : At(v, x)' => v = w
      BY <2>1, <2>2 DEF Alone, At
    <3>2. \A v \in Callers : At(v, x)' => Undisturbed(v)'
      BY <2>2, <3>1 DEF At
    <3> QED  BY <2>2, <3>1, <3>2 DEF Alone
  <2>3. CASE y # x
    <3>1. Flagged(y)' = Flagged(y) /\ Stored(y)' = Stored(y)
      BY <2>3 DEF Flagged, Stored
    <3>2. \A v \in Callers : At(v, y)' => At(v, y) /\ v # w
      BY <1>4, <2>3 DEF At
    <3>3. ASSUME NEW v \in Callers, At(v, y)' PROVE Undisturbed(v)'
      <4>1. Undisturbed(v) /\ call[v].at = y /\ v # w
        BY <2>1, <3>2, <3>3 DEF Alone, At
      <4>2. call'[v] = call[v] /\ snap'[v] = snap[v] /\ stale'[v] = stale[v]
        BY <2>3, <4>1
      <4>3. Matching(v)' = Matching(v)
        BY <3>1, <4>1, <4>2 DEF Matching
      <4> QED  BY <3>1, <4>1, <4>2, <4>3 DEF Undisturbed
    <3>4. \A u, v \in Callers : At(u, y)' /\ At(v, y)' => u = v
      BY <2>1, <3>2 DEF Alone
    <3>5. \A c, d \in Flagged(y)' : VersionOf[c[1]] = VersionOf[d[1]]
      BY <2>1, <3>1 DEF Alone
    <3> QED  BY <3>3, <3>4, <3>5 DEF Alone
  <2> QED  BY <2>2, <2>3
<1>6. AloneInv'
  BY <1>5 DEF AloneInv
<1>7. PurgeFinal'
  <2> SUFFICES ASSUME NEW y \in Indexes, y \notin mixed \/ engine[y] \in {"memory", "qdrant"}
               PROVE  gone'[y] \cap Stored(y)' = {}
    BY DEF PurgeFinal
  <2>1. CASE y = x
    BY <2>1
  <2>2. CASE y # x
    <3>1. Stored(y)' = Stored(y) /\ gone'[y] = gone[y]
      BY <2>2 DEF Stored
    <3> QED  BY <3>1 DEF PurgeFinal
  <2> QED  BY <2>1, <2>2
<1>9. \A y \in Indexes : Busy(y)' => Busy(y)
  BY <1>4 DEF Busy, At
<1>10. ReportInv'
  BY <1>9 DEF ReportInv
<1>11. ReportSound'
  <2> SUFFICES ASSUME report # NoReport,
                      NEW y \in Indexes \ (report.left \cup report.stale \cup report.touched)
               PROVE  ChunksOf({report.gen}) \subseteq Stored(y)'
    BY DEF ReportSound
  <2>1. y # x
    BY DEF ReportInv, Busy, At
  <2>2. Stored(y)' = Stored(y)
    BY <2>1 DEF Stored
  <2>3. ReportSound
    OBVIOUS
  <2>4. ChunksOf({report.gen}) \subseteq Stored(y)
    BY ONLY <2>3, report # NoReport, y \in Indexes \ (report.left \cup report.stale \cup report.touched)
       DEF ReportSound
  <2> QED  BY ONLY <2>2, <2>4
<1> QED  BY <1>2, <1>3, <1>6, <1>7, <1>10, <1>11

(* stage writes rows unpublished and takes them off the purged ones. *)
LEMMA StageStep ==
  ASSUME SearchInv, NEW w \in Callers, call[w].step = "stage", NEW S \in SUBSET Chunks,
         StageRows(w, S), faults' \in 0 .. MaxFaults
  PROVE  SearchInv'
<1> USE DEF SearchInv
<1>1. AdapterOK /\ TenantOK
  BY TypeParts
<1>2. PICK x \in Indexes : x = call[w].at
  BY <1>1, RequestRows
<1>3. At(w, x)
  BY <1>2 DEF At
<1>4. Write(w, x, S, "hidden") /\ Proceed(w, "idle") /\ gone' = [gone EXCEPT ![x] = @ \ S]
  BY <1>2 DEF StageRows
<1>5. UNCHANGED <<engine, pointer, cached, snap, active, epoch, query, report, events, mixed>>
  BY DEF StageRows
<1>6. /\ stored' \in [Indexes -> [Chunks -> States]] /\ stale' \in [Callers -> SUBSET Chunks]
      /\ \A v \in Callers : call[v].at # x => stale'[v] = stale[v]
      /\ \A y \in Indexes : y # x => stored'[y] = stored[y]
      /\ \A c \in S : stored'[x][c] = "hidden"
      /\ \A c \in Chunks \ S : stored'[x][c] = stored[x][c]
  BY <1>1, <1>4, WriteRows DEF States
<1>7. /\ call' \in [Callers -> Calls] /\ call'[w] = Idle
      /\ \A v \in Callers : v # w => call'[v] = call[v]
  BY <1>1, <1>4, ProceedTo DEF Steps
<1>8. AdapterOK' /\ TenantOK'
  BY <1>1, <1>4, <1>5, <1>6, <1>7 DEF AdapterOK, TenantOK
<1>9. CallerOK(w)'
  <2>1. snap[w] = {}
    BY DEF CallersOK, CallerOK, Flags, Deletes
  <2> QED  BY <1>5, <1>7, <2>1, IdleCall DEF CallerOK
<1>10. Flagged(x)' \subseteq Flagged(x)
  BY <1>6 DEF Flagged
<1>11. x \notin mixed => \A c, d \in Flagged(x)' : VersionOf[c[1]] = VersionOf[d[1]]
  BY <1>10 DEF AloneInv, Alone
<1>12. x \notin mixed \/ engine[x] \in {"memory", "qdrant"} => gone'[x] \cap Stored(x)' = {}
  BY <1>1, <1>4, <1>6 DEF PurgeFinal, Stored, AdapterOK
<1>13. \A y \in Indexes : y # x => gone'[y] = gone[y]
  BY <1>1, <1>4 DEF AdapterOK
<1> QED  BY <1>3, <1>5, <1>6, <1>7, <1>8, <1>9, <1>11, <1>12, <1>13, RequestMoves, IdleCall

(* A request the server applies as a whole. *)
LEMMA ApplyStep ==
  ASSUME SearchInv, NEW w \in Callers, Flags(w) \/ Deletes(w), ~call[w].read, Apply(w),
         pointer' \in [Indexes -> Generations \cup {None}]
  PROVE  SearchInv'
<1> USE DEF SearchInv
<1>1. AdapterOK /\ TenantOK
  BY TypeParts
<1>2. PICK x \in Indexes : x = call[w].at
  BY <1>1, RequestRows
<1>3. At(w, x) /\ CallerOK(w) /\ (x \notin mixed => Undisturbed(w))
  BY <1>2 DEF At, Flags, Deletes, CallersOK, AloneInv, Alone
<1>4. PICK S \in SUBSET Chunks : S = Matching(w)
  BY <1>1, RequestRows
<1>5. PICK value \in States : value = Value(w)
  BY <1>1, RequestRows
<1>6. PICK step \in Steps : step = After(w)
  BY <1>1, RequestRows
<1>7. Write(w, x, S, value) /\ Proceed(w, step) /\ gone' = Purge(w, S)
  BY <1>2, <1>4, <1>5, <1>6 DEF Apply
<1>8. UNCHANGED <<engine, cached, snap, active, epoch, query, report, events, faults, mixed>>
  BY DEF Apply
<1>9. /\ stored' \in [Indexes -> [Chunks -> States]]
      /\ stale' \in [Callers -> SUBSET Chunks]
      /\ stale'[w] = stale[w]
      /\ \A v \in Callers : call[v].at # x => stale'[v] = stale[v]
      /\ \A y \in Indexes : y # x => stored'[y] = stored[y]
      /\ \A c \in S : stored'[x][c] = value
      /\ \A c \in Chunks \ S : stored'[x][c] = stored[x][c]
  BY <1>1, <1>7 DEF Write, AdapterOK
<1>10. /\ call' \in [Callers -> Calls]
       /\ \A v \in Callers : v # w => call'[v] = call[v]
       /\ step = "idle" => call'[w] = Idle
       /\ step # "idle" => /\ call'[w].step = step /\ call'[w].at = call[w].at
                           /\ call'[w].target = call[w].target /\ call'[w].read = FALSE
  BY <1>1, <1>7, ProceedTo
<1>11. /\ gone' \in [Indexes -> SUBSET Chunks]
       /\ \A y \in Indexes : y # x => gone'[y] = gone[y]
       /\ gone'[x] = IF Deletes(w) THEN gone[x] \cup S ELSE gone[x]
  BY <1>1, <1>2, <1>7 DEF Purge, AdapterOK
<1>12. AdapterOK' /\ TenantOK'
  BY <1>1, <1>8, <1>9, <1>10, <1>11 DEF AdapterOK, TenantOK
<1>13. S \subseteq Stored(x) /\ Stored(x) \subseteq Chunks /\ Flagged(x) \subseteq Stored(x)
  BY <1>1, <1>2, <1>4, RequestRows DEF Stored, Flagged
<1>14. CallerOK(w)'
  <2>1. snap'[w] = {}
    BY <1>3, <1>8 DEF CallerOK
  <2>2. (call[w].step = "hide" /\ step = "show") \/ step = "idle"
    BY <1>6 DEF After
  <2>3. CASE step = "idle"
    BY <1>10, <2>1, <2>3, IdleCall DEF CallerOK
  <2>4. CASE call[w].step = "hide" /\ step = "show"
    BY <1>3, <1>10, <2>1, <2>4 DEF CallerOK
  <2> QED  BY <2>2, <2>3, <2>4
<1>15. ASSUME x \notin mixed
       PROVE  /\ call'[w].step # "idle" => Undisturbed(w)'
              /\ \A c, d \in Flagged(x)' : VersionOf[c[1]] = VersionOf[d[1]]
  <2>1. \A c, d \in Flagged(x) : VersionOf[c[1]] = VersionOf[d[1]]
    BY <1>15 DEF AloneInv, Alone
  <2>2. CASE call[w].step = "hide"
    <3>1. S = Stored(x) /\ value = "hidden" /\ step = "show"
      BY <1>2, <1>4, <1>5, <1>6, <1>13, <2>2 DEF Matching, Value, After
    <3>2. Flagged(x)' = {}
      BY <1>9, <1>13, <3>1 DEF Flagged
    <3>3. /\ ~call'[w].read /\ call'[w].step = "show" /\ call'[w].at = x
      BY <1>2, <1>10, <3>1
    <3> QED  BY <3>2, <3>3 DEF Undisturbed
  <2>3. CASE call[w].step = "show"
    <3>1. S \subseteq ChunksOf(call[w].target) /\ value = "shown" /\ step = "idle"
      BY <1>4, <1>5, <1>6, <2>3 DEF Matching, Value, After
    <3>2. Flagged(x)' \subseteq ChunksOf(call[w].target)
      BY <1>2, <1>3, <1>9, <1>15, <2>3, <3>1 DEF Flagged, Undisturbed
    <3>3. \A c, d \in ChunksOf(call[w].target) : VersionOf[c[1]] = VersionOf[d[1]]
      BY <1>3, <2>3 DEF CallerOK, OneVersion, ChunksOf
    <3> QED  BY <1>10, <3>1, <3>2, <3>3, IdleCall
  <2>4. CASE Deletes(w)
    <3>1. value = "absent" /\ step = "idle"
      BY <1>5, <1>6, <2>4 DEF Deletes, Value, After
    <3>2. Flagged(x)' \subseteq Flagged(x)
      BY <1>9, <3>1 DEF Flagged
    <3> QED  BY <1>10, <2>1, <3>1, <3>2, IdleCall
  <2> QED  BY <2>2, <2>3, <2>4 DEF Flags
<1>16. x \notin mixed \/ engine[x] \in {"memory", "qdrant"} => gone'[x] \cap Stored(x)' = {}
  <2> SUFFICES ASSUME gone[x] \cap Stored(x) = {} PROVE gone'[x] \cap Stored(x)' = {}
    BY DEF PurgeFinal
  <2>1. CASE Deletes(w)
    <3>1. value = "absent"
      BY <1>5, <2>1 DEF Deletes, Value
    <3> QED  BY <1>9, <1>11, <1>13, <2>1, <3>1 DEF Stored
  <2>2. CASE ~Deletes(w)
    <3>1. Stored(x)' \subseteq Stored(x)
      BY <1>9, <1>13 DEF Stored
    <3> QED  BY <1>11, <2>2, <3>1
  <2> QED  BY <2>1, <2>2
<1>17. call'[w] = Idle \/ call'[w].at = x
  BY <1>2, <1>10
<1> QED  BY <1>3, <1>8, <1>9, <1>10, <1>11, <1>12, <1>14, <1>15, <1>16, <1>17, RequestMoves

(* The rows are read; a call that is alone has them as they are. *)
LEMMA ReadStep ==
  ASSUME SearchInv, NEW w \in Callers, Read(w),
         \/ engine[call[w].at] = "milvus" /\ Flags(w)
         \/ engine[call[w].at] = "opensearch" /\ (Flags(w) \/ Deletes(w))
  PROVE  SearchInv'
<1> USE DEF SearchInv
<1>1. AdapterOK /\ TenantOK
  BY TypeParts
<1>2. PICK x \in Indexes : x = call[w].at
  BY <1>1, RequestRows
<1>3. At(w, x) /\ CallerOK(w) /\ (x \notin mixed => Undisturbed(w))
  BY <1>2 DEF At, Flags, Deletes, CallersOK, AloneInv, Alone
<1>4. /\ snap' = [snap EXCEPT ![w] = Matching(w)] /\ stale' = [stale EXCEPT ![w] = {}]
      /\ UNCHANGED <<engine, indexes, cached, active, epoch, query, report, events, faults, gone, mixed>>
  BY DEF Read
<1>5. /\ call' \in [Callers -> Calls]
      /\ \A v \in Callers : v # w => call'[v] = call[v]
      /\ call'[w].step = call[w].step /\ call'[w].at = x
      /\ call'[w].target = call[w].target /\ call'[w].read = TRUE
  <2> DEFINE r == [call[w] EXCEPT !.read = TRUE]
  <2>1. call[w] \in Calls
    BY <1>1 DEF AdapterOK
  <2>2. /\ r \in Calls /\ r.step = call[w].step /\ r.at = x /\ r.target = call[w].target
        /\ r.read = TRUE
    BY <1>2, <2>1 DEF Calls
  <2>3. call' = [call EXCEPT ![w] = r]
    BY DEF Read
  <2> HIDE DEF r
  <2> QED  BY <1>1, <2>2, <2>3 DEF AdapterOK
<1>6. Matching(w)' = Matching(w) /\ Flagged(x)' = Flagged(x) /\ Stored(x)' = Stored(x)
  BY <1>2, <1>4, <1>5 DEF Matching, Stored, Flagged, indexes
<1>7. Matching(w) \in SUBSET Chunks
  BY <1>1, RequestRows
<1>8. snap'[w] = Matching(w) /\ stale'[w] = {}
  BY <1>1, <1>4 DEF AdapterOK
<1>9. AdapterOK' /\ TenantOK'
  BY <1>1, <1>4, <1>5, <1>7 DEF AdapterOK, TenantOK, indexes
<1>10. CallerOK(w)'
  BY <1>2, <1>3, <1>4, <1>5 DEF CallerOK, Flags, Deletes
<1>11. x \notin mixed => /\ Undisturbed(w)'
                         /\ \A c, d \in Flagged(x)' : VersionOf[c[1]] = VersionOf[d[1]]
  <2> SUFFICES ASSUME x \notin mixed
               PROVE  /\ Undisturbed(w)'
                      /\ \A c, d \in Flagged(x)' : VersionOf[c[1]] = VersionOf[d[1]]
    OBVIOUS
  <2>1. call[w].step = "hide" => Flagged(x) \subseteq Matching(w)
    BY <1>2 DEF Matching, Flagged, Stored
  <2>2. Undisturbed(w)'
    BY <1>2, <1>3, <1>5, <1>6, <1>8, <2>1 DEF Undisturbed
  <2> QED  BY <1>6, <2>2 DEF AloneInv, Alone
<1>12. x \notin mixed \/ engine[x] \in {"memory", "qdrant"} => gone'[x] \cap Stored(x)' = {}
  BY <1>4, <1>6 DEF PurgeFinal
<1>13. \A y \in Indexes : stored'[y] = stored[y] /\ gone'[y] = gone[y]
  BY <1>4 DEF indexes
<1>14. \A v \in Callers : v # w => snap'[v] = snap[v] /\ stale'[v] = stale[v]
  BY <1>1, <1>4 DEF AdapterOK
<1> QED  BY <1>3, <1>4, <1>5, <1>9, <1>10, <1>11, <1>12, <1>13, <1>14, RequestMoves

(* The rows read are written back: all of those asked for when the call is *)
(* alone, fewer when others wrote some of them since.                      *)
LEMMA WriteBackStep ==
  ASSUME SearchInv, NEW w \in Callers, NEW S \in SUBSET Chunks, NEW written \in SUBSET Chunks,
         S \subseteq snap[w], written \subseteq S, call[w].at \notin mixed => written = S,
         WriteBack(w, S, written)
  PROVE  SearchInv'
<1> USE DEF SearchInv
<1>1. AdapterOK /\ TenantOK
  BY TypeParts
<1>2. PICK x \in Indexes : x = call[w].at
  BY <1>1, RequestRows
<1>3. call[w].read /\ CallerOK(w) /\ (Flags(w) \/ Deletes(w)) /\ engine[x] \notin {"memory", "qdrant"}
  BY <1>2 DEF WriteBack, CallersOK, CallerOK
<1>4. At(w, x) /\ (x \notin mixed => Undisturbed(w))
  BY <1>2, <1>3 DEF At, Flags, Deletes, AloneInv, Alone
<1>5. PICK value \in States : value = Value(w)
  BY <1>1, RequestRows
<1>6. PICK step \in Steps : step = After(w)
  BY <1>1, RequestRows
<1>7. /\ Write(w, x, written, value) /\ gone' = Purge(w, S) /\ snap' = [snap EXCEPT ![w] = @ \ S]
      /\ S = snap[w] => Proceed(w, step)
      /\ S # snap[w] => call' = call
      /\ UNCHANGED <<engine, pointer, cached, active, epoch, query, report, events, faults, mixed>>
  BY <1>2, <1>5, <1>6 DEF WriteBack
<1>8. /\ stored' \in [Indexes -> [Chunks -> States]]
      /\ stale' \in [Callers -> SUBSET Chunks]
      /\ stale'[w] = stale[w]
      /\ \A v \in Callers : call[v].at # x => stale'[v] = stale[v]
      /\ \A y \in Indexes : y # x => stored'[y] = stored[y]
      /\ \A c \in written : stored'[x][c] = value
      /\ \A c \in Chunks \ written : stored'[x][c] = stored[x][c]
  BY <1>1, <1>7 DEF Write, AdapterOK
<1>9. /\ call' \in [Callers -> Calls]
      /\ \A v \in Callers : v # w => call'[v] = call[v]
      /\ S # snap[w] => call'[w] = call[w]
      /\ S = snap[w] =>
           /\ step = "idle" => call'[w] = Idle
           /\ step # "idle" => /\ call'[w].step = step /\ call'[w].at = call[w].at
                               /\ call'[w].target = call[w].target /\ call'[w].read = FALSE
  <2>1. CASE S = snap[w]
    BY <1>1, <1>7, <2>1, ProceedTo
  <2>2. CASE S # snap[w]
    BY <1>1, <1>7, <2>2 DEF AdapterOK
  <2> QED  BY <2>1, <2>2
<1>10. /\ gone' \in [Indexes -> SUBSET Chunks]
       /\ \A y \in Indexes : y # x => gone'[y] = gone[y]
       /\ gone'[x] = IF Deletes(w) THEN gone[x] \cup S ELSE gone[x]
  BY <1>1, <1>2, <1>7 DEF Purge, AdapterOK
<1>11. /\ snap' \in [Callers -> SUBSET Chunks] /\ snap'[w] = snap[w] \ S
       /\ \A v \in Callers : v # w => snap'[v] = snap[v]
  BY <1>1, <1>7 DEF AdapterOK
<1>12. AdapterOK' /\ TenantOK'
  BY <1>1, <1>7, <1>8, <1>9, <1>10, <1>11 DEF AdapterOK, TenantOK
<1>13. CallerOK(w)'
  <2>1. CASE S = snap[w]
    <3>1. snap'[w] = {}
      BY <1>11, <2>1
    <3>2. (call[w].step = "hide" /\ step = "show") \/ step = "idle"
      BY <1>6 DEF After
    <3>3. CASE step = "idle"
      BY <1>9, <2>1, <3>1, <3>3, IdleCall DEF CallerOK
    <3>4. CASE call[w].step = "hide" /\ step = "show"
      BY <1>3, <1>9, <2>1, <3>1, <3>4 DEF CallerOK
    <3> QED  BY <3>2, <3>3, <3>4
  <2>2. CASE S # snap[w]
    BY <1>3, <1>7, <1>9, <2>2 DEF CallerOK, Flags, Deletes
  <2> QED  BY <2>1, <2>2
<1>14. ASSUME x \notin mixed
       PROVE  /\ call'[w].step # "idle" => Undisturbed(w)'
              /\ \A c, d \in Flagged(x)' : VersionOf[c[1]] = VersionOf[d[1]]
              /\ gone[x] \cap Stored(x) = {} => gone'[x] \cap Stored(x)' = {}
  <2>1. /\ written = S /\ snap[w] \subseteq Matching(w) /\ stale[w] = {}
        /\ S \subseteq Stored(x) /\ Stored(x) \subseteq Chunks
    BY <1>1, <1>2, <1>3, <1>4, <1>14, RequestRows DEF Undisturbed
  <2>2. \A c, d \in Flagged(x) : VersionOf[c[1]] = VersionOf[d[1]]
    BY <1>14 DEF AloneInv, Alone
  <2>3. CASE call[w].step = "hide"
    <3>1. value = "hidden" /\ step = "show" /\ ~Deletes(w)
      BY <1>5, <1>6, <2>3 DEF Value, After, Deletes
    <3>2. /\ Stored(x)' = Stored(x) /\ Flagged(x)' = Flagged(x) \ S
          /\ Flagged(x) \subseteq snap[w]
      BY <1>2, <1>3, <1>4, <1>8, <1>14, <2>1, <2>3, <3>1 DEF Stored, Flagged, Undisturbed
    <3>3. CASE S = snap[w]
      <4>1. Flagged(x)' = {} /\ ~call'[w].read /\ call'[w].step = "show" /\ call'[w].at = x
        BY <1>2, <1>9, <3>1, <3>2, <3>3
      <4>2. Undisturbed(w)'
        BY <4>1 DEF Undisturbed
      <4> QED  BY <1>10, <3>1, <3>2, <4>1, <4>2
    <3>4. CASE S # snap[w]
      <4>1. call'[w] = call[w] /\ Matching(w)' = Matching(w)
        BY <1>2, <1>9, <3>2, <3>4 DEF Matching
      <4>2. Undisturbed(w)'
        BY <1>2, <1>8, <1>11, <2>1, <2>3, <3>2, <4>1 DEF Undisturbed
      <4> QED  BY <1>10, <2>2, <3>1, <3>2, <4>2
    <3> QED  BY <3>3, <3>4
  <2>4. CASE call[w].step = "show"
    <3>1. value = "shown" /\ step = "idle" /\ ~Deletes(w) /\ S \subseteq ChunksOf(call[w].target)
      BY <1>5, <1>6, <2>1, <2>4 DEF Value, After, Deletes, Matching
    <3>2. /\ Stored(x)' = Stored(x)
          /\ Flagged(x)' \subseteq ChunksOf(call[w].target)
      BY <1>2, <1>4, <1>8, <1>14, <2>1, <2>4, <3>1 DEF Stored, Flagged, Undisturbed
    <3>3. \A c, d \in ChunksOf(call[w].target) : VersionOf[c[1]] = VersionOf[d[1]]
      BY <1>3, <2>4 DEF CallerOK, OneVersion, ChunksOf
    <3>4. CASE S = snap[w]
      <4>1. call'[w].step = "idle"
        BY <1>9, <3>1, <3>4, IdleCall
      <4> QED  BY <1>10, <3>1, <3>2, <3>3, <4>1
    <3>5. CASE S # snap[w]
      <4>1. call'[w] = call[w] /\ Matching(w)' = Matching(w)
        BY <1>2, <1>9, <3>2, <3>5 DEF Matching
      <4>2. Flagged(x)' = Flagged(x) \cup S
        BY <1>8, <2>1, <3>1 DEF Flagged
      <4>3. Matching(w) \ snap[w] \subseteq Flagged(x)
        BY <1>2, <1>3, <1>4, <1>14, <2>4 DEF Undisturbed
      <4>4. Matching(w)' \ snap'[w] \subseteq Flagged(x)'
        BY <1>11, <4>1, <4>2, <4>3
      <4>5. stale'[w] = {} /\ snap'[w] \subseteq Matching(w)'
        BY <1>8, <1>11, <2>1, <4>1
      <4>6. Undisturbed(w)'
        BY <1>2, <2>4, <3>2, <4>1, <4>4, <4>5 DEF Undisturbed
      <4> QED  BY <1>10, <3>1, <3>2, <3>3, <4>6
    <3> QED  BY <3>4, <3>5
  <2>5. CASE Deletes(w)
    <3>1. value = "absent" /\ step = "idle" /\ call[w].step \notin {"hide", "show"}
      BY <1>5, <1>6, <2>5 DEF Value, After, Deletes
    <3>2. Stored(x)' = Stored(x) \ S /\ Flagged(x)' \subseteq Flagged(x)
      BY <1>8, <2>1, <3>1 DEF Stored, Flagged
    <3>3. CASE S = snap[w]
      <4>1. call'[w].step = "idle"
        BY <1>9, <3>1, <3>3, IdleCall
      <4> QED  BY <1>10, <2>2, <2>5, <3>2, <4>1
    <3>4. CASE S # snap[w]
      <4>1. call'[w] = call[w] /\ Matching(w)' = Matching(w) \ S
        BY <1>2, <1>9, <3>2, <3>4 DEF Matching
      <4>2. Undisturbed(w)'
        BY <1>8, <1>11, <2>1, <3>1, <4>1 DEF Undisturbed
      <4> QED  BY <1>10, <2>2, <2>5, <3>2, <4>2
    <3> QED  BY <3>3, <3>4
  <2> QED  BY <1>3, <2>3, <2>4, <2>5 DEF Flags
<1>15. x \notin mixed \/ engine[x] \in {"memory", "qdrant"} => gone'[x] \cap Stored(x)' = {}
  BY <1>3, <1>14 DEF PurgeFinal
<1>16. call'[w] = Idle \/ call'[w].at = x
  BY <1>2, <1>9
<1> QED  BY <1>4, <1>7, <1>8, <1>9, <1>10, <1>11, <1>12, <1>13, <1>14, <1>15, <1>16, RequestMoves

(* Steps of a call that write no row: a lookup, the pointer of a memory    *)
(* adapter, an exception.                                                  *)
LEMMA QuietStep ==
  ASSUME SearchInv, NEW w \in Callers, call[w].step # "idle", NEW step \in Steps, Proceed(w, step),
         step = "idle" \/ (call[w].step = "lookup" /\ step = "hide"),
         pointer' \in [Indexes -> Generations \cup {None}], faults' \in 0 .. MaxFaults,
         snap' = [snap EXCEPT ![w] = {}],
         UNCHANGED <<engine, stored, cached, stale, active, epoch, query, report, events, gone, mixed>>
  PROVE  SearchInv'
<1> USE DEF SearchInv
<1>1. AdapterOK /\ TenantOK
  BY TypeParts
<1>2. PICK x \in Indexes : x = call[w].at
  BY <1>1, RequestRows
<1>3. At(w, x) /\ CallerOK(w)
  BY <1>2 DEF At, CallersOK
<1>4. /\ call' \in [Callers -> Calls]
      /\ \A v \in Callers : v # w => call'[v] = call[v]
      /\ step = "idle" => call'[w] = Idle
      /\ step # "idle" => /\ call'[w].step = step /\ call'[w].at = call[w].at
                          /\ call'[w].target = call[w].target /\ call'[w].read = FALSE
  BY <1>1, ProceedTo
<1>5. /\ snap' \in [Callers -> SUBSET Chunks] /\ snap'[w] = {}
      /\ \A v \in Callers : v # w => snap'[v] = snap[v]
  BY <1>1 DEF AdapterOK
<1>6. AdapterOK' /\ TenantOK'
  BY <1>1, <1>4, <1>5 DEF AdapterOK, TenantOK
<1>7. CASE step = "idle"
  <2>1. CallerOK(w)' /\ call'[w].step = "idle"
    BY <1>4, <1>5, <1>7, IdleCall DEF CallerOK
  <2>2. Flagged(x)' = Flagged(x) /\ Stored(x)' = Stored(x)
    BY DEF Flagged, Stored
  <2>3. x \notin mixed => \A c, d \in Flagged(x)' : VersionOf[c[1]] = VersionOf[d[1]]
    BY <2>2 DEF AloneInv, Alone
  <2>4. x \notin mixed \/ engine[x] \in {"memory", "qdrant"} => gone'[x] \cap Stored(x)' = {}
    BY <2>2 DEF PurgeFinal
  <2> QED  BY <1>3, <1>4, <1>5, <1>6, <1>7, <2>1, <2>3, <2>4, RequestMoves
<1>8. CASE call[w].step = "lookup" /\ step = "hide"
  <2>1. CallerOK(w)' /\ Undisturbed(w)'
    BY <1>3, <1>4, <1>5, <1>8 DEF CallerOK, Undisturbed
  <2>2. Flagged(x)' = Flagged(x) /\ Stored(x)' = Stored(x)
    BY DEF Flagged, Stored
  <2>3. x \notin mixed => \A c, d \in Flagged(x)' : VersionOf[c[1]] = VersionOf[d[1]]
    BY <2>2 DEF AloneInv, Alone
  <2>4. x \notin mixed \/ engine[x] \in {"memory", "qdrant"} => gone'[x] \cap Stored(x)' = {}
    BY <2>2 DEF PurgeFinal
  <2> QED  BY <1>2, <1>3, <1>4, <1>5, <1>6, <1>8, <2>1, <2>3, <2>4, RequestMoves
<1> QED  BY <1>7, <1>8

LEMMA RequestStep ==
  ASSUME SearchInv, NEW w \in Callers, Request(w)
  PROVE  SearchInv'
<1> USE DEF SearchInv
<1>1. AdapterOK /\ TenantOK
  BY TypeParts
<1>2. CallerOK(w) /\ call[w].at \in Indexes /\ ChunksOf(call[w].target) \in SUBSET Chunks
  BY <1>1, RequestRows DEF CallersOK
<1>3. CASE MemoryStage(w) \/ QdrantStage(w) \/ MilvusStage(w)
  <2>1. PICK S \in SUBSET Chunks : S = ChunksOf(call[w].target)
    BY <1>2
  <2>2. call[w].step = "stage" /\ StageRows(w, S) /\ faults' = faults
    BY <1>3, <2>1 DEF MemoryStage, QdrantStage, MilvusStage, Is
  <2> QED  BY <1>1, <2>2, StageStep DEF TenantOK
<1>4. CASE OpenSearchStage(w)
  <2>1. PICK S \in SUBSET ChunksOf(call[w].target) :
          StageRows(w, S) /\ IF S = ChunksOf(call[w].target) THEN UNCHANGED faults ELSE Fault
    BY <1>4 DEF OpenSearchStage
  <2>2. S \in SUBSET Chunks /\ call[w].step = "stage" /\ faults' \in 0 .. MaxFaults
    BY <1>1, <1>2, <1>4, <2>1, SearchAssumption DEF OpenSearchStage, Is, Fault, TenantOK
  <2> QED  BY <2>1, <2>2, StageStep
<1>5. CASE MemoryPublish(w)
  <2>1. call[w].step = "lookup" /\ Proceed(w, "idle")
    BY <1>5 DEF MemoryPublish, Is
  <2>2. pointer' \in [Indexes -> Generations \cup {None}]
    <3>1. Candidates(w) \subseteq Chunks
      BY <1>2 DEF Candidates
    <3> QED  BY <1>1, <1>5, <3>1, ChunkGenerations DEF MemoryPublish, AdapterOK
  <2>3. snap[w] = {}
    BY <1>2, <2>1 DEF CallerOK, Flags, Deletes
  <2>4. snap' = [snap EXCEPT ![w] = {}]
    BY <1>1, <1>5, <2>3 DEF MemoryPublish, AdapterOK
  <2>5. UNCHANGED <<engine, stored, cached, stale, active, epoch, query, report, events, faults, gone, mixed>>
    BY <1>5 DEF MemoryPublish
  <2>6. faults' \in 0 .. MaxFaults
    BY <1>1, <2>5 DEF TenantOK
  <2> QED  BY <2>1, <2>2, <2>4, <2>5, <2>6, QuietStep DEF Steps
<1>6. CASE QdrantLookup(w) \/ MilvusLookup(w) \/ OpenSearchLookup(w)
  <2>1. call[w].step = "lookup" /\ Lookup(w)
    BY <1>6 DEF QdrantLookup, MilvusLookup, OpenSearchLookup, Is
  <2>2. PICK step \in Steps : Proceed(w, step) /\ step \in {"idle", "hide"}
    <3>1. CASE Candidates(w) = {}
      BY <2>1, <3>1 DEF Lookup, Steps
    <3>2. CASE Candidates(w) # {}
      BY <2>1, <3>2 DEF Lookup, Steps
    <3> QED  BY <3>1, <3>2
  <2>3. snap[w] = {}
    BY <1>2, <2>1 DEF CallerOK, Flags, Deletes
  <2>4. UNCHANGED <<engine, indexes, cached, snap, stale, active, epoch, query, report, events, faults, gone, mixed>>
    BY <2>1 DEF Lookup
  <2>5. snap' = [snap EXCEPT ![w] = {}]
    BY <1>1, <2>3, <2>4 DEF AdapterOK
  <2>6. pointer' \in [Indexes -> Generations \cup {None}] /\ stored' = stored /\ faults' \in 0 .. MaxFaults
    BY <1>1, <2>4 DEF indexes, AdapterOK, TenantOK
  <2> QED  BY <2>1, <2>2, <2>4, <2>5, <2>6, QuietStep
<1>7. CASE QdrantSetPublished(w) \/ QdrantDelete(w) \/ MilvusDelete(w) \/ MemoryDelete(w)
  <2>1. Apply(w) /\ (Flags(w) \/ Deletes(w))
    BY <1>7 DEF QdrantSetPublished, QdrantDelete, MilvusDelete, MemoryDelete
  <2>2. ~call[w].read
    BY <1>2, <1>7 DEF QdrantSetPublished, QdrantDelete, MilvusDelete, MemoryDelete, CallerOK, Flags, Deletes
  <2>3. pointer' \in [Indexes -> Generations \cup {None}]
    BY <1>1, <1>7 DEF QdrantSetPublished, QdrantDelete, MilvusDelete, MemoryDelete, AdapterOK
  <2> QED  BY <2>1, <2>2, <2>3, ApplyStep
<1>8. CASE MilvusQueryAll(w)
  BY <1>8, ReadStep DEF MilvusQueryAll
<1>9. ASSUME OpenSearchUpdate(w) \/ OpenSearchDelete(w), Read(w) PROVE SearchInv'
  BY <1>9, ReadStep DEF OpenSearchUpdate, OpenSearchDelete
<1>10. CASE MilvusUpsert(w)
  <2>1. PICK S \in SUBSET Chunks : S = snap[w]
    BY <1>1 DEF AdapterOK
  <2>2. WriteBack(w, S, S)
    BY <1>10, <2>1 DEF MilvusUpsert
  <2> QED  BY <2>1, <2>2, WriteBackStep
<1>11. ASSUME OpenSearchUpdate(w) \/ OpenSearchDelete(w), RowByRow(w) PROVE SearchInv'
  <2>1. PICK S \in SUBSET snap[w] : WriteBack(w, S, S \ stale[w])
    BY <1>11 DEF RowByRow
  <2>2. S \in SUBSET Chunks /\ S \subseteq snap[w]
    BY <1>1, <2>1 DEF AdapterOK
  <2>3. PICK written \in SUBSET Chunks : written = S \ stale[w]
    BY <2>2
  <2>4. WriteBack(w, S, written) /\ call[w].read
    BY <2>1, <2>3 DEF WriteBack
  <2>5. At(w, call[w].at)
    BY <1>2, <2>4 DEF At, CallerOK, Flags, Deletes
  <2>6. call[w].at \notin mixed => written = S
    BY <1>2, <2>3, <2>4, <2>5 DEF AloneInv, Alone, Undisturbed
  <2> QED  BY <2>2, <2>3, <2>4, <2>6, WriteBackStep
<1>12. CASE CallRaises(w)
  <2>1. /\ call[w].step # "idle" /\ Proceed(w, "idle") /\ snap' = [snap EXCEPT ![w] = {}]
        /\ UNCHANGED <<engine, indexes, cached, stale, active, epoch, query, report, events, gone, mixed>>
    BY <1>12 DEF CallRaises
  <2>2. /\ pointer' \in [Indexes -> Generations \cup {None}] /\ stored' = stored
        /\ faults' \in 0 .. MaxFaults
    BY <1>1, <1>12, <2>1, SearchAssumption DEF CallRaises, Fault, indexes, AdapterOK, TenantOK
  <2> QED  BY <2>1, <2>2, QuietStep DEF Steps
<1> QED  BY <1>3, <1>4, <1>5, <1>6, <1>7, <1>8, <1>9, <1>10, <1>11, <1>12 DEF Request, OpenSearchUpdate, OpenSearchDelete

-----------------------------------------------------------------------------
(* A call begins: its index counts as mixed if another call is under way   *)
(* there, and a reconciliation takes note of it.                           *)
LEMMA BeginStep ==
  ASSUME SearchInv, NEW w \in Callers, NEW x \in Indexes, NEW step \in {"stage", "lookup", "delete", "drop"},
         NEW target \in SUBSET Generations, step = "lookup" => OneVersion(target),
         Begin(w, x, step, target)
  PROVE  SearchInv'
<1> USE DEF SearchInv
<1>1. AdapterOK /\ TenantOK /\ QueryOK /\ ReportOK
  BY TypeParts
<1>2. /\ call[w].step = "idle" /\ events < MaxEvents /\ events' = events + 1
      /\ mixed' = IF Busy(x) THEN mixed \cup {x} ELSE mixed
      /\ UNCHANGED <<engine, indexes, cached, snap, stale, active, epoch, query, faults, gone>>
  BY DEF Begin, Event
<1>3. /\ call' \in [Callers -> Calls]
      /\ \A v \in Callers : v # w => call'[v] = call[v]
      /\ call'[w].step = step /\ call'[w].at = x /\ call'[w].target = target /\ call'[w].read = FALSE
  <2> DEFINE r == [step |-> step, at |-> x, target |-> target, read |-> FALSE]
  <2>1. r \in Calls /\ r.step = step /\ r.at = x /\ r.target = target /\ r.read = FALSE
    BY DEF Calls
  <2>2. call' = [call EXCEPT ![w] = r]
    BY DEF Begin
  <2> HIDE DEF r
  <2> QED  BY <1>1, <2>1, <2>2 DEF AdapterOK
<1>4. /\ ReportOK'
      /\ report'.gen = report.gen /\ report'.left = report.left /\ report'.stale = report.stale
      /\ report = NoReport => report' = NoReport
      /\ report # NoReport => report'.touched = report.touched \cup {x}
  <2>1. CASE report = NoReport
    <3>1. report' = report
      BY <1>1, <2>1 DEF Begin, ReportOK
    <3> QED  BY <1>1, <2>1, <3>1 DEF ReportOK
  <2>2. CASE report # NoReport
    <3>1. report' = [report EXCEPT !.touched = @ \cup {x}]
      BY <2>2 DEF Begin
    <3> QED  BY <1>1, <2>2, <3>1 DEF ReportOK
  <2> QED  BY <2>1, <2>2
<1>5. TypeOK'
  <2>1. AdapterOK'
    BY <1>1, <1>2, <1>3 DEF AdapterOK, indexes
  <2>2. TenantOK'
    BY <1>1, <1>2, SearchAssumption DEF TenantOK
  <2>3. QueryOK'
    BY <1>1, <1>2 DEF QueryOK, query
  <2>4. TypeOK' <=> AdapterOK' /\ TenantOK' /\ QueryOK' /\ ReportOK'
    BY TypeParts, PTL
  <2> QED  BY <1>4, <2>1, <2>2, <2>3, <2>4
<1>6. CallersOK'
  <2>1. CallerOK(w) /\ ~call[w].read
    BY <1>2 DEF CallersOK, CallerOK, Flags, Deletes
  <2>2. CallerOK(w)'
    BY <1>2, <1>3, <2>1 DEF CallerOK
  <2> QED  BY <1>2, <1>3, <2>2 DEF CallersOK, CallerOK, Flags, Deletes
<1>7. AloneInv'
  <2> SUFFICES ASSUME NEW y \in Indexes \ mixed' PROVE Alone(y)'
    BY DEF AloneInv
  <2>1. y \notin mixed /\ Alone(y)
    BY <1>2 DEF AloneInv
  <2>2. Flagged(y)' = Flagged(y) /\ Stored(y)' = Stored(y)
    BY <1>2 DEF Flagged, Stored, indexes
  <2>3. \A v \in Callers : v # w /\ At(v, y)' => At(v, y) /\ Undisturbed(v)'
    <3> SUFFICES ASSUME NEW v \in Callers, v # w, At(v, y)' PROVE At(v, y) /\ Undisturbed(v)'
      OBVIOUS
    <3>1. call'[v] = call[v] /\ snap'[v] = snap[v] /\ stale'[v] = stale[v]
      BY <1>2, <1>3
    <3>2. At(v, y) /\ Undisturbed(v) /\ call[v].at = y
      BY <2>1, <3>1 DEF At, Alone
    <3>3. Matching(v)' = Matching(v)
      BY <2>2, <3>1, <3>2 DEF Matching
    <3> QED  BY <2>2, <3>1, <3>2, <3>3 DEF Undisturbed
  <2>4. At(w, y)' => y = x /\ Undisturbed(w)' /\ \A v \in Callers : v # w => ~At(v, y)
    <3>1. y = x => ~Busy(x)
      BY <1>2
    <3> QED  BY <1>3, <3>1 DEF At, Busy, Undisturbed
  <2>5. \A u, v \in Callers : At(u, y)' /\ At(v, y)' => u = v
    BY <2>1, <2>3, <2>4 DEF Alone
  <2>6. \A c, d \in Flagged(y)' : VersionOf[c[1]] = VersionOf[d[1]]
    BY <2>1, <2>2 DEF Alone
  <2> QED  BY <2>3, <2>4, <2>5, <2>6 DEF Alone
<1>8. PurgeFinal'
  <2>1. \A y \in Indexes : Stored(y)' = Stored(y)
    BY <1>2 DEF Stored, indexes
  <2> QED  BY <1>2, <2>1 DEF PurgeFinal
<1>10. ReportInv'
  <2>1. \A y \in Indexes : Busy(y)' => Busy(y) \/ y = x
    BY <1>3 DEF Busy
  <2> QED  BY <1>4, <2>1 DEF ReportInv
<1>11. ReportSound'
  <2>1. \A y \in Indexes : Stored(y)' = Stored(y)
    BY <1>2 DEF Stored, indexes
  <2> QED  BY <1>4, <2>1 DEF ReportSound
<1> QED  BY <1>5, <1>6, <1>7, <1>8, <1>10, <1>11

LEMMA AdapterCallStep ==
  ASSUME SearchInv, NEW w \in Callers, AdapterCall(w)
  PROVE  SearchInv'
<1>1. PICK x \in Indexes :
        \/ \E g \in Generations : CallStage(w, x, g) \/ CallPublishGeneration(w, x, g) \/ CallDeleteGeneration(w, x, g)
        \/ \E v \in Versions : CallPublish(w, x, v)
        \/ CallDeleteDocument(w, x)
  BY DEF AdapterCall
<1>2. ASSUME NEW g \in Generations,
             CallStage(w, x, g) \/ CallPublishGeneration(w, x, g) \/ CallDeleteGeneration(w, x, g)
      PROVE  SearchInv'
  <2>1. {g} \in SUBSET Generations /\ OneVersion({g})
    BY DEF OneVersion
  <2>2. \E step \in {"stage", "lookup", "delete", "drop"} : Begin(w, x, step, {g})
    BY <1>2 DEF CallStage, CallPublishGeneration, CallDeleteGeneration
  <2> QED  BY <2>1, <2>2, BeginStep
<1>3. ASSUME NEW v \in Versions, CallPublish(w, x, v) PROVE SearchInv'
  <2>1. PICK gens \in SUBSET Generations : gens = {g \in Generations : VersionOf[g] = v}
    OBVIOUS
  <2>2. OneVersion(gens) /\ Begin(w, x, "lookup", gens)
    BY <1>3, <2>1 DEF OneVersion, CallPublish
  <2> QED  BY <2>2, BeginStep
<1>4. CASE CallDeleteDocument(w, x)
  BY <1>4, BeginStep DEF CallDeleteDocument
<1> QED  BY <1>1, <1>2, <1>3, <1>4

-----------------------------------------------------------------------------
(* Steps of PostgreSQL, of the query and of the reconciliation. *)

LEMMA AdaptersStay ==
  ASSUME SearchInv, UNCHANGED <<engine, indexes, requests, gone, mixed>>
  PROVE  /\ AdapterOK' /\ CallersOK' /\ AloneInv' /\ PurgeFinal'
         /\ \A x \in Indexes : Stored(x)' = Stored(x) /\ (Busy(x)' <=> Busy(x))
<1> USE DEF SearchInv, indexes, requests
<1>1. AdapterOK'
  BY TypeParts DEF AdapterOK
<1>2. CallersOK'
  BY DEF CallersOK, CallerOK, Flags, Deletes
<1>3. \A x \in Indexes : Stored(x)' = Stored(x) /\ Flagged(x)' = Flagged(x) /\ (Busy(x)' <=> Busy(x))
  BY DEF Stored, Flagged, Busy
<1>4. \A w \in Callers : Undisturbed(w)' <=> Undisturbed(w)
  BY DEF Undisturbed, Matching, Stored, Flagged
<1>5. AloneInv'
  BY <1>3, <1>4 DEF AloneInv, Alone, At
<1>6. PurgeFinal'
  BY <1>3 DEF PurgeFinal
<1> QED  BY <1>1, <1>2, <1>3, <1>5, <1>6

(* The invariant is kept when the part of the query and the part of the    *)
(* report are, and the adapters stay.                                      *)
LEMMA OthersMove ==
  ASSUME SearchInv, UNCHANGED <<engine, indexes, requests, gone, mixed>>,
         TenantOK', QueryOK', ReportOK', ReportInv', ReportSound'
  PROVE  SearchInv'
<1>1. AdapterOK' /\ CallersOK' /\ AloneInv' /\ PurgeFinal'
  BY AdaptersStay
<1>2. TypeOK' <=> AdapterOK' /\ TenantOK' /\ QueryOK' /\ ReportOK'
  BY TypeParts, PTL
<1> QED  BY <1>1, <1>2 DEF SearchInv

LEMMA QueryStays ==
  ASSUME SearchInv, UNCHANGED query
  PROVE  QueryOK'
BY TypeParts DEF SearchInv, QueryOK, query

LEMMA ReportStays ==
  ASSUME SearchInv, UNCHANGED <<engine, indexes, requests, gone, mixed>>, UNCHANGED report
  PROVE  ReportOK' /\ ReportInv' /\ ReportSound'
<1> USE DEF SearchInv
<1>1. \A x \in Indexes : Stored(x)' = Stored(x) /\ (Busy(x)' <=> Busy(x))
  BY AdaptersStay
<1>2. ReportOK'
  BY TypeParts DEF ReportOK
<1> QED  BY <1>1, <1>2 DEF ReportInv, ReportSound

LEMMA TenantStep ==
  ASSUME SearchInv,
         \/ \E g \in Generations \cup {None} : Switch(g)
         \/ BumpEpoch
         \/ \E e \in 1 .. MaxEpoch : SetAclEpoch(e)
  PROVE  SearchInv'
<1>1. UNCHANGED <<engine, indexes, requests, gone, mixed>> /\ UNCHANGED query /\ UNCHANGED report
  BY DEF Switch, BumpEpoch, SetAclEpoch
<1>2. TenantOK
  BY TypeParts DEF SearchInv
<1>3. TenantOK'
  BY <1>2, SearchAssumption DEF TenantOK, Switch, BumpEpoch, SetAclEpoch, Event
<1> QED  BY <1>1, <1>3, QueryStays, ReportStays, OthersMove

(* A scope is compiled once, before anything is answered. *)
LEMMA CompileScopeStep ==
  ASSUME SearchInv, NEW e \in 1 .. MaxEpoch, CompileScope(e)
  PROVE  SearchInv'
<1> USE DEF SearchInv
<1>1. TenantOK /\ QueryOK
  BY TypeParts
<1>2. /\ scope = NoScope /\ scope' = [epoch |-> e, gens |-> {active} \ {None}] /\ pending' = Indexes
      /\ UNCHANGED <<engine, indexes, requests, gone, mixed>> /\ UNCHANGED report
      /\ UNCHANGED <<cached, active, epoch, events, faults, found, raised, answer>>
  BY DEF CompileScope
<1>3. TenantOK'
  BY <1>1, <1>2 DEF TenantOK
<1>4. [epoch |-> e, gens |-> {active} \ {None}] \in [epoch : 0 .. MaxEpoch, gens : SUBSET Generations]
  BY <1>1, SearchAssumption DEF TenantOK
<1>5. QueryOK'
  BY <1>1, <1>2, <1>4 DEF QueryOK
<1> QED  BY <1>2, <1>3, <1>5, ReportStays, OthersMove

LEMMA SearchStep ==
  ASSUME SearchInv, NEW x \in Indexes, Search(x) \/ SearchRaises(x)
  PROVE  SearchInv'
<1> USE DEF SearchInv
<1>1. AdapterOK /\ TenantOK /\ QueryOK
  BY TypeParts
<1>2. /\ pending' = pending \ {x}
      /\ UNCHANGED <<engine, indexes, requests, gone, mixed>> /\ UNCHANGED report
      /\ UNCHANGED <<cached, active, epoch, events, scope, answer>>
  BY DEF Search, SearchRaises
<1>3. TenantOK'
  <2>1. faults' \in 0 .. MaxFaults
    BY <1>1, SearchAssumption DEF Search, SearchRaises, Fault, TenantOK
  <2> QED  BY <1>1, <1>2, <2>1 DEF TenantOK
<1>4. QueryOK'
  <2>1. Shown(x) \subseteq Chunks
    <3>1. engine[x] \in {"memory", "qdrant", "milvus", "opensearch"}
      BY <1>1 DEF AdapterOK, Engines, Indexes
    <3>2. MemoryShown(x) \subseteq Chunks /\ QdrantShown(x) \subseteq Chunks
      BY DEF MemoryShown, QdrantShown, Stored
    <3>3. MilvusShown(x) \subseteq Chunks /\ OpenSearchShown(x) \subseteq Chunks
      BY DEF MilvusShown, OpenSearchShown
    <3> QED  BY <3>1, <3>2, <3>3 DEF Shown
  <2>2. found' \subseteq Chunks /\ raised' \subseteq Indexes
    BY <1>1, <2>1 DEF Search, SearchRaises, QueryOK
  <2> QED  BY <1>1, <1>2, <2>2 DEF QueryOK
<1> QED  BY <1>2, <1>3, <1>4, ReportStays, OthersMove

(* The authority check keeps some of the candidates. *)
LEMMA JudgeStep ==
  ASSUME SearchInv, NEW kept \in SUBSET Chunks, Judge(kept)
  PROVE  SearchInv'
<1> USE DEF SearchInv
<1>1. TenantOK /\ QueryOK
  BY TypeParts
<1>2. /\ found' = {} /\ raised' = {}
      /\ UNCHANGED <<engine, indexes, requests, gone, mixed>> /\ UNCHANGED report
      /\ UNCHANGED <<cached, active, epoch, events, faults, pending, scope>>
  BY DEF Judge
<1>3. PICK status \in {"ok", "degraded"} : answer' = [status |-> status, chunks |-> kept]
  BY DEF Judge
<1>4. TenantOK'
  BY <1>1, <1>2 DEF TenantOK
<1>5. QueryOK'
  <2>1. answer' \in [status : {"none", "ok", "degraded", "unavailable"}, chunks : SUBSET Chunks]
    BY <1>3
  <2> QED  BY <1>1, <1>2, <2>1 DEF QueryOK
<1> QED  BY <1>2, <1>4, <1>5, ReportStays, OthersMove

LEMMA UnavailableStep ==
  ASSUME SearchInv, Unavailable
  PROVE  SearchInv'
<1> USE DEF SearchInv
<1>1. TenantOK /\ QueryOK
  BY TypeParts
<1>2. /\ answer' = [NoAnswer EXCEPT !.status = "unavailable"]
      /\ found' = {} /\ raised' = {}
      /\ UNCHANGED <<engine, indexes, requests, gone, mixed>> /\ UNCHANGED report
      /\ UNCHANGED <<cached, active, epoch, events, faults, pending, scope>>
  BY DEF Unavailable
<1>3. TenantOK'
  BY <1>1, <1>2 DEF TenantOK
<1>4. answer' \in [status : {"none", "ok", "degraded", "unavailable"}, chunks : SUBSET Chunks]
  BY <1>2 DEF NoAnswer
<1>5. QueryOK'
  BY <1>1, <1>2, <1>4 DEF QueryOK
<1> QED  BY <1>2, <1>3, <1>5, ReportStays, OthersMove

LEMMA ReconcileStep ==
  ASSUME SearchInv, Reconcile
  PROVE  SearchInv'
<1> USE DEF SearchInv
<1>1. TenantOK /\ ReportOK
  BY TypeParts
<1>2. /\ active # None /\ events < MaxEvents /\ events' = events + 1
      /\ report' = [gen |-> active, left |-> Indexes, stale |-> {}, touched |-> {x \in Indexes : Busy(x)}]
      /\ UNCHANGED <<engine, indexes, requests, gone, mixed>> /\ UNCHANGED query
      /\ UNCHANGED <<cached, active, epoch, faults>>
  BY DEF Reconcile, Event
<1>3. TenantOK'
  BY <1>1, <1>2, SearchAssumption DEF TenantOK
<1>4. /\ report'.gen = active /\ report'.left = Indexes
      /\ report'.touched = {x \in Indexes : Busy(x)}
  BY <1>2
<1>5. ReportOK'
  BY <1>1, <1>2 DEF ReportOK, TenantOK
<1>6. \A x \in Indexes : Busy(x)' <=> Busy(x)
  BY <1>2, AdaptersStay
<1>7. ReportInv' /\ ReportSound'
  BY <1>2, <1>4, <1>6 DEF ReportInv, ReportSound
<1> QED  BY <1>2, <1>3, <1>5, <1>7, QueryStays, OthersMove

LEMMA InspectStep ==
  ASSUME SearchInv, NEW x \in Indexes, Inspect(x) \/ InspectRaises(x)
  PROVE  SearchInv'
<1> USE DEF SearchInv
<1>1. TenantOK /\ ReportOK
  BY TypeParts
<1>2. /\ x \in report.left
      /\ UNCHANGED <<engine, indexes, requests, gone, mixed>> /\ UNCHANGED query
      /\ UNCHANGED <<cached, active, epoch, events>>
  BY DEF Inspect, InspectRaises, Inspecting
<1>3. TenantOK'
  <2>1. faults' = faults \/ Fault
    BY Zenon DEF Inspect, InspectRaises
  <2>2. faults' \in 0 .. MaxFaults
    BY <1>1, <2>1, SearchAssumption DEF Fault, TenantOK
  <2> QED  BY <1>1, <1>2, <2>2 DEF TenantOK
<1>4. report # NoReport
  BY <1>2 DEF NoReport
<1>5. /\ ReportOK' /\ report'.gen = report.gen /\ report'.left = report.left \ {x}
      /\ report'.touched = report.touched /\ report.stale \subseteq report'.stale
      /\ x \in report'.stale \/ InspectGeneration(x) = ChunksOf({report.gen})
  <2>1. PICK bad \in BOOLEAN : Reported(x, bad) /\ (bad \/ InspectGeneration(x) = ChunksOf({report.gen}))
    BY DEF Inspect, InspectRaises
  <2> DEFINE marked == IF bad THEN report.stale \cup {x} ELSE report.stale
  <2>2. marked \in SUBSET Indexes /\ report.stale \subseteq marked /\ (bad => x \in marked)
    BY <1>1 DEF ReportOK
  <2>3. report' = [report EXCEPT !.left = report.left \ {x}, !.stale = marked]
    BY <2>1 DEF Reported
  <2> HIDE DEF marked
  <2> QED  BY <1>1, <2>1, <2>2, <2>3 DEF ReportOK
<1>6. \A y \in Indexes : Stored(y)' = Stored(y) /\ (Busy(y)' <=> Busy(y))
  BY <1>2, AdaptersStay
<1>7. ReportInv'
  BY <1>4, <1>5, <1>6 DEF ReportInv
<1>8. ReportSound'
  <2> SUFFICES ASSUME NEW y \in Indexes \ (report'.left \cup report'.stale \cup report'.touched)
               PROVE  ChunksOf({report.gen}) \subseteq Stored(y)
    BY <1>5, <1>6 DEF ReportSound, ChunksOf
  <2>1. CASE y = x
    BY <1>5, <2>1 DEF InspectGeneration
  <2>2. CASE y # x
    BY <1>4, <1>5, <2>2 DEF ReportSound
  <2> QED  BY <2>1, <2>2
<1> QED  BY <1>2, <1>3, <1>5, <1>7, <1>8, QueryStays, OthersMove

-----------------------------------------------------------------------------
LEMMA InitSearch == Init => SearchInv
<1> SUFFICES ASSUME Init PROVE SearchInv
  OBVIOUS
<1>1. AdapterOK
  <2>1. engine \in Engines /\ active \in Generations \cup {None} /\ mixed = {}
    BY DEF Init
  <2>2. stored \in [Indexes -> [Chunks -> States]]
    BY DEF Init, States
  <2>3. pointer \in [Indexes -> Generations \cup {None}]
    BY <2>1 DEF Init
  <2>4. call \in [Callers -> Calls]
    BY IdleCall DEF Init
  <2>5. /\ snap \in [Callers -> SUBSET Chunks] /\ stale \in [Callers -> SUBSET Chunks]
        /\ gone \in [Indexes -> SUBSET Chunks]
    BY DEF Init
  <2> QED  BY <2>1, <2>2, <2>3, <2>4, <2>5 DEF AdapterOK
<1>2. TenantOK
  BY SearchAssumption DEF Init, TenantOK
<1>3. QueryOK
  <2>1. NoScope \in [epoch : 0 .. MaxEpoch, gens : SUBSET Generations]
    BY SearchAssumption DEF NoScope
  <2>2. NoAnswer \in [status : {"none", "ok", "degraded", "unavailable"}, chunks : SUBSET Chunks]
    BY DEF NoAnswer
  <2> QED  BY <2>1, <2>2 DEF Init, QueryOK
<1>4. ReportOK
  BY DEF Init, ReportOK, NoReport
<1>5. \A w \in Callers : call[w] = Idle /\ snap[w] = {}
  BY DEF Init
<1>6. CallersOK
  BY <1>5, IdleCall DEF CallersOK, CallerOK
<1>7. \A w \in Callers, x \in Indexes : ~At(w, x)
  BY <1>5, IdleCall DEF At
<1>8. AloneInv
  <2>1. \A x \in Indexes : \A c \in Flagged(x) : c[1] = active
    BY DEF Init, Flagged
  <2> QED  BY <1>7, <2>1 DEF AloneInv, Alone
<1>9. PurgeFinal
  BY DEF Init, PurgeFinal
<1>10. report = NoReport
  BY DEF Init
<1>11. ReportInv /\ ReportSound
  BY <1>10 DEF ReportInv, ReportSound
<1> QED  BY <1>1, <1>2, <1>3, <1>4, <1>6, <1>8, <1>9, <1>11, TypeParts DEF SearchInv

LEMMA NextSearch == SearchInv /\ [Next]_vars => SearchInv'
<1> SUFFICES ASSUME SearchInv, [Next]_vars PROVE SearchInv'
  OBVIOUS
<1>1. ASSUME NEW w \in Callers, AdapterCall(w) \/ Request(w) PROVE SearchInv'
  BY <1>1, AdapterCallStep, RequestStep
<1>2. CASE \/ \E g \in Generations \cup {None} : Switch(g)
           \/ BumpEpoch
           \/ \E e \in 1 .. MaxEpoch : SetAclEpoch(e)
  BY <1>2, TenantStep
<1>3. CASE Retrieval
  <2>1. ASSUME NEW e \in 1 .. MaxEpoch, CompileScope(e) PROVE SearchInv'
    BY <2>1, CompileScopeStep
  <2>2. ASSUME NEW x \in Indexes, Search(x) \/ SearchRaises(x) PROVE SearchInv'
    BY <2>2, SearchStep
  <2>3. ASSUME NEW kept \in SUBSET found, Judge(kept) PROVE SearchInv'
    <3>1. kept \in SUBSET Chunks
      BY TypeParts DEF SearchInv, QueryOK
    <3> QED  BY <2>3, <3>1, JudgeStep
  <2>4. CASE Unavailable
    BY <2>4, UnavailableStep
  <2> QED  BY <1>3, <2>1, <2>2, <2>3, <2>4 DEF Retrieval
<1>4. CASE Reconcile
  BY <1>4, ReconcileStep
<1>5. ASSUME NEW x \in Indexes, Inspect(x) \/ InspectRaises(x) PROVE SearchInv'
  BY <1>5, InspectStep
<1>6. CASE UNCHANGED vars
  <2>1. /\ UNCHANGED <<engine, indexes, requests, gone, mixed>> /\ UNCHANGED query /\ UNCHANGED report
        /\ UNCHANGED <<cached, active, epoch, events, faults>>
    BY <1>6 DEF vars
  <2>2. TenantOK'
    BY <2>1, TypeParts DEF SearchInv, TenantOK
  <2> QED  BY <2>1, <2>2, QueryStays, ReportStays, OthersMove
<1> QED  BY <1>1, <1>2, <1>3, <1>4, <1>5, <1>6 DEF Next

(* An index whose calls did not overlap, and a memory index always, shows  *)
(* one version.                                                            *)
LEMMA ShowsOneVersion == SearchInv => OneVersionShown
<1> SUFFICES ASSUME SearchInv, NEW x \in Indexes, x \notin mixed \/ engine[x] = "memory",
                    NEW c \in Shown(x), NEW d \in Shown(x)
             PROVE  VersionOf[c[1]] = VersionOf[d[1]]
  BY DEF OneVersionShown
<1>1. CASE engine[x] = "memory"
  BY <1>1 DEF Shown, MemoryShown
<1>2. CASE engine[x] # "memory"
  <2>1. engine[x] \in {"memory", "qdrant", "milvus", "opensearch"}
    BY TypeParts DEF SearchInv, AdapterOK, Engines, Indexes
  <2>2. QdrantShown(x) = Flagged(x) /\ MilvusShown(x) = Flagged(x) /\ OpenSearchShown(x) = Flagged(x)
    BY DEF QdrantShown, MilvusShown, OpenSearchShown, Flagged
  <2>3. Shown(x) = Flagged(x)
    BY <1>2, <2>1, <2>2 DEF Shown
  <2> QED  BY <1>2, <2>3 DEF SearchInv, AloneInv, Alone
<1> QED  BY <1>1, <1>2

-----------------------------------------------------------------------------
(* What a publication that ends has made of its index. *)

(* The rows of a show are flagged, and nothing else was. *)
LEMMA ShownExactly ==
  ASSUME SearchInv, NEW w \in Callers, NEW x \in Indexes, x = call[w].at, x \notin mixed,
         engine[x] # "memory", engine' = engine, call[w].step = "show",
         NEW S \in SUBSET Chunks, S \subseteq Matching(w), Matching(w) \ S \subseteq Flagged(x),
         Write(w, x, S, "shown")
  PROVE  ShowsExactly(x, call[w].target)
<1>1. AdapterOK
  BY TypeParts DEF SearchInv
<1>2. /\ \A c \in S : stored'[x][c] = "shown"
      /\ \A c \in Chunks \ S : stored'[x][c] = stored[x][c]
  BY <1>1 DEF Write, AdapterOK
<1>3. Matching(w) = Stored(x) \cap ChunksOf(call[w].target) /\ Stored(x) \subseteq Chunks
  BY DEF Matching, Stored
<1>4. Flagged(x) \subseteq ChunksOf(call[w].target)
  BY DEF SearchInv, AloneInv, Alone, At, Undisturbed
<1>5. Flagged(x) \subseteq Stored(x)
  BY DEF Flagged, Stored
<1>6. Stored(x)' = Stored(x)
  BY <1>2, <1>3 DEF Stored
<1>7. Flagged(x)' = Flagged(x) \cup S
  BY <1>2 DEF Flagged
<1>8. Flagged(x)' = Stored(x)' \cap ChunksOf(call[w].target)
  BY <1>3, <1>4, <1>5, <1>6, <1>7
<1>9. Shown(x)' = Flagged(x)'
  <2>1. engine'[x] \in {"qdrant", "milvus", "opensearch"}
    BY <1>1 DEF AdapterOK, Engines, Indexes
  <2>2. /\ QdrantShown(x)' = Flagged(x)' /\ MilvusShown(x)' = Flagged(x)'
        /\ OpenSearchShown(x)' = Flagged(x)'
    BY DEF QdrantShown, MilvusShown, OpenSearchShown, Flagged
  <2> QED  BY <2>1, <2>2 DEF Shown
<1> QED  BY <1>8, <1>9 DEF ShowsExactly

(* The last request of a publication: of a show, or of a memory adapter.   *)
LEMMA PublishEnds ==
  ASSUME SearchInv, NEW w \in Callers, NEW x \in Indexes, x = call[w].at,
         x \notin mixed \/ engine[x] = "memory", Request(w), Publishes(w)
  PROVE  ShowsExactly(x, call[w].target)
<1>1. AdapterOK /\ TenantOK /\ CallerOK(w)
  BY TypeParts DEF SearchInv, CallersOK
<1>2. call[w].step \in {"lookup", "show"} /\ call'[w].step = "idle" /\ faults' = faults
  BY DEF Publishes
<1>3. CASE MemoryPublish(w)
  <2>1. Candidates(w) # {}
    BY <1>3 DEF Publishes, MemoryPublish, Is
  <2>2. PICK c \in Candidates(w) : pointer' = [pointer EXCEPT ![x] = c[1]]
    BY <1>3, <2>1 DEF MemoryPublish
  <2>3. engine[x] = "memory" /\ engine' = engine /\ stored' = stored
    BY <1>3 DEF MemoryPublish, Is
  <2>4. c \in ChunksOf(call[w].target) /\ call[w].target \in SUBSET Generations
    BY <1>1, <2>2, RequestRows DEF Candidates
  <2>5. c[1] \in call[w].target
    BY <2>4 DEF ChunksOf
  <2>6. pointer'[x] = c[1]
    BY <1>1, <2>2 DEF AdapterOK
  <2>7. Stored(x)' = Stored(x) /\ Stored(x) \subseteq Chunks
    BY <2>3 DEF Stored
  <2>8. Shown(x)' = {d \in Stored(x) : d[1] = c[1]}
    BY <2>3, <2>6, <2>7 DEF Shown, MemoryShown
  <2>9. {d \in Stored(x) : d[1] = c[1]} = Stored(x) \cap ChunksOf({c[1]})
    BY <2>7 DEF Chunks, ChunksOf
  <2> QED  BY <2>3, <2>5, <2>7, <2>8, <2>9 DEF ShowsExactly
<1>4. CASE QdrantSetPublished(w)
  <2>1. Apply(w) /\ engine[x] = "qdrant" /\ Flags(w)
    BY <1>4 DEF QdrantSetPublished
  <2>2. call[w].step = "show"
    BY <1>2, <2>1 DEF Flags
  <2>3. Write(w, x, Matching(w), "shown") /\ engine' = engine
    BY <2>1, <2>2 DEF Apply, Value
  <2>4. Matching(w) \in SUBSET Chunks
    BY <1>1, RequestRows
  <2> QED  BY <2>1, <2>2, <2>3, <2>4, ShownExactly
<1>5. ASSUME NEW S \in SUBSET snap[w], WriteBack(w, S, S \ stale[w]), Flags(w),
             engine[x] \in {"milvus", "opensearch"}
      PROVE  ShowsExactly(x, call[w].target)
  <2>1. call[w].step = "show" /\ call[w].read /\ engine' = engine
    BY <1>2, <1>5 DEF WriteBack, Flags
  <2>2. x \notin mixed
    BY <1>5
  <2>3. Undisturbed(w)
    BY <2>1, <2>2 DEF SearchInv, AloneInv, Alone, At
  <2>4. stale[w] = {} /\ snap[w] \subseteq Matching(w) /\ Matching(w) \ snap[w] \subseteq Flagged(x)
    BY <2>1, <2>3 DEF Undisturbed
  <2>5. S = snap[w]
    <3>1. call' # call
      BY <1>2, <2>1
    <3> QED  BY <1>5, <3>1 DEF WriteBack
  <2>6. Write(w, x, snap[w], "shown")
    <3>1. Value(w) = "shown" /\ S \ stale[w] = snap[w]
      BY <2>1, <2>4, <2>5 DEF Value
    <3> QED  BY <1>5, <3>1 DEF WriteBack
  <2>7. snap[w] \in SUBSET Chunks
    BY <1>1 DEF AdapterOK
  <2> QED  BY <1>5, <2>1, <2>2, <2>4, <2>6, <2>7, ShownExactly
<1>6. CASE MilvusUpsert(w)
  <2>1. WriteBack(w, snap[w], snap[w]) /\ Flags(w) /\ engine[x] = "milvus" /\ call[w].read
    BY <1>6 DEF MilvusUpsert, WriteBack
  <2>2. call[w].step = "show"
    BY <1>2, <2>1 DEF Flags
  <2>3. x \notin mixed
    BY <2>1
  <2>4. stale[w] = {}
    BY <2>1, <2>2, <2>3 DEF SearchInv, AloneInv, Alone, At, Undisturbed
  <2>5. snap[w] \ stale[w] = snap[w]
    BY <2>4
  <2> QED  BY <1>5, <2>1, <2>5
<1>7. CASE OpenSearchUpdate(w)
  <2>1. RowByRow(w) /\ Flags(w) /\ engine[x] = "opensearch"
    <3>1. ASSUME Read(w) PROVE FALSE
      <4>1. call' = [call EXCEPT ![w].read = TRUE]
        BY <3>1 DEF Read
      <4>2. call[w] \in Calls
        BY <1>1 DEF AdapterOK
      <4>3. [call[w] EXCEPT !.read = TRUE].step = call[w].step
        BY <4>2 DEF Calls
      <4>4. call'[w] = [call[w] EXCEPT !.read = TRUE]
        BY <1>1, <4>1 DEF AdapterOK
      <4> QED  BY <1>2, <4>3, <4>4
    <3> QED  BY <1>7, <3>1 DEF OpenSearchUpdate
  <2>2. PICK S \in SUBSET snap[w] : WriteBack(w, S, S \ stale[w])
    BY <2>1 DEF RowByRow
  <2> QED  BY <1>5, <2>1, <2>2
<1>8. CASE MilvusQueryAll(w)
  <2>1. Read(w)
    BY <1>8 DEF MilvusQueryAll
  <2>2. call[w] \in Calls
    BY <1>1 DEF AdapterOK
  <2>3. [call[w] EXCEPT !.read = TRUE].step = call[w].step
    BY <2>2 DEF Calls
  <2>4. call'[w] = [call[w] EXCEPT !.read = TRUE]
    BY <1>1, <2>1 DEF Read, AdapterOK
  <2> QED  BY <1>2, <2>3, <2>4
<1>9. CASE QdrantLookup(w) \/ MilvusLookup(w) \/ OpenSearchLookup(w)
  <2>1. Lookup(w) /\ call[w].step = "lookup"
    BY <1>9 DEF QdrantLookup, MilvusLookup, OpenSearchLookup, Is
  <2>2. Candidates(w) # {}
    BY <2>1 DEF Publishes
  <2>3. Proceed(w, "hide")
    BY <2>1, <2>2 DEF Lookup
  <2>4. call'[w].step = "hide"
    BY <1>1, <2>3, ProceedTo DEF Steps
  <2> QED  BY <1>2, <2>4
<1>10. CASE \/ MemoryStage(w) \/ QdrantStage(w) \/ MilvusStage(w) \/ OpenSearchStage(w)
            \/ MemoryDelete(w) \/ QdrantDelete(w) \/ MilvusDelete(w) \/ OpenSearchDelete(w)
  BY <1>2, <1>10 DEF MemoryStage, QdrantStage, MilvusStage, OpenSearchStage, Is,
                     MemoryDelete, QdrantDelete, MilvusDelete, OpenSearchDelete, Deletes
<1>11. CASE CallRaises(w)
  BY <1>1, <1>2, <1>11, SearchAssumption DEF CallRaises, Fault, TenantOK
<1> QED  BY <1>3, <1>4, <1>6, <1>7, <1>8, <1>9, <1>10, <1>11 DEF Request

(* A call goes on in its own requests only. *)
LEMMA OthersWait ==
  ASSUME SearchInv, [Next]_vars, NEW w \in Callers, Publishes(w)
  PROVE  Request(w)
<1>1. AdapterOK
  BY TypeParts DEF SearchInv
<1>2. call'[w] # call[w] /\ call[w].step # "idle"
  BY DEF Publishes
<1>3. ASSUME NEW v \in Callers, AdapterCall(v) PROVE FALSE
  <2>1. PICK x, step, target : Begin(v, x, step, target)
    BY <1>3, Zenon DEF AdapterCall, CallStage, CallPublishGeneration, CallDeleteGeneration,
                       CallPublish, CallDeleteDocument
  <2>2. call[v].step = "idle" /\ \A u \in Callers : u # v => call'[u] = call[u]
    BY <1>1, <2>1 DEF Begin, AdapterOK
  <2> QED  BY <1>2, <2>2
<1>4. ASSUME NEW v \in Callers, Request(v), v # w PROVE FALSE
  <2>1. PICK r : call' = [call EXCEPT ![v] = r] \/ call' = call
    <3>1. ASSUME NEW step, Proceed(v, step)
          PROVE  \E r : call' = [call EXCEPT ![v] = r]
      BY <3>1 DEF Proceed
    <3>2. ASSUME Read(v) PROVE \E r : call' = [call EXCEPT ![v] = r]
      BY <3>2 DEF Read
    <3>3. ASSUME NEW S, NEW written, WriteBack(v, S, written)
          PROVE  \E r : call' = [call EXCEPT ![v] = r] \/ call' = call
      BY <3>1, <3>3 DEF WriteBack
    <3>4. ASSUME NEW S, StageRows(v, S) PROVE \E r : call' = [call EXCEPT ![v] = r]
      BY <3>1, <3>4 DEF StageRows
    <3>5. ASSUME Apply(v) \/ Lookup(v) \/ MemoryPublish(v) \/ CallRaises(v)
          PROVE  \E r : call' = [call EXCEPT ![v] = r]
      BY <3>1, <3>5 DEF Apply, Lookup, MemoryPublish, CallRaises
    <3>6. ASSUME RowByRow(v) PROVE \E r : call' = [call EXCEPT ![v] = r] \/ call' = call
      BY <3>3, <3>6 DEF RowByRow
    <3> QED
      BY <1>4, <3>2, <3>3, <3>4, <3>5, <3>6
      DEF Request, MemoryStage, QdrantStage, MilvusStage, OpenSearchStage, QdrantLookup, MilvusLookup,
          OpenSearchLookup, QdrantSetPublished, MilvusQueryAll, MilvusUpsert, OpenSearchUpdate,
          MemoryDelete, QdrantDelete, MilvusDelete, OpenSearchDelete
  <2>2. call'[w] = call[w]
    BY <1>1, <1>4, <2>1 DEF AdapterOK
  <2> QED  BY <1>2, <2>2
<1>5. ASSUME UNCHANGED requests PROVE FALSE
  BY <1>2, <1>5 DEF requests
<1>6. CASE \/ \E g \in Generations \cup {None} : Switch(g)
           \/ BumpEpoch
           \/ \E e \in 1 .. MaxEpoch : SetAclEpoch(e)
           \/ Reconcile
           \/ \E x \in Indexes : Inspect(x) \/ InspectRaises(x)
           \/ UNCHANGED vars
  BY <1>5, <1>6 DEF Switch, BumpEpoch, SetAclEpoch, Reconcile, Inspect, InspectRaises, vars
<1>7. CASE Retrieval
  BY <1>5, <1>7 DEF Retrieval, CompileScope, Search, SearchRaises, Judge, Unavailable
<1> QED  BY <1>3, <1>4, <1>6, <1>7 DEF Next

(* The inductive invariant holds of every execution of the adapters, the   *)
(* query and the reconciliation.                                           *)
THEOREM SearchInductive == Spec => []SearchInv
BY InitSearch, NextSearch, PTL DEF Spec

(* Every state of the adapters, the query and the report has its type. *)
THEOREM TypeCorrect == Spec => []TypeOK
<1>1. SearchInv => TypeOK
  BY DEF SearchInv
<1> QED  BY <1>1, SearchInductive, PTL

(* publish and publish_generation hide the document's rows before they     *)
(* show the target's, so an index never shows two versions, whichever      *)
(* request fails, unless two calls overlapped in it; a memory adapter not  *)
(* even then.                                                              *)
THEOREM OneVersionAtATime == Spec => []OneVersionShown
BY ShowsOneVersion, SearchInductive, PTL

(* What delete_generation and delete_document removed stays away until it  *)
(* is staged again: whatever overlaps with the memory adapters and Qdrant, *)
(* with Milvus and OpenSearch as long as calls do not overlap.             *)
THEOREM PurgedStaysAway == Spec => []PurgeFinal
<1>1. SearchInv => PurgeFinal
  BY DEF SearchInv
<1> QED  BY <1>1, SearchInductive, PTL

(* A publish or publish_generation that returns has left exactly the       *)
(* stored rows of its target visible, whatever calls that failed before it *)
(* left behind, unless another call overlapped in the index.               *)
THEOREM PublicationsAreExact == Spec => PublishedExactly
<1>1. SearchInv /\ [Next]_vars =>
        [\A w \in Callers, x \in Indexes :
           Publishes(w) /\ call[w].at = x /\ (x \notin mixed \/ engine[x] = "memory") =>
             ShowsExactly(x, call[w].target)]_vars
  BY OthersWait, PublishEnds
<1> QED  BY <1>1, SearchInductive, PTL DEF Spec, PublishedExactly

(* An index the reconciliation does not report stale, and no call touched  *)
(* since it began, holds every chunk of the active generation.             *)
THEOREM ReportIsSound == Spec => []ReportSound
<1>1. SearchInv => ReportSound
  BY DEF SearchInv
<1> QED  BY <1>1, SearchInductive, PTL
=============================================================================
