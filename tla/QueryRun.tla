------------------------------ MODULE QueryRun ------------------------------
(***************************************************************************)
(* Query runs: QueryService.execute_stream with the retrieval and the      *)
(* ModelGateway it calls, the SSE endpoint that drives it, and the cancel  *)
(* endpoint, which works in a session of its own.                          *)
(*                                                                         *)
(* A run commits its row as running or streaming ("open" here), then       *)
(* retrieves, asks the model and streams, and settles in a second commit.  *)
(* The session keeps its copy of the row (expire_on_commit=False) and      *)
(* writes the status without looking at the table again.  Text is reduced  *)
(* to the set of provider attempts it came from, evidence to chunks.       *)
(***************************************************************************)
EXTENDS Naturals, FiniteSets

CONSTANTS
  Runs,             \* query runs, all of one tenant
  Chunks,           \* chunks the indexes may return
  Unsafe,           \* chunks inspect_retrieved reports
  Retirable,        \* chunks whose document changes while the runs go on
  ModeOf,           \* delivery_mode of each run, from its provider's capabilities
  Cancels,          \* requests to POST /queries/{id}/cancel
  TargetOf,         \* the run each cancel request names
  Remote,           \* cancel requests served by another API process
  Retries,          \* ModelGateway.retries
  FailureThreshold, \* ModelGateway.failure_threshold
  RatePerMinute,    \* ModelGateway.requests_per_minute
  ConcurrencyLimit, \* permits of ModelGateway._semaphore
  MaxFaults         \* bound on failed commits, disconnects and abandoned tasks

ASSUME QueryAssumption ==
  /\ Unsafe \subseteq Chunks
  /\ Retirable \subseteq Chunks
  /\ ModeOf \in [Runs -> {"streaming", "buffered"}]
  /\ TargetOf \in [Cancels -> Runs]
  /\ Remote \subseteq Cancels
  /\ Retries \in Nat
  /\ FailureThreshold \in Nat \ {0}
  /\ RatePerMinute \in Nat \ {0}
  /\ ConcurrencyLimit \in Nat \ {0}
  /\ MaxFaults \in Nat

VARIABLES
  active,    \* chunks the authority rows mark active
  status,    \* run -> status column, "none" before the row exists
  answer,    \* run -> set holding the answer row, if there is one
  registry,  \* run -> its event in QUERY_CANCELLATIONS
  pc,        \* run -> where execute_stream is
  out,       \* run -> QueryOutcome, drafted from the retrieval: status, citations
  parts,     \* run -> provider attempts whose text the client has seen
  attempt,   \* run -> current attempt of the gateway
  calls,     \* length of ModelGateway._request_times
  failures,  \* CircuitState.failures
  opened,    \* CircuitState.opened_at is set
  cpc,       \* cancel request -> "idle", "read" or "done"
  faults,
  stopped,   \* history: runs signalled before their last check
  stale,     \* history: run -> its citations retired before validation
  lost       \* history: runs whose task ended without writing a status

gateway == <<calls, failures, opened>>
history == <<stopped, stale, lost>>
locals == <<parts, attempt>>
vars == <<active, status, answer, registry, pc, locals, out, gateway, cpc, faults, history>>

Published == {"success", "degraded", "refusal"}
Terminal == Published \cup {"failed", "cancelled"}
Outcomes == [status : Published \cup {"failed"}, cites : SUBSET Chunks]
Answers == [status : Published, cites : SUBSET Chunks]

(* Where the run has not yet passed its last look at the cancel event. *)
BeforeGate == {"begun", "retrieving", "asking", "queued", "calling", "gate"}

Init ==
  /\ active = Chunks
  /\ status = [q \in Runs |-> "none"]
  /\ answer = [q \in Runs |-> {}]
  /\ registry = [q \in Runs |-> "absent"]
  /\ pc = [q \in Runs |-> "idle"]
  /\ out = [q \in Runs |-> [status |-> "failed", cites |-> {}]]
  /\ parts = [q \in Runs |-> {}]
  /\ attempt = [q \in Runs |-> 0]
  /\ calls = 0 /\ failures = 0 /\ opened = FALSE
  /\ cpc = [c \in Cancels |-> "idle"]
  /\ faults = 0
  /\ stopped = {} /\ stale = [q \in Runs |-> {}] /\ lost = {}

-----------------------------------------------------------------------------
(* The query endpoint and the first half of execute_stream: the request is *)
(* refused (role, conversation, assistant version, policy, model profile), *)
(* or the row is committed and a cancel signal that came first is kept.    *)
Admit(q) ==
  /\ pc[q] = "idle"
  /\ status' = [status EXCEPT ![q] = "open"]
  /\ registry' = [registry EXCEPT ![q] = IF @ = "absent" THEN "clear" ELSE @]
  /\ pc' = [pc EXCEPT ![q] = "begun"]
  /\ UNCHANGED <<active, answer, locals, out, gateway, cpc, faults, history>>

Refuse(q) ==
  /\ pc[q] = "idle"
  /\ pc' = [pc EXCEPT ![q] = "done"]
  /\ UNCHANGED <<active, status, answer, registry, locals, out, gateway, cpc, faults, history>>

Goto(q, label) == pc' = [pc EXCEPT ![q] = label] /\ UNCHANGED out

(* The run has an outcome; its text is yielded on the way to the gate. *)
Conclude(q, s, cites) ==
  /\ out' = [out EXCEPT ![q] = [status |-> s, cites |-> cites]]
  /\ pc' = [pc EXCEPT ![q] = "gate"]

Signalled(q) == registry[q] = "set"

(* First check of the cancel event, then inspect_input. *)
Begin(q, finding) ==
  /\ pc[q] = "begun"
  /\ IF Signalled(q) THEN Goto(q, "cancelling")
     ELSE IF finding THEN Conclude(q, "refusal", {})
     ELSE Goto(q, "retrieving")
  /\ UNCHANGED <<active, status, answer, registry, locals, gateway, cpc, faults, history>>

(* What RetrievalService._retrieve may return: candidates of the indexes   *)
(* survive only if the authority rows show them active and readable, so    *)
(* the evidence is a set of chunks that are active at that moment.         *)
MayReturn(E) == E \subseteq active

(* _conflicting needs evidence of two documents. *)
MayConflict(E) == Cardinality(E) > 1

(* Retrieval, the second check of the cancel event, inspect_retrieved, and *)
(* the branches that need no model.                                        *)
Retrieve(q, E, conflict, g) ==
  /\ pc[q] = "retrieving"
  /\ MayReturn(E)
  /\ conflict => MayConflict(E)
  /\ IF Signalled(q) THEN Goto(q, "cancelling")
     ELSE IF E \subseteq Unsafe THEN Conclude(q, "refusal", {})
     ELSE IF conflict THEN Conclude(q, "degraded", E \ Unsafe)
     ELSE /\ out' = [out EXCEPT ![q] = [status |-> g, cites |-> E \ Unsafe]]
          /\ pc' = [pc EXCEPT ![q] = "asking"]
  /\ UNCHANGED <<active, status, answer, registry, locals, gateway, cpc, faults, history>>

RetrieveRaises(q) ==
  /\ pc[q] = "retrieving"
  /\ Goto(q, "failing")
  /\ UNCHANGED <<active, status, answer, registry, locals, gateway, cpc, faults, history>>

-----------------------------------------------------------------------------
(* An exception leaves the gateway.  The streaming branch turns it into a  *)
(* failed outcome, the buffered branch lets it reach except Exception.     *)
ModelRaises(q) ==
  IF ModeOf[q] = "streaming" THEN Conclude(q, "failed", {}) ELSE Goto(q, "failing")

Holding == {q \in Runs : pc[q] = "calling"}

(* Mutant: one call too many passes. *)
AskOffByOne(q) ==
  /\ pc[q] = "asking"
  /\ IF calls > RatePerMinute
     THEN ModelRaises(q) /\ UNCHANGED calls
     ELSE Goto(q, "queued") /\ calls' = calls + 1
  /\ UNCHANGED <<active, status, answer, registry, locals, failures, opened, cpc, faults, history>>

(* _check_rate_limit, then the wait for the semaphore. *)
Ask(q) ==
  /\ pc[q] = "asking"
  /\ IF calls >= RatePerMinute
     THEN ModelRaises(q) /\ UNCHANGED calls
     ELSE Goto(q, "queued") /\ calls' = calls + 1
  /\ UNCHANGED <<active, status, answer, registry, locals, failures, opened, cpc, faults, history>>

(* _circuit_open in complete(): recovery_seconds may have passed, and then *)
(* the state is reset.  stream_events() never looks at the circuit.        *)
Acquire(q, recovered) ==
  /\ pc[q] = "queued"
  /\ Cardinality(Holding) < ConcurrencyLimit
  /\ LET checked == ModeOf[q] = "buffered" /\ opened
     IN /\ IF checked /\ ~recovered THEN ModelRaises(q) ELSE Goto(q, "calling")
        /\ opened' = (opened /\ ~(checked /\ recovered))
        /\ failures' = IF checked /\ recovered THEN 0 ELSE failures
  /\ attempt' = [attempt EXCEPT ![q] = 0]
  /\ UNCHANGED <<active, status, answer, registry, parts, calls, cpc, faults, history>>

(* The provider's SSE stream is open: it may deliver text, end (with or    *)
(* without a finish reason, which nothing checks) or break.                *)
Streaming(q) == pc[q] = "calling" /\ ModeOf[q] = "streaming"

(* The provider works on one completion request. *)
Completing(q) == pc[q] = "calling" /\ ModeOf[q] = "buffered"

(* A text delta arrives and is yielded, unless inspect_output reports the  *)
(* text so far.                                                            *)
Delta(q, finding) ==
  /\ Streaming(q)
  /\ IF finding
     THEN Conclude(q, "failed", {}) /\ UNCHANGED parts
     ELSE UNCHANGED <<pc, out>> /\ parts' = [parts EXCEPT ![q] = @ \cup {attempt[q]}]
  /\ UNCHANGED <<active, status, answer, registry, attempt, gateway, cpc, faults, history>>

CircuitReset == failures' = 0 /\ opened' = FALSE

(* The provider stream ends: without any text the run has failed. *)
StreamEnds(q) ==
  /\ Streaming(q)
  /\ CircuitReset
  /\ IF parts[q] = {} THEN Conclude(q, "failed", {}) ELSE Goto(q, "gate")
  /\ UNCHANGED <<active, status, answer, registry, locals, calls, cpc, faults, history>>

(* complete() returns a response and inspect_output looks at it. *)
Reply(q, finding) ==
  /\ Completing(q)
  /\ CircuitReset
  /\ IF finding
     THEN Conclude(q, "refusal", {}) /\ UNCHANGED parts
     ELSE Goto(q, "gate") /\ parts' = [parts EXCEPT ![q] = {attempt[q]}]
  /\ UNCHANGED <<active, status, answer, registry, attempt, calls, cpc, faults, history>>

(* Mutant: a failed attempt is retried after text was sent. *)
ProviderFailsRetryAlways(q) ==
  /\ pc[q] = "calling"
  /\ failures' = failures + 1
  /\ opened' = (opened \/ failures' >= FailureThreshold)
  /\ IF attempt[q] < Retries
     THEN attempt' = [attempt EXCEPT ![q] = @ + 1] /\ UNCHANGED <<pc, out>>
     ELSE ModelRaises(q) /\ UNCHANGED attempt
  /\ UNCHANGED <<active, status, answer, registry, parts, calls, cpc, faults, history>>

(* The provider fails or times out: retried while nothing has been sent,   *)
(* counted by the circuit, raised when the attempts are used up.           *)
ProviderFails(q) ==
  /\ pc[q] = "calling"
  /\ IF parts[q] # {}
     THEN ModelRaises(q) /\ UNCHANGED <<attempt, failures, opened>>
     ELSE /\ failures' = failures + 1
          /\ opened' = (opened \/ failures' >= FailureThreshold)
          /\ IF attempt[q] < Retries
             THEN attempt' = [attempt EXCEPT ![q] = @ + 1] /\ UNCHANGED <<pc, out>>
             ELSE ModelRaises(q) /\ UNCHANGED attempt
  /\ UNCHANGED <<active, status, answer, registry, parts, calls, cpc, faults, history>>

(* complete() raises an error it does not retry (a malformed response). *)
ReplyMalformed(q) ==
  /\ Completing(q)
  /\ ModelRaises(q)
  /\ UNCHANGED <<active, status, answer, registry, locals, gateway, cpc, faults, history>>

(* The oldest timestamp leaves the one-minute window. *)
WindowSlides ==
  /\ calls > 0
  /\ calls' = calls - 1
  /\ UNCHANGED <<active, status, answer, registry, pc, locals, out, failures, opened, cpc, faults, history>>

(* _wait_for_cancel wins: QueryCancelled is caught by the streaming branch *)
(* like any other error, and by the outer handler in the buffered one.     *)
CancelWait(q) ==
  /\ pc[q] \in {"queued", "calling"}
  /\ Signalled(q)
  /\ IF ModeOf[q] = "streaming" THEN Conclude(q, "failed", {}) ELSE Goto(q, "cancelling")
  /\ UNCHANGED <<active, status, answer, registry, locals, gateway, cpc, faults, history>>

-----------------------------------------------------------------------------
(* Mutant: the event is not looked at before the answer is written. *)
GateOpen(q) ==
  /\ pc[q] = "gate"
  /\ Goto(q, "validating")
  /\ UNCHANGED <<active, status, answer, registry, locals, gateway, cpc, faults, history>>

(* Last check of the cancel event. *)
Gate(q) ==
  /\ pc[q] = "gate"
  /\ Goto(q, IF Signalled(q) THEN "cancelling" ELSE "validating")
  /\ UNCHANGED <<active, status, answer, registry, locals, gateway, cpc, faults, history>>

(* Mutant: only undegraded answers are validated. *)
ValidateSuccess(q) ==
  /\ pc[q] = "validating"
  /\ pc' = [pc EXCEPT ![q] = "committing"]
  /\ out' = IF out[q].status # "success" \/ out[q].cites \subseteq active THEN out
            ELSE [out EXCEPT ![q] = [status |-> "failed", cites |-> {}]]
  /\ UNCHANGED <<active, status, answer, registry, locals, gateway, cpc, faults, history>>

(* _post_generation_validate: every cited chunk must still be active. *)
Validate(q) ==
  /\ pc[q] = "validating"
  /\ pc' = [pc EXCEPT ![q] = "committing"]
  /\ out' = IF out[q].cites \subseteq active THEN out
            ELSE [out EXCEPT ![q] = [status |-> "failed", cites |-> {}]]
  /\ UNCHANGED <<active, status, answer, registry, locals, gateway, cpc, faults, history>>

(* The second transaction: answer, citations, assistant message and status. *)
SettleRows(q) ==
  /\ status' = [status EXCEPT ![q] = out[q].status]
  /\ answer' = IF out[q].status = "failed" THEN answer
               ELSE [answer EXCEPT ![q] = {[status |-> out[q].status, cites |-> out[q].cites]}]

Commit(q) ==
  /\ pc[q] = "committing"
  /\ SettleRows(q)
  /\ Goto(q, "after")
  /\ UNCHANGED <<active, registry, locals, gateway, cpc, faults, history>>

(* commit() raises; the rows may have been written all the same. *)
CommitRaises(q) ==
  /\ pc[q] = "committing"
  /\ faults < MaxFaults
  /\ faults' = faults + 1
  /\ SettleRows(q) \/ UNCHANGED <<status, answer>>
  /\ Goto(q, "failing")
  /\ UNCHANGED <<active, registry, locals, gateway, cpc, history>>

(* Mutants: a cancelled run keeps its status; a failed run loses its answer. *)
AbortSilently(q) ==
  /\ pc[q] \in {"cancelling", "failing"}
  /\ status' = IF pc[q] = "failing" THEN [status EXCEPT ![q] = "failed"] ELSE status
  /\ Goto(q, "after")
  /\ UNCHANGED <<active, answer, registry, locals, gateway, cpc, faults, history>>

AbortErasing(q) ==
  /\ pc[q] \in {"cancelling", "failing"}
  /\ status' = [status EXCEPT ![q] = IF pc[q] = "cancelling" THEN "cancelled" ELSE "failed"]
  /\ answer' = [answer EXCEPT ![q] = {}]
  /\ Goto(q, "after")
  /\ UNCHANGED <<active, registry, locals, gateway, cpc, faults, history>>

(* The except clauses: the status is written over whatever the row holds. *)
Abort(q) ==
  /\ pc[q] \in {"cancelling", "failing"}
  /\ status' = [status EXCEPT ![q] = IF pc[q] = "cancelling" THEN "cancelled" ELSE "failed"]
  /\ Goto(q, "after")
  /\ UNCHANGED <<active, answer, registry, locals, gateway, cpc, faults, history>>

(* The generator ends: the finally clause discards the event, and the      *)
(* frame of execute_stream is freed.                                       *)
Close(q) ==
  /\ pc' = [pc EXCEPT ![q] = "done"]
  /\ registry' = [registry EXCEPT ![q] = "absent"]
  /\ parts' = [parts EXCEPT ![q] = {}]
  /\ attempt' = [attempt EXCEPT ![q] = 0]
  /\ out' = [out EXCEPT ![q] = [status |-> "failed", cites |-> {}]]

(* The terminal event has been sent. *)
Finish(q) ==
  /\ pc[q] = "after"
  /\ Close(q)
  /\ UNCHANGED <<active, status, answer, gateway, cpc, faults, history>>

(* The generator is suspended at a yield. *)
AtYield(q) ==
  \/ pc[q] \in {"begun", "after"}
  \/ pc[q] = "gate" /\ out[q].status # "failed"
  \/ Streaming(q) /\ parts[q] # {}

(* The endpoint finds the client gone when it receives an event: it signals *)
(* the run, writes "cancelled" if its copy of the row is open, and returns; *)
(* the generator is closed and only its finally clause runs.                *)
Disconnect(q) ==
  /\ AtYield(q)
  /\ faults < MaxFaults
  /\ faults' = faults + 1
  /\ status' = IF pc[q] = "after" THEN status ELSE [status EXCEPT ![q] = "cancelled"]
  /\ Close(q)
  /\ UNCHANGED <<active, answer, gateway, cpc, history>>

(* The task is cancelled.  At an await CancelledError reaches its handler, *)
(* at a yield the generator is closed; the handler's own commit may be cut *)
(* short as well, and a commit in flight may or may not have happened.     *)
Abandon(q) ==
  /\ pc[q] \notin {"idle", "done"}
  /\ faults < MaxFaults
  /\ faults' = faults + 1
  /\ IF pc[q] = "committing" THEN SettleRows(q) \/ UNCHANGED <<status, answer>>
     ELSE UNCHANGED <<status, answer>>
  /\ \/ /\ ~AtYield(q) /\ pc[q] \notin {"cancelling", "failing"}
        /\ Goto(q, "cancelling")
        /\ UNCHANGED <<registry, locals, lost>>
     \/ /\ Close(q)
        /\ lost' = IF status'[q] = "open" THEN lost \cup {q} ELSE lost
  /\ UNCHANGED <<active, gateway, cpc, stopped, stale>>

-----------------------------------------------------------------------------
(* cancel_query: read the row; if it is open, set the event of this        *)
(* process (registering one if there is none) ...                          *)
CancelRead(c) ==
  LET q == TargetOf[c]
  IN /\ cpc[c] = "idle"
     /\ status[q] # "none"
     /\ cpc' = [cpc EXCEPT ![c] = IF status[q] = "open" THEN "read" ELSE "done"]
     /\ IF status[q] = "open" /\ c \notin Remote
        THEN /\ registry' = [registry EXCEPT ![q] = "set"]
             /\ stopped' = IF pc[q] \in BeforeGate THEN stopped \cup {q} ELSE stopped
        ELSE UNCHANGED <<registry, stopped>>
     /\ UNCHANGED <<active, status, answer, pc, locals, out, gateway, faults, stale, lost>>

(* ... and commit "cancelled", in a session that does not look again. *)
CancelWrite(c) ==
  /\ cpc[c] = "read"
  /\ cpc' = [cpc EXCEPT ![c] = "done"]
  /\ status' = [status EXCEPT ![TargetOf[c]] = "cancelled"]
  /\ UNCHANGED <<active, answer, registry, pc, locals, out, gateway, faults, history>>

(* A publication, rollback or deletion retires a chunk. *)
Retire(k) ==
  /\ k \in active
  /\ active' = active \ {k}
  /\ stale' = [q \in Runs |-> IF pc[q] \in BeforeGate \cup {"validating"} THEN stale[q] \cup ({k} \cap out[q].cites)
                              ELSE stale[q]]
  /\ UNCHANGED <<status, answer, registry, pc, locals, out, gateway, cpc, faults, stopped, lost>>

-----------------------------------------------------------------------------
(* What the code of a run does by itself. *)
Step(q) ==
  \/ \E f \in BOOLEAN : Begin(q, f)
  \/ \E E \in SUBSET active, x \in BOOLEAN, g \in {"success", "degraded"} : Retrieve(q, E, x, g)
  \/ RetrieveRaises(q)
  \/ Ask(q)
  \/ \E r \in BOOLEAN : Acquire(q, r)
  \/ \E f \in BOOLEAN : Delta(q, f)
  \/ StreamEnds(q)
  \/ \E f \in BOOLEAN : Reply(q, f)
  \/ ProviderFails(q)
  \/ ReplyMalformed(q)
  \/ CancelWait(q)
  \/ Gate(q)
  \/ Validate(q)
  \/ Commit(q)
  \/ Abort(q)
  \/ Finish(q)

Next ==
  \/ \E q \in Runs :
       \/ Admit(q)
       \/ Refuse(q)
       \/ Step(q)
       \/ CommitRaises(q)
       \/ Disconnect(q)
       \/ Abandon(q)
  \/ \E c \in Cancels : CancelRead(c) \/ CancelWrite(c)
  \/ \E k \in Retirable : Retire(k)
  \/ WindowSlides

Spec == Init /\ [][Next]_vars

(* The event loop runs every task that can go on, and a provider answers,  *)
(* fails or times out; nothing is assumed of clients and cancel requests.  *)
Fairness == \A q \in Runs : WF_vars(Step(q))

FairSpec == Spec /\ Fairness
-----------------------------------------------------------------------------
(* Type invariant of the rows, the registry, the gateway and each run. *)
TypeOK ==
  /\ active \subseteq Chunks
  /\ status \in [Runs -> {"none", "open"} \cup Terminal]
  /\ answer \in [Runs -> SUBSET Answers]
  /\ registry \in [Runs -> {"absent", "clear", "set"}]
  /\ pc \in [Runs -> BeforeGate \cup {"idle", "validating", "committing", "cancelling", "failing", "after", "done"}]
  /\ out \in [Runs -> Outcomes]
  /\ parts \in [Runs -> SUBSET (0 .. Retries)]
  /\ attempt \in [Runs -> 0 .. Retries]
  /\ calls \in 0 .. RatePerMinute
  /\ failures \in Nat /\ opened \in BOOLEAN
  /\ cpc \in [Cancels -> {"idle", "read", "done"}]
  /\ faults \in 0 .. MaxFaults
  /\ stopped \subseteq Runs /\ stale \in [Runs -> SUBSET Chunks] /\ lost \subseteq Runs

(* A run whose cancel event was set before its last check of that event    *)
(* never gets an answer row, whichever branch it was in: the streaming     *)
(* branch swallows QueryCancelled, and the gate catches it.                *)
StoppedUnanswered == \A q \in stopped : answer[q] = {}

(* An answer cites no chunk that was retired between the retrieval that    *)
(* found it and the validation after generation.                           *)
EvidenceHeld == \A q \in Runs : \A a \in answer[q] : a.cites \cap stale[q] = {}

(* The text of an answer comes from one provider attempt: what the client  *)
(* has already read is never followed by the text of a retry.              *)
OneAttemptPerAnswer ==
  \A q \in Runs : \A i, j \in parts[q] : i = j

(* A run that reads as answered has exactly the answer its status claims,  *)
(* although cancel requests, handlers and lost commits write the status    *)
(* without looking at it.                                                  *)
PublishedHasAnswer ==
  \A q \in Runs : status[q] \in Published => \E a \in answer[q] : a.status = status[q]

(* The circuit is open exactly when the threshold has been reached since   *)
(* it was last reset, whichever of the concurrent calls counted, reset or  *)
(* recovered it.                                                           *)
CircuitConsistent == opened <=> failures >= FailureThreshold

(* Every accepted run gets a terminal status, unless its task was          *)
(* abandoned at a point where execute_stream writes none.                  *)
RunEnds == \A q \in Runs : (status[q] = "open") ~> (status[q] # "open" \/ q \in lost)

(* The terminal status of a run is written by one actor and stays. *)
OneTerminalStatus ==
  [][\A q \in Runs : status[q] \in Terminal => status'[q] = status[q]]_vars

(* Runs implement the ledger: one answer, written with the status that     *)
(* announces it.                                                           *)
Ledger == INSTANCE AnswerLedger WITH
  Closed <- {"failed", "cancelled"},
  opened <- {q \in Runs : status[q] # "none"},
  answered <- {q \in Runs : answer[q] # {}},
  announced <- [q \in Runs |-> IF status[q] = "none" THEN "open" ELSE status[q]]
ImplementsLedger == Ledger!Spec
=============================================================================
