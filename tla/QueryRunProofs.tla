--------------------------- MODULE QueryRunProofs ---------------------------
(***************************************************************************)
(* Query runs for any number of runs, chunks, cancel requests and faults.  *)
(* None of the properties is inductive.  They rest on the one-way course   *)
(* of a run (an answer exists only where the run has settled, "Course"),   *)
(* on the signal staying up until the gate ("Stopping"), on what the       *)
(* outcome of a validated run may cite ("Evidence") and on which attempt   *)
(* the text belongs to ("Text").                                           *)
(***************************************************************************)
EXTENDS QueryRun, TLAPS

Late == {"cancelling", "failing", "after", "done"}
PcValues == BeforeGate \cup Late \cup {"idle", "validating", "committing"}

(* A run under way has its row, an answer belongs to a settled run, and a  *)
(* cancel request about to write has seen the row.                         *)
Course ==
  /\ \A q \in Runs : pc[q] \notin {"idle", "done"} => status[q] # "none"
  /\ \A q \in Runs : pc[q] = "idle" => status[q] = "none"
  /\ \A q \in Runs : answer[q] # {} => pc[q] \in Late /\ status[q] # "none"
  /\ \A c \in Cancels : cpc[c] = "read" => status[TargetOf[c]] # "none"

(* A signalled run keeps its signal until a check sees it, and it never    *)
(* gets past the gate.                                                     *)
Stopping ==
  \A q \in stopped :
    /\ answer[q] = {}
    /\ pc[q] \in BeforeGate \cup Late
    /\ pc[q] \in BeforeGate => registry[q] = "set"

(* Retired chunks are not active, and a validated outcome cites none. *)
Evidence ==
  \A q \in Runs :
    /\ stale[q] \cap active = {}
    /\ pc[q] = "committing" => out[q].cites \cap stale[q] = {}
    /\ \A a \in answer[q] : a.cites \cap stale[q] = {}

(* Text appears only during a call, and it is the current attempt's. *)
Text ==
  \A q \in Runs :
    /\ pc[q] \in {"idle", "begun", "retrieving", "asking", "queued"} => parts[q] = {}
    /\ pc[q] = "calling" => parts[q] \subseteq {attempt[q]}
    /\ \A i, j \in parts[q] : i = j

Inv ==
  /\ TypeOK /\ Course /\ Stopping /\ Evidence /\ Text
  /\ PublishedHasAnswer /\ CircuitConsistent

LEMMA InitInv == Init => Inv
<1> SUFFICES ASSUME Init PROVE Inv
  OBVIOUS
<1> USE QueryAssumption DEF Init
<1>1. [status |-> "failed", cites |-> {}] \in Outcomes
  BY DEF Outcomes
<1>2. TypeOK
  <2>1. 0 \in 0 .. Retries /\ 0 \in 0 .. RatePerMinute /\ 0 \in 0 .. MaxFaults
    OBVIOUS
  <2>. QED  BY <1>1, <2>1 DEF TypeOK, BeforeGate, Terminal
<1>3. Course /\ Stopping /\ Text /\ CircuitConsistent
  BY DEF Course, Stopping, Text, CircuitConsistent
<1>4. Evidence /\ PublishedHasAnswer
  BY DEF Evidence, PublishedHasAnswer, Published
<1>. QED  BY <1>2, <1>3, <1>4 DEF Inv

(* Where the outcome of a run and its position may go. *)
OutTyped == out \in [Runs -> Outcomes] /\ pc \in [Runs -> PcValues]

LEMMA GotoType ==
  ASSUME TypeOK, NEW q \in Runs, NEW label \in PcValues, Goto(q, label)
  PROVE  OutTyped'
BY DEF TypeOK, Goto, OutTyped, PcValues, BeforeGate, Late

LEMMA ConcludeType ==
  ASSUME TypeOK, NEW q \in Runs, NEW s \in Published \cup {"failed"}, NEW C \in SUBSET Chunks,
         Conclude(q, s, C)
  PROVE  OutTyped'
<1>1. [status |-> s, cites |-> C] \in Outcomes
  BY DEF Outcomes
<1>. QED  BY <1>1 DEF TypeOK, Conclude, OutTyped, PcValues, BeforeGate, Late

LEMMA ModelRaisesType ==
  ASSUME TypeOK, NEW q \in Runs, ModelRaises(q)
  PROVE  OutTyped'
<1>1. {} \in SUBSET Chunks /\ "failed" \in Published \cup {"failed"} /\ "failing" \in PcValues
  BY DEF PcValues, Late
<1>. QED  BY <1>1, GotoType, ConcludeType DEF ModelRaises

(* What settling the rows of a run writes. *)
LEMMA SettleType ==
  ASSUME TypeOK, NEW q \in Runs, SettleRows(q) \/ UNCHANGED <<status, answer>>
  PROVE  /\ status' \in [Runs -> {"none", "open"} \cup Terminal]
         /\ answer' \in [Runs -> SUBSET Answers]
<1>1. out[q].status \in Published \cup {"failed"} /\ out[q].cites \in SUBSET Chunks
  BY DEF TypeOK, Outcomes
<1>2. out[q].status # "failed" => [status |-> out[q].status, cites |-> out[q].cites] \in Answers
  BY <1>1 DEF Answers
<1>. QED  BY <1>1, <1>2 DEF TypeOK, SettleRows, Terminal

(* Every step keeps the shape of the state. *)
LEMMA TypeStep == Inv /\ [Next]_vars => TypeOK'
<1> SUFFICES ASSUME Inv, [Next]_vars
             PROVE  TypeOK'
  OBVIOUS
<1> USE QueryAssumption DEF Inv, vars, locals, gateway, history, TypeOK, OutTyped, PcValues, BeforeGate, Late
<1>1. CASE \E q \in Runs : Admit(q) \/ Refuse(q) \/ Step(q) \/ CommitRaises(q) \/ Disconnect(q) \/ Abandon(q)
  <2> SUFFICES ASSUME NEW q \in Runs,
                      Admit(q) \/ Refuse(q) \/ Step(q) \/ CommitRaises(q) \/ Disconnect(q) \/ Abandon(q)
               PROVE  TypeOK'
    BY <1>1
  <2>0. /\ {"begun", "retrieving", "asking", "queued", "calling", "gate", "validating"} \subseteq PcValues
        /\ {"committing", "cancelling", "failing", "after", "done"} \subseteq PcValues
        /\ {} \in SUBSET Chunks
        /\ {"success", "degraded", "refusal", "failed"} \subseteq Published \cup {"failed"}
    BY DEF Published
  <2>1. CASE Admit(q)
    BY <2>1 DEF Admit, Terminal
  <2>2. CASE Refuse(q)
    BY <2>2 DEF Refuse
  <2>3. CASE \E f \in BOOLEAN : Begin(q, f)
    BY <2>3, <2>0, GotoType, ConcludeType DEF Begin, Signalled
  <2>4. CASE \E E \in SUBSET active, x \in BOOLEAN, g \in {"success", "degraded"} : Retrieve(q, E, x, g)
    <3> SUFFICES ASSUME NEW E \in SUBSET active, NEW x \in BOOLEAN, NEW g \in {"success", "degraded"},
                        Retrieve(q, E, x, g)
                 PROVE  TypeOK'
      BY <2>4
    <3>1. E \ Unsafe \in SUBSET Chunks /\ g \in Published
      BY DEF TypeOK, Published
    <3>2. [status |-> g, cites |-> E \ Unsafe] \in Outcomes
      BY <3>1 DEF Outcomes
    <3>3. OutTyped'
      <4>1. CASE Signalled(q)  BY <4>1, <2>0, GotoType DEF Retrieve
      <4>2. CASE ~Signalled(q) /\ E \subseteq Unsafe  BY <4>2, <2>0, ConcludeType DEF Retrieve
      <4>3. CASE ~Signalled(q) /\ ~(E \subseteq Unsafe) /\ x  BY <4>3, <2>0, <3>1, ConcludeType DEF Retrieve
      <4>4. CASE ~Signalled(q) /\ ~(E \subseteq Unsafe) /\ ~x
        <5>1. /\ out' = [out EXCEPT ![q] = [status |-> g, cites |-> E \ Unsafe]]
              /\ pc' = [pc EXCEPT ![q] = "asking"]
          BY <4>4 DEF Retrieve
        <5>. QED  BY <5>1, <3>2
      <4>. QED  BY <4>1, <4>2, <4>3, <4>4
    <3>. QED  BY <3>3 DEF Retrieve
  <2>5. CASE RetrieveRaises(q)
    BY <2>5, <2>0, GotoType DEF RetrieveRaises
  <2>6. CASE Ask(q)
    BY <2>6, <2>0, GotoType, ModelRaisesType DEF Ask
  <2>7. CASE \E r \in BOOLEAN : Acquire(q, r)
    BY <2>7, <2>0, GotoType, ModelRaisesType DEF Acquire
  <2>8. CASE \E f \in BOOLEAN : Delta(q, f)
    <3>1. /\ parts' \in [Runs -> SUBSET (0 .. Retries)]
          /\ UNCHANGED <<active, status, answer, registry, attempt, gateway, cpc, faults, history>>
      BY <2>8 DEF Delta
    <3>2. PICK f \in BOOLEAN : Delta(q, f)
      BY <2>8
    <3>3. OutTyped'
      <4>1. CASE f   BY <3>2, <4>1, <2>0, ConcludeType DEF Delta
      <4>2. CASE ~f  BY <3>2, <4>2, GotoType DEF Delta, Goto, OutTyped, Streaming
      <4>. QED  BY <4>1, <4>2
    <3>. QED  BY <3>1, <3>3
  <2>9. CASE StreamEnds(q)
    BY <2>9, <2>0, GotoType, ConcludeType DEF StreamEnds, Streaming, CircuitReset
  <2>10. CASE \E f \in BOOLEAN : Reply(q, f)
    <3>1. /\ parts' \in [Runs -> SUBSET (0 .. Retries)]
          /\ failures' = 0 /\ opened' = FALSE
          /\ UNCHANGED <<active, status, answer, registry, attempt, calls, cpc, faults, history>>
      BY <2>10 DEF Reply, CircuitReset
    <3>2. OutTyped'
      BY <2>10, <2>0, GotoType, ConcludeType DEF Reply
    <3>. QED  BY <3>1, <3>2
  <2>11. CASE ProviderFails(q)
    <3>1. attempt' \in [Runs -> 0 .. Retries]
      BY <2>11 DEF ProviderFails
    <3>2. failures' \in Nat
      BY <2>11 DEF ProviderFails
    <3>5. opened' \in BOOLEAN
      <4>1. opened' = opened \/ opened' = (opened \/ failures' >= FailureThreshold)
        BY <2>11 DEF ProviderFails
      <4>. QED  BY <4>1, Zenon
    <3>3. OutTyped'
      BY <2>11, ModelRaisesType DEF ProviderFails
    <3>4. UNCHANGED <<active, status, answer, registry, parts, calls, cpc, faults, history>>
      BY <2>11 DEF ProviderFails
    <3>. QED  BY <3>1, <3>2, <3>3, <3>4, <3>5
  <2>12. CASE ReplyMalformed(q)
    BY <2>12, <2>0, ModelRaisesType DEF ReplyMalformed, Completing
  <2>13. CASE CancelWait(q)
    BY <2>13, <2>0, GotoType, ConcludeType DEF CancelWait
  <2>14. CASE Gate(q)
    BY <2>14, <2>0, GotoType DEF Gate
  <2>15. CASE Validate(q)
    <3>1. [status |-> "failed", cites |-> {}] \in Outcomes
      BY DEF Outcomes
    <3>. QED  BY <2>15, <3>1 DEF Validate
  <2>16. CASE Commit(q)
    BY <2>16, <2>0, GotoType, SettleType DEF Commit
  <2>17. CASE Abort(q)
    BY <2>17, <2>0, GotoType DEF Abort, Terminal
  <2>18. CASE Finish(q)
    <3>1. [status |-> "failed", cites |-> {}] \in Outcomes
      BY DEF Outcomes
    <3>. QED  BY <2>18, <3>1 DEF Finish, Close
  <2>19. CASE CommitRaises(q)
    BY <2>19, <2>0, GotoType, SettleType DEF CommitRaises
  <2>20. CASE Disconnect(q)
    <3>1. [status |-> "failed", cites |-> {}] \in Outcomes
      BY DEF Outcomes
    <3>. QED  BY <2>20, <3>1 DEF Disconnect, Close, Terminal
  <2>21. CASE Abandon(q)
    <3>1. [status |-> "failed", cites |-> {}] \in Outcomes
      BY DEF Outcomes
    <3>2. SettleRows(q) \/ UNCHANGED <<status, answer>>
      BY <2>21 DEF Abandon
    <3>3. CASE Goto(q, "cancelling") /\ UNCHANGED <<registry, locals, lost>>
      BY <2>21, <2>0, <3>2, <3>3, GotoType, SettleType DEF Abandon
    <3>4. CASE Close(q) /\ lost' = IF status'[q] = "open" THEN lost \cup {q} ELSE lost
      BY <2>21, <3>1, <3>2, <3>4, SettleType DEF Abandon, Close
    <3>. QED  BY <2>21, <3>3, <3>4 DEF Abandon
  <2>. QED  BY <2>1, <2>2, <2>3, <2>4, <2>5, <2>6, <2>7, <2>8, <2>9, <2>10, <2>11, <2>12, <2>13, <2>14, <2>15, <2>16, <2>17, <2>18, <2>19, <2>20, <2>21 DEF Step
<1>2. CASE \E c \in Cancels : CancelRead(c)
  BY <1>2 DEF CancelRead
<1>3. CASE \E c \in Cancels : CancelWrite(c)
  BY <1>3 DEF CancelWrite, Terminal
<1>4. CASE \E k \in Retirable : Retire(k)
  BY <1>4 DEF Retire
<1>5. CASE WindowSlides
  BY <1>5 DEF WindowSlides
<1>6. CASE UNCHANGED vars
  BY <1>6
<1>. QED  BY <1>1, <1>2, <1>3, <1>4, <1>5, <1>6 DEF Next

(* Every step keeps the course of the runs. *)
LEMMA CourseStep == Inv /\ [Next]_vars => Course'
<1> SUFFICES ASSUME Inv, [Next]_vars
             PROVE  Course'
  OBVIOUS
<1> USE QueryAssumption DEF Inv, vars, locals, gateway, history, TypeOK, Course, BeforeGate, Late
<1>0. \A q \in Runs : out[q].status \in {"success", "degraded", "refusal", "failed"}
  BY DEF Outcomes, Published
<1>1. CASE \E q \in Runs : Admit(q) \/ Refuse(q) \/ Step(q) \/ CommitRaises(q) \/ Disconnect(q) \/ Abandon(q)
  <2> SUFFICES ASSUME NEW q \in Runs,
                      Admit(q) \/ Refuse(q) \/ Step(q) \/ CommitRaises(q) \/ Disconnect(q) \/ Abandon(q)
               PROVE  Course'
    BY <1>1
  <2>1. CASE Admit(q)
    BY <2>1 DEF Admit
  <2>2. CASE Refuse(q)
    BY <2>2 DEF Refuse
  <2>3. CASE \E f \in BOOLEAN : Begin(q, f)
    BY <2>3 DEF Begin, Goto, Conclude, Signalled
  <2>4. CASE \E E \in SUBSET active, x \in BOOLEAN, g \in {"success", "degraded"} : Retrieve(q, E, x, g)
    BY <2>4 DEF Retrieve, MayReturn, Goto, Conclude, Signalled
  <2>5. CASE RetrieveRaises(q)
    BY <2>5 DEF RetrieveRaises, Goto
  <2>6. CASE Ask(q)
    BY <2>6 DEF Ask, ModelRaises, Goto, Conclude
  <2>7. CASE \E r \in BOOLEAN : Acquire(q, r)
    BY <2>7 DEF Acquire, ModelRaises, Goto, Conclude
  <2>8. CASE \E f \in BOOLEAN : Delta(q, f)
    BY <2>8 DEF Delta, Streaming, Conclude
  <2>9. CASE StreamEnds(q)
    BY <2>9 DEF StreamEnds, Streaming, CircuitReset, Goto, Conclude
  <2>10. CASE \E f \in BOOLEAN : Reply(q, f)
    BY <2>10 DEF Reply, Completing, CircuitReset, Goto, Conclude
  <2>11. CASE ProviderFails(q)
    BY <2>11 DEF ProviderFails, ModelRaises, Goto, Conclude
  <2>12. CASE ReplyMalformed(q)
    BY <2>12 DEF ReplyMalformed, Completing, ModelRaises, Goto, Conclude
  <2>13. CASE CancelWait(q)
    BY <2>13 DEF CancelWait, Goto, Conclude
  <2>14. CASE Gate(q)
    BY <2>14 DEF Gate, Goto, Signalled
  <2>15. CASE Validate(q)
    BY <2>15 DEF Validate
  <2>16. CASE Commit(q)
    BY <1>0, <2>16 DEF Commit, SettleRows, Goto
  <2>17. CASE Abort(q)
    BY <2>17 DEF Abort, Goto
  <2>18. CASE Finish(q)
    BY <2>18 DEF Finish, Close
  <2>19. CASE CommitRaises(q)
    BY <1>0, <2>19 DEF CommitRaises, SettleRows, Goto
  <2>20. CASE Disconnect(q)
    BY <2>20 DEF Disconnect, Close, AtYield, Streaming
  <2>21. CASE Abandon(q)
    <3>1. SettleRows(q) \/ UNCHANGED <<status, answer>>
      BY <2>21 DEF Abandon
    <3>2. SettleRows(q) => pc[q] = "committing" \/ UNCHANGED <<status, answer>>
      BY <2>21 DEF Abandon
    <3>3. pc' = [pc EXCEPT ![q] = "cancelling"] \/ pc' = [pc EXCEPT ![q] = "done"]
      BY <2>21 DEF Abandon, Goto, Close
    <3>4. pc[q] \notin {"idle", "done"} /\ UNCHANGED cpc
      BY <2>21 DEF Abandon
    <3>5. \A p \in Runs : status'[p] # "none" <=> status[p] # "none"
      BY <1>0, <3>1, <3>4 DEF SettleRows
    <3>6. \A p \in Runs : p # q => answer'[p] = answer[p] /\ pc'[p] = pc[p]
      BY <3>1, <3>3 DEF SettleRows
    <3>. QED  BY <3>3, <3>4, <3>5, <3>6
  <2>. QED  BY <2>1, <2>2, <2>3, <2>4, <2>5, <2>6, <2>7, <2>8, <2>9, <2>10, <2>11, <2>12, <2>13, <2>14, <2>15, <2>16, <2>17, <2>18, <2>19, <2>20, <2>21 DEF Step
<1>2. CASE \E c \in Cancels : CancelRead(c)
  BY <1>2 DEF CancelRead
<1>3. CASE \E c \in Cancels : CancelWrite(c)
  BY <1>3 DEF CancelWrite
<1>4. CASE \E k \in Retirable : Retire(k)
  BY <1>4 DEF Retire
<1>5. CASE WindowSlides
  BY <1>5 DEF WindowSlides
<1>6. CASE UNCHANGED vars
  BY <1>6
<1>. QED  BY <1>1, <1>2, <1>3, <1>4, <1>5, <1>6 DEF Next

(* Every step keeps signalled runs on the way to an end without an answer. *)
LEMMA StoppingStep == Inv /\ [Next]_vars => Stopping'
<1> SUFFICES ASSUME Inv, [Next]_vars
             PROVE  Stopping'
  OBVIOUS
<1> USE QueryAssumption DEF Inv, vars, locals, gateway, history, TypeOK, Course, Stopping, BeforeGate, Late
<1>1. CASE \E q \in Runs : Admit(q) \/ Refuse(q) \/ Step(q) \/ CommitRaises(q) \/ Disconnect(q) \/ Abandon(q)
  <2> SUFFICES ASSUME NEW q \in Runs,
                      Admit(q) \/ Refuse(q) \/ Step(q) \/ CommitRaises(q) \/ Disconnect(q) \/ Abandon(q)
               PROVE  Stopping'
    BY <1>1
  <2>1. CASE Admit(q)
    BY <2>1 DEF Admit
  <2>2. CASE Refuse(q)
    BY <2>2 DEF Refuse
  <2>3. CASE \E f \in BOOLEAN : Begin(q, f)
    BY <2>3 DEF Begin, Goto, Conclude, Signalled
  <2>4. CASE \E E \in SUBSET active, x \in BOOLEAN, g \in {"success", "degraded"} : Retrieve(q, E, x, g)
    BY <2>4 DEF Retrieve, MayReturn, Goto, Conclude, Signalled
  <2>5. CASE RetrieveRaises(q)
    BY <2>5 DEF RetrieveRaises, Goto
  <2>6. CASE Ask(q)
    BY <2>6 DEF Ask, ModelRaises, Goto, Conclude
  <2>7. CASE \E r \in BOOLEAN : Acquire(q, r)
    BY <2>7 DEF Acquire, ModelRaises, Goto, Conclude
  <2>8. CASE \E f \in BOOLEAN : Delta(q, f)
    BY <2>8 DEF Delta, Streaming, Conclude
  <2>9. CASE StreamEnds(q)
    BY <2>9 DEF StreamEnds, Streaming, CircuitReset, Goto, Conclude
  <2>10. CASE \E f \in BOOLEAN : Reply(q, f)
    BY <2>10 DEF Reply, Completing, CircuitReset, Goto, Conclude
  <2>11. CASE ProviderFails(q)
    BY <2>11 DEF ProviderFails, ModelRaises, Goto, Conclude
  <2>12. CASE ReplyMalformed(q)
    BY <2>12 DEF ReplyMalformed, Completing, ModelRaises, Goto, Conclude
  <2>13. CASE CancelWait(q)
    BY <2>13 DEF CancelWait, Goto, Conclude
  <2>14. CASE Gate(q)
    BY <2>14 DEF Gate, Goto, Signalled
  <2>15. CASE Validate(q)
    BY <2>15 DEF Validate
  <2>16. CASE Commit(q)
    BY <2>16 DEF Commit, SettleRows, Goto
  <2>17. CASE Abort(q)
    BY <2>17 DEF Abort, Goto
  <2>18. CASE Finish(q)
    BY <2>18 DEF Finish, Close
  <2>19. CASE CommitRaises(q)
    BY <2>19 DEF CommitRaises, SettleRows, Goto
  <2>20. CASE Disconnect(q)
    BY <2>20 DEF Disconnect, Close, AtYield, Streaming
  <2>21. CASE Abandon(q)
    BY <2>21 DEF Abandon, AtYield, Streaming, SettleRows, Goto, Close
  <2>. QED  BY <2>1, <2>2, <2>3, <2>4, <2>5, <2>6, <2>7, <2>8, <2>9, <2>10, <2>11, <2>12, <2>13, <2>14, <2>15, <2>16, <2>17, <2>18, <2>19, <2>20, <2>21 DEF Step
<1>2. CASE \E c \in Cancels : CancelRead(c)
  BY <1>2 DEF CancelRead
<1>3. CASE \E c \in Cancels : CancelWrite(c)
  BY <1>3 DEF CancelWrite
<1>4. CASE \E k \in Retirable : Retire(k)
  BY <1>4 DEF Retire
<1>5. CASE WindowSlides
  BY <1>5 DEF WindowSlides
<1>6. CASE UNCHANGED vars
  BY <1>6
<1>. QED  BY <1>1, <1>2, <1>3, <1>4, <1>5, <1>6 DEF Next

(* A run that moves without reaching its commit disturbs no evidence. *)
LEMMA QuietEvidence ==
  ASSUME Inv, NEW q \in Runs, UNCHANGED <<active, answer, stale>>, pc'[q] # "committing",
         \A p \in Runs : p # q => pc'[p] = pc[p] /\ out'[p] = out[p]
  PROVE  Evidence'
BY DEF Inv, Evidence

(* Every step keeps retired chunks out of validated outcomes and answers. *)
LEMMA EvidenceStep == Inv /\ [Next]_vars => Evidence'
<1> SUFFICES ASSUME Inv, [Next]_vars
             PROVE  Evidence'
  OBVIOUS
<1> USE QueryAssumption DEF Inv, vars, locals, gateway, history, TypeOK, Course, Evidence, BeforeGate, Late, Outcomes, Answers
<1>1. CASE \E q \in Runs : Admit(q) \/ Refuse(q) \/ Step(q) \/ CommitRaises(q) \/ Disconnect(q) \/ Abandon(q)
  <2> SUFFICES ASSUME NEW q \in Runs,
                      Admit(q) \/ Refuse(q) \/ Step(q) \/ CommitRaises(q) \/ Disconnect(q) \/ Abandon(q)
               PROVE  Evidence'
    BY <1>1
  <2>1. CASE Admit(q)
    BY <2>1 DEF Admit
  <2>2. CASE Refuse(q)
    BY <2>2 DEF Refuse
  <2>3. CASE \E f \in BOOLEAN : Begin(q, f)
    <3>1. /\ UNCHANGED <<active, answer, stale>> /\ pc'[q] # "committing"
          /\ \A p \in Runs : p # q => pc'[p] = pc[p] /\ out'[p] = out[p]
      BY <2>3 DEF Begin, Goto, Conclude
    <3>. QED  BY <3>1, QuietEvidence
  <2>4. CASE \E E \in SUBSET active, x \in BOOLEAN, g \in {"success", "degraded"} : Retrieve(q, E, x, g)
    BY <2>4 DEF Retrieve, MayReturn, Goto, Conclude, Signalled
  <2>5. CASE RetrieveRaises(q)
    BY <2>5 DEF RetrieveRaises, Goto
  <2>6. CASE Ask(q)
    BY <2>6 DEF Ask, ModelRaises, Goto, Conclude
  <2>7. CASE \E r \in BOOLEAN : Acquire(q, r)
    BY <2>7 DEF Acquire, ModelRaises, Goto, Conclude
  <2>8. CASE \E f \in BOOLEAN : Delta(q, f)
    BY <2>8 DEF Delta, Streaming, Conclude
  <2>9. CASE StreamEnds(q)
    BY <2>9 DEF StreamEnds, Streaming, CircuitReset, Goto, Conclude
  <2>10. CASE \E f \in BOOLEAN : Reply(q, f)
    BY <2>10 DEF Reply, Completing, CircuitReset, Goto, Conclude
  <2>11. CASE ProviderFails(q)
    BY <2>11 DEF ProviderFails, ModelRaises, Goto, Conclude
  <2>12. CASE ReplyMalformed(q)
    BY <2>12 DEF ReplyMalformed, Completing, ModelRaises, Goto, Conclude
  <2>13. CASE CancelWait(q)
    BY <2>13 DEF CancelWait, Goto, Conclude
  <2>14. CASE Gate(q)
    BY <2>14 DEF Gate, Goto, Signalled
  <2>15. CASE Validate(q)
    BY <2>15 DEF Validate
  <2>16. CASE Commit(q)
    BY <2>16 DEF Commit, SettleRows, Goto
  <2>17. CASE Abort(q)
    BY <2>17 DEF Abort, Goto
  <2>18. CASE Finish(q)
    BY <2>18 DEF Finish, Close
  <2>19. CASE CommitRaises(q)
    BY <2>19 DEF CommitRaises, SettleRows, Goto
  <2>20. CASE Disconnect(q)
    BY <2>20 DEF Disconnect, Close, AtYield, Streaming
  <2>21. CASE Abandon(q)
    <3>1. /\ UNCHANGED <<active, stale>>
          /\ pc' = [pc EXCEPT ![q] = "cancelling"] \/ pc' = [pc EXCEPT ![q] = "done"]
          /\ \A p \in Runs : p # q => out'[p] = out[p]
      BY <2>21 DEF Abandon, Goto, Close
    <3>2. UNCHANGED answer \/ (pc[q] = "committing" /\ SettleRows(q))
      BY <2>21 DEF Abandon
    <3>3. ASSUME NEW p \in Runs, NEW a \in answer'[p] PROVE a.cites \cap stale[p] = {}
      <4>1. CASE a \in answer[p]
        BY <4>1
      <4>2. CASE a \notin answer[p]
        <5>1. p = q /\ a = [status |-> out[q].status, cites |-> out[q].cites] /\ pc[q] = "committing"
          BY <3>2, <3>3, <4>2 DEF SettleRows
        <5>. QED  BY <5>1
      <4>. QED  BY <4>1, <4>2
    <3>4. ASSUME NEW p \in Runs, pc'[p] = "committing" PROVE p # q
      BY <3>1, <3>4
    <3>5. \A p \in Runs : pc'[p] = "committing" => out'[p].cites \cap stale'[p] = {}
      BY <3>1, <3>4
    <3>. QED  BY <3>1, <3>3, <3>5
  <2>. QED  BY <2>1, <2>2, <2>3, <2>4, <2>5, <2>6, <2>7, <2>8, <2>9, <2>10, <2>11, <2>12, <2>13, <2>14, <2>15, <2>16, <2>17, <2>18, <2>19, <2>20, <2>21 DEF Step
<1>2. CASE \E c \in Cancels : CancelRead(c)
  BY <1>2 DEF CancelRead
<1>3. CASE \E c \in Cancels : CancelWrite(c)
  BY <1>3 DEF CancelWrite
<1>4. CASE \E k \in Retirable : Retire(k)
  <2> SUFFICES ASSUME NEW k \in Retirable, Retire(k)
               PROVE  Evidence'
    BY <1>4
  <2> SUFFICES ASSUME NEW q \in Runs
               PROVE  /\ stale'[q] \cap active' = {}
                      /\ pc'[q] = "committing" => out'[q].cites \cap stale'[q] = {}
                      /\ \A a \in answer'[q] : a.cites \cap stale'[q] = {}
    OBVIOUS
  <2>1. stale'[q] \subseteq stale[q] \cup {k} /\ active' = active \ {k}
    BY DEF Retire
  <2>2. pc[q] \notin BeforeGate \cup {"validating"} => stale'[q] = stale[q]
    BY DEF Retire
  <2>3. UNCHANGED <<pc, out, answer>>
    BY DEF Retire
  <2>. QED  BY <2>1, <2>2, <2>3
<1>5. CASE WindowSlides
  BY <1>5 DEF WindowSlides
<1>6. CASE UNCHANGED vars
  BY <1>6
<1>. QED  BY <1>1, <1>2, <1>3, <1>4, <1>5, <1>6 DEF Next

(* Every step keeps the text with one attempt. *)
LEMMA TextStep == Inv /\ [Next]_vars => Text'
<1> SUFFICES ASSUME Inv, [Next]_vars
             PROVE  Text'
  OBVIOUS
<1> USE QueryAssumption DEF Inv, vars, locals, gateway, history, TypeOK, Text, BeforeGate, Late
<1>1. CASE \E q \in Runs : Admit(q) \/ Refuse(q) \/ Step(q) \/ CommitRaises(q) \/ Disconnect(q) \/ Abandon(q)
  <2> SUFFICES ASSUME NEW q \in Runs,
                      Admit(q) \/ Refuse(q) \/ Step(q) \/ CommitRaises(q) \/ Disconnect(q) \/ Abandon(q)
               PROVE  Text'
    BY <1>1
  <2>1. CASE Admit(q)
    BY <2>1 DEF Admit
  <2>2. CASE Refuse(q)
    BY <2>2 DEF Refuse
  <2>3. CASE \E f \in BOOLEAN : Begin(q, f)
    BY <2>3 DEF Begin, Goto, Conclude, Signalled
  <2>4. CASE \E E \in SUBSET active, x \in BOOLEAN, g \in {"success", "degraded"} : Retrieve(q, E, x, g)
    BY <2>4 DEF Retrieve, MayReturn, Goto, Conclude, Signalled
  <2>5. CASE RetrieveRaises(q)
    BY <2>5 DEF RetrieveRaises, Goto
  <2>6. CASE Ask(q)
    BY <2>6 DEF Ask, ModelRaises, Goto, Conclude
  <2>7. CASE \E r \in BOOLEAN : Acquire(q, r)
    BY <2>7 DEF Acquire, ModelRaises, Goto, Conclude
  <2>8. CASE \E f \in BOOLEAN : Delta(q, f)
    <3>1. /\ UNCHANGED attempt
          /\ pc[q] = "calling" /\ pc'[q] \in {"calling", "gate"}
          /\ parts'[q] \subseteq parts[q] \cup {attempt[q]}
          /\ \A p \in Runs : p # q => pc'[p] = pc[p] /\ parts'[p] = parts[p]
      BY <2>8 DEF Delta, Streaming, Conclude
    <3>. QED  BY <3>1
  <2>9. CASE StreamEnds(q)
    BY <2>9 DEF StreamEnds, Streaming, CircuitReset, Goto, Conclude
  <2>10. CASE \E f \in BOOLEAN : Reply(q, f)
    BY <2>10 DEF Reply, Completing, CircuitReset, Goto, Conclude
  <2>11. CASE ProviderFails(q)
    BY <2>11 DEF ProviderFails, ModelRaises, Goto, Conclude
  <2>12. CASE ReplyMalformed(q)
    BY <2>12 DEF ReplyMalformed, Completing, ModelRaises, Goto, Conclude
  <2>13. CASE CancelWait(q)
    BY <2>13 DEF CancelWait, Goto, Conclude
  <2>14. CASE Gate(q)
    BY <2>14 DEF Gate, Goto, Signalled
  <2>15. CASE Validate(q)
    BY <2>15 DEF Validate
  <2>16. CASE Commit(q)
    BY <2>16 DEF Commit, SettleRows, Goto
  <2>17. CASE Abort(q)
    BY <2>17 DEF Abort, Goto
  <2>18. CASE Finish(q)
    BY <2>18 DEF Finish, Close
  <2>19. CASE CommitRaises(q)
    BY <2>19 DEF CommitRaises, SettleRows, Goto
  <2>20. CASE Disconnect(q)
    BY <2>20 DEF Disconnect, Close, AtYield, Streaming
  <2>21. CASE Abandon(q)
    BY <2>21 DEF Abandon, AtYield, Streaming, SettleRows, Goto, Close
  <2>. QED  BY <2>1, <2>2, <2>3, <2>4, <2>5, <2>6, <2>7, <2>8, <2>9, <2>10, <2>11, <2>12, <2>13, <2>14, <2>15, <2>16, <2>17, <2>18, <2>19, <2>20, <2>21 DEF Step
<1>2. CASE \E c \in Cancels : CancelRead(c)
  BY <1>2 DEF CancelRead
<1>3. CASE \E c \in Cancels : CancelWrite(c)
  BY <1>3 DEF CancelWrite
<1>4. CASE \E k \in Retirable : Retire(k)
  BY <1>4 DEF Retire
<1>5. CASE WindowSlides
  BY <1>5 DEF WindowSlides
<1>6. CASE UNCHANGED vars
  BY <1>6
<1>. QED  BY <1>1, <1>2, <1>3, <1>4, <1>5, <1>6 DEF Next

(* Every step that writes a published status writes its answer. *)
LEMMA PublishedStep == Inv /\ [Next]_vars => PublishedHasAnswer'
<1> SUFFICES ASSUME Inv, [Next]_vars
             PROVE  PublishedHasAnswer'
  OBVIOUS
<1> USE QueryAssumption DEF Inv, vars, locals, gateway, history, TypeOK, Course, PublishedHasAnswer, BeforeGate, Late, Published, Outcomes
<1>1. CASE \E q \in Runs : Admit(q) \/ Refuse(q) \/ Step(q) \/ CommitRaises(q) \/ Disconnect(q) \/ Abandon(q)
  <2> SUFFICES ASSUME NEW q \in Runs,
                      Admit(q) \/ Refuse(q) \/ Step(q) \/ CommitRaises(q) \/ Disconnect(q) \/ Abandon(q)
               PROVE  PublishedHasAnswer'
    BY <1>1
  <2>1. CASE Admit(q)
    BY <2>1 DEF Admit
  <2>2. CASE Refuse(q)
    BY <2>2 DEF Refuse
  <2>3. CASE \E f \in BOOLEAN : Begin(q, f)
    BY <2>3 DEF Begin, Goto, Conclude, Signalled
  <2>4. CASE \E E \in SUBSET active, x \in BOOLEAN, g \in {"success", "degraded"} : Retrieve(q, E, x, g)
    BY <2>4 DEF Retrieve, MayReturn, Goto, Conclude, Signalled
  <2>5. CASE RetrieveRaises(q)
    BY <2>5 DEF RetrieveRaises, Goto
  <2>6. CASE Ask(q)
    BY <2>6 DEF Ask, ModelRaises, Goto, Conclude
  <2>7. CASE \E r \in BOOLEAN : Acquire(q, r)
    BY <2>7 DEF Acquire, ModelRaises, Goto, Conclude
  <2>8. CASE \E f \in BOOLEAN : Delta(q, f)
    BY <2>8 DEF Delta, Streaming, Conclude
  <2>9. CASE StreamEnds(q)
    BY <2>9 DEF StreamEnds, Streaming, CircuitReset, Goto, Conclude
  <2>10. CASE \E f \in BOOLEAN : Reply(q, f)
    BY <2>10 DEF Reply, Completing, CircuitReset, Goto, Conclude
  <2>11. CASE ProviderFails(q)
    BY <2>11 DEF ProviderFails, ModelRaises, Goto, Conclude
  <2>12. CASE ReplyMalformed(q)
    BY <2>12 DEF ReplyMalformed, Completing, ModelRaises, Goto, Conclude
  <2>13. CASE CancelWait(q)
    BY <2>13 DEF CancelWait, Goto, Conclude
  <2>14. CASE Gate(q)
    BY <2>14 DEF Gate, Goto, Signalled
  <2>15. CASE Validate(q)
    BY <2>15 DEF Validate
  <2>16. CASE Commit(q)
    BY <2>16 DEF Commit, SettleRows, Goto
  <2>17. CASE Abort(q)
    BY <2>17 DEF Abort, Goto
  <2>18. CASE Finish(q)
    BY <2>18 DEF Finish, Close
  <2>19. CASE CommitRaises(q)
    BY <2>19 DEF CommitRaises, SettleRows, Goto
  <2>20. CASE Disconnect(q)
    BY <2>20 DEF Disconnect, Close, AtYield, Streaming
  <2>21. CASE Abandon(q)
    BY <2>21 DEF Abandon, AtYield, Streaming, SettleRows, Goto, Close
  <2>. QED  BY <2>1, <2>2, <2>3, <2>4, <2>5, <2>6, <2>7, <2>8, <2>9, <2>10, <2>11, <2>12, <2>13, <2>14, <2>15, <2>16, <2>17, <2>18, <2>19, <2>20, <2>21 DEF Step
<1>2. CASE \E c \in Cancels : CancelRead(c)
  BY <1>2 DEF CancelRead
<1>3. CASE \E c \in Cancels : CancelWrite(c)
  BY <1>3 DEF CancelWrite
<1>4. CASE \E k \in Retirable : Retire(k)
  BY <1>4 DEF Retire
<1>5. CASE WindowSlides
  BY <1>5 DEF WindowSlides
<1>6. CASE UNCHANGED vars
  BY <1>6
<1>. QED  BY <1>1, <1>2, <1>3, <1>4, <1>5, <1>6 DEF Next

(* Every step keeps the circuit and its counter together. *)
LEMMA CircuitStep == Inv /\ [Next]_vars => CircuitConsistent'
<1> SUFFICES ASSUME Inv, [Next]_vars
             PROVE  CircuitConsistent'
  OBVIOUS
<1> USE QueryAssumption DEF Inv, vars, locals, gateway, history, TypeOK, CircuitConsistent
<1>1. CASE \E q \in Runs : Admit(q) \/ Refuse(q) \/ Step(q) \/ CommitRaises(q) \/ Disconnect(q) \/ Abandon(q)
  <2> SUFFICES ASSUME NEW q \in Runs,
                      Admit(q) \/ Refuse(q) \/ Step(q) \/ CommitRaises(q) \/ Disconnect(q) \/ Abandon(q)
               PROVE  CircuitConsistent'
    BY <1>1
  <2>1. CASE Admit(q)
    BY <2>1 DEF Admit
  <2>2. CASE Refuse(q)
    BY <2>2 DEF Refuse
  <2>3. CASE \E f \in BOOLEAN : Begin(q, f)
    BY <2>3 DEF Begin, Goto, Conclude, Signalled
  <2>4. CASE \E E \in SUBSET active, x \in BOOLEAN, g \in {"success", "degraded"} : Retrieve(q, E, x, g)
    BY <2>4 DEF Retrieve, MayReturn, Goto, Conclude, Signalled
  <2>5. CASE RetrieveRaises(q)
    BY <2>5 DEF RetrieveRaises, Goto
  <2>6. CASE Ask(q)
    BY <2>6 DEF Ask, ModelRaises, Goto, Conclude
  <2>7. CASE \E r \in BOOLEAN : Acquire(q, r)
    <3> SUFFICES ASSUME NEW r \in BOOLEAN, Acquire(q, r)
                 PROVE  CircuitConsistent'
      BY <2>7
    <3>1. CASE ModeOf[q] = "buffered" /\ opened /\ r
      <4>1. failures' = 0
        BY <3>1 DEF Acquire
      <4>2. ~opened'
        BY <3>1, Zenon DEF Acquire
      <4>. QED  BY <4>1, <4>2
    <3>2. CASE ~(ModeOf[q] = "buffered" /\ opened /\ r)
      <4>1. failures' = failures /\ opened' = opened
        BY <3>2 DEF Acquire
      <4>. QED  BY <4>1
    <3>. QED  BY <3>1, <3>2
  <2>8. CASE \E f \in BOOLEAN : Delta(q, f)
    BY <2>8 DEF Delta, Streaming, Conclude
  <2>9. CASE StreamEnds(q)
    BY <2>9 DEF StreamEnds, Streaming, CircuitReset, Goto, Conclude
  <2>10. CASE \E f \in BOOLEAN : Reply(q, f)
    BY <2>10 DEF Reply, Completing, CircuitReset, Goto, Conclude
  <2>11. CASE ProviderFails(q)
    <3>1. CASE parts[q] # {}
      BY <2>11, <3>1 DEF ProviderFails
    <3>2. CASE parts[q] = {}
      <4>1. failures' = failures + 1 /\ opened' = (opened \/ failures' >= FailureThreshold)
        BY <2>11, <3>2 DEF ProviderFails
      <4>2. CASE opened
        <5>1. opened'  BY <4>1, <4>2, Zenon
        <5>2. failures' >= FailureThreshold  BY <4>1, <4>2
        <5>. QED  BY <5>1, <5>2
      <4>3. CASE ~opened  BY <4>1, <4>3
      <4>. QED  BY <4>2, <4>3
    <3>. QED  BY <3>1, <3>2
  <2>12. CASE ReplyMalformed(q)
    BY <2>12 DEF ReplyMalformed, Completing, ModelRaises, Goto, Conclude
  <2>13. CASE CancelWait(q)
    BY <2>13 DEF CancelWait, Goto, Conclude
  <2>14. CASE Gate(q)
    BY <2>14 DEF Gate, Goto, Signalled
  <2>15. CASE Validate(q)
    BY <2>15 DEF Validate
  <2>16. CASE Commit(q)
    BY <2>16 DEF Commit, SettleRows, Goto
  <2>17. CASE Abort(q)
    BY <2>17 DEF Abort, Goto
  <2>18. CASE Finish(q)
    BY <2>18 DEF Finish, Close
  <2>19. CASE CommitRaises(q)
    BY <2>19 DEF CommitRaises, SettleRows, Goto
  <2>20. CASE Disconnect(q)
    BY <2>20 DEF Disconnect, Close, AtYield, Streaming
  <2>21. CASE Abandon(q)
    BY <2>21 DEF Abandon, AtYield, Streaming, SettleRows, Goto, Close
  <2>. QED  BY <2>1, <2>2, <2>3, <2>4, <2>5, <2>6, <2>7, <2>8, <2>9, <2>10, <2>11, <2>12, <2>13, <2>14, <2>15, <2>16, <2>17, <2>18, <2>19, <2>20, <2>21 DEF Step
<1>2. CASE \E c \in Cancels : CancelRead(c)
  BY <1>2 DEF CancelRead
<1>3. CASE \E c \in Cancels : CancelWrite(c)
  BY <1>3 DEF CancelWrite
<1>4. CASE \E k \in Retirable : Retire(k)
  BY <1>4 DEF Retire
<1>5. CASE WindowSlides
  BY <1>5 DEF WindowSlides
<1>6. CASE UNCHANGED vars
  BY <1>6
<1>. QED  BY <1>1, <1>2, <1>3, <1>4, <1>5, <1>6 DEF Next

(* The invariant holds in every behaviour. *)
THEOREM InvariantHolds == Spec => []Inv
<1>1. Inv /\ [Next]_vars => Inv'
  BY TypeStep, CourseStep, StoppingStep, EvidenceStep, TextStep, PublishedStep, CircuitStep DEF Inv
<1>. QED  BY InitInv, <1>1, PTL DEF Spec

(* The type invariant of query runs, for any number of runs, chunks and    *)
(* cancel requests.                                                        *)
THEOREM TypeCorrect == Spec => []TypeOK
BY InvariantHolds, PTL DEF Inv

(* A run whose cancel event was set before its last check of it never gets *)
(* an answer row (execute_stream and cancel_query, in any interleaving).   *)
THEOREM CancelIsHonoured == Spec => []StoppedUnanswered
<1>1. Inv => StoppedUnanswered
  BY DEF Inv, Stopping, StoppedUnanswered
<1>. QED  BY InvariantHolds, <1>1, PTL

(* No answer cites a chunk that was retired while it was generated         *)
(* (_post_generation_validate).                                            *)
THEOREM AnswersCiteLiveEvidence == Spec => []EvidenceHeld
<1>1. Inv => EvidenceHeld
  BY DEF Inv, Evidence, EvidenceHeld
<1>. QED  BY InvariantHolds, <1>1, PTL

(* The client never reads the text of two provider attempts                *)
(* (ModelGateway.stream_events).                                           *)
THEOREM NoRetryAfterText == Spec => []OneAttemptPerAnswer
<1>1. Inv => OneAttemptPerAnswer
  BY DEF Inv, Text, OneAttemptPerAnswer
<1>. QED  BY InvariantHolds, <1>1, PTL

(* A published status always has the answer it announces. *)
THEOREM PublishedIsAnswered == Spec => [](PublishedHasAnswer /\ CircuitConsistent)
BY InvariantHolds, PTL DEF Inv


-----------------------------------------------------------------------------
(* Steps that write neither row are invisible in the ledger. *)
LEMMA Invisible == UNCHANGED <<status, answer>> => UNCHANGED Ledger!ledger
BY DEF Ledger!ledger

(* Writing the answer with its status, or a failed status, is one step of  *)
(* the ledger.                                                             *)
LEMMA SettleInLedger ==
  ASSUME Inv, NEW q \in Runs, pc[q] = "committing", SettleRows(q)
  PROVE  Ledger!Next
<1>1. status[q] # "none" /\ answer[q] = {}
  BY DEF Inv, Course, Late
<1>2. out[q].status \in Published \cup {"failed"}
  BY DEF Inv, TypeOK, Outcomes
<1>3. status \in [Runs -> {"none", "open"} \cup Terminal] /\ answer \in [Runs -> SUBSET Answers]
  BY DEF Inv, TypeOK
<1>4. out[q].status # "none"
  BY <1>2 DEF Published
<1>5. CASE out[q].status = "failed"
  <2>1. Ledger!Close(q, "failed")
    BY <1>1, <1>3, <1>5 DEF SettleRows, Ledger!Close
  <2>. QED  BY <2>1 DEF Ledger!Next
<1>6. CASE out[q].status # "failed"
  <2>1. Ledger!Publish(q, out[q].status)
    BY <1>1, <1>3, <1>4, <1>6 DEF SettleRows, Ledger!Publish
  <2>2. out[q].status \in Published
    BY <1>2, <1>6
  <2>. QED  BY <2>1, <2>2 DEF Ledger!Next, Ledger!Publish
<1>. QED  BY <1>5, <1>6

(* Writing "failed" or "cancelled" on a row that exists is one step too. *)
LEMMA CloseInLedger ==
  ASSUME Inv, NEW q \in Runs, NEW s \in {"failed", "cancelled"}, status[q] # "none",
         status' = [status EXCEPT ![q] = s], UNCHANGED answer
  PROVE  Ledger!Next
<1>1. status \in [Runs -> {"none", "open"} \cup Terminal]
  BY DEF Inv, TypeOK
<1>2. Ledger!Close(q, s)
  BY <1>1 DEF Ledger!Close
<1>. QED  BY <1>2 DEF Ledger!Next

(* Query runs implement the answer ledger: whatever the interleaving of    *)
(* streams, cancel requests and faults, an answer is written once, in the  *)
(* transaction that announces it, and stays.                               *)
THEOREM RunsImplementLedger == Spec => ImplementsLedger
<1>1. Init => Ledger!Init
  BY DEF Init, Ledger!Init
<1>2. Inv /\ [Next]_vars => [Ledger!Next]_(Ledger!ledger)
  <2> SUFFICES ASSUME Inv, [Next]_vars
               PROVE  Ledger!Next \/ UNCHANGED Ledger!ledger
    OBVIOUS
  <2>0. \A q \in Runs : pc[q] \notin {"idle", "done"} => status[q] # "none"
    BY DEF Inv, Course
  <2>1. ASSUME NEW q \in Runs, Admit(q)
        PROVE  Ledger!Next \/ UNCHANGED Ledger!ledger
    <3>1. CASE status[q] = "none"
      <4>1. status \in [Runs -> {"none", "open"} \cup Terminal]
        BY DEF Inv, TypeOK
      <4>2. Ledger!Open(q)
        BY <2>1, <3>1, <4>1 DEF Admit, Ledger!Open
      <4>. QED  BY <4>2 DEF Ledger!Next
    <3>2. CASE status[q] # "none"
      BY <2>1, <3>2 DEF Admit, Inv, Course
    <3>. QED  BY <3>1, <3>2
  <2>2. ASSUME NEW q \in Runs, Commit(q) \/ CommitRaises(q)
        PROVE  Ledger!Next \/ UNCHANGED Ledger!ledger
    BY <2>2, SettleInLedger, Invisible DEF Commit, CommitRaises
  <2>3. ASSUME NEW q \in Runs, Abort(q) \/ Disconnect(q)
        PROVE  Ledger!Next \/ UNCHANGED Ledger!ledger
    <3>1. pc[q] \notin {"idle", "done"}
      BY <2>3 DEF Abort, Disconnect, AtYield, Streaming
    <3>. QED  BY <2>0, <2>3, <3>1, CloseInLedger, Invisible DEF Abort, Disconnect
  <2>4. ASSUME NEW q \in Runs, Abandon(q)
        PROVE  Ledger!Next \/ UNCHANGED Ledger!ledger
    BY <2>4, SettleInLedger, Invisible DEF Abandon
  <2>5. ASSUME NEW c \in Cancels, CancelWrite(c)
        PROVE  Ledger!Next \/ UNCHANGED Ledger!ledger
    BY <2>5, CloseInLedger, QueryAssumption DEF CancelWrite, Inv, Course
  <2>6. ASSUME NEW q \in Runs, Step(q)
        PROVE  Ledger!Next \/ UNCHANGED Ledger!ledger
    <3>1. CASE Commit(q) \/ Abort(q)
      BY <3>1, <2>2, <2>3
    <3>2. CASE ~(Commit(q) \/ Abort(q))
      <4>1. UNCHANGED <<status, answer>>
        BY <2>6, <3>2 DEF Step, Begin, Retrieve, RetrieveRaises, Ask, Acquire, Delta, StreamEnds, Reply,
              ProviderFails, ReplyMalformed, CancelWait, Gate, Validate, Finish
      <4>. QED  BY <4>1, Invisible
    <3>. QED  BY <3>1, <3>2
  <2>7. ASSUME NEW q \in Runs, Refuse(q)
        PROVE  Ledger!Next \/ UNCHANGED Ledger!ledger
    BY <2>7, Invisible DEF Refuse
  <2>8. CASE (\E c \in Cancels : CancelRead(c)) \/ (\E k \in Retirable : Retire(k)) \/ WindowSlides \/ UNCHANGED vars
    BY <2>8, Invisible DEF CancelRead, Retire, WindowSlides, vars
  <2>. QED  BY <2>1, <2>2, <2>3, <2>4, <2>5, <2>6, <2>7, <2>8 DEF Next
<1>. QED  BY InvariantHolds, <1>1, <1>2, PTL DEF Spec, ImplementsLedger, Ledger!Spec

-----------------------------------------------------------------------------
(* Who may write over a terminal status.  As long as no cancel request for *)
(* a run has been received and nothing has failed, the run alone writes    *)
(* its status, and it is settled only after its last write.                *)
Undisputed(q) == faults = 0 /\ \A c \in Cancels : TargetOf[c] = q => cpc[c] = "idle"

SettledLast == \A q \in Runs : Undisputed(q) /\ status[q] \in Terminal => pc[q] \in {"after", "done"}

(* Requests and faults are not taken back.                                 *)
LEMMA UndisputedBefore ==
  ASSUME Inv, [Next]_vars, NEW q \in Runs, Undisputed(q)'
  PROVE  /\ Undisputed(q) /\ UNCHANGED faults
         /\ \A c \in Cancels : TargetOf[c] = q => ~CancelRead(c) /\ ~CancelWrite(c)
<1>1. faults \in Nat /\ cpc \in [Cancels -> {"idle", "read", "done"}]
  BY QueryAssumption DEF Inv, TypeOK
<1>2. ASSUME NEW p \in Runs, CommitRaises(p) \/ Disconnect(p) \/ Abandon(p) PROVE FALSE
  BY <1>1, <1>2 DEF CommitRaises, Disconnect, Abandon, Undisputed
<1>3. ASSUME NEW p \in Runs, Admit(p) \/ Refuse(p) \/ Step(p) PROVE UNCHANGED <<faults, cpc>>
  BY <1>3 DEF Admit, Refuse, Step, Begin, Retrieve, RetrieveRaises, Ask, Acquire, Delta, StreamEnds, Reply,
              ProviderFails, ReplyMalformed, CancelWait, Gate, Validate, Commit, Abort, Finish
<1>4. CASE (\E k \in Retirable : Retire(k)) \/ WindowSlides \/ UNCHANGED vars
  <2>1. UNCHANGED <<faults, cpc>>
    BY <1>4 DEF Retire, WindowSlides, vars
  <2>. QED  BY <1>1, <2>1 DEF Undisputed, CancelRead, CancelWrite
<1>5. CASE \E p \in Runs : Admit(p) \/ Refuse(p) \/ Step(p)
  <2>1. UNCHANGED <<faults, cpc>>
    BY <1>3, <1>5
  <2>. QED  BY <1>1, <2>1 DEF Undisputed, CancelRead, CancelWrite
<1>6. ASSUME NEW c \in Cancels, CancelRead(c) \/ CancelWrite(c)
      PROVE  UNCHANGED faults /\ (TargetOf[c] # q)
             /\ \A d \in Cancels : d # c => cpc'[d] = cpc[d]
  BY <1>1, <1>6 DEF CancelRead, CancelWrite, Undisputed
<1>7. ASSUME NEW c \in Cancels, CancelRead(c) \/ CancelWrite(c)
      PROVE  /\ Undisputed(q) /\ UNCHANGED faults
             /\ \A d \in Cancels : TargetOf[d] = q => ~CancelRead(d) /\ ~CancelWrite(d)
  <2>1. \A d \in Cancels : TargetOf[d] = q => cpc'[d] = cpc[d] /\ cpc[d] = "idle" /\ cpc'[d] = "idle"
    BY <1>6, <1>7 DEF Undisputed
  <2>2. \A d \in Cancels : TargetOf[d] = q => ~CancelRead(d) /\ ~CancelWrite(d)
    BY <1>1, <2>1 DEF CancelRead, CancelWrite
  <2>. QED  BY <1>6, <1>7, <2>1, <2>2 DEF Undisputed
<1>. QED  BY <1>2, <1>4, <1>5, <1>7 DEF Next

(* An undisputed run settles once, on its way out.                         *)
LEMMA SettlesOnce ==
  ASSUME Inv, SettledLast, [Next]_vars, NEW q \in Runs, Undisputed(q)'
  PROVE  /\ status[q] \in Terminal => status'[q] = status[q]
         /\ status'[q] \in Terminal => pc'[q] \in {"after", "done"}
<1> DEFINE Goal == /\ status[q] \in Terminal => status'[q] = status[q]
                   /\ status'[q] \in Terminal => pc'[q] \in {"after", "done"}
<1>1. /\ status \in [Runs -> {"none", "open"} \cup Terminal] /\ pc \in [Runs -> PcValues]
      /\ pc[q] = "idle" => status[q] = "none"
      /\ "none" \notin Terminal /\ "open" \notin Terminal
  BY DEF Inv, TypeOK, Course, Terminal, Published, PcValues, Late
<1>2. Undisputed(q) /\ UNCHANGED faults
      /\ \A c \in Cancels : TargetOf[c] = q => ~CancelRead(c) /\ ~CancelWrite(c)
  BY UndisputedBefore
<1>3. status[q] \in Terminal => pc[q] \in {"after", "done"}
  BY <1>2 DEF SettledLast
<1>4. CASE status'[q] = status[q] /\ pc'[q] = pc[q]
  BY <1>3, <1>4
<1>5. ASSUME NEW p \in Runs, p # q, Admit(p) \/ Refuse(p) \/ Step(p) PROVE Goal
  <2>1. status'[q] = status[q] /\ pc'[q] = pc[q]
    BY <1>1, <1>5
       DEF Admit, Refuse, Step, Begin, Retrieve, RetrieveRaises, Ask, Acquire, Delta, StreamEnds, Reply,
           ProviderFails, ReplyMalformed, CancelWait, Gate, Validate, Commit, Abort, Finish,
           Goto, Conclude, ModelRaises, SettleRows, Close
  <2>. QED  BY <1>4, <2>1
<1>6. CASE Admit(q) \/ Refuse(q)
  BY <1>1, <1>3, <1>6 DEF Admit, Refuse
<1>7. CASE Commit(q) \/ Abort(q)
  BY <1>1, <1>3, <1>7 DEF Commit, Abort, SettleRows, Goto
<1>8. CASE Finish(q)
  BY <1>1, <1>3, <1>8 DEF Finish, Close
<1>9. CASE Step(q) /\ ~Commit(q) /\ ~Abort(q) /\ ~Finish(q)
  <2>1. UNCHANGED status /\ pc[q] \notin {"after", "done"}
    BY <1>9
       DEF Step, Begin, Retrieve, RetrieveRaises, Ask, Acquire, Delta, StreamEnds, Reply, ProviderFails,
           ReplyMalformed, CancelWait, Gate, Validate, Streaming, Completing
  <2>. QED  BY <1>3, <2>1
<1>10. CASE \E c \in Cancels : CancelRead(c) \/ CancelWrite(c)
  <2>1. status'[q] = status[q] /\ pc'[q] = pc[q]
    BY <1>1, <1>2, <1>10, QueryAssumption DEF CancelRead, CancelWrite
  <2>. QED  BY <1>4, <2>1
<1>11. CASE (\E k \in Retirable : Retire(k)) \/ WindowSlides \/ UNCHANGED vars
  BY <1>4, <1>11 DEF Retire, WindowSlides, vars
<1>12. ASSUME NEW p \in Runs, CommitRaises(p) \/ Disconnect(p) \/ Abandon(p) PROVE FALSE
  BY <1>2, <1>12, QueryAssumption DEF CommitRaises, Disconnect, Abandon, Inv, TypeOK
<1>. QED  BY <1>5, <1>6, <1>7, <1>8, <1>9, <1>10, <1>11, <1>12 DEF Next

LEMMA SettlesLast == Spec => []SettledLast
<1>1. Init => SettledLast
  BY DEF Init, SettledLast, Terminal, Published
<1>2. Inv /\ SettledLast /\ [Next]_vars => SettledLast'
  BY SettlesOnce DEF SettledLast
<1>. QED  BY InvariantHolds, <1>1, <1>2, PTL DEF Spec

(* A terminal status is written over only if somebody has asked to cancel  *)
(* that run, or a commit, a connection or a task has failed.               *)
OverwrittenOnCancel ==
  [][\A q \in Runs : status[q] \in Terminal /\ status'[q] # status[q] => ~Undisputed(q)']_vars

(* The handlers of execute_stream and the cancel endpoint write the status *)
(* without looking at it; what they write over each other is confined to   *)
(* the runs that a cancel request names, until the first failure.          *)
THEOREM OnlyCancelOverwrites == Spec => OverwrittenOnCancel
<1>1. Inv /\ SettledLast /\ [Next]_vars =>
        [\A q \in Runs : status[q] \in Terminal /\ status'[q] # status[q] => ~Undisputed(q)']_vars
  BY SettlesOnce
<1>. QED  BY InvariantHolds, SettlesLast, <1>1, PTL DEF Spec, OverwrittenOnCancel

(* Without cancel requests and failures one actor writes the terminal      *)
(* status and it stays, for any number of concurrent runs.                 *)
THEOREM OneStatusWithoutCancel ==
  ASSUME Cancels = {}, MaxFaults = 0 PROVE Spec => OneTerminalStatus
<1>1. ASSUME Cancels = {}, MaxFaults = 0, Inv, Inv', SettledLast, [Next]_vars, NEW q \in Runs,
             status[q] \in Terminal
      PROVE  status'[q] = status[q]
  <2>1. Undisputed(q)'
    BY <1>1 DEF Inv, TypeOK, Undisputed
  <2>. QED  BY <1>1, <2>1, SettlesOnce
<1>2. Inv /\ Inv' /\ SettledLast /\ [Next]_vars =>
        [\A q \in Runs : status[q] \in Terminal => status'[q] = status[q]]_vars
  BY <1>1
<1>. QED  BY InvariantHolds, SettlesLast, <1>2, PTL DEF Spec, OneTerminalStatus
=============================================================================
