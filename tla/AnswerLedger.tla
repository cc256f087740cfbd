---------------------------- MODULE AnswerLedger ----------------------------
(***************************************************************************)
(* What a query run promises to whoever reads the tables afterwards.  A    *)
(* run is opened once.  Its answer is written at most once, in the same    *)
(* transaction as the status that announces it, and never changes after.   *)
(* A run may be closed without an answer; a close may also land on a run   *)
(* that has already been answered (a late cancellation), and it leaves the *)
(* answer alone.                                                           *)
(***************************************************************************)
CONSTANTS Runs, Published, Closed

VARIABLES
  opened,     \* runs with a row in query_executions
  answered,   \* runs with a row in answers
  announced   \* run -> "open", a published status or a closed status

ledger == <<opened, answered, announced>>

Init ==
  /\ opened = {}
  /\ answered = {}
  /\ announced = [q \in Runs |-> "open"]

Open(q) ==
  /\ q \notin opened
  /\ opened' = opened \cup {q}
  /\ UNCHANGED <<answered, announced>>

Publish(q, s) ==
  /\ q \in opened \ answered
  /\ answered' = answered \cup {q}
  /\ announced' = [announced EXCEPT ![q] = s]
  /\ UNCHANGED opened

Close(q, s) ==
  /\ q \in opened
  /\ announced' = [announced EXCEPT ![q] = s]
  /\ UNCHANGED <<opened, answered>>

Next ==
  \E q \in Runs :
    \/ Open(q)
    \/ \E s \in Published : Publish(q, s)
    \/ \E s \in Closed : Close(q, s)

Spec == Init /\ [][Next]_ledger
=============================================================================
