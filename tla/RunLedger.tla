------------------------------ MODULE RunLedger ------------------------------
(***************************************************************************)
(* What the live graph promises of one run, free of queues, executors and  *)
(* journals: an outcome is written once, the start and every outcome are   *)
(* decided at most once, a decision may cancel tasks that have no outcome, *)
(* and nothing is written after the decision that ends the run.            *)
(***************************************************************************)
CONSTANT Tasks

VARIABLES outcome,       \* what became of each task
          started,       \* the run exists
          startDecided,  \* the first frontier was committed
          decided,       \* tasks whose outcome the planner has answered
          ended

ledger == <<outcome, started, startDecided, decided, ended>>

Init ==
  /\ outcome = [t \in Tasks |-> "none"]
  /\ started = FALSE /\ startDecided = FALSE
  /\ decided = {}
  /\ ended = FALSE

Begin == /\ ~started /\ started' = TRUE
         /\ UNCHANGED <<outcome, startDecided, decided, ended>>

Report(t) ==
  /\ ~ended /\ outcome[t] = "none"
  /\ \E o \in {"succeeded", "failed"} : outcome' = [outcome EXCEPT ![t] = o]
  /\ UNCHANGED <<started, startDecided, decided, ended>>

(* The effect of a decision: C is cancelled, and the run may end.          *)
Settle(C) ==
  /\ ~ended
  /\ \A t \in C : outcome[t] = "none"
  /\ outcome' = [t \in Tasks |-> IF t \in C THEN "cancelled" ELSE outcome[t]]
  /\ ended' \in BOOLEAN
  /\ UNCHANGED started

DecideStart(C) ==
  /\ started /\ ~startDecided
  /\ Settle(C)
  /\ startDecided' = TRUE
  /\ UNCHANGED decided

DecideOutcome(t, C) ==
  /\ outcome[t] \in {"succeeded", "failed"} /\ t \notin decided
  /\ Settle(C)
  /\ decided' = decided \cup {t}
  /\ UNCHANGED startDecided

Next ==
  \/ Begin
  \/ \E t \in Tasks : Report(t)
  \/ \E C \in SUBSET Tasks : DecideStart(C) \/ \E t \in Tasks : DecideOutcome(t, C)

Spec == Init /\ [][Next]_ledger
=============================================================================
