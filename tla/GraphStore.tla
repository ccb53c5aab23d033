----------------------------- MODULE GraphStore -----------------------------
(***************************************************************************)
(* The durable graph of one run (s13code/core/live_graph/store.py): its    *)
(* task nodes, dependency edges, event journal and patch ledger, with one  *)
(* action per committed SQLite transaction.                                *)
(*                                                                         *)
(* A transaction that journals several events writes ONE entry here: the   *)
(* entry of MarkRunning names all tasks it started, and the entry of       *)
(* ApplyPatch names all tasks it journalled as task_cancelled.  An event's *)
(* sequence number is its position in journal.  Payloads, skills, timings  *)
(* and reasons are left out; id lists of a patch are sets.                 *)
(***************************************************************************)
EXTENDS Naturals, Sequences, FiniteSets

CONSTANTS Tasks,    \* the task ids planners use; ordered, as ORDER BY id needs
          Patches   \* the patches planners return

PatchType == [add : SUBSET Tasks, connect : SUBSET (Tasks \X Tasks),
              cancel : SUBSET Tasks, wait : SUBSET Tasks,
              resume : SUBSET Tasks, finish : BOOLEAN]

ASSUME TasksAssumption == Tasks \subseteq Nat /\ IsFiniteSet(Tasks)
ASSUME PatchesAssumption == Patches \subseteq PatchType

VARIABLES state,     \* the node table: a task's state, "absent" before its INSERT
          edges,     \* the edge table: <<parent, child>> pairs
          journal,   \* the event table, oldest first
          patched,   \* the patch table: sequence numbers of decided events
          finished   \* runs.finished

store == <<state, edges, journal, patched, finished>>

Open     == {"pending", "waiting", "running"}
Terminal == {"succeeded", "failed", "cancelled"}
NodeState == {"absent"} \cup Open \cup Terminal

OutcomeKinds == {"task_succeeded", "task_failed"}
PlannerKinds == {"run_started"} \cup OutcomeKinds
ExternalKinds == {"a2a_task_completed", "a2a_task_cancelled", "graph_cancel_requested"}
Kinds == PlannerKinds \cup ExternalKinds \cup {"run_resumed", "task_started", "graph_patched"}

(* trigger is the decided event of a graph_patched entry, and 0 elsewhere. *)
Entry == [kind : Kinds, tasks : SUBSET Tasks, trigger : Nat]
Event(k, ts) == [kind |-> k, tasks |-> ts, trigger |-> 0]

Nodes == {t \in Tasks : state[t] # "absent"}

StoreInit ==
  /\ state = [t \in Tasks |-> "absent"]
  /\ edges = {}
  /\ journal = <<>>
  /\ patched = {}
  /\ finished = FALSE

-----------------------------------------------------------------------------
(* Reads.                                                                  *)

Parents(t) == {p \in Tasks : <<p, t>> \in edges}

(* Tasks ready() may hand out: pending with every parent succeeded.        *)
Runnable == {t \in Tasks : /\ state[t] = "pending"
                           /\ \A p \in Parents(t) : state[p] = "succeeded"}

(* R is what ready(limit) returns: the first ids of Runnable, at most limit. *)
IsReadyBatch(R, limit) ==
  /\ R \subseteq Runnable
  /\ Cardinality(R) <= limit
  /\ R # Runnable => Cardinality(R) = limit
  /\ \A r \in R, s \in Runnable \ R : r < s

(* Mutant: the replay forgets failures.                                    *)
PendingSuccesses ==
  {i \in DOMAIN journal :
     journal[i].kind \in PlannerKinds \ {"task_failed"} /\ i \notin patched}

(* Planner events whose mutation was not committed yet.                    *)
PendingPlannerEvents ==
  {i \in DOMAIN journal : journal[i].kind \in PlannerKinds /\ i \notin patched}

(* A dependency cycle: some parents each of which has a child among them.  *)
HasCycle(E) ==
  \E S \in (SUBSET {c[1] : c \in E}) \ {{}} : \A n \in S : \E m \in S : <<n, m>> \in E

(* Mutant: a patch is not refused because the run finished.                *)
ValidPatchLate(p) ==
  LET all == Nodes \cup p.add
  IN /\ p.add \cap Nodes = {}
     /\ \A c \in p.connect : c[1] \in all /\ c[2] \in all /\ c[1] # c[2]
     /\ p.cancel \cup p.wait \cup p.resume \subseteq all
     /\ \A t \in p.cancel : state[t] \in Open
     /\ ~HasCycle(edges \cup p.connect)

ValidPatch(p) ==
  LET all == Nodes \cup p.add
  IN /\ ~finished
     /\ p.add \cap Nodes = {}
     /\ \A c \in p.connect : c[1] \in all /\ c[2] \in all /\ c[1] # c[2]
     /\ p.cancel \cup p.wait \cup p.resume \subseteq all
     /\ \A t \in p.cancel : state[t] \in Open
     /\ \A t \in p.wait : t \in Nodes => state[t] = "pending"
     /\ \A t \in p.resume : t \in Nodes => state[t] = "waiting"
     /\ ~HasCycle(edges \cup p.connect)

-----------------------------------------------------------------------------
(* Transactions.                                                           *)

Start ==
  /\ journal = <<>>
  /\ journal' = <<Event("run_started", {})>>
  /\ UNCHANGED <<state, edges, patched, finished>>

Resume ==
  /\ journal # <<>>
  /\ state' = [t \in Tasks |-> IF state[t] = "running" THEN "pending" ELSE state[t]]
  /\ journal' = Append(journal, Event("run_resumed", {}))
  /\ UNCHANGED <<edges, patched, finished>>

MarkRunning(R) ==
  /\ state' = [t \in Tasks |-> IF t \in R /\ state[t] = "pending" THEN "running"
                               ELSE state[t]]
  /\ journal' = Append(journal, Event("task_started", R))
  /\ UNCHANGED <<edges, patched, finished>>

(* Mutant: the UPDATE does not ask for a running node.                     *)
RecordAnyOutcome(t, success) ==
  /\ state' = [state EXCEPT ![t] = IF success THEN "succeeded" ELSE "failed"]
  /\ journal' = Append(journal, Event(IF success THEN "task_succeeded" ELSE "task_failed", {t}))
  /\ UNCHANGED <<edges, patched, finished>>

(* The guard is the row count check: the UPDATE matches a running node.    *)
RecordOutcome(t, success) ==
  /\ state[t] = "running"
  /\ state' = [state EXCEPT ![t] = IF success THEN "succeeded" ELSE "failed"]
  /\ journal' = Append(journal, Event(IF success THEN "task_succeeded" ELSE "task_failed", {t}))
  /\ UNCHANGED <<edges, patched, finished>>

(* An event of a transport: no planner is asked about it.                  *)
RecordExternalEvent(k, t) ==
  /\ journal # <<>>
  /\ journal' = Append(journal, Event(k, {t}))
  /\ UNCHANGED <<state, edges, patched, finished>>

(* The UPDATEs run in the order add, cancel, wait, resume, so that a task  *)
(* named by several lists ends where the last of them leaves it.           *)
Edited(p) ==
  [t \in Tasks |-> IF t \in p.resume THEN "pending"
                   ELSE IF t \in p.wait THEN "waiting"
                   ELSE IF t \in p.cancel THEN "cancelled"
                   ELSE IF t \in p.add THEN "pending"
                   ELSE state[t]]

(* Mutant: finish forgets the parked tasks.                                *)
LeftoversButWaiting(p) ==
  IF p.finish THEN {t \in Tasks : Edited(p)[t] \in {"pending", "running"}} ELSE {}

Leftovers(p) == IF p.finish THEN {t \in Tasks : Edited(p)[t] \in Open} ELSE {}

(* Mutants: a duplicate is not recognised; leftovers are not journalled.   *)
ApplyPatchAgain(p, trigger) ==
  /\ ValidPatch(p)
  /\ state' = [t \in Tasks |-> IF t \in Leftovers(p) THEN "cancelled" ELSE Edited(p)[t]]
  /\ edges' = edges \cup p.connect
  /\ finished' = p.finish
  /\ journal' = Append(journal, [kind |-> "graph_patched",
                                 tasks |-> p.cancel \cup Leftovers(p),
                                 trigger |-> trigger])
  /\ patched' = patched \cup {trigger}
ApplyPatchSilently(p, trigger) ==
  /\ trigger \notin patched
  /\ ValidPatch(p)
  /\ state' = [t \in Tasks |-> IF t \in Leftovers(p) THEN "cancelled" ELSE Edited(p)[t]]
  /\ edges' = edges \cup p.connect
  /\ finished' = p.finish
  /\ journal' = Append(journal, [kind |-> "graph_patched", tasks |-> p.cancel,
                                 trigger |-> trigger])
  /\ patched' = patched \cup {trigger}

ApplyPatch(p, trigger) ==
  /\ trigger \notin patched
  /\ ValidPatch(p)
  /\ state' = [t \in Tasks |-> IF t \in Leftovers(p) THEN "cancelled" ELSE Edited(p)[t]]
  /\ edges' = edges \cup p.connect
  /\ finished' = p.finish
  /\ journal' = Append(journal, [kind |-> "graph_patched",
                                 tasks |-> p.cancel \cup Leftovers(p),
                                 trigger |-> trigger])
  /\ patched' = patched \cup {trigger}
=============================================================================
