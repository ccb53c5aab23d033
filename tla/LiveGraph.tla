------------------------------ MODULE LiveGraph ------------------------------
(***************************************************************************)
(* LiveGraphExecutor.run (s13code/core/live_graph/core.py) over the graph  *)
(* store: replay of undecided events, bounded launch of ready tasks, one   *)
(* planner call per outcome, cancellation of workers, crash and resume.    *)
(*                                                                         *)
(* Each executor is one asyncio call of run().  All of them share one      *)
(* event loop: an executor is preempted only at an await, so a step needs  *)
(* every other executor suspended (HoldsLoop).  A crash may fall between   *)
(* any two transactions.  An attempt is one coroutine of a task, numbered  *)
(* by the journal entry that started it.  max_completed, an option only    *)
(* tests use, is left out.                                                 *)
(***************************************************************************)
EXTENDS GraphStore

CONSTANTS Executors,   \* the concurrent calls of run() on this run id
          MaxWorkers,  \* max_workers
          MaxResumes,  \* bound: calls of run(resume=True)
          MaxCrashes   \* bound: process crashes

ASSUME LimitsAssumption == /\ MaxWorkers \in Nat \ {0}
                           /\ MaxResumes \in Nat
                           /\ MaxCrashes \in Nat

VARIABLES pc,        \* where an executor is in run()
          replay,    \* undecided events read at entry and still to be replayed
          trigger,   \* the event the planner is asked about
          inflight,  \* attempts whose future is in the in_flight dict
          batch,     \* attempts asyncio.wait reported done, not yet handled
          resumes, crashes

local == <<pc, replay, trigger, inflight, batch>>
vars == <<store, local, resumes, crashes>>

Planning  == {"replay_plan", "batch_plan"}
Suspended == {"idle", "waiting", "done", "aborted"} \cup Planning
PC == Suspended \cup {"replay", "fill", "batch"}

DoneStatus == {"ok", "error", "cancelled"}
Attempt == [task : Tasks, number : Nat,
            status : DoneStatus \cup {"running", "cancelling"}]

HoldsLoop(e) == \A f \in Executors \ {e} : pc[f] \in Suspended

Goto(e, label) == pc' = [pc EXCEPT ![e] = label]

(* Mutants: futures keep running; a cancelled future leaves the dict's types. *)
CancelNone(A, S) == A
CancelMisspelt(A, S) ==
  {IF a \in S /\ a.status = "running" THEN [a EXCEPT !.status = "canceled"] ELSE a : a \in A}

(* future.cancel() on the attempts in S: no effect on a finished future.   *)
CancelAll(A, S) ==
  {IF a \in S /\ a.status = "running" THEN [a EXCEPT !.status = "cancelling"] ELSE a : a \in A}

Init ==
  /\ StoreInit
  /\ pc = [e \in Executors |-> "idle"]
  /\ replay = [e \in Executors |-> {}]
  /\ trigger = [e \in Executors |-> 0]
  /\ inflight = [e \in Executors |-> {}]
  /\ batch = [e \in Executors |-> {}]
  /\ resumes = 0
  /\ crashes = 0

-----------------------------------------------------------------------------
(* Entry: start or resume, then the replay of undecided events.            *)

BeginRun(e) ==
  /\ HoldsLoop(e) /\ pc[e] = "idle"
  /\ Start
  /\ Goto(e, "replay")
  /\ replay' = [replay EXCEPT ![e] = {1}]
  /\ UNCHANGED <<trigger, inflight, batch, resumes, crashes>>

ResumeRun(e) ==
  /\ HoldsLoop(e) /\ pc[e] \in {"idle", "done", "aborted"}
  /\ resumes < MaxResumes
  /\ Resume
  /\ Goto(e, "replay")
  /\ replay' = [replay EXCEPT ![e] = PendingPlannerEvents]
  /\ resumes' = resumes + 1
  /\ UNCHANGED <<trigger, inflight, batch, crashes>>

ReplayNext(e) ==
  /\ HoldsLoop(e) /\ pc[e] = "replay" /\ ~finished
  /\ \E i \in replay[e] :
       /\ \A j \in replay[e] : i <= j
       /\ trigger' = [trigger EXCEPT ![e] = i]
       /\ replay' = [replay EXCEPT ![e] = @ \ {i}]
  /\ Goto(e, "replay_plan")
  /\ UNCHANGED <<store, inflight, batch, resumes, crashes>>

ReplayEnds(e) ==
  /\ HoldsLoop(e) /\ pc[e] = "replay"
  /\ replay[e] = {} \/ finished
  /\ replay' = [replay EXCEPT ![e] = {}]
  /\ Goto(e, "fill")
  /\ UNCHANGED <<store, trigger, inflight, batch, resumes, crashes>>

-----------------------------------------------------------------------------
(* The planner's answer, which arrives after an await.                     *)

(* Where _plan returns to; after a batch's plan the caller cancels the     *)
(* coroutines of tasks that are now cancelled in the graph.                *)
AfterPlan(e) ==
  IF pc[e] = "replay_plan"
  THEN Goto(e, "replay") /\ UNCHANGED inflight
  ELSE /\ Goto(e, "batch")
       /\ inflight' = [inflight EXCEPT ![e] =
                         CancelAll(@, {a \in @ : state'[a.task] = "cancelled"})]

PlanApplied(e, p) ==
  /\ HoldsLoop(e) /\ pc[e] \in Planning
  /\ ApplyPatch(p, trigger[e])
  /\ AfterPlan(e)
  /\ UNCHANGED <<replay, trigger, batch, resumes, crashes>>

(* Another executor decided this event first: apply_patch returns False.   *)
PlanDuplicate(e) ==
  /\ HoldsLoop(e) /\ pc[e] \in Planning
  /\ trigger[e] \in patched
  /\ UNCHANGED store
  /\ AfterPlan(e)
  /\ UNCHANGED <<replay, trigger, batch, resumes, crashes>>

(* An exception leaves run(): its coroutines are orphans nobody listens to.*)
Abort(e) ==
  /\ Goto(e, "aborted")
  /\ replay' = [replay EXCEPT ![e] = {}]
  /\ inflight' = [inflight EXCEPT ![e] = {}]
  /\ batch' = [batch EXCEPT ![e] = {}]
  /\ UNCHANGED <<store, trigger, resumes, crashes>>

PlanRejected(e, p) ==
  /\ HoldsLoop(e) /\ pc[e] \in Planning
  /\ trigger[e] \notin patched /\ ~ValidPatch(p)
  /\ Abort(e)

-----------------------------------------------------------------------------
(* The main loop: launch, wait, handle what finished.                      *)

(* Mutant: free slots are counted without the futures in flight.           *)
LaunchAll(e) ==
  /\ HoldsLoop(e) /\ pc[e] = "fill"
  /\ ~finished
  /\ \E R \in SUBSET Runnable :
       /\ R # {}
       /\ IsReadyBatch(R, MaxWorkers)
       /\ MarkRunning(R)
       /\ inflight' = [inflight EXCEPT ![e] = @ \cup
            [task : R, number : {Len(journal) + 1}, status : {"running"}]]
  /\ Goto(e, "waiting")
  /\ UNCHANGED <<replay, trigger, batch, resumes, crashes>>

Launch(e) ==
  LET capacity == MaxWorkers - Cardinality(inflight[e])
  IN /\ HoldsLoop(e) /\ pc[e] = "fill"
     /\ ~finished /\ Cardinality(inflight[e]) < MaxWorkers
     /\ \E R \in SUBSET Runnable :
          /\ R # {}
          /\ IsReadyBatch(R, capacity)
          /\ MarkRunning(R)
          /\ inflight' = [inflight EXCEPT ![e] = @ \cup
               [task : R, number : {Len(journal) + 1}, status : {"running"}]]
     /\ Goto(e, "waiting")
     /\ UNCHANGED <<replay, trigger, batch, resumes, crashes>>

(* Mutant: the loop has no exit.                                           *)
WaitForever(e) ==
  /\ HoldsLoop(e) /\ pc[e] = "fill"
  /\ finished \/ Runnable = {} \/ Cardinality(inflight[e]) >= MaxWorkers
  /\ Goto(e, "waiting")
  /\ UNCHANGED <<store, replay, trigger, inflight, batch, resumes, crashes>>

NothingToLaunch(e) ==
  /\ HoldsLoop(e) /\ pc[e] = "fill"
  /\ finished \/ Runnable = {} \/ Cardinality(inflight[e]) >= MaxWorkers
  /\ Goto(e, IF inflight[e] = {} THEN "done" ELSE "waiting")
  /\ UNCHANGED <<store, replay, trigger, inflight, batch, resumes, crashes>>

(* A worker returns or raises, or a cancelled one gets its CancelledError. *)
WorkerEnds(e) ==
  /\ \A f \in Executors : pc[f] \in Suspended
  /\ \E a \in inflight[e], s \in DoneStatus :
       /\ \/ a.status = "running" /\ s \in {"ok", "error"}
          \/ a.status = "cancelling" /\ s = "cancelled"
       /\ inflight' = [inflight EXCEPT ![e] = (@ \ {a}) \cup {[a EXCEPT !.status = s]}]
  /\ UNCHANGED <<store, pc, replay, trigger, batch, resumes, crashes>>

Ended(e) == {a \in inflight[e] : a.status \in DoneStatus}

Wake(e) ==
  /\ HoldsLoop(e) /\ pc[e] = "waiting"
  /\ Ended(e) # {}
  /\ batch' = [batch EXCEPT ![e] = Ended(e)]
  /\ Goto(e, "batch")
  /\ UNCHANGED <<store, replay, trigger, inflight, resumes, crashes>>

(* The future sorted(done) yields next.                                    *)
IsNext(e, a) == a \in batch[e] /\ \A b \in batch[e] : a.task <= b.task

Pop(e, a) ==
  /\ inflight' = [inflight EXCEPT ![e] = @ \ {a}]
  /\ batch' = [batch EXCEPT ![e] = @ \ {a}]

Discardable(a) == a.status = "cancelled" \/ state[a.task] = "cancelled"

DiscardResult(e) ==
  /\ HoldsLoop(e) /\ pc[e] = "batch"
  /\ \E a \in batch[e] : IsNext(e, a) /\ Discardable(a) /\ Pop(e, a)
  /\ UNCHANGED <<store, pc, replay, trigger, resumes, crashes>>

RecordResult(e) ==
  /\ HoldsLoop(e) /\ pc[e] = "batch"
  /\ \E a \in batch[e] :
       /\ IsNext(e, a) /\ ~Discardable(a)
       /\ RecordOutcome(a.task, a.status = "ok")
       /\ Pop(e, a)
  /\ trigger' = [trigger EXCEPT ![e] = Len(journal) + 1]
  /\ Goto(e, IF finished THEN "batch" ELSE "batch_plan")
  /\ UNCHANGED <<replay, resumes, crashes>>

(* record_outcome finds its node no longer running and raises.             *)
ResultRefused(e) ==
  /\ HoldsLoop(e) /\ pc[e] = "batch"
  /\ \E a \in batch[e] : /\ IsNext(e, a) /\ ~Discardable(a)
                         /\ state[a.task] # "running"
  /\ Abort(e)

(* Mutant: returns when nothing is in flight, without filling slots again. *)
BatchEndsEarly(e) ==
  /\ HoldsLoop(e) /\ pc[e] = "batch" /\ batch[e] = {}
  /\ inflight' = [inflight EXCEPT ![e] = IF finished THEN CancelAll(@, @) ELSE @]
  /\ Goto(e, IF inflight[e] = {} THEN "done" ELSE "fill")
  /\ UNCHANGED <<store, replay, trigger, batch, resumes, crashes>>

BatchEnds(e) ==
  /\ HoldsLoop(e) /\ pc[e] = "batch" /\ batch[e] = {}
  /\ inflight' = [inflight EXCEPT ![e] = IF finished THEN CancelAll(@, @) ELSE @]
  /\ Goto(e, "fill")
  /\ UNCHANGED <<store, replay, trigger, batch, resumes, crashes>>

-----------------------------------------------------------------------------
(* The process dies: the database is all that is left.                     *)
Crash ==
  /\ crashes < MaxCrashes
  /\ crashes' = crashes + 1
  /\ pc' = [e \in Executors |-> "idle"]
  /\ replay' = [e \in Executors |-> {}]
  /\ trigger' = [e \in Executors |-> 0]
  /\ inflight' = [e \in Executors |-> {}]
  /\ batch' = [e \in Executors |-> {}]
  /\ UNCHANGED <<store, resumes>>

(* What the executor does once called, up to its return, with a planner    *)
(* that answers with one of the patches P.                                 *)
ExecutorStep(e, P) ==
  \/ ReplayNext(e) \/ ReplayEnds(e)
  \/ PlanDuplicate(e) \/ \E p \in P : PlanApplied(e, p) \/ PlanRejected(e, p)
  \/ Launch(e) \/ NothingToLaunch(e)
  \/ Wake(e) \/ DiscardResult(e) \/ RecordResult(e) \/ ResultRefused(e) \/ BatchEnds(e)

Next ==
  \/ \E e \in Executors : BeginRun(e) \/ ResumeRun(e) \/ ExecutorStep(e, Patches) \/ WorkerEnds(e)
  \/ Crash

Spec == Init /\ [][Next]_vars

(* Planner calls and workers are bounded by HTTP timeouts, and a step that *)
(* needs no await is never postponed; callers and crashes owe nothing.     *)
FairSpec == /\ Spec
            /\ \A e \in Executors : WF_vars(ExecutorStep(e, Patches)) /\ WF_vars(WorkerEnds(e))
-----------------------------------------------------------------------------
(***************************************************************************)
(* Properties.                                                             *)
(***************************************************************************)

StoreTypeOK ==
  /\ state \in [Tasks -> NodeState]
  /\ edges \subseteq Tasks \X Tasks
  /\ journal \in Seq(Entry)
  /\ patched \subseteq Nat
  /\ finished \in BOOLEAN

(* The type invariant of the store and of every executor.                  *)
TypeOK ==
  /\ StoreTypeOK
  /\ pc \in [Executors -> PC]
  /\ replay \in [Executors -> SUBSET Nat]
  /\ trigger \in [Executors -> Nat]
  /\ inflight \in [Executors -> SUBSET Attempt]
  /\ batch \in [Executors -> SUBSET Attempt]
  /\ resumes \in Nat
  /\ crashes \in Nat

(* Finish is a durable cancellation boundary: whatever executors, crashes  *)
(* and resumes do, a finished run has no task left open.                   *)
FinishedIsQuiet == finished => \A t \in Tasks : state[t] \notin Open

OutcomesOf(t) == {i \in DOMAIN journal : journal[i].kind \in OutcomeKinds /\ t \in journal[i].tasks}

(* The journal and the node table tell one story: a task has one outcome   *)
(* event, of the kind its state shows, exactly when it succeeded or failed,*)
(* also when a resumed executor ran it a second time.                      *)
OutcomeOnce ==
  \A t \in Tasks :
    /\ \A i, j \in OutcomesOf(t) : i = j
    /\ \A i \in OutcomesOf(t) : journal[i].kind =
         (IF state[t] = "succeeded" THEN "task_succeeded" ELSE "task_failed")
    /\ (OutcomesOf(t) # {}) <=> (state[t] \in {"succeeded", "failed"})

(* Every event is decided by at most one committed patch, which the ledger *)
(* of patches and the journal agree on, although a live executor and the   *)
(* replay of a resumed one may both have asked the planner about it.       *)
DecidedOnce ==
  LET patches == {i \in DOMAIN journal : journal[i].kind = "graph_patched"}
  IN /\ patched = {journal[i].trigger : i \in patches}
     /\ \A i, j \in patches : journal[i].trigger = journal[j].trigger => i = j
     /\ \A i \in patches : /\ journal[i].trigger \in 1 .. (i - 1)
                           /\ journal[journal[i].trigger].kind \in PlannerKinds

(* A task whose row says cancelled was journalled task_cancelled.          *)
CancelledIsJournalled ==
  \A t \in Tasks : state[t] = "cancelled" =>
    \E i \in DOMAIN journal : journal[i].kind = "graph_patched" /\ t \in journal[i].tasks

(* No outcome is lost between its commit and its decision: once executors  *)
(* have returned (none aborted, none interrupted), every planner event of  *)
(* an unfinished run has its patch.                                        *)
NoOutcomeForgotten ==
  (/\ ~finished
   /\ \E e \in Executors : pc[e] = "done"
   /\ \A e \in Executors : pc[e] \in {"idle", "done"})
  => \A i \in DOMAIN journal : journal[i].kind \in PlannerKinds => i \in patched

(* An executor that returns leaves no task it could have run.              *)
NothingRunnableLeft ==
  (\A e \in Executors : pc[e] = "done") => Runnable = {} \/ finished

(* Bounded parallel work, for a run with one executor: never more futures  *)
(* or running rows than workers, one future per task, and while the        *)
(* executor is in its loop every running row has its future.  Outside a    *)
(* batch, a finished run has no worker left that was not told to stop.     *)
BoundedWork ==
  \A e \in Executors :
    /\ Cardinality(inflight[e]) <= MaxWorkers
    /\ Cardinality({t \in Tasks : state[t] = "running"}) <= MaxWorkers
    /\ \A a, b \in inflight[e] : a.task = b.task => a = b
    /\ pc[e] \in {"fill", "waiting", "batch", "batch_plan", "done"} =>
         {t \in Tasks : state[t] = "running"} \subseteq {a.task : a \in inflight[e]}
    /\ finished /\ pc[e] \in {"fill", "waiting", "done"} =>
         \A a \in inflight[e] : a.status # "running"

(* A terminal task never changes again: a late result does not overwrite   *)
(* a cancellation, a second attempt does not overwrite the first outcome.  *)
TerminalIsFinal ==
  [][\A t \in Tasks : state[t] \in Terminal => state'[t] = state[t]]_vars

(* Nothing but its journal changes after a run finished.                   *)
FinishedIsFrozen ==
  [][finished => UNCHANGED <<state, edges, patched, finished>>]_vars

(* run()'s docstring: only tasks that were interrupted while running are   *)
(* returned to pending.  Refuted: a resume call beside a live executor     *)
(* returns the tasks whose coroutines are at work.                         *)
OnlyInterruptedReturned ==
  [][\A t \in Tasks : state[t] = "running" /\ state'[t] = "pending" =>
       \A e \in Executors : \A a \in inflight[e] : a.task = t => a.status # "running"]_vars

(* A call of run() returns or raises, if no crash takes it away.           *)
RunReturns ==
  \A e \in Executors : pc[e] = "replay" ~> pc[e] \in {"done", "aborted", "idle"}

(* Refinement: the live graph, with any number of executors, crashes and   *)
(* resumes, implements the run ledger.  A task's outcome is its terminal   *)
(* state, and an outcome is decided when its event has a patch.            *)
ledgerOutcome == [t \in Tasks |-> IF state[t] \in Terminal THEN state[t] ELSE "none"]
ledgerDecided == {t \in Tasks : \E i \in OutcomesOf(t) : i \in patched}

Ledger == INSTANCE RunLedger WITH
  outcome <- ledgerOutcome,
  started <- journal # <<>>,
  startDecided <- (1 \in patched),
  decided <- ledgerDecided,
  ended <- finished

ImplementsRunLedger == Ledger!Spec
=============================================================================
