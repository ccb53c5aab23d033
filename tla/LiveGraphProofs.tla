--------------------------- MODULE LiveGraphProofs ---------------------------
(***************************************************************************)
(* Theorems of LiveGraph for every set of tasks, patches and executors and *)
(* every bound.  The store's invariants are proved once over its committed *)
(* transactions (StoreStep), whichever executor commits them.              *)
(***************************************************************************)
EXTENDS LiveGraph, FiniteSetTheorems, TLAPS

(* The transactions a step of the system may commit.                       *)
StoreStep ==
  \/ UNCHANGED store
  \/ Start
  \/ Resume
  \/ \E R \in SUBSET Runnable : R # {} /\ MarkRunning(R)
  \/ \E t \in Tasks, b \in BOOLEAN : RecordOutcome(t, b)
  \/ \E p \in PatchType, e \in Executors : pc[e] \in Planning /\ ApplyPatch(p, trigger[e])

(* A step of the executors whose planners answer anything of the type.     *)
AnyNext ==
  \/ \E e \in Executors :
       BeginRun(e) \/ ResumeRun(e) \/ ExecutorStep(e, PatchType) \/ WorkerEnds(e)
  \/ Crash

LEMMA PatchesAreAny ==
  ASSUME NEW P \in SUBSET PatchType, NEW e \in Executors, ExecutorStep(e, P)
  PROVE  ExecutorStep(e, PatchType)
BY DEF ExecutorStep

LEMMA NextIsAny == ASSUME [Next]_vars PROVE [AnyNext]_vars
BY PatchesAssumption, PatchesAreAny DEF Next, AnyNext

(* A step of any executor, worker or crash commits at most one transaction.*)
LEMMA AnyStepIsStoreStep ==
  ASSUME TypeOK, [AnyNext]_vars
  PROVE  StoreStep
<1>1. ASSUME NEW e \in Executors, BeginRun(e) PROVE StoreStep
  BY <1>1 DEF BeginRun, StoreStep
<1>2. ASSUME NEW e \in Executors, ResumeRun(e) PROVE StoreStep
  BY <1>2 DEF ResumeRun, StoreStep
<1>3. ASSUME NEW e \in Executors, ReplayNext(e) \/ ReplayEnds(e) PROVE StoreStep
  BY <1>3 DEF ReplayNext, ReplayEnds, StoreStep
<1>4. ASSUME NEW e \in Executors, NEW p \in PatchType, PlanApplied(e, p) PROVE StoreStep
  BY <1>4 DEF PlanApplied, StoreStep
<1>5. ASSUME NEW e \in Executors,
             PlanDuplicate(e) \/ \E p \in PatchType : PlanRejected(e, p)
      PROVE  StoreStep
  BY <1>5 DEF PlanDuplicate, PlanRejected, Abort, StoreStep
<1>6. ASSUME NEW e \in Executors, Launch(e) PROVE StoreStep
  BY <1>6 DEF Launch, StoreStep
<1>7. ASSUME NEW e \in Executors,
             NothingToLaunch(e) \/ Wake(e) \/ DiscardResult(e) \/ BatchEnds(e)
      PROVE  StoreStep
  BY <1>7 DEF NothingToLaunch, Wake, DiscardResult, BatchEnds, StoreStep
<1>8. ASSUME NEW e \in Executors, RecordResult(e) PROVE StoreStep
  <2>1. PICK a \in batch[e] : RecordOutcome(a.task, a.status = "ok")
    BY <1>8 DEF RecordResult
  <2>2. a.task \in Tasks
    BY <2>1 DEF TypeOK, Attempt
  <2>3. (a.status = "ok") \in BOOLEAN
    OBVIOUS
  <2>4. QED
    BY <2>1, <2>2, <2>3 DEF StoreStep
<1>9. ASSUME NEW e \in Executors, ResultRefused(e) \/ WorkerEnds(e) PROVE StoreStep
  BY <1>9 DEF ResultRefused, Abort, WorkerEnds, StoreStep
<1>10. CASE Crash
  BY <1>10 DEF Crash, StoreStep
<1>11. CASE UNCHANGED vars
  BY <1>11 DEF vars, StoreStep
<1>12. QED
  BY <1>1, <1>2, <1>3, <1>4, <1>5, <1>6, <1>7, <1>8, <1>9, <1>10, <1>11
     DEF AnyNext, ExecutorStep

LEMMA StepIsStoreStep ==
  ASSUME TypeOK, [Next]_vars
  PROVE  StoreStep
BY NextIsAny, AnyStepIsStoreStep

-----------------------------------------------------------------------------
(* Types.                                                                  *)

LEMMA PatchFields ==
  ASSUME NEW p \in PatchType
  PROVE  /\ p.add \subseteq Tasks /\ p.cancel \subseteq Tasks
         /\ p.wait \subseteq Tasks /\ p.resume \subseteq Tasks
         /\ p.connect \subseteq Tasks \X Tasks /\ p.finish \in BOOLEAN
BY DEF PatchType

LEMMA StoreTypes ==
  ASSUME TypeOK, StoreStep
  PROVE  StoreTypeOK'
<1> USE DEF StoreTypeOK, NodeState, Open, Terminal
<1>0. StoreTypeOK
  BY DEF TypeOK
<1>1. CASE UNCHANGED store
  BY <1>0, <1>1 DEF store
<1>2. CASE Start
  BY <1>0, <1>2 DEF Start, Event, Entry, Kinds, PlannerKinds
<1>3. CASE Resume
  BY <1>0, <1>3 DEF Resume, Event, Entry, Kinds
<1>4. ASSUME NEW R \in SUBSET Runnable, MarkRunning(R) PROVE StoreTypeOK'
  <2>1. R \subseteq Tasks
    BY DEF Runnable
  <2>2. Event("task_started", R) \in Entry
    BY <2>1 DEF Event, Entry, Kinds
  <2>3. QED
    BY <1>0, <1>4, <2>2 DEF MarkRunning
<1>5. ASSUME NEW t \in Tasks, NEW b \in BOOLEAN, RecordOutcome(t, b) PROVE StoreTypeOK'
  <2>1. Event(IF b THEN "task_succeeded" ELSE "task_failed", {t}) \in Entry
    BY DEF Event, Entry, Kinds, PlannerKinds, OutcomeKinds
  <2>2. QED
    BY <1>0, <1>5, <2>1 DEF RecordOutcome
<1>6. ASSUME NEW p \in PatchType, NEW e \in Executors, ApplyPatch(p, trigger[e])
      PROVE  StoreTypeOK'
  <2>1. trigger[e] \in Nat
    BY DEF TypeOK
  <2>2. p.cancel \cup Leftovers(p) \subseteq Tasks
    BY PatchFields DEF Leftovers
  <2>3. [kind |-> "graph_patched", tasks |-> p.cancel \cup Leftovers(p),
         trigger |-> trigger[e]] \in Entry
    BY <2>1, <2>2 DEF Entry, Kinds
  <2>4. journal' \in Seq(Entry)
    BY <1>0, <1>6, <2>3 DEF ApplyPatch
  <2>5. state' \in [Tasks -> NodeState]
    BY <1>0, <1>6 DEF ApplyPatch, Edited
  <2>6. edges' \subseteq Tasks \X Tasks /\ finished' \in BOOLEAN /\ patched' \subseteq Nat
    BY <1>0, <1>6, <2>1, PatchFields DEF ApplyPatch
  <2>7. QED
    BY <2>4, <2>5, <2>6
<1>7. QED
  BY <1>1, <1>2, <1>3, <1>4, <1>5, <1>6 DEF StoreStep

LEMMA CancelAllTyped ==
  ASSUME NEW A \in SUBSET Attempt, NEW S
  PROVE  CancelAll(A, S) \subseteq Attempt
BY DEF CancelAll, Attempt

LocalTypeOK ==
  /\ pc \in [Executors -> PC]
  /\ replay \in [Executors -> SUBSET Nat]
  /\ trigger \in [Executors -> Nat]
  /\ inflight \in [Executors -> SUBSET Attempt]
  /\ batch \in [Executors -> SUBSET Attempt]
  /\ resumes \in Nat
  /\ crashes \in Nat

LEMMA LocalTypes ==
  ASSUME TypeOK, [AnyNext]_vars
  PROVE  LocalTypeOK'
<1> USE DEF LocalTypeOK, Goto, PC, Suspended, Planning
<1>0. LocalTypeOK /\ Len(journal) \in Nat
  BY DEF TypeOK, StoreTypeOK
<1>1. ASSUME NEW e \in Executors, BeginRun(e) PROVE LocalTypeOK'
  BY <1>0, <1>1 DEF BeginRun
<1>2. ASSUME NEW e \in Executors, ResumeRun(e) PROVE LocalTypeOK'
  <2>1. PendingPlannerEvents \subseteq Nat
    BY DEF PendingPlannerEvents, TypeOK, StoreTypeOK
  <2>2. QED
    BY <1>0, <1>2, <2>1 DEF ResumeRun
<1>3. ASSUME NEW e \in Executors, ReplayNext(e) PROVE LocalTypeOK'
  BY <1>0, <1>3 DEF ReplayNext
<1>4. ASSUME NEW e \in Executors, ReplayEnds(e) PROVE LocalTypeOK'
  BY <1>0, <1>4 DEF ReplayEnds
<1>5. ASSUME NEW e \in Executors,
             PlanDuplicate(e) \/ \E p \in PatchType : PlanApplied(e, p)
      PROVE  LocalTypeOK'
  <2>1. UNCHANGED <<replay, trigger, batch, resumes, crashes>> /\ AfterPlan(e)
    BY <1>5 DEF PlanApplied, PlanDuplicate
  <2>2. CancelAll(inflight[e], {a \in inflight[e] : state'[a.task] = "cancelled"}) \subseteq Attempt
    BY <1>0, CancelAllTyped
  <2>3. QED
    BY <1>0, <2>1, <2>2 DEF AfterPlan
<1>6. ASSUME NEW e \in Executors,
             ResultRefused(e) \/ \E p \in PatchType : PlanRejected(e, p)
      PROVE  LocalTypeOK'
  BY <1>0, <1>6 DEF PlanRejected, ResultRefused, Abort
<1>7. ASSUME NEW e \in Executors, Launch(e) PROVE LocalTypeOK'
  <2>1. PICK R \in SUBSET Runnable :
          inflight' = [inflight EXCEPT ![e] = @ \cup
                        [task : R, number : {Len(journal) + 1}, status : {"running"}]]
    BY <1>7 DEF Launch
  <2>2. [task : R, number : {Len(journal) + 1}, status : {"running"}] \subseteq Attempt
    BY <1>0 DEF Attempt, Runnable
  <2>3. inflight' \in [Executors -> SUBSET Attempt]
    BY <1>0, <2>1, <2>2
  <2>4. QED
    BY <1>0, <1>7, <2>3 DEF Launch
<1>8. ASSUME NEW e \in Executors, NothingToLaunch(e) PROVE LocalTypeOK'
  BY <1>0, <1>8 DEF NothingToLaunch
<1>9. ASSUME NEW e \in Executors, WorkerEnds(e) PROVE LocalTypeOK'
  <2>1. PICK a \in inflight[e], s \in DoneStatus :
          inflight' = [inflight EXCEPT ![e] = (@ \ {a}) \cup {[a EXCEPT !.status = s]}]
    BY <1>9 DEF WorkerEnds
  <2>2. [a EXCEPT !.status = s] \in Attempt
    <3>1. a \in Attempt
      BY <1>0
    <3>2. QED
      BY <3>1 DEF Attempt
  <2>3. inflight' \in [Executors -> SUBSET Attempt]
    BY <1>0, <2>1, <2>2
  <2>4. QED
    BY <1>0, <1>9, <2>3 DEF WorkerEnds
<1>10. ASSUME NEW e \in Executors, Wake(e) PROVE LocalTypeOK'
  BY <1>0, <1>10 DEF Wake, Ended
<1>11. ASSUME NEW e \in Executors, DiscardResult(e) PROVE LocalTypeOK'
  BY <1>0, <1>11 DEF DiscardResult, Pop
<1>12. ASSUME NEW e \in Executors, RecordResult(e) PROVE LocalTypeOK'
  BY <1>0, <1>12 DEF RecordResult, Pop
<1>13. ASSUME NEW e \in Executors, BatchEnds(e) PROVE LocalTypeOK'
  <2>1. CancelAll(inflight[e], inflight[e]) \subseteq Attempt
    BY <1>0, CancelAllTyped
  <2>2. QED
    BY <1>0, <1>13, <2>1 DEF BatchEnds
<1>14. CASE Crash
  BY <1>0, <1>14 DEF Crash
<1>15. CASE UNCHANGED vars
  BY <1>0, <1>15 DEF vars, local
<1>16. QED
  BY <1>1, <1>2, <1>3, <1>4, <1>5, <1>6, <1>7, <1>8, <1>9, <1>10, <1>11, <1>12,
     <1>13, <1>14, <1>15 DEF AnyNext, ExecutorStep

(* Type correctness: rows, journal entries, patch ledger and executors keep*)
(* their types for every set of tasks, patches and executors.              *)
THEOREM LiveGraphTypes == Spec => []TypeOK
<1>1. Init => TypeOK
  <2>1. StoreInit => StoreTypeOK
    <3>1. StoreInit => state \in [Tasks -> NodeState]
      BY DEF StoreInit, NodeState
    <3>2. <<>> \in Seq(Entry)
      OBVIOUS
    <3>3. QED
      BY <3>1, <3>2 DEF StoreInit, StoreTypeOK
  <2>2. QED
    BY <2>1 DEF Init, TypeOK, PC, Suspended
<1>2. TypeOK /\ [Next]_vars => TypeOK'
  BY NextIsAny, StepIsStoreStep, StoreTypes, LocalTypes DEF TypeOK, LocalTypeOK
<1>3. QED
  BY <1>1, <1>2, PTL DEF Spec

-----------------------------------------------------------------------------
(* The cancellation boundary.                                              *)

LEMMA QuietStep ==
  ASSUME TypeOK, FinishedIsQuiet, StoreStep
  PROVE  FinishedIsQuiet'
<1> USE DEF FinishedIsQuiet, Open
<1>0. state \in [Tasks -> NodeState]
  BY DEF TypeOK, StoreTypeOK
<1>1. CASE UNCHANGED store
  BY <1>1 DEF store
<1>2. CASE Start
  BY <1>2 DEF Start
<1>3. CASE Resume
  BY <1>3 DEF Resume
<1>4. ASSUME NEW R \in SUBSET Runnable, MarkRunning(R) PROVE FinishedIsQuiet'
  BY <1>4 DEF MarkRunning
<1>5. ASSUME NEW t \in Tasks, NEW b \in BOOLEAN, RecordOutcome(t, b) PROVE FinishedIsQuiet'
  BY <1>0, <1>5 DEF RecordOutcome
<1>6. ASSUME NEW p \in PatchType, NEW e \in Executors, ApplyPatch(p, trigger[e])
      PROVE  FinishedIsQuiet'
  <2>1. SUFFICES ASSUME p.finish, NEW t \in Tasks PROVE state'[t] \notin Open
    BY <1>6 DEF ApplyPatch
  <2>2. CASE t \in Leftovers(p)
    BY <1>6, <2>2 DEF ApplyPatch
  <2>3. CASE t \notin Leftovers(p)
    <3>1. Edited(p)[t] \notin Open
      BY <2>1, <2>3 DEF Leftovers
    <3>2. state'[t] = Edited(p)[t]
      BY <1>6, <2>3 DEF ApplyPatch
    <3>3. QED
      BY <3>1, <3>2
  <2>4. QED
    BY <2>2, <2>3
<1>7. QED
  BY <1>1, <1>2, <1>3, <1>4, <1>5, <1>6 DEF StoreStep

(* A finished run keeps no pending, waiting or running task, whichever     *)
(* executors, crashes and resumes follow the patch that finished it.       *)
THEOREM LiveGraphFinishedIsQuiet == Spec => []FinishedIsQuiet
<1>1. Init => FinishedIsQuiet
  BY DEF Init, StoreInit, FinishedIsQuiet
<1>2. TypeOK /\ FinishedIsQuiet /\ [Next]_vars => FinishedIsQuiet'
  BY StepIsStoreStep, QuietStep
<1>3. QED
  BY <1>1, <1>2, LiveGraphTypes, PTL DEF Spec

(* What a valid patch may touch: only tasks that have no outcome yet.      *)
LEMMA PatchSparesTerminal ==
  ASSUME TypeOK, NEW p \in PatchType, ValidPatch(p), NEW t \in Tasks,
         state[t] \in Terminal
  PROVE  /\ Edited(p)[t] = state[t]
         /\ t \notin p.cancel \cup Leftovers(p)
<1>1. state[t] \notin Open /\ t \in Nodes
  BY DEF Terminal, Open, Nodes
<1>2. t \notin p.add /\ t \notin p.cancel
  BY <1>1 DEF ValidPatch
<1>3. t \notin p.wait /\ t \notin p.resume
  BY <1>1 DEF ValidPatch, Terminal
<1>4. Edited(p)[t] = state[t]
  BY <1>2, <1>3 DEF Edited
<1>5. QED
  BY <1>1, <1>2, <1>4 DEF Leftovers

LEMMA TerminalStep ==
  ASSUME TypeOK, StoreStep, NEW t \in Tasks, state[t] \in Terminal
  PROVE  state'[t] = state[t]
<1>0. state \in [Tasks -> NodeState]
  BY DEF TypeOK, StoreTypeOK
<1>1. CASE UNCHANGED store
  BY <1>1 DEF store
<1>2. CASE Start
  BY <1>2 DEF Start
<1>3. CASE Resume
  BY <1>3 DEF Resume, Terminal
<1>4. ASSUME NEW R \in SUBSET Runnable, MarkRunning(R) PROVE state'[t] = state[t]
  BY <1>4 DEF MarkRunning, Terminal
<1>5. ASSUME NEW u \in Tasks, NEW b \in BOOLEAN, RecordOutcome(u, b)
      PROVE  state'[t] = state[t]
  BY <1>0, <1>5 DEF RecordOutcome, Terminal
<1>6. ASSUME NEW p \in PatchType, NEW e \in Executors, ApplyPatch(p, trigger[e])
      PROVE  state'[t] = state[t]
  BY <1>6, PatchSparesTerminal DEF ApplyPatch
<1>7. QED
  BY <1>1, <1>2, <1>3, <1>4, <1>5, <1>6 DEF StoreStep

(* A succeeded, failed or cancelled task keeps its state forever: neither  *)
(* a late result, nor a second attempt, nor a patch, nor a resume moves it.*)
THEOREM LiveGraphTerminalIsFinal == Spec => TerminalIsFinal
<1>1. TypeOK /\ [Next]_vars
      => [\A t \in Tasks : state[t] \in Terminal => state'[t] = state[t]]_vars
  BY StepIsStoreStep, TerminalStep
<1>2. QED
  BY <1>1, LiveGraphTypes, PTL DEF Spec, TerminalIsFinal

LEMMA FrozenStep ==
  ASSUME TypeOK, FinishedIsQuiet, StoreStep, finished
  PROVE  UNCHANGED <<state, edges, patched, finished>>
<1>0. /\ state \in [Tasks -> NodeState]
      /\ \A t \in Tasks : state[t] \notin {"pending", "waiting", "running"}
  BY DEF TypeOK, StoreTypeOK, FinishedIsQuiet, Open
<1>1. CASE UNCHANGED store
  BY <1>1 DEF store
<1>2. CASE Start
  BY <1>2 DEF Start
<1>3. CASE Resume
  BY <1>0, <1>3 DEF Resume
<1>4. ASSUME NEW R \in SUBSET Runnable, MarkRunning(R)
      PROVE  UNCHANGED <<state, edges, patched, finished>>
  <2>1. state' = state
    BY <1>0, <1>4 DEF MarkRunning
  <2>2. QED
    BY <1>4, <2>1 DEF MarkRunning
<1>5. ASSUME NEW u \in Tasks, NEW b \in BOOLEAN, RecordOutcome(u, b) PROVE FALSE
  BY <1>0, <1>5 DEF RecordOutcome
<1>6. ASSUME NEW p \in PatchType, NEW e \in Executors, ApplyPatch(p, trigger[e]) PROVE FALSE
  BY <1>6 DEF ApplyPatch, ValidPatch
<1>7. QED
  BY <1>1, <1>2, <1>3, <1>4, <1>5, <1>6 DEF StoreStep

(* After its finishing patch a run's nodes, edges and patches never change *)
(* again; only its journal may still record a resume.                      *)
THEOREM LiveGraphFinishedIsFrozen == Spec => FinishedIsFrozen
<1>1. TypeOK /\ FinishedIsQuiet /\ [Next]_vars
      => [finished => UNCHANGED <<state, edges, patched, finished>>]_vars
  BY StepIsStoreStep, FrozenStep
<1>2. QED
  BY <1>1, LiveGraphTypes, LiveGraphFinishedIsQuiet, PTL DEF Spec, FinishedIsFrozen

-----------------------------------------------------------------------------
(* The journal.                                                            *)

LEMMA AppendFacts ==
  ASSUME NEW s \in Seq(Entry), NEW x \in Entry
  PROVE  /\ DOMAIN Append(s, x) = DOMAIN s \cup {Len(s) + 1}
         /\ Len(s) + 1 \notin DOMAIN s
         /\ \A i \in DOMAIN s : Append(s, x)[i] = s[i]
         /\ Append(s, x)[Len(s) + 1] = x
OBVIOUS

(* The entry a transaction appends.                                        *)
Appends(x) == x \in Entry /\ journal' = Append(journal, x)

LEMMA StoreStepAppends ==
  ASSUME TypeOK, StoreStep
  PROVE  UNCHANGED store \/ \E x \in Entry : Appends(x)
<1> USE DEF Appends
<1>0. state \in [Tasks -> NodeState] /\ journal \in Seq(Entry)
  BY DEF TypeOK, StoreTypeOK
<1>1. CASE Start
  <2>1. Event("run_started", {}) \in Entry
    BY DEF Event, Entry, Kinds, PlannerKinds
  <2>2. journal' = Append(journal, Event("run_started", {}))
    BY <1>1 DEF Start
  <2>3. QED
    BY <2>1, <2>2
<1>2. CASE Resume
  <2>1. Event("run_resumed", {}) \in Entry
    BY DEF Event, Entry, Kinds
  <2>2. QED
    BY <1>2, <2>1 DEF Resume
<1>3. ASSUME NEW R \in SUBSET Runnable, MarkRunning(R) PROVE \E x \in Entry : Appends(x)
  <2>1. Event("task_started", R) \in Entry
    BY DEF Event, Entry, Kinds, Runnable
  <2>2. QED
    BY <1>3, <2>1 DEF MarkRunning
<1>4. ASSUME NEW t \in Tasks, NEW b \in BOOLEAN, RecordOutcome(t, b)
      PROVE  \E x \in Entry : Appends(x)
  <2>1. Event(IF b THEN "task_succeeded" ELSE "task_failed", {t}) \in Entry
    BY DEF Event, Entry, Kinds, PlannerKinds, OutcomeKinds
  <2>2. QED
    BY <1>4, <2>1 DEF RecordOutcome
<1>5. ASSUME NEW p \in PatchType, NEW e \in Executors, ApplyPatch(p, trigger[e])
      PROVE  \E x \in Entry : Appends(x)
  <2>1. [kind |-> "graph_patched", tasks |-> p.cancel \cup Leftovers(p),
         trigger |-> trigger[e]] \in Entry
    BY PatchFields DEF Leftovers, Entry, Kinds, TypeOK
  <2>2. QED
    BY <1>5, <2>1 DEF ApplyPatch
<1>6. QED
  BY <1>1, <1>2, <1>3, <1>4, <1>5 DEF StoreStep

LEMMA JournalStep ==
  ASSUME TypeOK, StoreStep
  PROVE  /\ Len(journal') \in {Len(journal), Len(journal) + 1}
         /\ \A i \in DOMAIN journal : i \in DOMAIN journal' /\ journal'[i] = journal[i]
<1>0. journal \in Seq(Entry)
  BY DEF TypeOK, StoreTypeOK
<1>1. CASE UNCHANGED store
  BY <1>0, <1>1 DEF store
<1>2. ASSUME NEW x \in Entry, Appends(x)
      PROVE  /\ Len(journal') = Len(journal) + 1
             /\ \A i \in DOMAIN journal : i \in DOMAIN journal' /\ journal'[i] = journal[i]
  BY <1>0, <1>2, AppendFacts DEF Appends
<1>3. QED
  BY <1>1, <1>2, StoreStepAppends

LEMMA OutcomesUnmoved ==
  ASSUME TypeOK, NEW x \in Entry, Appends(x), x.kind \notin OutcomeKinds, NEW t \in Tasks
  PROVE  /\ OutcomesOf(t)' = OutcomesOf(t)
         /\ \A i \in OutcomesOf(t) : journal'[i] = journal[i]
<1>1. journal \in Seq(Entry)
  BY DEF TypeOK, StoreTypeOK
<1>2. QED
  BY <1>1, AppendFacts DEF Appends, OutcomesOf

LEMMA OutcomeOnceStep ==
  ASSUME TypeOK, OutcomeOnce, StoreStep
  PROVE  OutcomeOnce'
<1>0. state \in [Tasks -> NodeState] /\ journal \in Seq(Entry)
  BY DEF TypeOK, StoreTypeOK
<1> DEFINE Outcome(s) == IF s = "succeeded" THEN "task_succeeded" ELSE "task_failed"
<1> DEFINE OneStory(t) ==
      /\ \A i, j \in OutcomesOf(t) : i = j
      /\ \A i \in OutcomesOf(t) : journal[i].kind = Outcome(state[t])
      /\ (OutcomesOf(t) # {}) <=> (state[t] \in {"succeeded", "failed"})
<1>a. SUFFICES ASSUME NEW t \in Tasks PROVE OneStory(t)'
  BY DEF OutcomeOnce
<1>b. OneStory(t)
  BY DEF OutcomeOnce
(* A transaction that journals no outcome and moves no task to or from one.*)
<1>c. ASSUME NEW x \in Entry, Appends(x), x.kind \notin OutcomeKinds,
             state[t] \in {"succeeded", "failed"} \/ state'[t] \in {"succeeded", "failed"}
               => state'[t] = state[t]
      PROVE  OneStory(t)'
  BY <1>b, <1>c, OutcomesUnmoved
<1>1. CASE UNCHANGED store
  BY <1>b, <1>1 DEF store, OutcomesOf
<1>2. CASE Start
  <2>1. journal' = Append(journal, Event("run_started", {})) /\ state' = state
    BY <1>2 DEF Start
  <2>2. Event("run_started", {}) \in Entry /\ Event("run_started", {}).kind \notin OutcomeKinds
    BY DEF Event, Entry, Kinds, PlannerKinds, OutcomeKinds
  <2>3. QED
    BY <1>c, <2>1, <2>2 DEF Appends
<1>3. CASE Resume
  <2>1. journal' = Append(journal, Event("run_resumed", {}))
    BY <1>3 DEF Resume
  <2>2. Event("run_resumed", {}) \in Entry /\ Event("run_resumed", {}).kind \notin OutcomeKinds
    BY DEF Event, Entry, Kinds, PlannerKinds, OutcomeKinds
  <2>3. QED
    BY <1>3, <1>c, <2>1, <2>2 DEF Appends, Resume
<1>4. ASSUME NEW R \in SUBSET Runnable, MarkRunning(R) PROVE OneStory(t)'
  <2>1. Event("task_started", R) \in Entry /\ Event("task_started", R).kind \notin OutcomeKinds
    BY DEF Event, Entry, Kinds, PlannerKinds, OutcomeKinds, Runnable
  <2>2. QED
    BY <1>4, <1>c, <2>1 DEF Appends, MarkRunning
<1>5. ASSUME NEW u \in Tasks, NEW b \in BOOLEAN, RecordOutcome(u, b) PROVE OneStory(t)'
  <2> DEFINE x == Event(IF b THEN "task_succeeded" ELSE "task_failed", {u})
  <2>1. /\ x \in Entry /\ x.tasks = {u} /\ x.kind \in OutcomeKinds
        /\ x.kind = IF b THEN "task_succeeded" ELSE "task_failed"
    BY DEF Event, Entry, Kinds, PlannerKinds, OutcomeKinds
  <2>2. /\ journal' = Append(journal, x) /\ state[u] = "running"
        /\ state' = [state EXCEPT ![u] = IF b THEN "succeeded" ELSE "failed"]
    BY <1>5 DEF RecordOutcome
  <2> HIDE DEF x
  <2>3. /\ DOMAIN journal' = DOMAIN journal \cup {Len(journal) + 1}
        /\ \A i \in DOMAIN journal : journal'[i] = journal[i]
        /\ journal'[Len(journal) + 1] = x
        /\ Len(journal) + 1 \notin DOMAIN journal
    BY <1>0, <2>1, <2>2, AppendFacts
  <2>4. CASE t # u
    <3>1. OutcomesOf(t)' = OutcomesOf(t)
      BY <2>1, <2>3, <2>4 DEF OutcomesOf
    <3>2. \A i \in OutcomesOf(t) : journal'[i] = journal[i]
      BY <2>3 DEF OutcomesOf
    <3>3. state'[t] = state[t]
      BY <1>0, <2>2, <2>4
    <3>4. QED
      BY <1>b, <3>1, <3>2, <3>3
  <2>5. CASE t = u
    <3>1. OutcomesOf(t) = {}
      BY <1>b, <2>2, <2>5
    <3>2. OutcomesOf(t)' = {Len(journal) + 1}
      BY <2>1, <2>3, <2>5, <3>1 DEF OutcomesOf
    <3>3. state'[t] = IF b THEN "succeeded" ELSE "failed"
      BY <1>0, <2>2, <2>5
    <3>4. QED
      BY <2>1, <2>3, <3>2, <3>3
  <2>6. QED
    BY <2>4, <2>5
<1>6. ASSUME NEW p \in PatchType, NEW e \in Executors, ApplyPatch(p, trigger[e])
      PROVE  OneStory(t)'
  <2> DEFINE x == [kind |-> "graph_patched", tasks |-> p.cancel \cup Leftovers(p),
                   trigger |-> trigger[e]]
  <2>1. x \in Entry /\ x.kind \notin OutcomeKinds
    BY PatchFields DEF Leftovers, Entry, Kinds, OutcomeKinds, TypeOK
  <2>2. journal' = Append(journal, x) /\ ValidPatch(p)
    BY <1>6 DEF ApplyPatch
  <2>3. state'[t] = IF t \in Leftovers(p) THEN "cancelled" ELSE Edited(p)[t]
    BY <1>6 DEF ApplyPatch
  <2>4. CASE state[t] \in Terminal
    BY <1>c, <2>1, <2>2, <2>3, <2>4, PatchSparesTerminal DEF Appends
  <2>5. CASE state[t] \notin Terminal
    <3>1. Edited(p)[t] \in {"pending", "waiting", "cancelled", state[t]}
      BY DEF Edited
    <3>2. state'[t] \notin {"succeeded", "failed"} /\ state[t] \notin {"succeeded", "failed"}
      BY <2>3, <2>5, <3>1 DEF Terminal
    <3>3. QED
      BY <1>c, <2>1, <2>2, <3>2 DEF Appends
  <2>6. QED
    BY <2>4, <2>5
<1>7. QED
  BY <1>1, <1>2, <1>3, <1>4, <1>5, <1>6 DEF StoreStep

(* Node table and journal tell one story of each task: exactly one outcome *)
(* event when it succeeded or failed, of that kind, and none otherwise.    *)
THEOREM LiveGraphOutcomeOnce == Spec => []OutcomeOnce
<1>1. Init => OutcomeOnce
  <2>1. ASSUME Init, NEW t \in Tasks PROVE OutcomesOf(t) = {} /\ state[t] = "absent"
    BY <2>1 DEF Init, StoreInit, OutcomesOf
  <2>2. QED
    BY <2>1 DEF OutcomeOnce
<1>2. TypeOK /\ OutcomeOnce /\ [Next]_vars => OutcomeOnce'
  BY StepIsStoreStep, OutcomeOnceStep
<1>3. QED
  BY <1>1, <1>2, LiveGraphTypes, PTL DEF Spec

-----------------------------------------------------------------------------
(* Decisions.                                                              *)

PlannerEvents == {i \in DOMAIN journal : journal[i].kind \in PlannerKinds}

(* What executors ask the planner about, or are still to replay, is a      *)
(* planner event of the journal.                                           *)
AsksAboutEvents ==
  \A e \in Executors : /\ replay[e] \subseteq PlannerEvents
                       /\ pc[e] \in Planning => trigger[e] \in PlannerEvents

LEMMA PlannerEventsGrow ==
  ASSUME TypeOK, StoreStep
  PROVE  PlannerEvents \subseteq PlannerEvents'
BY JournalStep DEF PlannerEvents

LEMMA AsksStep ==
  ASSUME TypeOK, AsksAboutEvents, [AnyNext]_vars
  PROVE  AsksAboutEvents'
<1> USE DEF AsksAboutEvents, Goto, Planning
<1>0. /\ PlannerEvents \subseteq PlannerEvents'
      /\ pc \in [Executors -> PC] /\ trigger \in [Executors -> Nat]
      /\ replay \in [Executors -> SUBSET Nat] /\ journal \in Seq(Entry)
  BY AnyStepIsStoreStep, PlannerEventsGrow DEF TypeOK, StoreTypeOK
<1>1. ASSUME NEW e \in Executors, BeginRun(e) PROVE AsksAboutEvents'
  <2>1. 1 \in PlannerEvents'
    BY <1>1 DEF BeginRun, Start, Event, PlannerEvents, PlannerKinds
  <2>2. QED
    BY <1>0, <1>1, <2>1 DEF BeginRun
<1>2. ASSUME NEW e \in Executors, ResumeRun(e) PROVE AsksAboutEvents'
  <2>1. PendingPlannerEvents \subseteq PlannerEvents
    BY DEF PendingPlannerEvents, PlannerEvents
  <2>2. QED
    BY <1>0, <1>2, <2>1 DEF ResumeRun
<1>3. ASSUME NEW e \in Executors, ReplayNext(e) PROVE AsksAboutEvents'
  BY <1>0, <1>3 DEF ReplayNext
<1>4. ASSUME NEW e \in Executors, ReplayEnds(e) PROVE AsksAboutEvents'
  BY <1>0, <1>4 DEF ReplayEnds
<1>5. ASSUME NEW e \in Executors,
             PlanDuplicate(e) \/ \E p \in PatchType : PlanApplied(e, p)
      PROVE  AsksAboutEvents'
  BY <1>0, <1>5 DEF PlanApplied, PlanDuplicate, AfterPlan
<1>6. ASSUME NEW e \in Executors,
             ResultRefused(e) \/ \E p \in PatchType : PlanRejected(e, p)
      PROVE  AsksAboutEvents'
  BY <1>0, <1>6 DEF PlanRejected, ResultRefused, Abort
<1>7. ASSUME NEW e \in Executors,
             Launch(e) \/ NothingToLaunch(e) \/ Wake(e) \/ BatchEnds(e)
      PROVE  AsksAboutEvents'
  BY <1>0, <1>7 DEF Launch, NothingToLaunch, Wake, BatchEnds
<1>8. ASSUME NEW e \in Executors, WorkerEnds(e) \/ DiscardResult(e) PROVE AsksAboutEvents'
  BY <1>0, <1>8 DEF WorkerEnds, DiscardResult
<1>9. ASSUME NEW e \in Executors, RecordResult(e) PROVE AsksAboutEvents'
  <2>1. PICK a \in batch[e] : RecordOutcome(a.task, a.status = "ok")
    BY <1>9 DEF RecordResult
  <2> DEFINE x == Event(IF a.status = "ok" THEN "task_succeeded" ELSE "task_failed", {a.task})
  <2>2. x \in Entry /\ x.kind \in PlannerKinds
    BY DEF Event, Entry, Kinds, PlannerKinds, OutcomeKinds, TypeOK, Attempt
  <2>3. journal' = Append(journal, x)
    BY <2>1 DEF RecordOutcome
  <2> HIDE DEF x
  <2>4. Len(journal) + 1 \in PlannerEvents'
    BY <1>0, <2>2, <2>3, AppendFacts DEF PlannerEvents
  <2>5. QED
    BY <1>0, <1>9, <2>4 DEF RecordResult
<1>10. CASE Crash
  BY <1>0, <1>10 DEF Crash
<1>11. CASE UNCHANGED vars
  BY <1>0, <1>11 DEF vars, local
<1>12. QED
  BY <1>1, <1>2, <1>3, <1>4, <1>5, <1>6, <1>7, <1>8, <1>9, <1>10, <1>11
     DEF AnyNext, ExecutorStep

LEMMA AsksInvariant == Spec => []AsksAboutEvents
<1>1. Init => AsksAboutEvents
  BY DEF Init, AsksAboutEvents, Planning
<1>2. TypeOK /\ AsksAboutEvents /\ [Next]_vars => AsksAboutEvents'
  BY NextIsAny, AsksStep
<1>3. QED
  BY <1>1, <1>2, LiveGraphTypes, PTL DEF Spec

PatchEntries == {i \in DOMAIN journal : journal[i].kind = "graph_patched"}

LEMMA DecidedOnceStep ==
  ASSUME TypeOK, AsksAboutEvents, DecidedOnce, StoreStep
  PROVE  DecidedOnce'
<1>0. journal \in Seq(Entry) /\ patched \subseteq Nat
  BY DEF TypeOK, StoreTypeOK
<1> DEFINE Consistent ==
      /\ patched = {journal[i].trigger : i \in PatchEntries}
      /\ \A i, j \in PatchEntries : journal[i].trigger = journal[j].trigger => i = j
      /\ \A i \in PatchEntries : /\ journal[i].trigger \in 1 .. (i - 1)
                                /\ journal[journal[i].trigger].kind \in PlannerKinds
<1>a. Consistent
  BY DEF DecidedOnce, PatchEntries
<1>b. SUFFICES Consistent'
  BY DEF DecidedOnce, PatchEntries
(* A transaction that journals no patch.                                   *)
<1>c. ASSUME NEW x \in Entry, Appends(x), x.kind # "graph_patched", patched' = patched
      PROVE  Consistent'
  <2>1. /\ DOMAIN journal' = DOMAIN journal \cup {Len(journal) + 1}
        /\ Len(journal) + 1 \notin DOMAIN journal
        /\ \A i \in DOMAIN journal : journal'[i] = journal[i]
        /\ journal'[Len(journal) + 1] = x
    BY <1>0, <1>c, AppendFacts DEF Appends
  <2>2. PatchEntries' = PatchEntries
    BY <1>c, <2>1 DEF PatchEntries
  <2>3. \A i \in PatchEntries : /\ journal'[i] = journal[i]
                                /\ journal[i].trigger \in DOMAIN journal
    BY <1>0, <1>a, <2>1 DEF PatchEntries
  <2>4. QED
    BY <1>a, <1>c, <2>1, <2>2, <2>3
<1>1. CASE UNCHANGED store
  BY <1>a, <1>1 DEF store, PatchEntries
<1>2. CASE Start
  <2>1. Event("run_started", {}) \in Entry /\ Event("run_started", {}).kind # "graph_patched"
    BY DEF Event, Entry, Kinds, PlannerKinds
  <2>2. journal' = Append(journal, Event("run_started", {}))
    BY <1>2 DEF Start
  <2>3. QED
    BY <1>2, <1>c, <2>1, <2>2 DEF Appends, Start
<1>3. CASE Resume
  <2>1. Event("run_resumed", {}) \in Entry /\ Event("run_resumed", {}).kind # "graph_patched"
    BY DEF Event, Entry, Kinds
  <2>2. QED
    BY <1>3, <1>c, <2>1 DEF Appends, Resume
<1>4. ASSUME NEW R \in SUBSET Runnable, MarkRunning(R) PROVE Consistent'
  <2>1. Event("task_started", R) \in Entry /\ Event("task_started", R).kind # "graph_patched"
    BY DEF Event, Entry, Kinds, Runnable
  <2>2. QED
    BY <1>4, <1>c, <2>1 DEF Appends, MarkRunning
<1>5. ASSUME NEW u \in Tasks, NEW b \in BOOLEAN, RecordOutcome(u, b) PROVE Consistent'
  <2> DEFINE x == Event(IF b THEN "task_succeeded" ELSE "task_failed", {u})
  <2>1. x \in Entry /\ x.kind # "graph_patched"
    BY DEF Event, Entry, Kinds, PlannerKinds, OutcomeKinds
  <2>2. journal' = Append(journal, x) /\ patched' = patched
    BY <1>5 DEF RecordOutcome
  <2> HIDE DEF x
  <2>3. QED
    BY <1>c, <2>1, <2>2 DEF Appends
<1>6. ASSUME NEW p \in PatchType, NEW e \in Executors,
             pc[e] \in Planning, ApplyPatch(p, trigger[e])
      PROVE  Consistent'
  <2> DEFINE x == [kind |-> "graph_patched", tasks |-> p.cancel \cup Leftovers(p),
                   trigger |-> trigger[e]]
  <2> DEFINE new == Len(journal) + 1
  <2>1. x \in Entry /\ x.kind = "graph_patched" /\ x.trigger = trigger[e]
    BY PatchFields DEF Leftovers, Entry, Kinds, TypeOK
  <2>2. /\ journal' = Append(journal, x) /\ patched' = patched \cup {trigger[e]}
        /\ trigger[e] \notin patched
    BY <1>6 DEF ApplyPatch
  <2>3. trigger[e] \in DOMAIN journal /\ journal[trigger[e]].kind \in PlannerKinds
    BY <1>6 DEF AsksAboutEvents, PlannerEvents
  <2> HIDE DEF x
  <2>4. /\ DOMAIN journal' = DOMAIN journal \cup {new}
        /\ new \notin DOMAIN journal
        /\ \A i \in DOMAIN journal : journal'[i] = journal[i]
        /\ journal'[new] = x
    BY <1>0, <2>1, <2>2, AppendFacts
  <2>5. PatchEntries' = PatchEntries \cup {new}
    BY <2>1, <2>4 DEF PatchEntries
  <2>6. \A i \in PatchEntries : /\ journal'[i] = journal[i]
                                /\ journal[i].trigger \in DOMAIN journal
                                /\ journal[i].trigger # trigger[e]
    BY <1>0, <1>a, <2>2 DEF PatchEntries
  <2>7. patched' = {journal'[i].trigger : i \in PatchEntries'}
    <3>1. journal'[new].trigger = trigger[e]
      BY <2>1, <2>4
    <3>2. {journal'[i].trigger : i \in PatchEntries'}
            = {journal'[i].trigger : i \in PatchEntries} \cup {trigger[e]}
      BY <2>5, <3>1
    <3>3. {journal'[i].trigger : i \in PatchEntries} = {journal[i].trigger : i \in PatchEntries}
      BY <2>6
    <3>4. QED
      BY <1>a, <2>2, <3>2, <3>3
  <2>8. \A i, j \in PatchEntries' : journal'[i].trigger = journal'[j].trigger => i = j
    BY <1>a, <2>1, <2>4, <2>5, <2>6
  <2>9. ASSUME NEW i \in PatchEntries'
        PROVE  /\ journal'[i].trigger \in 1 .. (i - 1)
               /\ journal'[journal'[i].trigger].kind \in PlannerKinds
    <3>1. CASE i \in PatchEntries
      BY <1>a, <2>4, <2>6, <3>1
    <3>2. CASE i = new
      <4>1. trigger[e] \in 1 .. (new - 1)
        BY <1>0, <2>3
      <4>2. QED
        BY <2>1, <2>3, <2>4, <3>2, <4>1
    <3>3. QED
      BY <2>5, <3>1, <3>2
  <2>10. QED
    BY <2>7, <2>8, <2>9
<1>7. QED
  BY <1>1, <1>2, <1>3, <1>4, <1>5, <1>6 DEF StoreStep

(* A planner event is decided by at most one committed patch, also when a  *)
(* live executor and the replay of a resumed one both asked about it.      *)
THEOREM LiveGraphDecidedOnce == Spec => []DecidedOnce
<1>1. Init => DecidedOnce
  BY DEF Init, StoreInit, DecidedOnce
<1>2. TypeOK /\ AsksAboutEvents /\ DecidedOnce /\ [Next]_vars => DecidedOnce'
  BY StepIsStoreStep, DecidedOnceStep
<1>3. QED
  BY <1>1, <1>2, LiveGraphTypes, AsksInvariant, PTL DEF Spec

-----------------------------------------------------------------------------
(* The live graph implements the run ledger.                               *)

(* The journal starts with its only run_started event, before which there  *)
(* is no task, and an outcome event is about one task.                     *)
JournalShape ==
  /\ journal = <<>> => \A t \in Tasks : state[t] = "absent"
  /\ \A i \in DOMAIN journal :
       /\ journal[i].kind = "run_started" <=> i = 1
       /\ journal[i].kind \in OutcomeKinds => \E t \in Tasks : journal[i].tasks = {t}

LEMMA ShapeStep ==
  ASSUME TypeOK, AsksAboutEvents, JournalShape, StoreStep
  PROVE  JournalShape'
<1>0. journal \in Seq(Entry)
  BY DEF TypeOK, StoreTypeOK
(* An entry that keeps the shape of a journal that has its start event.    *)
<1>c. ASSUME NEW x \in Entry, Appends(x), journal # <<>>, x.kind # "run_started",
             x.kind \in OutcomeKinds => \E t \in Tasks : x.tasks = {t}
      PROVE  JournalShape'
  <2>1. /\ DOMAIN journal' = DOMAIN journal \cup {Len(journal) + 1}
        /\ \A i \in DOMAIN journal : journal'[i] = journal[i]
        /\ journal'[Len(journal) + 1] = x
        /\ Len(journal) + 1 \notin DOMAIN journal
    BY <1>0, <1>c, AppendFacts DEF Appends
  <2>2. Len(journal) + 1 # 1 /\ journal' # <<>>
    BY <1>0, <1>c, <2>1
  <2>3. QED
    BY <1>c, <2>1, <2>2 DEF JournalShape
<1>1. CASE UNCHANGED store
  BY <1>1 DEF store, JournalShape
<1>2. CASE Start
  BY <1>2 DEF Start, Event, JournalShape, OutcomeKinds
<1>3. CASE Resume
  <2>1. /\ Event("run_resumed", {}) \in Entry /\ Event("run_resumed", {}).kind # "run_started"
        /\ Event("run_resumed", {}).kind \notin OutcomeKinds
    BY DEF Event, Entry, Kinds, OutcomeKinds
  <2>2. journal # <<>> /\ journal' = Append(journal, Event("run_resumed", {}))
    BY <1>3 DEF Resume
  <2>3. QED
    BY <1>c, <2>1, <2>2 DEF Appends
<1>4. ASSUME NEW R \in SUBSET Runnable, R # {}, MarkRunning(R) PROVE JournalShape'
  <2>1. /\ Event("task_started", R) \in Entry /\ Event("task_started", R).kind # "run_started"
        /\ Event("task_started", R).kind \notin OutcomeKinds
    BY DEF Event, Entry, Kinds, OutcomeKinds, Runnable
  <2>2. journal # <<>>
    BY <1>4 DEF Runnable, JournalShape
  <2>3. journal' = Append(journal, Event("task_started", R))
    BY <1>4 DEF MarkRunning
  <2>4. QED
    BY <1>c, <2>1, <2>2, <2>3 DEF Appends
<1>5. ASSUME NEW u \in Tasks, NEW b \in BOOLEAN, RecordOutcome(u, b) PROVE JournalShape'
  <2> DEFINE x == Event(IF b THEN "task_succeeded" ELSE "task_failed", {u})
  <2>1. x \in Entry /\ x.kind # "run_started" /\ x.tasks = {u}
    BY DEF Event, Entry, Kinds, PlannerKinds, OutcomeKinds
  <2>2. journal' = Append(journal, x) /\ state[u] = "running"
    BY <1>5 DEF RecordOutcome
  <2>3. journal # <<>>
    BY <2>2 DEF JournalShape
  <2> HIDE DEF x
  <2>4. QED
    BY <1>c, <2>1, <2>2, <2>3 DEF Appends
<1>6. ASSUME NEW p \in PatchType, NEW e \in Executors,
             pc[e] \in Planning, ApplyPatch(p, trigger[e])
      PROVE  JournalShape'
  <2> DEFINE x == [kind |-> "graph_patched", tasks |-> p.cancel \cup Leftovers(p),
                   trigger |-> trigger[e]]
  <2>1. x \in Entry /\ x.kind # "run_started" /\ x.kind \notin OutcomeKinds
    BY PatchFields DEF Leftovers, Entry, Kinds, OutcomeKinds, TypeOK
  <2>2. journal' = Append(journal, x)
    BY <1>6 DEF ApplyPatch
  <2>3. journal # <<>>
    BY <1>6 DEF AsksAboutEvents, PlannerEvents
  <2> HIDE DEF x
  <2>4. QED
    BY <1>c, <2>1, <2>2, <2>3 DEF Appends
<1>7. QED
  BY <1>1, <1>2, <1>3, <1>4, <1>5, <1>6 DEF StoreStep

LEMMA ShapeInvariant == Spec => []JournalShape
<1>1. Init => JournalShape
  BY DEF Init, StoreInit, JournalShape
<1>2. QED
  BY <1>1, ShapeStep, StepIsStoreStep, AsksInvariant, LiveGraphTypes, PTL DEF Spec

(* Everything the step simulation rests on.                                *)
LedgerInv == TypeOK /\ FinishedIsQuiet /\ OutcomeOnce /\ DecidedOnce
             /\ AsksAboutEvents /\ JournalShape

LEMMA PatchedAreEvents ==
  ASSUME TypeOK, DecidedOnce
  PROVE  patched \subseteq DOMAIN journal
BY DEF DecidedOnce, TypeOK, StoreTypeOK

(* A transaction that records no outcome and no decision is invisible.     *)
LEMMA StutterStep ==
  ASSUME LedgerInv, NEW x \in Entry, Appends(x), x.kind \notin OutcomeKinds,
         journal # <<>>, UNCHANGED <<patched, finished>>,
         state' \in [Tasks -> NodeState],
         \A t \in Tasks : state[t] \in Terminal \/ state'[t] \in Terminal => state'[t] = state[t]
  PROVE  UNCHANGED Ledger!ledger
<1>1. UNCHANGED ledgerOutcome
  BY DEF ledgerOutcome
<1>2. \A t \in Tasks : OutcomesOf(t)' = OutcomesOf(t)
  BY OutcomesUnmoved DEF LedgerInv
<1>3. UNCHANGED ledgerDecided
  BY <1>2 DEF ledgerDecided
<1>4. journal' # <<>>
  BY AppendFacts DEF Appends, LedgerInv, TypeOK, StoreTypeOK
<1>5. QED
  BY <1>1, <1>3, <1>4 DEF Ledger!ledger

LEMMA RecordIsReport ==
  ASSUME LedgerInv, NEW t \in Tasks, NEW b \in BOOLEAN, RecordOutcome(t, b)
  PROVE  Ledger!Report(t)
<1> DEFINE x == Event(IF b THEN "task_succeeded" ELSE "task_failed", {t})
<1>0. state \in [Tasks -> NodeState] /\ journal \in Seq(Entry) /\ patched \subseteq DOMAIN journal
  BY PatchedAreEvents DEF LedgerInv, TypeOK, StoreTypeOK
<1>1. /\ state[t] = "running" /\ journal' = Append(journal, x)
      /\ state' = [state EXCEPT ![t] = IF b THEN "succeeded" ELSE "failed"]
      /\ UNCHANGED <<patched, finished>>
  BY DEF RecordOutcome
<1>2. x \in Entry
  BY DEF Event, Entry, Kinds, PlannerKinds, OutcomeKinds
<1> HIDE DEF x
<1>3. /\ DOMAIN journal' = DOMAIN journal \cup {Len(journal) + 1}
      /\ Len(journal) + 1 \notin DOMAIN journal
      /\ \A i \in DOMAIN journal : journal'[i] = journal[i]
  BY <1>0, <1>1, <1>2, AppendFacts
<1>4. ~finished
  BY <1>1 DEF LedgerInv, FinishedIsQuiet, Open
<1>5. ledgerOutcome[t] = "none"
  BY <1>1 DEF ledgerOutcome, Terminal
<1>6. ledgerOutcome' = [ledgerOutcome EXCEPT ![t] = IF b THEN "succeeded" ELSE "failed"]
  BY <1>0, <1>1 DEF ledgerOutcome, Terminal
<1>7. ledgerDecided' = ledgerDecided
  BY <1>0, <1>1, <1>3 DEF ledgerDecided, OutcomesOf
<1>8. journal # <<>> /\ journal' # <<>>
  BY <1>0, <1>1, <1>3 DEF LedgerInv, JournalShape
<1>9. QED
  BY <1>1, <1>4, <1>5, <1>6, <1>7, <1>8 DEF Ledger!Report

LEMMA PatchIsDecision ==
  ASSUME LedgerInv, NEW p \in PatchType, NEW e \in Executors,
         pc[e] \in Planning, ApplyPatch(p, trigger[e])
  PROVE  \E C \in SUBSET Tasks :
           Ledger!DecideStart(C) \/ \E t \in Tasks : Ledger!DecideOutcome(t, C)
<1> DEFINE x == [kind |-> "graph_patched", tasks |-> p.cancel \cup Leftovers(p),
                 trigger |-> trigger[e]]
<1> DEFINE C == {t \in Tasks : state[t] \notin Terminal /\ state'[t] = "cancelled"}
<1>0. state \in [Tasks -> NodeState] /\ journal \in Seq(Entry) /\ TypeOK
  BY DEF LedgerInv, TypeOK, StoreTypeOK
<1>1. /\ journal' = Append(journal, x) /\ patched' = patched \cup {trigger[e]}
      /\ trigger[e] \notin patched /\ ~finished /\ finished' = p.finish
      /\ ValidPatch(p)
      /\ state' = [t \in Tasks |-> IF t \in Leftovers(p) THEN "cancelled" ELSE Edited(p)[t]]
  BY DEF ApplyPatch, ValidPatch
<1>2. x \in Entry /\ x.kind \notin OutcomeKinds
  BY <1>0, PatchFields DEF Leftovers, Entry, Kinds, OutcomeKinds, TypeOK
<1>3. /\ trigger[e] \in DOMAIN journal
      /\ journal[trigger[e]].kind \in PlannerKinds
  BY DEF LedgerInv, AsksAboutEvents, PlannerEvents
<1> HIDE DEF x
<1>4. \A t \in Tasks : OutcomesOf(t)' = OutcomesOf(t)
  BY <1>0, <1>1, <1>2, OutcomesUnmoved DEF Appends
<1>5. journal # <<>> /\ journal' # <<>>
  BY <1>0, <1>1, <1>2, <1>3, AppendFacts
<1>6. ASSUME NEW t \in Tasks
      PROVE  ledgerOutcome'[t] = IF t \in C THEN "cancelled" ELSE ledgerOutcome[t]
  <2>1. CASE state[t] \in Terminal
    <3>1. state'[t] = state[t]
      BY <1>0, <1>1, <2>1, PatchSparesTerminal
    <3>2. QED
      BY <2>1, <3>1 DEF ledgerOutcome
  <2>2. CASE state[t] \notin Terminal
    <3>1. Edited(p)[t] \in {"pending", "waiting", "cancelled", state[t]}
      BY DEF Edited
    <3>2. state'[t] \in {"pending", "waiting", "cancelled", state[t]}
      BY <1>1, <3>1
    <3>3. state'[t] \in Terminal <=> state'[t] = "cancelled"
      BY <2>2, <3>2 DEF Terminal
    <3>4. QED
      BY <2>2, <3>3 DEF ledgerOutcome
  <2>3. QED
    BY <2>1, <2>2
<1>7. Ledger!Settle(C)
  <2>1. ledgerOutcome' = [t \in Tasks |-> IF t \in C THEN "cancelled" ELSE ledgerOutcome[t]]
    BY <1>6 DEF ledgerOutcome
  <2>2. \A t \in C : ledgerOutcome[t] = "none"
    BY DEF ledgerOutcome
  <2>3. finished' \in BOOLEAN
    BY <1>1, PatchFields
  <2>4. (journal # <<>>)' = (journal # <<>>)
    BY <1>5
  <2> HIDE DEF C
  <2>5. QED
    BY <1>1, <2>1, <2>2, <2>3, <2>4 DEF Ledger!Settle
<1>8. C \in SUBSET Tasks
  OBVIOUS
<1>9. CASE journal[trigger[e]].kind = "run_started"
  <2>1. trigger[e] = 1
    BY <1>3, <1>9 DEF LedgerInv, JournalShape
  <2>2. \A t \in Tasks : 1 \notin OutcomesOf(t)
    BY <1>9, <2>1 DEF OutcomesOf, OutcomeKinds
  <2>3. ledgerDecided' = ledgerDecided
    BY <1>1, <1>4, <2>1, <2>2 DEF ledgerDecided
  <2>4. Ledger!DecideStart(C)
    BY <1>1, <1>5, <1>7, <2>1, <2>3 DEF Ledger!DecideStart
  <2>5. QED
    BY <1>8, <2>4
<1>10. CASE journal[trigger[e]].kind \in OutcomeKinds
  <2>1. PICK t \in Tasks : journal[trigger[e]].tasks = {t}
    BY <1>3, <1>10 DEF LedgerInv, JournalShape
  <2>2. trigger[e] \in OutcomesOf(t)
    BY <1>3, <1>10, <2>1 DEF OutcomesOf
  <2>3. \A i \in OutcomesOf(t) : i = trigger[e]
    BY <2>2 DEF LedgerInv, OutcomeOnce
  <2>4. \A u \in Tasks \ {t} : trigger[e] \notin OutcomesOf(u)
    BY <2>1 DEF OutcomesOf
  <2>5. t \notin ledgerDecided
    BY <1>1, <2>3 DEF ledgerDecided
  <2>6. ledgerDecided' = ledgerDecided \cup {t}
    BY <1>1, <1>4, <2>2, <2>4 DEF ledgerDecided
  <2>7. ledgerOutcome[t] \in {"succeeded", "failed"}
    BY <2>2 DEF LedgerInv, OutcomeOnce, ledgerOutcome, Terminal
  <2>8. trigger[e] # 1
    BY <1>3, <1>10 DEF LedgerInv, JournalShape, OutcomeKinds
  <2>9. (1 \in patched)' = (1 \in patched)
    BY <1>1, <2>8
  <2>10. Ledger!DecideOutcome(t, C)
    BY <1>7, <2>5, <2>6, <2>7, <2>9 DEF Ledger!DecideOutcome
  <2>11. QED
    BY <1>8, <2>10
<1>11. QED
  BY <1>3, <1>9, <1>10 DEF PlannerKinds

LEMMA LedgerStep ==
  ASSUME LedgerInv, StoreStep
  PROVE  [Ledger!Next]_(Ledger!ledger)
<1>0. state \in [Tasks -> NodeState] /\ journal \in Seq(Entry) /\ StoreTypeOK'
  BY StoreTypes DEF LedgerInv, TypeOK, StoreTypeOK
<1>1. CASE UNCHANGED store
  BY <1>1 DEF store, Ledger!ledger, ledgerOutcome, ledgerDecided, OutcomesOf
<1>2. CASE Start
  <2>1. /\ journal = <<>> /\ journal' = <<Event("run_started", {})>>
        /\ UNCHANGED <<state, patched, finished>>
    BY <1>2 DEF Start
  <2>2. Event("run_started", {}).kind \notin OutcomeKinds
    BY DEF Event, OutcomeKinds
  <2>3. \A t \in Tasks : OutcomesOf(t) = {} /\ OutcomesOf(t)' = {}
    BY <2>1, <2>2 DEF OutcomesOf
  <2>4. UNCHANGED ledgerOutcome /\ UNCHANGED ledgerDecided
    BY <2>1, <2>3 DEF ledgerOutcome, ledgerDecided
  <2>5. (journal # <<>>) = FALSE /\ (journal # <<>>)' = TRUE
    BY <2>1
  <2>6. Ledger!Begin
    BY <2>1, <2>4, <2>5 DEF Ledger!Begin
  <2>7. QED
    BY <2>6 DEF Ledger!Next
<1>3. CASE Resume
  <2>1. Event("run_resumed", {}) \in Entry /\ Event("run_resumed", {}).kind \notin OutcomeKinds
    BY DEF Event, Entry, Kinds, OutcomeKinds
  <2>2. /\ journal # <<>> /\ Appends(Event("run_resumed", {}))
        /\ UNCHANGED <<patched, finished>>
    BY <1>3, <2>1 DEF Resume, Appends
  <2>3. \A t \in Tasks : state[t] \in Terminal \/ state'[t] \in Terminal => state'[t] = state[t]
    BY <1>3 DEF Resume, Terminal
  <2>4. UNCHANGED Ledger!ledger
    BY <1>0, <2>1, <2>2, <2>3, StutterStep DEF StoreTypeOK
  <2>5. QED
    BY <2>4
<1>4. ASSUME NEW R \in SUBSET Runnable, R # {}, MarkRunning(R)
      PROVE  [Ledger!Next]_(Ledger!ledger)
  <2>1. Event("task_started", R) \in Entry /\ Event("task_started", R).kind \notin OutcomeKinds
    BY DEF Event, Entry, Kinds, OutcomeKinds, Runnable
  <2>2. Appends(Event("task_started", R)) /\ UNCHANGED <<patched, finished>>
    BY <1>4, <2>1 DEF MarkRunning, Appends
  <2>3. journal # <<>>
    BY <1>4 DEF Runnable, LedgerInv, JournalShape
  <2>4. \A t \in Tasks : state[t] \in Terminal \/ state'[t] \in Terminal => state'[t] = state[t]
    BY <1>4 DEF MarkRunning, Terminal
  <2>5. UNCHANGED Ledger!ledger
    BY <1>0, <2>1, <2>2, <2>3, <2>4, StutterStep DEF StoreTypeOK
  <2>6. QED
    BY <2>5
<1>5. ASSUME NEW t \in Tasks, NEW b \in BOOLEAN, RecordOutcome(t, b)
      PROVE  [Ledger!Next]_(Ledger!ledger)
  BY <1>5, RecordIsReport DEF Ledger!Next
<1>6. ASSUME NEW p \in PatchType, NEW e \in Executors,
             pc[e] \in Planning, ApplyPatch(p, trigger[e])
      PROVE  [Ledger!Next]_(Ledger!ledger)
  BY <1>6, PatchIsDecision DEF Ledger!Next
<1>7. QED
  BY <1>1, <1>2, <1>3, <1>4, <1>5, <1>6 DEF StoreStep

(* The executors, over the store, with crashes, resumes and concurrent     *)
(* calls, implement the run ledger: outcomes are written once and decided  *)
(* at most once, and nothing follows the decision that ends the run.       *)
THEOREM LiveGraphImplementsRunLedger == Spec => ImplementsRunLedger
<1>1. Init => Ledger!Init
  <2>1. ASSUME Init
        PROVE  /\ ledgerOutcome = [t \in Tasks |-> "none"] /\ ledgerDecided = {}
               /\ (journal # <<>>) = FALSE /\ (1 \in patched) = FALSE /\ finished = FALSE
    BY <2>1 DEF Init, StoreInit, ledgerOutcome, ledgerDecided, Terminal
  <2>2. QED
    BY <2>1 DEF Ledger!Init
<1>2. LedgerInv /\ [Next]_vars => [Ledger!Next]_(Ledger!ledger)
  BY StepIsStoreStep, LedgerStep DEF LedgerInv
<1>3. Spec => []LedgerInv
  BY LiveGraphTypes, LiveGraphFinishedIsQuiet, LiveGraphOutcomeOnce, LiveGraphDecidedOnce,
     AsksInvariant, ShapeInvariant, PTL DEF LedgerInv
<1>4. QED
  BY <1>1, <1>2, <1>3, PTL DEF Spec, ImplementsRunLedger, Ledger!Spec

-----------------------------------------------------------------------------
(* What the executors leave, ask and do.                                   *)

(* The journal in which a cancellation is looked up only grows.            *)
LEMMA JournalledStep ==
  ASSUME TypeOK, CancelledIsJournalled, StoreStep
  PROVE  CancelledIsJournalled'
<1>0. state \in [Tasks -> NodeState] /\ journal \in Seq(Entry)
  BY DEF TypeOK, StoreTypeOK
<1> DEFINE Journalled(t) ==
      \E i \in DOMAIN journal : journal[i].kind = "graph_patched" /\ t \in journal[i].tasks
<1>1. ASSUME NEW t \in Tasks, Journalled(t) PROVE Journalled(t)'
  BY <1>1, JournalStep
<1>2. ASSUME NEW t \in Tasks, state[t] = "cancelled" PROVE Journalled(t)'
  BY <1>1, <1>2 DEF CancelledIsJournalled
<1> SUFFICES ASSUME NEW t \in Tasks, state[t] # "cancelled", state'[t] = "cancelled"
             PROVE  Journalled(t)'
  BY <1>2 DEF CancelledIsJournalled
<1>3. PICK p \in PatchType, e \in Executors : ApplyPatch(p, trigger[e])
  <2>1. CASE UNCHANGED store
    BY <2>1 DEF store
  <2>2. CASE Start \/ Resume
    BY <2>2 DEF Start, Resume
  <2>3. ASSUME NEW R \in SUBSET Runnable, MarkRunning(R) PROVE FALSE
    BY <2>3 DEF MarkRunning
  <2>4. ASSUME NEW u \in Tasks, NEW b \in BOOLEAN, RecordOutcome(u, b) PROVE FALSE
    BY <1>0, <2>4 DEF RecordOutcome
  <2>5. QED
    BY <2>1, <2>2, <2>3, <2>4 DEF StoreStep
<1>4. t \in p.cancel \cup Leftovers(p)
  BY <1>3 DEF ApplyPatch, Edited
<1> DEFINE x == [kind |-> "graph_patched", tasks |-> p.cancel \cup Leftovers(p),
                 trigger |-> trigger[e]]
<1>5. x \in Entry /\ x.kind = "graph_patched" /\ t \in x.tasks
  BY <1>4, PatchFields DEF Leftovers, Entry, Kinds, TypeOK
<1>6. journal' = Append(journal, x)
  BY <1>3 DEF ApplyPatch
<1> HIDE DEF x
<1>7. QED
  BY <1>0, <1>5, <1>6, AppendFacts

(* Every cancelled row was journalled by the patch that cancelled it, also *)
(* the rows that only finish closed.                                       *)
THEOREM LiveGraphCancelledIsJournalled == Spec => []CancelledIsJournalled
<1>1. Init => CancelledIsJournalled
  BY DEF Init, StoreInit, CancelledIsJournalled
<1>2. TypeOK /\ CancelledIsJournalled /\ [Next]_vars => CancelledIsJournalled'
  BY StepIsStoreStep, JournalledStep
<1>3. QED
  BY <1>1, <1>2, LiveGraphTypes, PTL DEF Spec

-----------------------------------------------------------------------------
(* What a return leaves.                                                   *)

LEMMA LeftStep ==
  ASSUME TypeOK, NothingRunnableLeft, [AnyNext]_vars
  PROVE  NothingRunnableLeft'
<1> SUFFICES ASSUME \A e \in Executors : pc'[e] = "done"
             PROVE  Runnable' = {} \/ finished'
  BY DEF NothingRunnableLeft
<1> USE DEF Goto
<1>0. /\ pc \in [Executors -> PC] /\ MaxWorkers \in Nat \ {0}
  BY LimitsAssumption DEF TypeOK
<1>1. CASE UNCHANGED <<pc, store>>
  BY <1>1 DEF NothingRunnableLeft, store, Runnable, Parents
<1>2. ASSUME NEW e \in Executors, NothingToLaunch(e)
      PROVE  Runnable' = {} \/ finished'
  <2>1. inflight[e] = {} /\ UNCHANGED store
    BY <1>0, <1>2 DEF NothingToLaunch
  <2>2. finished \/ Runnable = {}
    BY <1>0, <1>2, <2>1, FS_EmptySet DEF NothingToLaunch
  <2>3. QED
    BY <2>1, <2>2 DEF store, Runnable, Parents
<1>3. ASSUME NEW e \in Executors, pc'[e] # "done" PROVE FALSE
  BY <1>3
<1>4. ASSUME NEW e \in Executors,
             BeginRun(e) \/ ResumeRun(e) \/ ReplayNext(e) \/ ReplayEnds(e) \/ Launch(e)
               \/ Wake(e) \/ RecordResult(e) \/ ResultRefused(e) \/ BatchEnds(e)
      PROVE  FALSE
  BY <1>0, <1>3, <1>4 DEF BeginRun, ResumeRun, ReplayNext, ReplayEnds, Launch, Wake,
       RecordResult, ResultRefused, BatchEnds, Abort
<1>5. ASSUME NEW e \in Executors,
             PlanDuplicate(e) \/ \E p \in PatchType : PlanApplied(e, p) \/ PlanRejected(e, p)
      PROVE  FALSE
  BY <1>0, <1>3, <1>5 DEF PlanDuplicate, PlanApplied, PlanRejected, AfterPlan, Abort
<1>6. ASSUME NEW e \in Executors, DiscardResult(e) PROVE FALSE
  BY <1>0, <1>3, <1>6 DEF DiscardResult
<1>7. ASSUME NEW e \in Executors, WorkerEnds(e) PROVE UNCHANGED <<pc, store>>
  BY <1>7 DEF WorkerEnds
<1>8. CASE Crash
  <2>1. \A e \in Executors : FALSE
    BY <1>3, <1>8 DEF Crash
  <2>2. UNCHANGED store
    BY <1>8 DEF Crash
  <2>3. QED
    BY <2>1, <2>2 DEF NothingRunnableLeft, store, Runnable, Parents
<1>9. CASE UNCHANGED vars
  BY <1>1, <1>9 DEF vars, local
<1>10. QED
  BY <1>1, <1>2, <1>4, <1>5, <1>6, <1>7, <1>8, <1>9 DEF AnyNext, ExecutorStep

(* When every call of run() has returned, no task could still have run.    *)
THEOREM LiveGraphNothingRunnableLeft == Spec => []NothingRunnableLeft
<1>1. Init => NothingRunnableLeft
  BY DEF Init, StoreInit, NothingRunnableLeft, Runnable
<1>2. TypeOK /\ NothingRunnableLeft /\ [Next]_vars => NothingRunnableLeft'
  BY NextIsAny, LeftStep
<1>3. QED
  BY <1>1, <1>2, LiveGraphTypes, PTL DEF Spec

-----------------------------------------------------------------------------
(* What is still to be asked.                                              *)

(* Executor e is about to ask the planner about event i, or is asking.     *)
InHand(e, i) ==
  \/ i \in replay[e] /\ pc[e] \in {"replay", "replay_plan"}
  \/ i = trigger[e] /\ pc[e] \in Planning

(* Until the run is finished, an aborted call leaves events to its resume, *)
(* nobody is at work, or each undecided event is in somebody's hand.       *)
NobodyForgets ==
  ~finished =>
    \/ \E e \in Executors : pc[e] = "aborted"
    \/ \A e \in Executors : pc[e] = "idle"
    \/ \A i \in PendingPlannerEvents : \E e \in Executors : InHand(e, i)

LEMMA PendingAfter ==
  ASSUME TypeOK, NEW x \in Entry, Appends(x), patched \subseteq patched'
  PROVE  \A i \in PendingPlannerEvents' :
           \/ i \in PendingPlannerEvents /\ i \notin patched'
           \/ i = Len(journal) + 1 /\ x.kind \in PlannerKinds
<1>1. journal \in Seq(Entry)
  BY DEF TypeOK, StoreTypeOK
<1>2. QED
  BY <1>1, AppendFacts DEF Appends, PendingPlannerEvents

LEMMA ForgetsStep ==
  ASSUME TypeOK, FinishedIsQuiet, NobodyForgets, [AnyNext]_vars
  PROVE  NobodyForgets'
<1> USE DEF Goto, Planning
<1>0. /\ pc \in [Executors -> PC] /\ trigger \in [Executors -> Nat]
      /\ replay \in [Executors -> SUBSET Nat]
      /\ StoreStep
  BY AnyStepIsStoreStep DEF TypeOK
<1> DEFINE Kept == \A i \in PendingPlannerEvents : \E f \in Executors : InHand(f, i)
<1>a. SUFFICES ASSUME ~finished', ~\E f \in Executors : pc'[f] = "aborted",
                      ~\A f \in Executors : pc'[f] = "idle"
               PROVE  Kept'
  BY DEF NobodyForgets
<1>b. ~finished
  BY <1>0, <1>a, FrozenStep
(* An executor that was neither idle nor aborted, and does not abort now.  *)
<1>c. ASSUME NEW e \in Executors, pc[e] # "idle", pc[e] # "aborted",
             \A f \in Executors \ {e} : pc'[f] = pc[f]
      PROVE  Kept
  BY <1>a, <1>b, <1>c DEF NobodyForgets
<1>1. ASSUME NEW e \in Executors, BeginRun(e) PROVE Kept'
  <2>1. PendingPlannerEvents' \subseteq {1}
    BY <1>1 DEF BeginRun, Start, PendingPlannerEvents
  <2>2. pc'[e] = "replay" /\ replay'[e] = {1}
    BY <1>0, <1>1 DEF BeginRun
  <2>3. QED
    BY <2>1, <2>2 DEF InHand
<1>2. ASSUME NEW e \in Executors, ResumeRun(e) PROVE Kept'
  <2> DEFINE x == Event("run_resumed", {})
  <2>1. x \in Entry /\ x.kind \notin PlannerKinds
    BY DEF Event, Entry, Kinds, PlannerKinds, OutcomeKinds
  <2>2. journal' = Append(journal, x) /\ patched' = patched
    BY <1>2 DEF ResumeRun, Resume
  <2> HIDE DEF x
  <2>3. PendingPlannerEvents' \subseteq PendingPlannerEvents
    BY <2>1, <2>2, PendingAfter DEF Appends
  <2>4. pc'[e] = "replay" /\ replay'[e] = PendingPlannerEvents
    BY <1>0, <1>2 DEF ResumeRun
  <2>5. QED
    BY <2>3, <2>4 DEF InHand
<1>3. ASSUME NEW e \in Executors, ReplayNext(e) PROVE Kept'
  <2>1. Kept
    BY <1>0, <1>3, <1>c DEF ReplayNext
  <2>2. /\ PendingPlannerEvents' = PendingPlannerEvents
        /\ pc[e] = "replay" /\ pc'[e] = "replay_plan"
        /\ replay[e] \subseteq replay'[e] \cup {trigger'[e]}
        /\ \A f \in Executors \ {e} :
             pc'[f] = pc[f] /\ replay'[f] = replay[f] /\ trigger'[f] = trigger[f]
    BY <1>0, <1>3 DEF ReplayNext, store, PendingPlannerEvents
  <2>3. QED
    BY <2>1, <2>2 DEF InHand
<1>4. ASSUME NEW e \in Executors, ReplayEnds(e) PROVE Kept'
  <2>1. Kept
    BY <1>0, <1>4, <1>c DEF ReplayEnds
  <2>2. /\ PendingPlannerEvents' = PendingPlannerEvents
        /\ pc[e] = "replay" /\ replay[e] = {}
        /\ \A f \in Executors \ {e} : pc'[f] = pc[f] /\ replay'[f] = replay[f]
        /\ trigger' = trigger
    BY <1>0, <1>4, <1>b DEF ReplayEnds, store, PendingPlannerEvents
  <2>3. QED
    BY <2>1, <2>2 DEF InHand
<1>5. ASSUME NEW e \in Executors,
             PlanDuplicate(e) \/ \E p \in PatchType : PlanApplied(e, p)
      PROVE  Kept'
  <2>1. pc[e] \in Planning /\ AfterPlan(e) /\ UNCHANGED <<replay, trigger>>
    BY <1>5 DEF PlanDuplicate, PlanApplied
  <2>2. Kept
    BY <1>0, <1>c, <2>1 DEF AfterPlan
  <2>3. \A i \in PendingPlannerEvents' : i \in PendingPlannerEvents /\ i # trigger[e]
    <3>1. CASE PlanDuplicate(e)
      BY <3>1 DEF PlanDuplicate, store, PendingPlannerEvents
    <3>2. ASSUME NEW p \in PatchType, PlanApplied(e, p)
          PROVE  \A i \in PendingPlannerEvents' : i \in PendingPlannerEvents /\ i # trigger[e]
      <4> DEFINE x == [kind |-> "graph_patched", tasks |-> p.cancel \cup Leftovers(p),
                       trigger |-> trigger[e]]
      <4>1. x \in Entry /\ x.kind \notin PlannerKinds
        BY PatchFields DEF Leftovers, Entry, Kinds, PlannerKinds, OutcomeKinds, TypeOK
      <4>2. journal' = Append(journal, x) /\ patched' = patched \cup {trigger[e]}
        BY <3>2 DEF PlanApplied, ApplyPatch
      <4> HIDE DEF x
      <4>3. QED
        BY <4>1, <4>2, PendingAfter DEF Appends
    <3>3. QED
      BY <1>5, <3>1, <3>2
  <2>4. /\ pc[e] = "replay_plan" => pc'[e] = "replay"
        /\ \A f \in Executors \ {e} : pc'[f] = pc[f]
    BY <1>0, <2>1 DEF AfterPlan
  <2>5. QED
    BY <2>1, <2>2, <2>3, <2>4 DEF InHand
<1>6. ASSUME NEW e \in Executors,
             ResultRefused(e) \/ \E p \in PatchType : PlanRejected(e, p)
      PROVE  FALSE
  BY <1>0, <1>6, <1>a DEF PlanRejected, ResultRefused, Abort
<1>7. ASSUME NEW e \in Executors, Launch(e) PROVE Kept'
  <2>1. PICK R \in SUBSET Runnable : MarkRunning(R)
    BY <1>7 DEF Launch
  <2> DEFINE x == Event("task_started", R)
  <2>2. x \in Entry /\ x.kind \notin PlannerKinds
    BY DEF Event, Entry, Kinds, PlannerKinds, OutcomeKinds, Runnable
  <2>3. journal' = Append(journal, x) /\ patched' = patched
    BY <2>1 DEF MarkRunning
  <2> HIDE DEF x
  <2>4. PendingPlannerEvents' \subseteq PendingPlannerEvents
    BY <2>2, <2>3, PendingAfter DEF Appends
  <2>5. /\ Kept /\ pc[e] = "fill" /\ UNCHANGED <<replay, trigger>>
        /\ \A f \in Executors \ {e} : pc'[f] = pc[f]
    BY <1>0, <1>7, <1>c DEF Launch
  <2>6. QED
    BY <2>4, <2>5 DEF InHand
<1>8. ASSUME NEW e \in Executors, NothingToLaunch(e) \/ Wake(e) \/ BatchEnds(e) PROVE Kept'
  <2>1. /\ Kept /\ pc[e] \in {"fill", "waiting", "batch"}
        /\ UNCHANGED <<store, replay, trigger>>
        /\ \A f \in Executors \ {e} : pc'[f] = pc[f]
    BY <1>0, <1>8, <1>c DEF NothingToLaunch, Wake, BatchEnds
  <2>2. QED
    BY <2>1 DEF InHand, store, PendingPlannerEvents
<1>9. ASSUME UNCHANGED <<store, pc, replay, trigger>> PROVE Kept'
  BY <1>9, <1>a, <1>b DEF NobodyForgets, InHand, store, PendingPlannerEvents
<1>10. ASSUME NEW e \in Executors, WorkerEnds(e) \/ DiscardResult(e) PROVE Kept'
  BY <1>9, <1>10 DEF WorkerEnds, DiscardResult
<1>11. ASSUME NEW e \in Executors, RecordResult(e) PROVE Kept'
  <2>1. PICK a \in batch[e] : RecordOutcome(a.task, a.status = "ok")
    BY <1>11 DEF RecordResult
  <2> DEFINE x == Event(IF a.status = "ok" THEN "task_succeeded" ELSE "task_failed", {a.task})
  <2>2. x \in Entry
    BY DEF Event, Entry, Kinds, PlannerKinds, OutcomeKinds, TypeOK, Attempt
  <2>3. journal' = Append(journal, x) /\ patched' = patched
    BY <2>1 DEF RecordOutcome
  <2> HIDE DEF x
  <2>4. PendingPlannerEvents' \subseteq PendingPlannerEvents \cup {Len(journal) + 1}
    BY <2>2, <2>3, PendingAfter DEF Appends
  <2>5. /\ Kept /\ pc[e] = "batch" /\ pc'[e] = "batch_plan"
        /\ replay' = replay /\ trigger'[e] = Len(journal) + 1
        /\ \A f \in Executors \ {e} : pc'[f] = pc[f] /\ trigger'[f] = trigger[f]
    BY <1>0, <1>11, <1>b, <1>c DEF RecordResult
  <2>6. QED
    BY <2>4, <2>5 DEF InHand
<1>12. CASE Crash
  BY <1>12, <1>a DEF Crash
<1>13. CASE UNCHANGED vars
  BY <1>9, <1>13 DEF vars, local
<1>14. QED
  BY <1>1, <1>2, <1>3, <1>4, <1>5, <1>6, <1>7, <1>8, <1>10, <1>11, <1>12, <1>13
     DEF AnyNext, ExecutorStep

(* When the calls that were made have returned, and the run is not         *)
(* finished, the planner has decided every outcome that was committed.     *)
THEOREM LiveGraphNoOutcomeForgotten == Spec => []NoOutcomeForgotten
<1>1. Init => NobodyForgets
  BY DEF Init, NobodyForgets
<1>2. TypeOK /\ FinishedIsQuiet /\ NobodyForgets /\ [Next]_vars => NobodyForgets'
  BY NextIsAny, ForgetsStep
<1>3. NobodyForgets => NoOutcomeForgotten
  BY DEF NobodyForgets, NoOutcomeForgotten, InHand, Planning, PendingPlannerEvents
<1>4. QED
  BY <1>1, <1>2, <1>3, LiveGraphTypes, LiveGraphFinishedIsQuiet, PTL DEF Spec

-----------------------------------------------------------------------------
(* How much runs at once.                                                  *)

Running == {t \in Tasks : state[t] = "running"}
TasksOf(A) == {a.task : a \in A}
InLoop == {"fill", "waiting", "batch", "batch_plan"}

(* One future per task.                                                    *)
OnePerTask(A) == \A a, b \in A : a.task = b.task => a = b

(* What the only executor of a run keeps: a future for each running row,   *)
(* no more futures than workers, none outside its loop; a future was told  *)
(* to stop only when its task was cancelled or the run is finished.        *)
WorkInv(e) ==
  /\ OnePerTask(inflight[e])
  /\ Cardinality(TasksOf(inflight[e])) <= MaxWorkers
  /\ Cardinality(Running) <= MaxWorkers
  /\ pc[e] \in InLoop \cup {"done"} => Running \subseteq TasksOf(inflight[e])
  /\ pc[e] \notin InLoop => inflight[e] = {}
  /\ pc[e] \in {"replay", "replay_plan"} => Running = {}
  /\ batch[e] \subseteq Ended(e)
  /\ \A a \in inflight[e] :
       /\ state[a.task] \in {"running", "cancelled"}
       /\ a.status \in {"cancelling", "cancelled"} => state[a.task] = "cancelled" \/ finished
       /\ finished /\ pc[e] \in {"fill", "waiting"} => a.status # "running"

LEMMA TasksOfFinite ==
  ASSUME NEW A \in SUBSET Attempt
  PROVE  /\ TasksOf(A) \subseteq Tasks /\ IsFiniteSet(TasksOf(A))
         /\ Cardinality(TasksOf(A)) \in Nat
<1>1. TasksOf(A) \subseteq Tasks
  BY DEF TasksOf, Attempt
<1>2. IsFiniteSet(TasksOf(A))
  BY <1>1, TasksAssumption, FS_Subset
<1>3. QED
  BY <1>1, <1>2, FS_CardinalityType

(* As many futures as tasks they work on.                                  *)
LEMMA FuturesAreTasks ==
  ASSUME NEW A \in SUBSET Attempt, OnePerTask(A)
  PROVE  Cardinality(A) = Cardinality(TasksOf(A))
<1> DEFINE f == [a \in A |-> a.task]
<1>1. f \in Injection(A, TasksOf(A)) /\ f \in Surjection(A, TasksOf(A))
  BY DEF Injection, IsInjective, Surjection, OnePerTask, TasksOf
<1> HIDE DEF f
<1>2. QED
  BY <1>1, TasksOfFinite, FS_Injection

(* Rows that run: fewer after every transaction but a launch.              *)
LEMMA RunningShrinks ==
  ASSUME NEW S \in SUBSET Tasks, NEW T \in SUBSET S, Cardinality(S) <= MaxWorkers
  PROVE  Cardinality(T) <= MaxWorkers
<1>1. IsFiniteSet(S)
  BY TasksAssumption, FS_Subset
<1>2. IsFiniteSet(T) /\ Cardinality(T) <= Cardinality(S)
  BY <1>1, FS_Subset
<1>3. Cardinality(S) \in Nat /\ Cardinality(T) \in Nat /\ MaxWorkers \in Nat
  BY <1>1, <1>2, FS_CardinalityType, LimitsAssumption
<1>4. QED
  BY <1>2, <1>3

(* future.cancel() changes the status of futures, never whose they are.    *)
LEMMA CancelAllFacts ==
  ASSUME NEW A \in SUBSET Attempt, NEW S
  PROVE  /\ TasksOf(CancelAll(A, S)) = TasksOf(A)
         /\ OnePerTask(A) => OnePerTask(CancelAll(A, S))
         /\ \A a \in A : a.status \in DoneStatus => a \in CancelAll(A, S)
         /\ \A b \in CancelAll(A, S) :
              \/ b \in A /\ ~(b \in S /\ b.status = "running")
              \/ \E a \in A \cap S : /\ a.status = "running"
                                     /\ b = [a EXCEPT !.status = "cancelling"]
<1> DEFINE told(a) == IF a \in S /\ a.status = "running"
                      THEN [a EXCEPT !.status = "cancelling"] ELSE a
<1>1. CancelAll(A, S) = {told(a) : a \in A}
  BY DEF CancelAll
<1>2. \A a \in A : told(a).task = a.task
  BY DEF Attempt
<1>3. TasksOf(CancelAll(A, S)) = TasksOf(A)
  <2>1. TasksOf(CancelAll(A, S)) = {told(a).task : a \in A}
    BY <1>1 DEF TasksOf
  <2>2. QED
    BY <1>2, <2>1 DEF TasksOf
<1>4. OnePerTask(A) => OnePerTask(CancelAll(A, S))
  <2> SUFFICES ASSUME OnePerTask(A), NEW a \in A, NEW b \in A, told(a).task = told(b).task
               PROVE  a = b
    BY ZenonT(40), <1>1 DEF OnePerTask
  <2> QED
    BY <1>2 DEF OnePerTask
<1>5. \A a \in A : a.status \in DoneStatus => told(a) = a
  BY DEF DoneStatus
<1>6. QED
  BY <1>1, <1>3, <1>4, <1>5

(* A patch takes a running row to cancelled or leaves it alone, and starts *)
(* none.                                                                   *)
LEMMA PatchOfRunning ==
  ASSUME TypeOK, NEW p \in PatchType, NEW n \in Nat, ApplyPatch(p, n), NEW t \in Tasks
  PROVE  /\ state'[t] = "running" => state[t] = "running"
         /\ state[t] = "running" => state'[t] \in {"running", "cancelled"}
<1>1. state'[t] = IF t \in Leftovers(p) THEN "cancelled" ELSE Edited(p)[t]
  BY DEF ApplyPatch
<1>2. state[t] = "running" => t \notin p.add /\ t \notin p.wait /\ t \notin p.resume
  BY DEF ApplyPatch, ValidPatch, Nodes
<1>3. QED
  BY <1>1, <1>2 DEF Edited

LEMMA WorkStep ==
  ASSUME TypeOK, FinishedIsQuiet, JournalShape, NEW e \in Executors, Executors = {e},
         WorkInv(e), [AnyNext]_vars
  PROVE  WorkInv(e)'
<1> USE DEF Goto, Planning, InLoop
<1>0. /\ pc \in [Executors -> PC] /\ inflight \in [Executors -> SUBSET Attempt]
      /\ batch \in [Executors -> SUBSET Attempt]
      /\ state \in [Tasks -> NodeState]
      /\ inflight'[e] \in SUBSET Attempt
      /\ StoreStep
  BY AnyStepIsStoreStep, LocalTypes DEF TypeOK, StoreTypeOK, LocalTypeOK
<1>s. \A t \in Tasks : state[t] \in Terminal => state'[t] = state[t]
  BY <1>0, TerminalStep
<1>f. finished => finished'
  BY <1>0, FrozenStep
<1>q. finished => Running = {}
  BY DEF FinishedIsQuiet, Running, Open
<1>e. /\ OnePerTask({}) /\ TasksOf({}) = {} /\ Cardinality(TasksOf({})) <= MaxWorkers
  BY FS_EmptySet, LimitsAssumption DEF OnePerTask, TasksOf
(* A step after which the executor has no future.                          *)
<1>n. ASSUME inflight'[e] = {}, batch'[e] = {}, Running' \subseteq Running,
             pc'[e] \in InLoop \cup {"done", "replay", "replay_plan"} => Running' = {}
      PROVE  WorkInv(e)'
  <2>1. Cardinality(Running') <= MaxWorkers
    BY <1>n, RunningShrinks DEF WorkInv, Running
  <2>2. QED
    BY <1>n, <1>e, <2>1 DEF WorkInv
<1>1. CASE BeginRun(e)
  <2>1. Running = {} /\ Running' = {} /\ inflight[e] = {} /\ batch[e] = {}
    BY <1>1 DEF BeginRun, Start, JournalShape, Running, WorkInv, Ended
  <2>2. inflight' = inflight /\ batch' = batch
    BY <1>1 DEF BeginRun
  <2>3. QED
    BY <1>n, <2>1, <2>2
<1>2. CASE ResumeRun(e)
  <2>1. Running' = {} /\ inflight[e] = {} /\ batch[e] = {}
    BY <1>2 DEF ResumeRun, Resume, Running, WorkInv, Ended
  <2>2. inflight' = inflight /\ batch' = batch
    BY <1>2 DEF ResumeRun
  <2>3. QED
    BY <1>n, <2>1, <2>2
<1>3. CASE ReplayNext(e) \/ ReplayEnds(e)
  <2>1. Running = {} /\ Running' = {} /\ inflight[e] = {} /\ batch[e] = {}
    BY <1>3 DEF ReplayNext, ReplayEnds, store, Running, WorkInv, Ended
  <2>2. inflight' = inflight /\ batch' = batch
    BY <1>3 DEF ReplayNext, ReplayEnds
  <2>3. QED
    BY <1>n, <2>1, <2>2
<1>4. CASE PlanDuplicate(e) \/ \E p \in PatchType : PlanApplied(e, p)
  <2>1. /\ pc[e] \in Planning /\ AfterPlan(e) /\ batch' = batch
        /\ \/ UNCHANGED store
           \/ \E p \in PatchType : ApplyPatch(p, trigger[e])
    BY <1>4 DEF PlanDuplicate, PlanApplied
  <2>2. /\ Running' \subseteq Running
        /\ \A t \in Tasks : state[t] = "running" => state'[t] \in {"running", "cancelled"}
    <3>1. CASE UNCHANGED store
      BY <3>1 DEF store, Running
    <3>2. ASSUME NEW p \in PatchType, ApplyPatch(p, trigger[e])
          PROVE  /\ Running' \subseteq Running
                 /\ \A t \in Tasks : state[t] = "running" => state'[t] \in {"running", "cancelled"}
      <4>1. trigger[e] \in Nat
        BY DEF TypeOK
      <4>2. QED
        BY <3>2, <4>1, PatchOfRunning DEF Running
    <3>3. QED
      BY <2>1, <3>1, <3>2
  <2>3. CASE pc[e] = "replay_plan"
    <3>1. inflight[e] = {} /\ batch[e] = {} /\ Running = {} /\ inflight' = inflight
      BY <2>1, <2>3 DEF WorkInv, AfterPlan, Ended
    <3>2. QED
      BY <1>n, <2>1, <2>2, <3>1
  <2>4. CASE pc[e] = "batch_plan"
    <3> DEFINE A == inflight[e]
               S == {a \in A : state'[a.task] = "cancelled"}
    <3>1. pc'[e] = "batch" /\ inflight'[e] = CancelAll(A, S)
      BY <1>0, <2>1, <2>4 DEF AfterPlan
    <3>2. /\ TasksOf(inflight'[e]) = TasksOf(A) /\ OnePerTask(inflight'[e])
          /\ \A a \in A : a.status \in DoneStatus => a \in inflight'[e]
          /\ \A b \in inflight'[e] :
               \/ b \in A /\ ~(b \in S /\ b.status = "running")
               \/ \E a \in A \cap S : /\ a.status = "running"
                                      /\ b = [a EXCEPT !.status = "cancelling"]
      BY <1>0, <3>1, CancelAllFacts DEF WorkInv
    <3>3. batch'[e] \subseteq Ended(e)'
      BY <2>1, <3>2 DEF WorkInv, Ended
    <3>4. Cardinality(Running') <= MaxWorkers
      BY <2>2, RunningShrinks DEF WorkInv, Running
    <3>5. ASSUME NEW a \in A
          PROVE  /\ a \in Attempt /\ a.task \in Tasks
                 /\ state'[a.task] \in {"running", "cancelled"}
                 /\ a.status \in {"cancelling", "cancelled"}
                      => state'[a.task] = "cancelled" \/ finished'
      BY <1>0, <1>s, <1>f, <2>2 DEF WorkInv, Attempt, Terminal
    <3>6. ASSUME NEW b \in inflight'[e]
          PROVE  /\ state'[b.task] \in {"running", "cancelled"}
                 /\ b.status \in {"cancelling", "cancelled"}
                      => state'[b.task] = "cancelled" \/ finished'
      <4>1. CASE b \in A
        BY <3>5, <4>1
      <4>2. CASE b \notin A
        <5>1. PICK a \in A \cap S : b = [a EXCEPT !.status = "cancelling"]
          BY <3>2, <4>2
        <5>2. b.task = a.task
          BY <3>5, <5>1 DEF Attempt
        <5>3. QED
          BY <3>5, <5>2
      <4>3. QED
        BY <4>1, <4>2
    <3>7. QED
      BY <2>2, <2>4, <3>1, <3>2, <3>3, <3>4, <3>6 DEF WorkInv
  <2>5. QED
    BY <2>1, <2>3, <2>4
<1>5. CASE ResultRefused(e) \/ \E p \in PatchType : PlanRejected(e, p)
  <2>1. inflight'[e] = {} /\ batch'[e] = {} /\ pc'[e] = "aborted" /\ Running' = Running
    BY <1>0, <1>5 DEF ResultRefused, PlanRejected, Abort, store, Running
  <2>2. QED
    BY <1>n, <2>1
<1>6. CASE Launch(e)
  <2> DEFINE A == inflight[e]
  <2>1. PICK R \in SUBSET Runnable :
          /\ Cardinality(R) <= MaxWorkers - Cardinality(A)
          /\ MarkRunning(R)
          /\ inflight' = [inflight EXCEPT ![e] = @ \cup
                [task : R, number : {Len(journal) + 1}, status : {"running"}]]
    BY <1>6 DEF Launch, IsReadyBatch
  <2> DEFINE N == [task : R, number : {Len(journal) + 1}, status : {"running"}]
  <2>2. /\ inflight'[e] = A \cup N /\ batch' = batch
        /\ pc[e] = "fill" /\ pc'[e] = "waiting" /\ ~finished /\ finished' = finished
    BY <1>0, <1>6, <2>1 DEF Launch, MarkRunning
  <2>3. R \subseteq Tasks /\ \A t \in R : state[t] = "pending" /\ state'[t] = "running"
    BY <2>1 DEF Runnable, MarkRunning
  <2>4. TasksOf(N) = R /\ OnePerTask(N)
    <3>1. ASSUME NEW t \in R PROVE t \in TasksOf(N)
      <4> DEFINE a == [task |-> t, number |-> Len(journal) + 1, status |-> "running"]
      <4>1. a \in N /\ a.task = t
        OBVIOUS
      <4>2. QED
        BY <4>1 DEF TasksOf
    <3>2. R \subseteq TasksOf(N)
      BY <3>1
    <3>3. TasksOf(N) \subseteq R /\ OnePerTask(N)
      BY DEF TasksOf, OnePerTask
    <3>4. QED
      BY <3>2, <3>3
  <2>5. \A a \in A : a.task \in Tasks /\ a.task \notin R
    BY <1>0, <2>3 DEF WorkInv, Attempt, Terminal
  <2>6. TasksOf(inflight'[e]) = TasksOf(A) \cup R
    BY <2>2, <2>4 DEF TasksOf
  <2>7. OnePerTask(inflight'[e])
    <3>1. \A b \in N : b.task \in R
      BY <2>4 DEF TasksOf
    <3>2. QED
      BY <2>2, <2>4, <2>5, <3>1 DEF OnePerTask, WorkInv
  <2>8. Cardinality(TasksOf(inflight'[e])) <= MaxWorkers
    <3>1. IsFiniteSet(R) /\ Cardinality(R) \in Nat
      BY <2>3, TasksAssumption, FS_Subset, FS_CardinalityType
    <3>2. /\ IsFiniteSet(TasksOf(A)) /\ Cardinality(TasksOf(A)) \in Nat
          /\ Cardinality(A) = Cardinality(TasksOf(A))
      BY <1>0, TasksOfFinite, FuturesAreTasks DEF WorkInv
    <3>3. TasksOf(A) \cap R = {}
      BY <2>5 DEF TasksOf
    <3>4. Cardinality(TasksOf(A) \cup R) = Cardinality(TasksOf(A)) + Cardinality(R)
      BY <3>1, <3>2, <3>3, FS_Union, FS_EmptySet
    <3>5. Cardinality(R) <= MaxWorkers - Cardinality(TasksOf(A)) /\ MaxWorkers \in Nat
      BY <2>1, <3>2, LimitsAssumption
    <3> HIDE DEF A
    <3>6. QED
      BY <2>6, <3>1, <3>2, <3>4, <3>5
  <2>9. Running' \subseteq TasksOf(inflight'[e])
    <3>1. Running \subseteq TasksOf(A)
      BY <2>2 DEF WorkInv
    <3>2. Running' \subseteq Running \cup R
      BY <2>1 DEF MarkRunning, Running
    <3>3. QED
      BY <2>6, <3>1, <3>2
  <2>10. Cardinality(Running') <= MaxWorkers
    <3>1. TasksOf(inflight'[e]) \subseteq Tasks
      BY <1>0, TasksOfFinite
    <3>2. QED
      BY <2>8, <2>9, <3>1, RunningShrinks
  <2>11. batch'[e] \subseteq Ended(e)'
    BY <2>2 DEF WorkInv, Ended
  <2>12. ASSUME NEW a \in inflight'[e]
         PROVE  /\ state'[a.task] \in {"running", "cancelled"}
                /\ a.status \in {"cancelling", "cancelled"} => state'[a.task] = "cancelled"
    <3>1. CASE a \in A
      <4>1. a.task \in Tasks /\ a.task \notin R
        BY <2>5, <3>1
      <4>2. state'[a.task] = state[a.task]
        BY <2>1, <4>1 DEF MarkRunning
      <4>3. QED
        BY <2>2, <3>1, <4>2 DEF WorkInv
    <3>2. CASE a \in N
      <4>1. a.task \in R /\ a.status = "running"
        BY <3>2
      <4>2. QED
        BY <2>3, <4>1
    <3>3. QED
      BY <2>2, <3>1, <3>2
  <2> HIDE DEF A, N
  <2>13. QED
    BY <2>2, <2>7, <2>8, <2>9, <2>10, <2>11, <2>12 DEF WorkInv
<1>7. CASE NothingToLaunch(e) \/ Wake(e)
  <2>1. /\ UNCHANGED <<store, inflight>>
        /\ pc[e] \in {"fill", "waiting"}
        /\ pc'[e] \in {"waiting", "batch", "done"}
        /\ pc'[e] = "done" => inflight[e] = {}
        /\ batch'[e] \in {batch[e], Ended(e)}
    BY <1>0, <1>7 DEF NothingToLaunch, Wake
  <2>2. QED
    BY <2>1 DEF WorkInv, Ended, store, Running
<1>8. CASE WorkerEnds(e)
  <2>1. PICK a \in inflight[e], s \in DoneStatus :
          /\ \/ a.status = "running" /\ s \in {"ok", "error"}
             \/ a.status = "cancelling" /\ s = "cancelled"
          /\ inflight' = [inflight EXCEPT ![e] = (@ \ {a}) \cup {[a EXCEPT !.status = s]}]
    BY <1>8 DEF WorkerEnds
  <2> DEFINE b == [a EXCEPT !.status = s]
  <2>2. /\ inflight'[e] = (inflight[e] \ {a}) \cup {b}
        /\ UNCHANGED <<store, pc, batch>>
        /\ a.status \notin DoneStatus
    BY <1>0, <1>8, <2>1 DEF WorkerEnds, DoneStatus
  <2>3. b.task = a.task /\ b.status = s
    BY <1>0, <2>1 DEF Attempt
  <2> HIDE DEF b
  <2>4. TasksOf(inflight'[e]) = TasksOf(inflight[e]) /\ OnePerTask(inflight'[e])
    BY <2>2, <2>3 DEF TasksOf, OnePerTask, WorkInv
  <2>5. batch'[e] \subseteq Ended(e)'
    BY <2>2 DEF WorkInv, Ended
  <2>6. \A c \in inflight'[e] :
          \/ c \in inflight[e]
          \/ /\ c.task = a.task /\ c.status # "running"
             /\ c.status = "cancelled" => a.status = "cancelling"
             /\ c.status # "cancelling"
    BY <2>1, <2>2, <2>3 DEF DoneStatus
  <2>7. QED
    BY <2>2, <2>4, <2>5, <2>6 DEF WorkInv, store, Running
<1>9. CASE DiscardResult(e)
  <2>1. PICK a \in batch[e] : Discardable(a) /\ Pop(e, a)
    BY <1>9 DEF DiscardResult
  <2>2. /\ inflight'[e] = inflight[e] \ {a} /\ batch'[e] = batch[e] \ {a}
        /\ UNCHANGED <<store, pc>> /\ pc[e] = "batch"
    BY <1>0, <1>9, <2>1 DEF DiscardResult, Pop
  <2>3. a \in inflight[e] /\ state[a.task] # "running"
    <3>1. a \in inflight[e] /\ a.task \in Tasks
      BY <1>0 DEF WorkInv, Ended, Attempt
    <3>2. state[a.task] = "cancelled" \/ finished
      BY <2>1, <3>1 DEF WorkInv, Discardable
    <3>3. QED
      BY <1>q, <3>1, <3>2 DEF Running
  <2>4. Running \subseteq TasksOf(inflight'[e])
    BY <2>2, <2>3 DEF WorkInv, Running, TasksOf
  <2>5. Cardinality(TasksOf(inflight'[e])) <= MaxWorkers
    <3>1. TasksOf(inflight'[e]) \subseteq TasksOf(inflight[e])
      BY <2>2 DEF TasksOf
    <3>2. QED
      BY <1>0, <3>1, TasksOfFinite, RunningShrinks DEF WorkInv
  <2>6. QED
    BY <2>2, <2>4, <2>5 DEF WorkInv, store, Running, OnePerTask, Ended
<1>10. CASE RecordResult(e)
  <2>1. PICK a \in batch[e] : RecordOutcome(a.task, a.status = "ok") /\ Pop(e, a) /\ ~Discardable(a)
    BY <1>10 DEF RecordResult
  <2>2. /\ inflight'[e] = inflight[e] \ {a} /\ batch'[e] = batch[e] \ {a}
        /\ pc[e] = "batch" /\ pc'[e] \in {"batch", "batch_plan"}
        /\ finished' = finished
    BY <1>0, <1>10, <2>1 DEF RecordResult, Pop, RecordOutcome
  <2>3. a.task \in Tasks /\ a \in inflight[e]
    BY <1>0 DEF WorkInv, Ended, Attempt
  <2>4. /\ state[a.task] = "running" /\ state'[a.task] \in {"succeeded", "failed"}
        /\ \A t \in Tasks \ {a.task} : state'[t] = state[t]
    BY <1>0, <2>1, <2>3 DEF RecordOutcome
  <2>5. Running' = Running \ {a.task}
    BY <2>3, <2>4 DEF Running
  <2>6. Running' \subseteq TasksOf(inflight'[e])
    BY <2>2, <2>5 DEF WorkInv, TasksOf
  <2>7. Cardinality(TasksOf(inflight'[e])) <= MaxWorkers /\ Cardinality(Running') <= MaxWorkers
    <3>1. TasksOf(inflight'[e]) \subseteq TasksOf(inflight[e])
      BY <2>2 DEF TasksOf
    <3>2. Running \subseteq Tasks
      BY DEF Running
    <3>3. QED
      BY <1>0, <2>5, <3>1, <3>2, TasksOfFinite, RunningShrinks DEF WorkInv
  <2>8. \A b \in inflight'[e] : b \in inflight[e] /\ b.task \in Tasks /\ b.task # a.task
    BY <1>0, <2>2, <2>3 DEF WorkInv, OnePerTask, Attempt
  <2>9. QED
    BY <2>2, <2>4, <2>6, <2>7, <2>8 DEF WorkInv, OnePerTask, Ended
<1>11. CASE BatchEnds(e)
  <2>1. /\ UNCHANGED <<store, batch>> /\ pc[e] = "batch" /\ pc'[e] = "fill" /\ batch[e] = {}
        /\ inflight'[e] = IF finished THEN CancelAll(inflight[e], inflight[e]) ELSE inflight[e]
    BY <1>0, <1>11 DEF BatchEnds
  <2>2. CASE ~finished
    BY <2>1, <2>2 DEF WorkInv, store, Running, Ended
  <2>3. CASE finished
    <3> DEFINE A == inflight[e]
    <3>1. /\ TasksOf(inflight'[e]) = TasksOf(A) /\ OnePerTask(inflight'[e])
          /\ \A b \in inflight'[e] :
               \/ b \in A /\ b.status # "running"
               \/ \E a \in A : b = [a EXCEPT !.status = "cancelling"]
      BY <1>0, <2>1, <2>3, CancelAllFacts DEF WorkInv
    <3>2. \A b \in inflight'[e] : b.status # "running" /\ \E a \in A : b.task = a.task
      BY <1>0, <3>1 DEF Attempt
    <3>3. QED
      BY <2>1, <2>3, <3>1, <3>2 DEF WorkInv, store, Running, Ended
  <2>4. QED
    BY <2>2, <2>3
<1>12. CASE Crash
  <2>1. inflight'[e] = {} /\ batch'[e] = {} /\ pc'[e] = "idle" /\ Running' = Running
    BY <1>12 DEF Crash, store, Running
  <2>2. QED
    BY <1>n, <2>1
<1>13. CASE UNCHANGED vars
  BY <1>13 DEF vars, store, local, WorkInv, Running, Ended
<1>14. QED
  BY <1>1, <1>2, <1>3, <1>4, <1>5, <1>6, <1>7, <1>8, <1>9, <1>10, <1>11, <1>12, <1>13
     DEF AnyNext, ExecutorStep

(* With one executor, neither workers nor running rows exceed max_workers, *)
(* however planners cancel, workers end, processes crash and calls resume; *)
(* each row that runs has one future, and none outlives a finished run.    *)
THEOREM LiveGraphBoundedWork ==
  ASSUME NEW e \in Executors, Executors = {e}
  PROVE  Spec => []BoundedWork
<1>1. Init => WorkInv(e)
  <2>1. ASSUME Init
        PROVE  /\ pc[e] = "idle" /\ inflight[e] = {} /\ batch[e] = {}
               /\ Running = {} /\ TasksOf({}) = {}
    BY <2>1 DEF Init, StoreInit, Running, TasksOf
  <2>2. QED
    BY <2>1, FS_EmptySet, LimitsAssumption DEF WorkInv, OnePerTask, InLoop
<1>2. TypeOK /\ FinishedIsQuiet /\ JournalShape /\ WorkInv(e) /\ [Next]_vars => WorkInv(e)'
  BY NextIsAny, WorkStep
<1>3. TypeOK /\ WorkInv(e) => BoundedWork
  <2> SUFFICES ASSUME TypeOK, WorkInv(e) PROVE BoundedWork
    OBVIOUS
  <2>1. Cardinality(inflight[e]) = Cardinality(TasksOf(inflight[e]))
    BY FuturesAreTasks DEF WorkInv, TypeOK
  <2>2. QED
    BY <2>1 DEF WorkInv, BoundedWork, Running, TasksOf, OnePerTask, InLoop
<1>4. QED
  BY <1>1, <1>2, <1>3, LiveGraphTypes, LiveGraphFinishedIsQuiet, ShapeInvariant, PTL DEF Spec
=============================================================================
