--------------------------- MODULE A2ABridgeProofs ---------------------------
(***************************************************************************)
(* Theorems of A2ABridge for every set of tasks, patches, executors, calls *)
(* and remote nodes, and every bound.  The graph's invariants are proved   *)
(* once more over a store that the bridge writes to as well; those of the  *)
(* bridge join its dictionaries with the remote tasks and the node table.  *)
(***************************************************************************)
EXTENDS A2ABridge, LiveGraphProofs

CallAt == {"idle", "starting", "accepted", "subscribed", "waking", "returned", "raised"}
(* What a snapshot of a remote task shows, "none" before there is one.     *)
Snapshot == {"none", "working", "ended", "canceled"}
CancelAt == {"idle", "requested", "cancelling", "answered", "returned", "raised"}
RemoteTask == [node : RemoteNodes, state : {"working", "ended", "canceled"}]

BridgeTypeOK ==
  /\ call \in [Calls -> [at : CallAt, node : RemoteNodes \cup {0}, id : Nat, seen : Snapshot]]
  /\ canceller \in [RemoteNodes -> [at : CancelAt, id : Nat]]
  /\ remote \in Seq(RemoteTask)
  /\ remote_ids \in [RemoteNodes -> Nat]
  /\ results \in [RemoteNodes -> [id : Nat, state : Snapshot]]

(* Coroutines that are between two statements without an await.            *)
Waking == {c \in Calls : call[c].at = "waking"}
Requested == {n \in RemoteNodes : canceller[n].at = "requested"}

(* At most one is, and the event it journalled is the last and undecided.  *)
AloneInv ==
  /\ \A c, d \in Waking : c = d
  /\ \A m, n \in Requested : m = n
  /\ Waking = {} \/ Requested = {}
  /\ Waking # {} \/ Requested # {} => journal # <<>> /\ Len(journal) \notin patched

(* A remote task of the node n.                                            *)
TaskOf(i, n) == i \in DOMAIN remote /\ remote[i].node = n

(* A state the remote task has or had.                                     *)
Shown(how, i) == how \in {"working", remote[i].state}

CallInv ==
  \A c \in Calls :
    /\ call[c].at \in {"starting", "accepted", "subscribed", "waking"} => call[c].node \in RemoteNodes
    /\ call[c].at \in {"accepted", "subscribed", "waking"} => TaskOf(call[c].id, call[c].node)
    /\ call[c].at = "subscribed" => Shown(call[c].seen, call[c].id)
    /\ call[c].at = "waking" => results[call[c].node].id # 0

RemoteInv ==
  \A n \in RemoteNodes :
    /\ remote_ids[n] # 0 => TaskOf(remote_ids[n], n)
    /\ results[n].id # 0 => /\ TaskOf(results[n].id, n) /\ Over(results[n].id)
                           /\ Shown(results[n].state, results[n].id)
    /\ canceller[n].at \in {"cancelling", "answered", "returned"} =>
         state[n] = "cancelled" /\ finished /\ TaskOf(canceller[n].id, n)
    /\ canceller[n].at \in {"answered", "returned"} => Over(canceller[n].id)

-----------------------------------------------------------------------------
(***************************************************************************)
(* The graph with one writer more.                                         *)
(***************************************************************************)
BridgePatch(p) == \E n \in RemoteNodes : p = WakeUp(n) \/ p = CancelPatch(n)

ExternalStep ==
  \/ \E k \in ExternalKinds, n \in RemoteNodes : RecordExternalEvent(k, n)
  \/ /\ journal # <<>>
     /\ \E p \in PatchType : BridgePatch(p) /\ ApplyPatch(p, Len(journal))

GraphStep == [Next]_vars \/ (ExternalStep /\ UNCHANGED <<local, resumes, crashes>>)

GraphInv ==
  /\ TypeOK /\ FinishedIsQuiet /\ AsksAboutEvents
  /\ ~HasCycle(edges) /\ patched \subseteq DOMAIN journal

LEMMA NodesAreTasks == ASSUME NEW n \in RemoteNodes PROVE n \in Tasks
BY BridgeAssumption

LEMMA WakeIsPatch ==
  ASSUME NEW n \in RemoteNodes
  PROVE  /\ WakeUp(n) \in PatchType /\ BridgePatch(WakeUp(n))
         /\ CancelPatch(n) \in PatchType /\ BridgePatch(CancelPatch(n))
<1>1. n \in Tasks
  BY NodesAreTasks
<1>2. WakeUp(n) \in PatchType /\ CancelPatch(n) \in PatchType
  BY <1>1 DEF WakeUp, CancelPatch, PatchType
<1>3. QED
  BY <1>2 DEF BridgePatch

(* A step is one of the graph's own, or commits one of the bridge's        *)
(* transactions beside resting executors.                                  *)
LEMMA BridgeStepIsGraphStep ==
  ASSUME CallInv, AloneInv, [BridgeNext]_bridgeVars
  PROVE  GraphStep
<1> USE DEF GraphStep
<1>1. CASE UNCHANGED bridgeVars
  BY <1>1 DEF bridgeVars
<1>2. ASSUME NEW c \in Calls, BridgeStep(c) \/ CallFails(c) \/ \E n \in RemoteNodes : Dispatch(c, n)
      PROVE  GraphStep
  <2>1. CASE UNCHANGED vars
    BY <2>1
  <2>2. CASE SubscriptionEnds(c)
    <3>1. call[c].node \in RemoteNodes
      BY <2>2 DEF SubscriptionEnds, CallInv
    <3>2. RecordExternalEvent("a2a_task_completed", call[c].node)
          /\ UNCHANGED <<local, resumes, crashes>>
      BY <2>2 DEF SubscriptionEnds
    <3>3. QED
      BY <3>1, <3>2 DEF ExternalStep, ExternalKinds
  <2>3. CASE WakeNode(c)
    <3>1. call[c].node \in RemoteNodes /\ journal # <<>>
      BY <2>3 DEF WakeNode, CallInv, AloneInv, Waking
    <3>2. UNCHANGED store \/ ApplyPatch(WakeUp(call[c].node), Len(journal))
      BY <2>3 DEF WakeNode
    <3>3. UNCHANGED <<local, resumes, crashes>>
      BY <2>3 DEF WakeNode
    <3>4. QED
      BY <3>1, <3>2, <3>3, WakeIsPatch DEF ExternalStep, vars
  <2>4. QED
    BY <1>2, <2>1, <2>2, <2>3
       DEF BridgeStep, CallFails, Dispatch, RemoteAccepts, StartReturns, WakeSkipped
<1>3. ASSUME NEW n \in RemoteNodes, CancelRequested(n) \/ CancelStep(n) \/ CancelFails(n)
      PROVE  GraphStep
  <2>1. CASE UNCHANGED vars
    BY <2>1
  <2>2. CASE CancelRequested(n) \/ CancelNode(n)
    <3>1. UNCHANGED <<local, resumes, crashes>>
      BY <2>2 DEF CancelRequested, CancelNode
    <3>2. RecordExternalEvent("graph_cancel_requested", n) \/ RecordExternalEvent("a2a_task_cancelled", n)
      BY <2>2 DEF CancelRequested, CancelNode
    <3>3. QED
      BY <3>1, <3>2 DEF ExternalStep, ExternalKinds
  <2>3. CASE CancelCommitted(n)
    <3>1. UNCHANGED store \/ ApplyPatch(CancelPatch(n), Len(journal))
      BY <2>3 DEF CancelCommitted
    <3>2. UNCHANGED <<local, resumes, crashes>> /\ journal # <<>>
      BY <2>3 DEF CancelCommitted, AloneInv, Requested
    <3>3. QED
      BY <3>1, <3>2, WakeIsPatch DEF ExternalStep, vars
  <2>4. QED
    BY <1>3, <2>1, <2>2, <2>3 DEF CancelStep, CancelFails, RemoteCancels
<1>4. ASSUME NEW i \in DOMAIN remote, RemoteEnds(i) PROVE GraphStep
  BY <1>4 DEF RemoteEnds
<1>5. ASSUME NEW e \in Executors,
             CallRun(e) \/ ExecutorStep(e, Patches) \/ BridgeWorkerEnds(e)
      PROVE  GraphStep
  BY <1>5 DEF CallRun, BridgeWorkerEnds, Next
<1>6. CASE BridgeCrash
  BY <1>6 DEF BridgeCrash, Next
<1>7. QED
  BY <1>1, <1>2, <1>3, <1>4, <1>5, <1>6 DEF BridgeNext

(* What the bridge's transactions leave of the graph.                      *)
LEMMA ExternalTypes ==
  ASSUME TypeOK, ExternalStep, UNCHANGED <<local, resumes, crashes>>
  PROVE  TypeOK'
<1>0. StoreTypeOK
  BY DEF TypeOK
<1>1. StoreTypeOK'
  <2>1. ASSUME NEW k \in ExternalKinds, NEW n \in RemoteNodes, RecordExternalEvent(k, n)
        PROVE  StoreTypeOK'
    <3>1. Event(k, {n}) \in Entry
      BY NodesAreTasks DEF Event, Entry, Kinds
    <3>2. QED
      BY <1>0, <2>1, <3>1 DEF RecordExternalEvent, StoreTypeOK
  <2>2. ASSUME NEW p \in PatchType, ApplyPatch(p, Len(journal))
        PROVE  StoreTypeOK'
    <3>1. Len(journal) \in Nat
      BY <1>0 DEF StoreTypeOK
    <3>2. /\ p.add \subseteq Tasks /\ p.cancel \subseteq Tasks
          /\ p.wait \subseteq Tasks /\ p.resume \subseteq Tasks
          /\ p.connect \subseteq Tasks \X Tasks /\ p.finish \in BOOLEAN
      BY DEF PatchType
    <3>3. p.cancel \cup Leftovers(p) \subseteq Tasks
      BY <3>2 DEF Leftovers
    <3>4. [kind |-> "graph_patched", tasks |-> p.cancel \cup Leftovers(p),
           trigger |-> Len(journal)] \in Entry
      BY <3>1, <3>3 DEF Entry, Kinds
    <3>5. journal' \in Seq(Entry)
      BY <1>0, <2>2, <3>4 DEF ApplyPatch, StoreTypeOK
    <3>6. state' \in [Tasks -> NodeState]
      BY <1>0, <2>2 DEF ApplyPatch, Edited, StoreTypeOK, NodeState, Open, Terminal
    <3>7. edges' \subseteq Tasks \X Tasks /\ finished' \in BOOLEAN /\ patched' \subseteq Nat
      BY <1>0, <2>2, <3>1, <3>2 DEF ApplyPatch, StoreTypeOK
    <3>8. QED
      BY <3>5, <3>6, <3>7 DEF StoreTypeOK
  <2>3. QED
    BY <2>1, <2>2 DEF ExternalStep
<1>2. QED
  BY <1>1 DEF TypeOK, local

LEMMA ExternalAppends ==
  ASSUME TypeOK, ExternalStep
  PROVE  \E x \in Entry : Appends(x) /\ x.kind \notin PlannerKinds
<1>1. journal \in Seq(Entry) /\ Len(journal) \in Nat
  BY DEF TypeOK, StoreTypeOK
<1>2. ASSUME NEW k \in ExternalKinds, NEW n \in RemoteNodes, RecordExternalEvent(k, n)
      PROVE  \E x \in Entry : Appends(x) /\ x.kind \notin PlannerKinds
  <2>1. Event(k, {n}) \in Entry
    BY NodesAreTasks DEF Event, Entry, Kinds
  <2>2. Event(k, {n}).kind \notin PlannerKinds
    BY DEF Event, ExternalKinds, PlannerKinds, OutcomeKinds
  <2>3. QED
    BY <1>2, <2>1, <2>2 DEF RecordExternalEvent, Appends
<1>3. ASSUME NEW p \in PatchType, ApplyPatch(p, Len(journal))
      PROVE  \E x \in Entry : Appends(x) /\ x.kind \notin PlannerKinds
  <2> DEFINE x == [kind |-> "graph_patched", tasks |-> p.cancel \cup Leftovers(p),
                   trigger |-> Len(journal)]
  <2>1. x \in Entry
    BY <1>1 DEF Leftovers, Entry, Kinds, PatchType
  <2>2. x.kind \notin PlannerKinds
    BY DEF PlannerKinds, OutcomeKinds
  <2>3. journal' = Append(journal, x)
    BY <1>3 DEF ApplyPatch
  <2> HIDE DEF x
  <2>4. QED
    BY <2>1, <2>2, <2>3 DEF Appends
<1>4. QED
  BY <1>2, <1>3 DEF ExternalStep

LEMMA PatchQuiet ==
  ASSUME NEW p \in PatchType, NEW i, ApplyPatch(p, i)
  PROVE  FinishedIsQuiet'
<1>1. SUFFICES ASSUME p.finish, NEW t \in Tasks PROVE state'[t] \notin Open
  BY DEF ApplyPatch, FinishedIsQuiet
<1>2. CASE t \in Leftovers(p)
  BY <1>2 DEF ApplyPatch, Open
<1>3. CASE t \notin Leftovers(p)
  <2>1. Edited(p)[t] \notin Open
    BY <1>1, <1>3 DEF Leftovers
  <2>2. state'[t] = Edited(p)[t]
    BY <1>3 DEF ApplyPatch
  <2>3. QED
    BY <2>1, <2>2
<1>4. QED
  BY <1>2, <1>3

(* An edge is only ever inserted by a patch that was tested for cycles.    *)
LEMMA EdgesChecked ==
  ASSUME StoreStep \/ ExternalStep, ~HasCycle(edges)
  PROVE  ~HasCycle(edges')
<1>1. CASE edges' = edges
  BY <1>1
<1>2. ASSUME NEW p, NEW i, ApplyPatch(p, i) PROVE ~HasCycle(edges')
  <2>1. ~HasCycle(edges \cup p.connect) /\ edges' = edges \cup p.connect
    BY <1>2 DEF ApplyPatch, ValidPatch
  <2>2. QED
    BY <2>1
<1>3. QED
  BY <1>1, <1>2 DEF StoreStep, ExternalStep, store, Start, Resume, MarkRunning, RecordOutcome,
                    RecordExternalEvent

(* A decided event is one of the journal.                                  *)
LEMMA DecidedBefore ==
  ASSUME TypeOK, AsksAboutEvents, patched \subseteq DOMAIN journal, StoreStep \/ ExternalStep
  PROVE  patched' \subseteq DOMAIN journal'
<1>0. journal \in Seq(Entry) /\ Len(journal) \in Nat
  BY DEF TypeOK, StoreTypeOK
<1>1. DOMAIN journal \subseteq DOMAIN journal'
  <2>1. CASE StoreStep
    BY <2>1, JournalStep
  <2>2. CASE ExternalStep
    <3>1. PICK x \in Entry : Appends(x)
      BY <2>2, ExternalAppends
    <3>2. QED
      BY <1>0, <3>1, AppendFacts DEF Appends
  <2>3. QED
    BY <2>1, <2>2
<1>2. CASE patched' = patched
  BY <1>1, <1>2
<1>3. ASSUME NEW p, NEW i \in DOMAIN journal, ApplyPatch(p, i)
      PROVE  patched' \subseteq DOMAIN journal'
  BY <1>1, <1>3 DEF ApplyPatch
<1>4. ASSUME NEW p \in PatchType, NEW e \in Executors, pc[e] \in Planning, ApplyPatch(p, trigger[e])
      PROVE  patched' \subseteq DOMAIN journal'
  <2>1. trigger[e] \in DOMAIN journal
    BY <1>4 DEF AsksAboutEvents, PlannerEvents
  <2>2. QED
    BY <1>3, <1>4, <2>1
<1>5. ASSUME NEW p \in PatchType, journal # <<>>, ApplyPatch(p, Len(journal))
      PROVE  patched' \subseteq DOMAIN journal'
  <2>1. Len(journal) \in DOMAIN journal
    BY <1>0, <1>5
  <2>2. QED
    BY <1>3, <1>5, <2>1
<1>6. QED
  BY <1>2, <1>4, <1>5 DEF StoreStep, ExternalStep, store, Start, Resume, MarkRunning,
                          RecordOutcome, RecordExternalEvent

LEMMA GraphInvStep ==
  ASSUME GraphInv, GraphStep
  PROVE  GraphInv'
<1> USE DEF GraphInv
<1>1. StoreStep \/ ExternalStep
  BY StepIsStoreStep DEF GraphStep
<1>2. ~HasCycle(edges') /\ patched' \subseteq DOMAIN journal'
  BY <1>1, EdgesChecked, DecidedBefore
<1>3. CASE [Next]_vars
  <2>1. StoreStep
    BY <1>3, StepIsStoreStep
  <2>2. TypeOK'
    BY <1>3, NextIsAny, <2>1, StoreTypes, LocalTypes DEF TypeOK, LocalTypeOK
  <2>3. QED
    BY <1>2, <1>3, <2>1, <2>2, NextIsAny, QuietStep, AsksStep
<1>4. CASE ExternalStep /\ UNCHANGED <<local, resumes, crashes>>
  <2>1. TypeOK'
    BY <1>4, ExternalTypes
  <2>2. FinishedIsQuiet'
    BY <1>4, PatchQuiet DEF ExternalStep, RecordExternalEvent, FinishedIsQuiet
  <2>3. PlannerEvents \subseteq PlannerEvents'
    <3>1. PICK x \in Entry : Appends(x)
      BY <1>4, ExternalAppends
    <3>2. journal \in Seq(Entry)
      BY DEF TypeOK, StoreTypeOK
    <3>3. QED
      BY <3>1, <3>2, AppendFacts DEF Appends, PlannerEvents
  <2>4. AsksAboutEvents'
    BY <1>4, <2>3 DEF AsksAboutEvents, local
  <2>5. QED
    BY <1>2, <2>1, <2>2, <2>4
<1>5. QED
  BY <1>3, <1>4 DEF GraphStep

(* A finished run's nodes stay as they are, and terminal nodes do.         *)
LEMMA ExternalSpares ==
  ASSUME TypeOK, ExternalStep, NEW t \in Tasks
  PROVE  /\ state[t] \in Terminal => state'[t] = state[t]
         /\ finished => state' = state /\ finished' = finished
<1>1. ASSUME NEW p \in PatchType, ApplyPatch(p, Len(journal))
      PROVE  ~finished /\ (state[t] \in Terminal => state'[t] = state[t])
  <2>1. ~finished /\ ValidPatch(p)
    BY <1>1 DEF ApplyPatch, ValidPatch
  <2>2. ASSUME state[t] \in Terminal PROVE state'[t] = state[t]
    <3>1. state[t] \notin Open /\ t \in Nodes
      BY <2>2 DEF Terminal, Open, Nodes
    <3>2. t \notin p.add /\ t \notin p.cancel /\ t \notin p.wait /\ t \notin p.resume
      BY <2>1, <2>2, <3>1 DEF ValidPatch, Terminal
    <3>3. Edited(p)[t] = state[t]
      BY <3>2 DEF Edited
    <3>4. QED
      BY <1>1, <3>1, <3>3 DEF ApplyPatch, Leftovers
  <2>3. QED
    BY <2>1, <2>2
<1>2. QED
  BY <1>1 DEF ExternalStep, RecordExternalEvent

LEMMA FinishedStays ==
  ASSUME GraphInv, GraphStep, finished
  PROVE  state' = state /\ finished' = finished
<1>1. CASE [Next]_vars
  BY <1>1, StepIsStoreStep, FrozenStep DEF GraphInv
<1>2. CASE ExternalStep
  <2>1. CASE Tasks = {}
    <3>1. state \in [{} -> NodeState] /\ state' \in [{} -> NodeState]
      BY <1>2, <2>1, GraphInvStep DEF GraphInv, TypeOK, StoreTypeOK
    <3>2. QED
      BY <1>2, <3>1 DEF ExternalStep, RecordExternalEvent, ApplyPatch, ValidPatch
  <2>2. CASE Tasks # {}
    BY <1>2, <2>2, ExternalSpares DEF GraphInv
  <2>3. QED
    BY <2>1, <2>2
<1>3. QED
  BY <1>1, <1>2 DEF GraphStep
-----------------------------------------------------------------------------
(***************************************************************************)
(* The bridge.                                                             *)
(***************************************************************************)
LEMMA Fields ==
  ASSUME NEW A, NEW B, NEW r \in [at : A, node : B, id : Nat, seen : Snapshot], NEW x \in A, NEW i \in Nat,
         NEW how \in Snapshot
  PROVE  /\ [r EXCEPT !.at = x, !.seen = how] \in [at : A, node : B, id : Nat, seen : Snapshot]
         /\ [r EXCEPT !.at = x] \in [at : A, node : B, id : Nat, seen : Snapshot]
         /\ [r EXCEPT !.at = x, !.id = i] \in [at : A, node : B, id : Nat, seen : Snapshot]
OBVIOUS

LEMMA RemoteFields ==
  ASSUME BridgeTypeOK, NEW i \in DOMAIN remote, NEW x \in {"ended", "canceled"}
  PROVE  [remote[i] EXCEPT !.state = x] \in RemoteTask
<1>1. remote[i] \in RemoteTask
  BY DEF BridgeTypeOK
<1>2. QED
  BY <1>1 DEF RemoteTask

LEMMA BridgeTypesStep ==
  ASSUME BridgeTypeOK, CallInv, [BridgeNext]_bridgeVars
  PROVE  BridgeTypeOK'
<1> USE DEF BridgeTypeOK, CallAt, CancelAt
<1>0. Len(remote) \in Nat /\ DOMAIN remote = 1 .. Len(remote)
  OBVIOUS
<1>1. CASE UNCHANGED bridge
  BY <1>1 DEF bridge
<1>2. ASSUME NEW c \in Calls, NEW n \in RemoteNodes, Dispatch(c, n) PROVE BridgeTypeOK'
  <2>1. [CallOver("starting") EXCEPT !.node = n] \in [at : CallAt, node : RemoteNodes \cup {0}, id : Nat, seen : Snapshot]
    BY DEF CallOver, Snapshot
  <2>2. QED
    BY <1>2, <2>1 DEF Dispatch
<1>3. ASSUME NEW c \in Calls, RemoteAccepts(c) PROVE BridgeTypeOK'
  <2>1. [node |-> call[c].node, state |-> "working"] \in RemoteTask
    BY <1>3 DEF RemoteAccepts, CallInv, RemoteTask
  <2>2. remote' \in Seq(RemoteTask)
    BY <1>3, <2>1 DEF RemoteAccepts
  <2>3. call' = [call EXCEPT ![c] = [call[c] EXCEPT !.at = "accepted", !.id = Len(remote) + 1]]
    BY <1>3 DEF RemoteAccepts
  <2>4. [call[c] EXCEPT !.at = "accepted", !.id = Len(remote) + 1]
          \in [at : CallAt, node : RemoteNodes \cup {0}, id : Nat, seen : Snapshot]
    <3>1. "accepted" \in CallAt /\ Len(remote) + 1 \in Nat
      BY <1>0
    <3>2. call[c] \in [at : CallAt, node : RemoteNodes \cup {0}, id : Nat, seen : Snapshot]
      OBVIOUS
    <3> HIDE DEF CallAt
    <3>3. QED
      BY <3>1, <3>2, Fields
  <2>5. QED
    BY <1>3, <2>2, <2>3, <2>4 DEF RemoteAccepts
<1>4. ASSUME NEW c \in Calls, StartReturns(c) \/ SubscriptionEnds(c) PROVE BridgeTypeOK'
  <2> DEFINE K == [at : CallAt, node : RemoteNodes \cup {0}, id : Nat, seen : Snapshot]
  <2>1. /\ call[c].id \in Nat /\ call[c].id \in DOMAIN remote /\ remote[call[c].id] \in RemoteTask
        /\ call[c] \in K /\ call[c].seen \in Snapshot
    BY <1>0, <1>4 DEF StartReturns, SubscriptionEnds, CallInv, TaskOf
  <2>2. remote[call[c].id].state \in Snapshot
    BY <2>1 DEF RemoteTask, Snapshot
  <2>3. CASE StartReturns(c)
    <3>1. call' = [call EXCEPT ![c] = [call[c] EXCEPT !.at = "subscribed",
                                                     !.seen = remote[call[c].id].state]]
      BY <2>3 DEF StartReturns
    <3>2. [call[c] EXCEPT !.at = "subscribed", !.seen = remote[call[c].id].state] \in K
      <4>1. "subscribed" \in CallAt
        OBVIOUS
      <4> HIDE DEF CallAt
      <4>2. QED
        BY <2>1, <2>2, <4>1, Fields
    <3>3. call' \in [Calls -> K]
      BY <3>1, <3>2
    <3>4. QED
      BY <2>1, <2>3, <3>3 DEF StartReturns
  <2>4. CASE SubscriptionEnds(c)
    <3>1. PICK last \in Snapshot :
            results' = [results EXCEPT ![call[c].node] = [id |-> call[c].id, state |-> last]]
      BY <2>1, <2>2, <2>4 DEF SubscriptionEnds
    <3>2. [id |-> call[c].id, state |-> last] \in [id : Nat, state : Snapshot]
      BY <2>1, <3>1
    <3>3. results' \in [RemoteNodes -> [id : Nat, state : Snapshot]]
      BY <3>1, <3>2
    <3>4. call' = [call EXCEPT ![c] = [call[c] EXCEPT !.at = "waking", !.seen = "none"]]
      BY <2>1, <2>2, <2>4 DEF SubscriptionEnds
    <3>5. [call[c] EXCEPT !.at = "waking", !.seen = "none"] \in K
      <4>1. "waking" \in CallAt /\ "none" \in Snapshot
        BY DEF Snapshot
      <4> HIDE DEF CallAt, Snapshot
      <4>2. QED
        BY <2>1, <4>1, Fields
    <3>6. call' \in [Calls -> K]
      BY <3>4, <3>5
    <3>7. QED
      BY <2>4, <3>3, <3>6 DEF SubscriptionEnds
  <2>5. QED
    BY <1>4, <2>3, <2>4
<1>5. ASSUME NEW c \in Calls, CallFails(c) \/ WakeNode(c) \/ WakeSkipped(c) PROVE BridgeTypeOK'
  <2>1. PICK how \in {"raised", "returned"} : call' = [call EXCEPT ![c] = CallOver(how)]
    BY <1>5 DEF CallFails, WakeNode, WakeSkipped
  <2>2. CallOver(how) \in [at : CallAt, node : RemoteNodes \cup {0}, id : Nat, seen : Snapshot]
    BY DEF CallOver, Snapshot
  <2>3. UNCHANGED <<canceller, remote, remote_ids, results>>
    BY <1>5 DEF CallFails, WakeNode, WakeSkipped
  <2>4. QED
    BY <2>1, <2>2, <2>3
<1>6. ASSUME NEW n \in RemoteNodes, CancelRequested(n) \/ CancelNode(n) \/ CancelFails(n) \/ RemoteCancels(n)
      PROVE  BridgeTypeOK'
  <2>1. UNCHANGED <<call, remote_ids, results>>
    BY <1>6 DEF CancelRequested, CancelNode, CancelFails, RemoteCancels
  <2>2. PICK pc1 \in CancelAt : canceller' = [canceller EXCEPT ![n].at = pc1]
    BY <1>6 DEF CancelRequested, CancelNode, CancelFails, RemoteCancels
  <2>3. canceller' \in [RemoteNodes -> [at : CancelAt, id : Nat]]
    BY <2>2
  <2>4. remote' \in Seq(RemoteTask)
    <3> DEFINE j == canceller[n].id
    <3>1. remote' = remote \/ remote' = [remote EXCEPT ![j] = [remote[j] EXCEPT !.state = "canceled"]]
      BY <1>6 DEF CancelRequested, CancelNode, CancelFails, RemoteCancels
    <3>2. CASE j \in DOMAIN remote
      <4>1. [remote[j] EXCEPT !.state = "canceled"] \in RemoteTask
        BY <3>2, RemoteFields
      <4> DEFINE x == [remote[j] EXCEPT !.state = "canceled"]
      <4>2. x \in RemoteTask /\ remote \in Seq(RemoteTask)
        BY <4>1
      <4>3. remote' = remote \/ remote' = [remote EXCEPT ![j] = x]
        BY <3>1
      <4> HIDE DEF j, x
      <4>4. [remote EXCEPT ![j] = x] \in Seq(RemoteTask)
        BY <3>2, <4>2
      <4>5. QED
        BY <4>2, <4>3, <4>4
    <3>3. CASE j \notin DOMAIN remote
      <4> HIDE DEF j
      <4>1. remote' = remote
        BY <3>1, <3>3
      <4>2. QED
        BY <4>1
    <3>4. QED
      BY <3>2, <3>3
  <2>5. QED
    BY <2>1, <2>3, <2>4
<1>7. ASSUME NEW n \in RemoteNodes, CancelCommitted(n) PROVE BridgeTypeOK'
  <2>1. remote_ids[n] \in Nat
    OBVIOUS
  <2>2. \/ canceller' = [canceller EXCEPT ![n] = [at |-> IF remote_ids[n] = 0 THEN "raised" ELSE "cancelling",
                                                  id |-> remote_ids[n]]]
        \/ canceller' = [canceller EXCEPT ![n].at = "raised"]
    BY <1>7 DEF CancelCommitted
  <2>3. canceller' \in [RemoteNodes -> [at : CancelAt, id : Nat]]
    <3>1. /\ [at |-> IF remote_ids[n] = 0 THEN "raised" ELSE "cancelling", id |-> remote_ids[n]]
               \in [at : CancelAt, id : Nat]
          /\ [canceller[n] EXCEPT !.at = "raised"] \in [at : CancelAt, id : Nat]
      BY <2>1
    <3>2. QED
      BY <2>2, <3>1
  <2>4. QED
    BY <1>7, <2>3 DEF CancelCommitted
<1>8. ASSUME NEW i \in DOMAIN remote, RemoteEnds(i) PROVE BridgeTypeOK'
  <2>1. [remote[i] EXCEPT !.state = "ended"] \in RemoteTask
    BY RemoteFields
  <2>2. remote' \in Seq(RemoteTask)
    BY <1>8, <2>1 DEF RemoteEnds
  <2>3. QED
    BY <1>8, <2>2 DEF RemoteEnds
<1>9. CASE BridgeCrash
  BY <1>9 DEF BridgeCrash, NoCall, NoCancel, NoResult, CallOver, Snapshot
<1>10. QED
  BY <1>1, <1>2, <1>3, <1>4, <1>5, <1>6, <1>7, <1>8, <1>9
     DEF BridgeNext, BridgeStep, CancelStep, BridgeWorkerEnds, bridgeVars

(* The remote agent forgets no task, gives none to another node, and a     *)
(* task that is over stays so.                                             *)
LEMMA RemoteTasksStay ==
  ASSUME BridgeTypeOK, [BridgeNext]_bridgeVars, NEW i \in DOMAIN remote
  PROVE  /\ i \in DOMAIN remote' /\ remote'[i].node = remote[i].node
         /\ Over(i) => Over(i)'
<1> USE DEF BridgeTypeOK, RemoteTask, Over
<1>1. CASE UNCHANGED remote
  BY <1>1
<1>2. ASSUME NEW c \in Calls, RemoteAccepts(c)
      PROVE  /\ i \in DOMAIN remote' /\ remote'[i] = remote[i]
  BY <1>2 DEF RemoteAccepts
<1>3. ASSUME NEW j, NEW end \in {"ended", "canceled"}, remote' = [remote EXCEPT ![j].state = end]
      PROVE  /\ i \in DOMAIN remote' /\ remote'[i].node = remote[i].node
             /\ Over(i) => Over(i)'
  <2>1. DOMAIN remote' = DOMAIN remote
    BY <1>3
  <2>2. CASE i = j
    <3>1. remote'[i] = [remote[i] EXCEPT !.state = end]
      BY <1>3, <2>2
    <3>2. QED
      BY <2>1, <3>1
  <2>3. CASE i # j
    BY <1>3, <2>1, <2>3
  <2>4. QED
    BY <2>2, <2>3
<1>4. ASSUME NEW n \in RemoteNodes, RemoteCancels(n)
      PROVE  /\ i \in DOMAIN remote' /\ remote'[i].node = remote[i].node
             /\ Over(i) => Over(i)'
  BY <1>1, <1>3, <1>4 DEF RemoteCancels
<1>5. ASSUME NEW j \in DOMAIN remote, RemoteEnds(j)
      PROVE  /\ i \in DOMAIN remote' /\ remote'[i].node = remote[i].node
             /\ Over(i) => Over(i)'
  BY <1>3, <1>5 DEF RemoteEnds
<1>6. QED
  <2>1. \/ UNCHANGED remote
        \/ \E c \in Calls : RemoteAccepts(c)
        \/ \E n \in RemoteNodes : RemoteCancels(n)
        \/ \E j \in DOMAIN remote : RemoteEnds(j)
    BY DEF BridgeNext, bridgeVars, bridge, BridgeStep, CancelStep, CallFails, Dispatch, StartReturns,
           SubscriptionEnds, WakeNode, WakeSkipped, CancelRequested, CancelCommitted,
           CancelNode, CancelFails, BridgeWorkerEnds, BridgeCrash
  <2>2. QED
    BY <1>1, <1>2, <1>4, <1>5, <2>1

(* ... and how it ended.                                                   *)
LEMMA EndStays ==
  ASSUME BridgeTypeOK, [BridgeNext]_bridgeVars, NEW i \in DOMAIN remote, Over(i)
  PROVE  remote'[i].state = remote[i].state
<1> USE DEF BridgeTypeOK
<1>1. CASE UNCHANGED remote
  BY <1>1
<1>2. ASSUME NEW c \in Calls, RemoteAccepts(c) PROVE remote'[i] = remote[i]
  BY <1>2 DEF RemoteAccepts
<1>3. ASSUME NEW n \in RemoteNodes, RemoteCancels(n) PROVE remote'[i] = remote[i]
  BY <1>3 DEF RemoteCancels
<1>4. ASSUME NEW j \in DOMAIN remote, RemoteEnds(j) PROVE remote'[i] = remote[i]
  BY <1>4 DEF RemoteEnds
<1>5. QED
  <2>1. \/ UNCHANGED remote
        \/ \E c \in Calls : RemoteAccepts(c)
        \/ \E n \in RemoteNodes : RemoteCancels(n)
        \/ \E j \in DOMAIN remote : RemoteEnds(j)
    BY DEF BridgeNext, bridgeVars, bridge, BridgeStep, CancelStep, CallFails, Dispatch, StartReturns,
           SubscriptionEnds, WakeNode, WakeSkipped, CancelRequested, CancelCommitted,
           CancelNode, CancelFails, BridgeWorkerEnds, BridgeCrash
  <2>2. QED
    BY <1>1, <1>2, <1>3, <1>4, <2>1

LEMMA AloneStep ==
  ASSUME GraphInv, BridgeTypeOK, AloneInv, CallInv, [BridgeNext]_bridgeVars
  PROVE  AloneInv'
<1> USE DEF BridgeTypeOK
<1>0. /\ journal \in Seq(Entry) /\ Len(journal) \in Nat
      /\ patched \subseteq 1 .. Len(journal)
  BY DEF GraphInv, TypeOK, StoreTypeOK
<1>1. ASSUME Waking' = {}, Requested' = {} PROVE AloneInv'
  BY <1>1 DEF AloneInv
<1>2. ASSUME Waking' = Waking, Requested' = Requested, UNCHANGED <<journal, patched>> PROVE AloneInv'
  BY <1>2 DEF AloneInv
<1>3. ASSUME NEW k, NEW n \in Tasks, RecordExternalEvent(k, n)
      PROVE  journal' # <<>> /\ Len(journal') \notin patched'
  <2>1. journal' = Append(journal, Event(k, {n})) /\ patched' = patched
    BY <1>3 DEF RecordExternalEvent
  <2>2. Len(journal') = Len(journal) + 1
    BY <1>0, <2>1
  <2>3. journal' # <<>>
    BY <1>0, <2>1, <2>2
  <2>4. Len(journal) + 1 \notin patched
    BY <1>0
  <2>5. QED
    BY <2>1, <2>2, <2>3, <2>4
<1>4. LoopIsFree \/ BridgeSuspended => Waking = {} /\ Requested = {}
  BY DEF LoopIsFree, BridgeSuspended, Waking, Requested
<1>5. CASE UNCHANGED bridgeVars
  BY <1>2, <1>5 DEF bridgeVars, bridge, vars, store, Waking, Requested
<1>6. ASSUME NEW c \in Calls,
             RemoteAccepts(c) \/ StartReturns(c) \/ CallFails(c) \/ \E n \in RemoteNodes : Dispatch(c, n)
      PROVE  AloneInv'
  <2>1. /\ call[c].at # "waking" /\ canceller' = canceller /\ UNCHANGED vars
        /\ \E k \in [at : CallAt \ {"waking"}, node : RemoteNodes \cup {0}, id : Nat, seen : Snapshot] :
             call' = [call EXCEPT ![c] = k]
    <3> DEFINE K == [at : CallAt \ {"waking"}, node : RemoteNodes \cup {0}, id : Nat, seen : Snapshot]
    <3>1. CASE RemoteAccepts(c) \/ StartReturns(c)
      <4>1. call[c] \in K /\ {"accepted", "subscribed"} \subseteq CallAt \ {"waking"}
        BY <3>1 DEF RemoteAccepts, StartReturns, CallAt
      <4>2. Len(remote) + 1 \in Nat /\ 0 \in Nat /\ "none" \in Snapshot
        BY DEF Snapshot
      <4>3. \/ call' = [call EXCEPT ![c] = [call[c] EXCEPT !.at = "accepted", !.id = Len(remote) + 1]]
            \/ /\ StartReturns(c)
               /\ call' = [call EXCEPT ![c] = [call[c] EXCEPT !.at = "subscribed",
                                                            !.seen = remote[call[c].id].state]]
        BY <3>1 DEF RemoteAccepts, StartReturns
      <4>4. [call[c] EXCEPT !.at = "accepted", !.id = Len(remote) + 1] \in K
        BY <4>1, <4>2, Fields
      <4>5. ASSUME StartReturns(c)
            PROVE  [call[c] EXCEPT !.at = "subscribed", !.seen = remote[call[c].id].state] \in K
        <5>1. remote[call[c].id] \in RemoteTask
          BY <4>5 DEF StartReturns, CallInv, TaskOf
        <5>2. remote[call[c].id].state \in Snapshot
          BY <5>1 DEF RemoteTask, Snapshot
        <5>3. QED
          BY <4>1, <4>2, <5>2, Fields
      <4>6. QED
        BY <3>1, <4>3, <4>4, <4>5 DEF RemoteAccepts, StartReturns
    <3>2. CASE CallFails(c)
      <4>1. CallOver("raised") \in K
        BY DEF CallOver, CallAt, Snapshot
      <4>2. QED
        BY <3>2, <4>1 DEF CallFails
    <3>3. ASSUME NEW n \in RemoteNodes, Dispatch(c, n)
          PROVE  /\ call[c].at # "waking" /\ canceller' = canceller /\ UNCHANGED vars
                 /\ \E k \in K : call' = [call EXCEPT ![c] = k]
      <4>1. [CallOver("starting") EXCEPT !.node = n] \in K
        BY DEF CallOver, CallAt, Snapshot
      <4>2. QED
        BY <3>3, <4>1 DEF Dispatch
    <3>4. QED
      BY <1>6, <3>1, <3>2, <3>3
  <2>2. PICK k \in [at : CallAt \ {"waking"}, node : RemoteNodes \cup {0}, id : Nat, seen : Snapshot] :
          call' = [call EXCEPT ![c] = k]
    BY <2>1
  <2>3. k.at # "waking"
    OBVIOUS
  <2>4. Waking' = Waking /\ Requested' = Requested
    BY <2>1, <2>2, <2>3 DEF Waking, Requested
  <2>5. QED
    BY <1>2, <2>1, <2>4 DEF vars, store
<1>7. ASSUME NEW c \in Calls, SubscriptionEnds(c) PROVE AloneInv'
  <2>1. Waking = {} /\ Requested = {}
    BY <1>4, <1>7 DEF SubscriptionEnds
  <2>2. Waking' \subseteq {c} /\ Requested' = {}
    BY <1>7, <2>1 DEF SubscriptionEnds, Waking, Requested
  <2>3. call[c].node \in Tasks
    BY <1>7, NodesAreTasks DEF CallInv, SubscriptionEnds
  <2>4. journal' # <<>> /\ Len(journal') \notin patched'
    BY <1>3, <1>7, <2>3 DEF SubscriptionEnds
  <2>5. QED
    BY <2>2, <2>4 DEF AloneInv
<1>8. ASSUME NEW c \in Calls, WakeNode(c) \/ WakeSkipped(c) PROVE AloneInv'
  <2>1. c \in Waking
    BY <1>8 DEF WakeNode, WakeSkipped, Waking
  <2>2. Waking = {c} /\ Requested = {}
    BY <2>1 DEF AloneInv
  <2>3. PICK how \in {"raised", "returned"} : call' = [call EXCEPT ![c] = CallOver(how)]
    BY <1>8 DEF WakeNode, WakeSkipped
  <2>4. CallOver(how).at # "waking" /\ canceller' = canceller
    BY <1>8 DEF CallOver, WakeNode, WakeSkipped
  <2>5. Waking' = {} /\ Requested' = {}
    BY <2>2, <2>3, <2>4 DEF Waking, Requested
  <2>6. QED
    BY <1>1, <2>5
<1>9. ASSUME NEW n \in RemoteNodes, CancelRequested(n) PROVE AloneInv'
  <2>1. Waking = {} /\ Requested = {}
    BY <1>4, <1>9 DEF CancelRequested
  <2>2. Waking' = {} /\ Requested' \subseteq {n}
    BY <1>9, <2>1 DEF CancelRequested, Waking, Requested
  <2>3. journal' # <<>> /\ Len(journal') \notin patched'
    BY <1>3, <1>9, NodesAreTasks DEF CancelRequested
  <2>4. QED
    BY <2>2, <2>3 DEF AloneInv
<1>10. ASSUME NEW n \in RemoteNodes, CancelCommitted(n) PROVE AloneInv'
  <2>1. n \in Requested
    BY <1>10 DEF CancelCommitted, Requested
  <2>2. Requested = {n} /\ Waking = {}
    BY <2>1 DEF AloneInv
  <2>3. call' = call /\ DOMAIN canceller' = RemoteNodes /\ canceller'[n].at # "requested"
        /\ \A m \in RemoteNodes \ {n} : canceller'[m] = canceller[m]
    BY <1>10 DEF CancelCommitted
  <2>4. Waking' = Waking /\ Requested' \subseteq Requested \ {n}
    BY <2>3 DEF Waking, Requested
  <2>5. QED
    BY <1>1, <2>2, <2>4
<1>11. ASSUME NEW n \in RemoteNodes, RemoteCancels(n) \/ CancelFails(n) PROVE AloneInv'
  <2>1. call' = call /\ canceller[n].at # "requested" /\ canceller'[n].at # "requested"
        /\ UNCHANGED vars /\ \A m \in RemoteNodes \ {n} : canceller'[m] = canceller[m]
    BY <1>11 DEF RemoteCancels, CancelFails
  <2>2. Waking' = Waking /\ Requested' = Requested
    BY <2>1 DEF Waking, Requested
  <2>3. QED
    BY <1>2, <2>1, <2>2 DEF vars, store
<1>12. ASSUME NEW n \in RemoteNodes, CancelNode(n) PROVE AloneInv'
  <2>1. Waking = {} /\ Requested = {}
    BY <1>4, <1>12 DEF CancelNode
  <2>2. Waking' = {} /\ Requested' = {}
    BY <1>12, <2>1 DEF CancelNode, Waking, Requested
  <2>3. QED
    BY <1>1, <2>2
<1>13. ASSUME NEW i \in DOMAIN remote, RemoteEnds(i) PROVE AloneInv'
  BY <1>2, <1>13 DEF RemoteEnds, vars, store, Waking, Requested
<1>14. ASSUME BridgeSuspended, UNCHANGED bridge PROVE AloneInv'
  <2>1. Waking' = {} /\ Requested' = {}
    BY <1>4, <1>14 DEF bridge, Waking, Requested
  <2>2. QED
    BY <1>1, <2>1
<1>15. CASE BridgeCrash
  <2>1. Waking' = {} /\ Requested' = {}
    BY <1>15 DEF BridgeCrash, NoCall, NoCancel, CallOver, Waking, Requested
  <2>2. QED
    BY <1>1, <2>1
<1>16. QED
  BY <1>5, <1>6, <1>7, <1>8, <1>9, <1>10, <1>11, <1>12, <1>13, <1>14, <1>15
     DEF BridgeNext, BridgeStep, CancelStep, BridgeWorkerEnds

(* What the bridge's dictionaries name is the node's own remote task.      *)
LEMMA TasksStay ==
  ASSUME BridgeTypeOK, [BridgeNext]_bridgeVars, NEW i, NEW n, TaskOf(i, n)
  PROVE  /\ TaskOf(i, n)' /\ (Over(i) => Over(i)')
         /\ \A how : Shown(how, i) => Shown(how, i)'
BY RemoteTasksStay, EndStays DEF TaskOf, Shown, Over

LEMMA CallStep ==
  ASSUME BridgeTypeOK, CallInv, [BridgeNext]_bridgeVars
  PROVE  CallInv'
<1> DEFINE OK(c) == /\ call[c].at \in {"starting", "accepted", "subscribed", "waking"} =>
                         call[c].node \in RemoteNodes
                    /\ call[c].at \in {"accepted", "subscribed", "waking"} =>
                         TaskOf(call[c].id, call[c].node)
                    /\ call[c].at = "subscribed" => Shown(call[c].seen, call[c].id)
                    /\ call[c].at = "waking" => results[call[c].node].id # 0
<1>0. \A c \in Calls : OK(c)
  BY DEF CallInv
<1>k. ASSUME NEW c \in Calls PROVE call[c].id \in Nat /\ call[c].node \in RemoteNodes \cup {0}
  BY DEF BridgeTypeOK
(* A call that stays where it is.                                          *)
<1>1. ASSUME NEW c \in Calls, call'[c] = call[c], \A n \in RemoteNodes : results[n].id # 0 => results'[n].id # 0
      PROVE  OK(c)'
  BY <1>0, <1>1, TasksStay
<1>2. ASSUME NEW c \in Calls, call'[c].at \in {"idle", "returned", "raised"} PROVE OK(c)'
  BY <1>2
<1>3. ASSUME NEW c \in Calls, \A d \in Calls \ {c} : call'[d] = call[d], OK(c)',
             \A n \in RemoteNodes : results[n].id # 0 => results'[n].id # 0
      PROVE  CallInv'
  BY <1>1, <1>3 DEF CallInv
<1>4. ASSUME NEW c \in Calls, NEW n \in RemoteNodes, Dispatch(c, n) PROVE CallInv'
  <2>1. /\ call'[c].at = "starting" /\ call'[c].node = n /\ results' = results
        /\ \A d \in Calls \ {c} : call'[d] = call[d]
    BY <1>4 DEF Dispatch, CallOver, BridgeTypeOK
  <2>2. OK(c)'
    BY <2>1
  <2>3. QED
    BY <1>3, <2>1, <2>2
<1>5. ASSUME NEW c \in Calls, RemoteAccepts(c) PROVE CallInv'
  <2>1. /\ call'[c].at = "accepted" /\ call'[c].id = Len(remote) + 1 /\ call'[c].node = call[c].node
        /\ \A d \in Calls \ {c} : call'[d] = call[d]
        /\ results' = results /\ remote' = Append(remote, [node |-> call[c].node, state |-> "working"])
        /\ call[c].at = "starting"
    BY <1>5 DEF RemoteAccepts, BridgeTypeOK
  <2>2. /\ Len(remote) + 1 \in DOMAIN remote'
        /\ remote'[Len(remote) + 1] = [node |-> call[c].node, state |-> "working"]
    BY <2>1 DEF BridgeTypeOK
  <2>3. TaskOf(call[c].id, call[c].node)'
    BY <2>1, <2>2 DEF TaskOf
  <2>4. OK(c)'
    BY <1>0, <2>1, <2>3
  <2>5. QED
    BY <1>3, <2>1, <2>4
<1>6. ASSUME NEW c \in Calls, StartReturns(c) PROVE CallInv'
  <2>1. /\ call'[c].at = "subscribed" /\ call'[c].id = call[c].id /\ call'[c].node = call[c].node
        /\ \A d \in Calls \ {c} : call'[d] = call[d]
        /\ results' = results /\ call[c].at = "accepted" /\ remote' = remote
        /\ call'[c].seen = remote[call[c].id].state
    BY <1>6 DEF StartReturns, BridgeTypeOK
  <2>2. Shown(call[c].seen, call[c].id)'
    BY <2>1 DEF Shown
  <2>3. OK(c)'
    BY <1>0, <2>1, <2>2, TasksStay
  <2>4. QED
    BY <1>3, <2>1, <2>3
<1>7. ASSUME NEW c \in Calls, SubscriptionEnds(c) PROVE CallInv'
  <2>1. /\ call'[c].at = "waking" /\ call'[c].id = call[c].id /\ call'[c].node = call[c].node
        /\ \A d \in Calls \ {c} : call'[d] = call[d]
        /\ call[c].at = "subscribed"
        /\ \E last : results' = [results EXCEPT ![call[c].node] = [id |-> call[c].id, state |-> last]]
    <3>1. call' = [call EXCEPT ![c] = [call[c] EXCEPT !.at = "waking", !.seen = "none"]]
      BY <1>7 DEF SubscriptionEnds, BridgeTypeOK
    <3>2. /\ call'[c].at = "waking" /\ call'[c].id = call[c].id /\ call'[c].node = call[c].node
          /\ \A d \in Calls \ {c} : call'[d] = call[d]
      BY <3>1 DEF BridgeTypeOK
    <3>3. /\ call[c].at = "subscribed"
          /\ \E last : results' = [results EXCEPT ![call[c].node] = [id |-> call[c].id, state |-> last]]
      BY <1>7 DEF SubscriptionEnds
    <3>4. QED
      BY <3>2, <3>3
  <2>2. TaskOf(call[c].id, call[c].node) /\ call[c].node \in RemoteNodes
    BY <1>0, <2>1
  <2>3. call[c].id # 0
    BY <2>2 DEF TaskOf, BridgeTypeOK
  <2>4. results'[call[c].node].id # 0 /\ \A n \in RemoteNodes : results[n].id # 0 => results'[n].id # 0
    BY <2>1, <2>2, <2>3 DEF BridgeTypeOK
  <2>5. OK(c)'
    BY <2>1, <2>2, <2>4, TasksStay
  <2>6. QED
    BY <1>3, <2>1, <2>4, <2>5
<1>8. ASSUME NEW c \in Calls, CallFails(c) \/ WakeNode(c) \/ WakeSkipped(c) PROVE CallInv'
  <2>1. PICK how \in {"raised", "returned"} : call' = [call EXCEPT ![c] = CallOver(how)]
    BY <1>8 DEF CallFails, WakeNode, WakeSkipped
  <2>2. call'[c].at \in {"idle", "returned", "raised"} /\ \A d \in Calls \ {c} : call'[d] = call[d]
    BY <2>1 DEF CallOver, BridgeTypeOK
  <2>3. results' = results
    BY <1>8 DEF CallFails, WakeNode, WakeSkipped
  <2>4. OK(c)'
    BY <1>2, <2>2
  <2>5. QED
    BY <1>3, <2>2, <2>3, <2>4
<1>9. ASSUME UNCHANGED <<call, results>> PROVE CallInv'
  BY <1>1, <1>9 DEF CallInv
<1>10. CASE BridgeCrash
  <2>1. \A c \in Calls : call'[c].at = "idle"
    BY <1>10 DEF BridgeCrash, NoCall, CallOver
  <2>2. QED
    BY <1>2, <2>1 DEF CallInv
<1>11. QED
  <2>1. \/ UNCHANGED <<call, results>> \/ BridgeCrash
        \/ \E c \in Calls :
             \/ RemoteAccepts(c) \/ StartReturns(c) \/ SubscriptionEnds(c)
             \/ CallFails(c) \/ WakeNode(c) \/ WakeSkipped(c)
             \/ \E n \in RemoteNodes : Dispatch(c, n)
    BY DEF BridgeNext, bridgeVars, bridge, BridgeStep, CancelStep, RemoteCancels, CancelRequested,
           CancelCommitted, CancelNode, CancelFails, RemoteEnds, BridgeWorkerEnds
  <2>2. QED
    BY <1>4, <1>5, <1>6, <1>7, <1>8, <1>9, <1>10, <2>1

LEMMA RemoteStep ==
  ASSUME GraphInv, BridgeTypeOK, CallInv, AloneInv, RemoteInv, [BridgeNext]_bridgeVars
  PROVE  RemoteInv'
<1> DEFINE Known(n) == /\ remote_ids[n] # 0 => TaskOf(remote_ids[n], n)
                       /\ results[n].id # 0 => /\ TaskOf(results[n].id, n) /\ Over(results[n].id)
                                              /\ Shown(results[n].state, results[n].id)
           Cancelled(n) ==
             /\ canceller[n].at \in {"cancelling", "answered", "returned"} =>
                  state[n] = "cancelled" /\ finished /\ TaskOf(canceller[n].id, n)
             /\ canceller[n].at \in {"answered", "returned"} => Over(canceller[n].id)
<1>0. \A n \in RemoteNodes : Known(n) /\ Cancelled(n)
  BY DEF RemoteInv
<1>s. SUFFICES (\A n \in RemoteNodes : Known(n)') /\ (\A n \in RemoteNodes : Cancelled(n)')
  BY DEF RemoteInv
<1>g. finished => state' = state /\ finished' = finished
  BY BridgeStepIsGraphStep, FinishedStays
(* The dictionaries.                                                       *)
<1>1. ASSUME NEW n \in RemoteNodes,
             \/ remote_ids'[n] \in {0, remote_ids[n]}
             \/ TaskOf(remote_ids'[n], n),
             \/ results'[n] \in {NoResult, results[n]}
             \/ /\ TaskOf(results'[n].id, n) /\ Over(results'[n].id)
                /\ Shown(results'[n].state, results'[n].id)
      PROVE  Known(n)'
  <2> DEFINE new == results'[n]
  <2>1. \A i : TaskOf(i, n) => /\ TaskOf(i, n)' /\ (Over(i) => Over(i)')
                               /\ \A how : Shown(how, i) => Shown(how, i)'
    BY TasksStay
  <2>2. remote_ids'[n] # 0 => TaskOf(remote_ids'[n], n)
    BY <1>0, <1>1
  <2>3. new.id # 0 => TaskOf(new.id, n) /\ Over(new.id) /\ Shown(new.state, new.id)
    BY <1>0, <1>1 DEF NoResult
  <2>4. \A i : TaskOf(i, n) =>
             /\ i \in DOMAIN remote' /\ remote'[i].node = n
             /\ remote[i].state # "working" => remote'[i].state # "working"
             /\ \A how : how \in {"working", remote[i].state} => how \in {"working", remote'[i].state}
    BY <2>1 DEF TaskOf, Over, Shown
  <2>5. QED
    BY <2>2, <2>3, <2>4 DEF TaskOf, Over, Shown
<1>2. \A n \in RemoteNodes : Known(n)'
  <2>1. CASE UNCHANGED <<remote_ids, results>>
    BY <1>1, <2>1
  <2>2. ASSUME NEW c \in Calls, StartReturns(c) PROVE \A n \in RemoteNodes : Known(n)'
    <3>1. call[c].node \in RemoteNodes /\ TaskOf(call[c].id, call[c].node)
      BY <2>2 DEF StartReturns, CallInv
    <3>2. remote_ids' = [remote_ids EXCEPT ![call[c].node] = call[c].id] /\ results' = results
      BY <2>2 DEF StartReturns
    <3>3. \A n \in RemoteNodes : remote_ids'[n] = remote_ids[n] \/ TaskOf(remote_ids'[n], n)
      BY <3>1, <3>2 DEF BridgeTypeOK
    <3>4. QED
      BY <1>1, <3>2, <3>3
  <2>3. ASSUME NEW c \in Calls, SubscriptionEnds(c) PROVE \A n \in RemoteNodes : Known(n)'
    <3>1. /\ call[c].node \in RemoteNodes /\ TaskOf(call[c].id, call[c].node)
          /\ Over(call[c].id) /\ Shown(call[c].seen, call[c].id)
      BY <2>3 DEF SubscriptionEnds, CallInv
    <3>2. PICK last \in {call[c].seen, remote[call[c].id].state} :
            results' = [results EXCEPT ![call[c].node] = [id |-> call[c].id, state |-> last]]
      BY <2>3 DEF SubscriptionEnds
    <3>3. Shown(last, call[c].id) /\ remote_ids' = remote_ids
      BY <2>3, <3>1, <3>2 DEF SubscriptionEnds, Shown
    <3>4. \A n \in RemoteNodes :
            results'[n] = results[n] \/ (/\ TaskOf(results'[n].id, n) /\ Over(results'[n].id)
                                         /\ Shown(results'[n].state, results'[n].id))
      BY <3>1, <3>2, <3>3 DEF BridgeTypeOK
    <3>5. QED
      BY <1>1, <3>3, <3>4
  <2>4. CASE BridgeCrash
    <3>1. \A n \in RemoteNodes : remote_ids'[n] = 0 /\ results'[n] = NoResult
      BY <2>4 DEF BridgeCrash
    <3>2. QED
      BY <1>1, <3>1
  <2>5. QED
    <3>1. \/ UNCHANGED <<remote_ids, results>> \/ BridgeCrash
          \/ \E c \in Calls : StartReturns(c) \/ SubscriptionEnds(c)
      BY DEF BridgeNext, bridgeVars, bridge, BridgeStep, CancelStep, RemoteCancels, CancelRequested,
             CancelCommitted, CancelNode, CancelFails, RemoteEnds, BridgeWorkerEnds, Dispatch,
             RemoteAccepts, CallFails, WakeNode, WakeSkipped
    <3>2. QED
      BY <2>1, <2>2, <2>3, <2>4, <3>1
(* The application's cancellations.                                        *)
<1>3. ASSUME NEW n \in RemoteNodes, canceller'[n] = canceller[n] PROVE Cancelled(n)'
  BY <1>0, <1>3, <1>g, TasksStay
<1>4. ASSUME NEW n \in RemoteNodes, canceller'[n].at \notin {"cancelling", "answered", "returned"}
      PROVE  Cancelled(n)'
  BY <1>4
<1>5. ASSUME NEW n \in RemoteNodes, Cancelled(n)', \A m \in RemoteNodes \ {n} : canceller'[m] = canceller[m]
      PROVE  \A m \in RemoteNodes : Cancelled(m)'
  BY <1>3, <1>5
<1>6. ASSUME NEW n \in RemoteNodes, CancelRequested(n) \/ CancelFails(n)
      PROVE  \A m \in RemoteNodes : Cancelled(m)'
  <2>1. /\ canceller'[n].at \notin {"cancelling", "answered", "returned"}
        /\ \A m \in RemoteNodes \ {n} : canceller'[m] = canceller[m]
    BY <1>6 DEF CancelRequested, CancelFails, BridgeTypeOK
  <2>2. QED
    BY <1>4, <1>5, <2>1
<1>7. ASSUME NEW n \in RemoteNodes, CancelCommitted(n)
      PROVE  \A m \in RemoteNodes : Cancelled(m)'
  <2>1. \A m \in RemoteNodes \ {n} : canceller'[m] = canceller[m]
    BY <1>7 DEF CancelCommitted, BridgeTypeOK
  <2>2. CASE canceller'[n].at \notin {"cancelling", "answered", "returned"}
    BY <1>4, <1>5, <2>1, <2>2
  <2>3. CASE canceller'[n].at \in {"cancelling", "answered", "returned"}
    <3>1. /\ ApplyPatch(CancelPatch(n), Len(journal)) /\ remote_ids[n] # 0
          /\ canceller'[n] = [at |-> "cancelling", id |-> remote_ids[n]]
      BY <1>7, <2>3 DEF CancelCommitted, BridgeTypeOK
    <3>2. TaskOf(remote_ids[n], n)
      BY <1>0, <3>1
    <3>3. TaskOf(remote_ids[n], n)'
      <4>1. remote' = remote /\ remote_ids' = remote_ids
        BY <1>7 DEF CancelCommitted
      <4>2. QED
        BY <3>2, <4>1 DEF TaskOf
    <3>4. remote_ids' = remote_ids
      BY <1>7 DEF CancelCommitted
    <3>5. n \in Tasks /\ n \in CancelPatch(n).cancel /\ CancelPatch(n).finish
          /\ n \notin CancelPatch(n).resume /\ n \notin CancelPatch(n).wait
      BY NodesAreTasks DEF CancelPatch, WakeUp
    <3>6. Edited(CancelPatch(n))[n] = "cancelled"
      BY <3>5 DEF Edited
    <3>7. state'[n] = "cancelled" /\ finished'
      BY <3>1, <3>5, <3>6 DEF ApplyPatch
    <3>8. Cancelled(n)'
      BY <3>1, <3>3, <3>4, <3>7
    <3>9. QED
      BY <1>5, <2>1, <3>8
  <2>4. QED
    BY <2>2, <2>3
<1>8. ASSUME NEW n \in RemoteNodes, RemoteCancels(n)
      PROVE  \A m \in RemoteNodes : Cancelled(m)'
  <2> DEFINE i == canceller[n].id
  <2>1. /\ canceller[n].at = "cancelling" /\ canceller'[n].at = "answered" /\ canceller'[n].id = i
        /\ \A m \in RemoteNodes \ {n} : canceller'[m] = canceller[m]
    BY <1>8 DEF RemoteCancels, BridgeTypeOK
  <2>2. state[n] = "cancelled" /\ finished /\ TaskOf(i, n)
    BY <1>0, <2>1
  <2>3. TaskOf(i, n)' /\ state'[n] = "cancelled" /\ finished'
    <3>1. i' = i
      BY <2>1
    <3>2. \A j : TaskOf(j, n) => j \in DOMAIN remote' /\ remote'[j].node = n
      BY TasksStay DEF TaskOf
    <3>3. QED
      BY <1>g, <2>2, <3>1, <3>2 DEF TaskOf
  <2>4. Over(i)'
    <3>1. i' = i
      BY <2>1
    <3>2. remote'[i].state # "working"
      <4>1. i \in DOMAIN remote
        BY <2>2 DEF TaskOf
      <4>2. CASE Over(i)
        BY <1>8, <4>2 DEF RemoteCancels, Over
      <4>3. CASE ~Over(i)
        <5>1. remote' = [remote EXCEPT ![i].state = "canceled"]
          BY <1>8, <4>3 DEF RemoteCancels
        <5>2. remote[i] \in RemoteTask
          BY <4>1 DEF BridgeTypeOK
        <5>3. remote'[i].state = "canceled"
          BY <4>1, <5>1, <5>2 DEF RemoteTask
        <5>4. QED
          BY <5>3
      <4>4. QED
        BY <4>2, <4>3
    <3>3. QED
      BY <3>1, <3>2 DEF Over
  <2>5. Cancelled(n)'
    BY <2>1, <2>3, <2>4
  <2>6. QED
    BY <1>5, <2>1, <2>5
<1>9. ASSUME NEW n \in RemoteNodes, CancelNode(n)
      PROVE  \A m \in RemoteNodes : Cancelled(m)'
  <2>1. /\ canceller[n].at = "answered" /\ canceller'[n].at = "returned"
        /\ canceller'[n].id = canceller[n].id
        /\ \A m \in RemoteNodes \ {n} : canceller'[m] = canceller[m]
        /\ UNCHANGED <<remote, state, finished>>
    BY <1>9 DEF CancelNode, RecordExternalEvent, BridgeTypeOK
  <2>2. Cancelled(n)'
    BY <1>0, <2>1 DEF TaskOf, Over
  <2>3. QED
    BY <1>5, <2>1, <2>2
<1>10. CASE BridgeCrash
  <2>1. \A n \in RemoteNodes : canceller'[n].at = "idle"
    BY <1>10 DEF BridgeCrash, NoCancel
  <2>2. QED
    BY <1>2, <1>4, <2>1
<1>11. CASE canceller' = canceller
  BY <1>2, <1>3, <1>11
<1>12. QED
  <2>1. \/ canceller' = canceller \/ BridgeCrash
        \/ \E n \in RemoteNodes : CancelRequested(n) \/ CancelStep(n) \/ CancelFails(n)
    BY DEF BridgeNext, bridgeVars, bridge, BridgeStep, StartReturns, SubscriptionEnds, RemoteEnds,
           BridgeWorkerEnds, Dispatch, RemoteAccepts, CallFails, WakeNode, WakeSkipped
  <2>2. QED
    BY <1>2, <1>6, <1>7, <1>8, <1>9, <1>10, <1>11, <2>1 DEF CancelStep

(* Who is woken is not refused.                                            *)
LEMMA WokenIsAccepted == GraphInv /\ AloneInv /\ CallInv => WakeIsAccepted
<1> SUFFICES ASSUME GraphInv, AloneInv, CallInv, NEW c \in Calls, call[c].at = "waking", NeedsWake(c)
             PROVE  ValidPatch(WakeUp(call[c].node)) /\ Len(journal) \notin patched
  BY DEF WakeIsAccepted
<1> DEFINE n == call[c].node
<1>1. n \in RemoteNodes /\ n \in Tasks /\ state[n] = "waiting"
  BY NodesAreTasks DEF CallInv, NeedsWake
<1>2. ~finished
  BY <1>1 DEF GraphInv, FinishedIsQuiet, Open
<1>3. ~HasCycle(edges \cup WakeUp(n).connect)
  <2>1. edges \cup WakeUp(n).connect = edges
    BY DEF WakeUp
  <2>2. QED
    BY <2>1 DEF GraphInv
<1>4. ValidPatch(WakeUp(n))
  <2>1. WakeUp(n).add = {} /\ WakeUp(n).connect = {} /\ WakeUp(n).cancel = {}
        /\ WakeUp(n).wait = {} /\ WakeUp(n).resume = {n}
    BY DEF WakeUp
  <2>2. n \in Nodes
    BY <1>1 DEF Nodes
  <2>3. QED
    BY <1>1, <1>2, <1>3, <2>1, <2>2 DEF ValidPatch
<1>5. Len(journal) \notin patched
  BY DEF AloneInv, Waking
<1>6. QED
  BY <1>4, <1>5

BridgeInv == GraphInv /\ BridgeTypeOK /\ AloneInv /\ CallInv /\ RemoteInv

LEMMA BridgeInitInv == BridgeInit => BridgeInv
<1> SUFFICES ASSUME BridgeInit PROVE BridgeInv
  OBVIOUS
<1>1. Init
  BY DEF BridgeInit
<1>2. TypeOK
  <2>1. state \in [Tasks -> NodeState]
    BY <1>1 DEF Init, StoreInit, NodeState
  <2>2. journal \in Seq(Entry)
    <3>1. <<>> \in Seq(Entry)
      OBVIOUS
    <3>2. QED
      BY <1>1, <3>1 DEF Init, StoreInit
  <2>3. edges \subseteq Tasks \X Tasks /\ patched \subseteq Nat /\ finished \in BOOLEAN
    BY <1>1 DEF Init, StoreInit
  <2>4. QED
    BY <1>1, <2>1, <2>2, <2>3 DEF Init, TypeOK, StoreTypeOK, PC, Suspended
<1>3. FinishedIsQuiet /\ AsksAboutEvents /\ patched \subseteq DOMAIN journal
  BY <1>1 DEF Init, StoreInit, FinishedIsQuiet, AsksAboutEvents, Planning
<1>4. ~HasCycle(edges)
  <2>1. edges = {}
    BY <1>1 DEF Init, StoreInit
  <2>2. {c[1] : c \in edges} = {}
    BY <2>1
  <2>3. ASSUME NEW S \in (SUBSET {c[1] : c \in edges}) \ {{}} PROVE FALSE
    BY <2>2, <2>3
  <2>4. QED
    BY <2>3 DEF HasCycle
<1>5. BridgeTypeOK
  <2>1. NoCall \in [at : CallAt, node : RemoteNodes \cup {0}, id : Nat, seen : Snapshot]
        /\ NoCancel \in [at : CancelAt, id : Nat]
        /\ NoResult \in [id : Nat, state : Snapshot]
    BY DEF Snapshot, NoResult, NoCall, CallOver, NoCancel, CallAt, CancelAt
  <2>2. QED
    BY <2>1 DEF BridgeInit, BridgeTypeOK
<1>6. \A c \in Calls : call[c].at = "idle"
  BY DEF BridgeInit, NoCall, CallOver
<1>7. \A n \in RemoteNodes : canceller[n].at = "idle" /\ remote_ids[n] = 0 /\ results[n].id = 0
  BY DEF BridgeInit, NoCancel, NoResult
<1>8. AloneInv /\ CallInv /\ RemoteInv
  BY <1>6, <1>7 DEF AloneInv, CallInv, RemoteInv, Waking, Requested
<1>9. QED
  BY <1>2, <1>3, <1>4, <1>5, <1>8 DEF BridgeInv, GraphInv

LEMMA BridgeStepInv == BridgeInv /\ [BridgeNext]_bridgeVars => BridgeInv'
<1> SUFFICES ASSUME BridgeInv, [BridgeNext]_bridgeVars PROVE BridgeInv'
  OBVIOUS
<1> USE DEF BridgeInv
<1>1. GraphInv'
  BY BridgeStepIsGraphStep, GraphInvStep
<1>2. QED
  BY <1>1, BridgeTypesStep, AloneStep, CallStep, RemoteStep

(* The graph's invariants hold beside the bridge's own transactions, no    *)
(* two of the bridge's coroutines are between an event and its patch, and  *)
(* its dictionaries name remote tasks of their nodes (official.py).        *)
THEOREM A2ABridgeInvariant == BridgeSpec => []BridgeInv
<1>1. QED
  BY BridgeInitInv, BridgeStepInv, PTL DEF BridgeSpec

(* A finished run has no open node, whatever the bridge wrote to it.       *)
THEOREM A2ABridgeFinishedIsQuiet == BridgeSpec => []FinishedIsQuiet
<1>1. BridgeInv => FinishedIsQuiet
  BY DEF BridgeInv, GraphInv
<1>2. QED
  BY <1>1, A2ABridgeInvariant, PTL

(* Neither waking nor cancelling a node changes one that has ended.        *)
THEOREM A2ABridgeTerminalIsFinal == BridgeSpec => TerminalIsFinal
<1>1. BridgeInv /\ [BridgeNext]_bridgeVars
      => [\A t \in Tasks : state[t] \in Terminal => state'[t] = state[t]]_vars
  <2> SUFFICES ASSUME BridgeInv, [BridgeNext]_bridgeVars, NEW t \in Tasks, state[t] \in Terminal
               PROVE  state'[t] = state[t]
    OBVIOUS
  <2>1. GraphStep /\ TypeOK
    BY BridgeStepIsGraphStep DEF BridgeInv, GraphInv
  <2>2. QED
    BY <2>1, StepIsStoreStep, TerminalStep, ExternalSpares DEF GraphStep
<1>2. QED
  BY <1>1, A2ABridgeInvariant, PTL DEF BridgeSpec, TerminalIsFinal

(* Neither does a finished run change at all but for its journal.          *)
THEOREM A2ABridgeFinishedIsFrozen == BridgeSpec => FinishedIsFrozen
<1>1. BridgeInv /\ [BridgeNext]_bridgeVars
      => [finished => UNCHANGED <<state, edges, patched, finished>>]_vars
  <2> SUFFICES ASSUME BridgeInv, [BridgeNext]_bridgeVars, finished
               PROVE  UNCHANGED <<state, edges, patched, finished>>
    OBVIOUS
  <2>1. GraphStep /\ TypeOK /\ FinishedIsQuiet
    BY BridgeStepIsGraphStep DEF BridgeInv, GraphInv
  <2>2. CASE [Next]_vars
    BY <2>1, <2>2, StepIsStoreStep, FrozenStep
  <2>3. CASE ExternalStep
    BY <2>3 DEF ExternalStep, RecordExternalEvent, ApplyPatch, ValidPatch
  <2>4. QED
    BY <2>1, <2>2, <2>3 DEF GraphStep
<1>2. QED
  BY <1>1, A2ABridgeInvariant, PTL DEF BridgeSpec, FinishedIsFrozen

(* The bridge journals no outcome and moves no task to or from one.        *)
LEMMA ExternalOutcomeOnce ==
  ASSUME TypeOK, OutcomeOnce, ExternalStep
  PROVE  OutcomeOnce'
<1>1. PICK x \in Entry : Appends(x) /\ x.kind \notin OutcomeKinds
  BY ExternalAppends DEF PlannerKinds
<1>2. ASSUME NEW t \in Tasks
      PROVE  state[t] \in {"succeeded", "failed"} \/ state'[t] \in {"succeeded", "failed"}
               => state'[t] = state[t]
  <2>1. CASE state[t] \in Terminal
    BY <2>1, ExternalSpares
  <2>2. ASSUME state[t] \notin Terminal, NEW p \in PatchType, ApplyPatch(p, Len(journal))
        PROVE  state'[t] \notin {"succeeded", "failed"}
    <3>1. state'[t] = IF t \in Leftovers(p) THEN "cancelled" ELSE Edited(p)[t]
      BY <2>2 DEF ApplyPatch
    <3>2. Edited(p)[t] \in {"pending", "waiting", "cancelled", state[t]}
      BY DEF Edited
    <3>3. QED
      BY <2>2, <3>1, <3>2 DEF Terminal
  <2>3. QED
    BY <2>1, <2>2 DEF ExternalStep, RecordExternalEvent, Terminal
<1>3. ASSUME NEW t \in Tasks
      PROVE  /\ OutcomesOf(t)' = OutcomesOf(t)
             /\ \A i \in OutcomesOf(t) : journal'[i] = journal[i]
  BY <1>1, OutcomesUnmoved
<1>4. QED
  BY <1>2, <1>3 DEF OutcomeOnce

(* The node table and the journal still tell one story of each task: an    *)
(* end the bridge journals is not an outcome, which only the woken node's  *)
(* own worker writes (dispatch_waiting, record_outcome).                   *)
THEOREM A2ABridgeOutcomeOnce == BridgeSpec => []OutcomeOnce
<1>1. BridgeInit => OutcomeOnce
  <2>1. ASSUME BridgeInit, NEW t \in Tasks PROVE OutcomesOf(t) = {} /\ state[t] = "absent"
    BY <2>1 DEF BridgeInit, Init, StoreInit, OutcomesOf
  <2>2. QED
    BY <2>1 DEF OutcomeOnce
<1>2. BridgeInv /\ OutcomeOnce /\ [BridgeNext]_bridgeVars => OutcomeOnce'
  <2> SUFFICES ASSUME BridgeInv, OutcomeOnce, [BridgeNext]_bridgeVars PROVE OutcomeOnce'
    OBVIOUS
  <2>1. GraphStep /\ TypeOK
    BY BridgeStepIsGraphStep DEF BridgeInv, GraphInv
  <2>2. QED
    BY <2>1, StepIsStoreStep, OutcomeOnceStep, ExternalOutcomeOnce DEF GraphStep
<1>3. QED
  BY <1>1, <1>2, A2ABridgeInvariant, PTL DEF BridgeSpec

(* The patch that wakes a node is never refused (dispatch_waiting).        *)
THEOREM A2ABridgeWakeIsAccepted == BridgeSpec => []WakeIsAccepted
<1>1. BridgeInv => WakeIsAccepted
  BY WokenIsAccepted DEF BridgeInv
<1>2. QED
  BY <1>1, A2ABridgeInvariant, PTL

(* A cancellation that came back has ended the remote task, and the node   *)
(* for good (cancel_node).                                                 *)
THEOREM A2ABridgeCancelIsComplete == BridgeSpec => []CancelIsComplete
<1>1. BridgeInv => CancelIsComplete
  BY DEF BridgeInv, RemoteInv, TaskOf, CancelIsComplete
<1>2. QED
  BY <1>1, A2ABridgeInvariant, PTL

-----------------------------------------------------------------------------
(***************************************************************************)
(* What result_skill finds, under planners that keep PlannersPark.         *)
(***************************************************************************)

(* Until a crash forgets the results, a node has one before it is pending, *)
(* and its worker cannot fail.                                             *)
SkillInv ==
  crashes = 0 =>
    /\ \A n \in RemoteNodes :
         /\ state[n] # "failed"
         /\ results[n].id = 0 => state[n] \in {"absent", "waiting", "cancelled"}
    /\ \A e \in Executors : \A a \in inflight[e] \cup batch[e] :
         a.task \in RemoteNodes => a.status # "error" /\ results[a.task].id # 0
    /\ \A e \in Executors : \A a \in batch[e] : a.status \in DoneStatus

(* What the worker of an attempt on a remote node is worth.                *)
Worth(a) == a.task \in RemoteNodes => a.status # "error" /\ results[a.task].id # 0

LEMMA ResultsStay ==
  ASSUME BridgeInv, [BridgeNext]_bridgeVars, crashes' = 0
  PROVE  crashes = 0 /\ \A n \in RemoteNodes : results[n].id # 0 => results'[n].id # 0
<1> USE DEF BridgeInv
<1>0. crashes \in Nat
  BY DEF GraphInv, TypeOK
<1>1. ASSUME NEW c \in Calls, SubscriptionEnds(c)
      PROVE  crashes = 0 /\ \A n \in RemoteNodes : results[n].id # 0 => results'[n].id # 0
  <2>1. call[c].node \in RemoteNodes /\ TaskOf(call[c].id, call[c].node)
    BY <1>1 DEF SubscriptionEnds, CallInv
  <2>2. call[c].id # 0
    BY <2>1 DEF TaskOf, BridgeTypeOK
  <2>3. /\ crashes' = crashes
        /\ \E last : results' = [results EXCEPT ![call[c].node] = [id |-> call[c].id, state |-> last]]
    BY <1>1 DEF SubscriptionEnds
  <2>4. results \in [RemoteNodes -> [id : Nat, state : Snapshot]]
    BY DEF BridgeTypeOK
  <2>5. QED
    BY <2>2, <2>3, <2>4
<1>2. ASSUME BridgeCrash PROVE FALSE
  BY <1>0, <1>2 DEF BridgeCrash, Crash
<1>3. \/ results' = results /\ crashes' = crashes
      \/ BridgeCrash \/ \E c \in Calls : SubscriptionEnds(c)
  BY DEF BridgeNext, bridgeVars, bridge, BridgeStep, StartReturns, RemoteEnds, BridgeWorkerEnds,
         Dispatch, RemoteAccepts, CallFails, WakeNode, WakeSkipped, CancelRequested, CancelStep,
         CancelCommitted, RemoteCancels, CancelNode, CancelFails, CallRun, BeginRun, ResumeRun,
         ExecutorStep, ReplayNext, ReplayEnds, PlanDuplicate, PlanApplied, PlanRejected, Abort,
         Launch, NothingToLaunch, Wake, DiscardResult, RecordResult, ResultRefused, BatchEnds,
         WorkerEnds, vars
<1>4. QED
  BY <1>1, <1>2, <1>3

LEMMA PlannersOnlyPark ==
  ASSUME PlannersPark, NEW p \in Patches, NEW i, ApplyPatch(p, i), NEW n \in RemoteNodes
  PROVE  state'[n] = state[n] \/ state'[n] \in {"waiting", "cancelled"}
<1>1. n \in Tasks /\ n \notin p.resume /\ (n \in p.add => n \in p.wait)
  BY NodesAreTasks DEF PlannersPark
<1>2. Edited(p)[n] = state[n] \/ Edited(p)[n] \in {"waiting", "cancelled"}
  BY <1>1 DEF Edited
<1>3. QED
  BY <1>1, <1>2 DEF ApplyPatch

(* How a node's state may change before the first crash.                   *)
Legal(n) ==
  \/ state'[n] = state[n] \/ state'[n] \in {"waiting", "cancelled"}
  \/ state[n] = "running" /\ state'[n] \in {"pending", "succeeded"}
  \/ state[n] = "pending" /\ state'[n] = "running"
  \/ results[n].id # 0 /\ state'[n] = "pending"

LEMMA NodesMoveLegally ==
  ASSUME PlannersPark, BridgeInv, SkillInv, [BridgeNext]_bridgeVars, crashes = 0,
         NEW n \in RemoteNodes
  PROVE  Legal(n)
<1> USE DEF Legal, BridgeInv
<1>0. n \in Tasks /\ state \in [Tasks -> NodeState]
  BY NodesAreTasks DEF GraphInv, TypeOK, StoreTypeOK
<1>1. CASE state' = state
  BY <1>1
<1>2. ASSUME NEW c \in Calls, WakeNode(c), ApplyPatch(WakeUp(call[c].node), Len(journal))
      PROVE  Legal(n)
  <2> DEFINE p == WakeUp(call[c].node)
  <2>1. results[call[c].node].id # 0
    BY <1>2 DEF WakeNode, CallInv
  <2>2. p.finish = FALSE /\ p.add = {} /\ p.cancel = {} /\ p.wait = {} /\ p.resume = {call[c].node}
    BY DEF WakeUp
  <2>3. Leftovers(p) = {}
    BY <2>2 DEF Leftovers
  <2>4. state'[n] = Edited(p)[n]
    BY <1>0, <1>2, <2>3 DEF ApplyPatch
  <2>5. Edited(p)[n] = IF n = call[c].node THEN "pending" ELSE state[n]
    BY <1>0, <2>2 DEF Edited
  <2>6. QED
    BY <2>1, <2>4, <2>5
<1>3. ASSUME NEW m \in RemoteNodes, ApplyPatch(CancelPatch(m), Len(journal)) PROVE Legal(n)
  <2> DEFINE p == CancelPatch(m)
  <2>1. p.add = {} /\ p.cancel = {m} /\ p.wait = {} /\ p.resume = {}
    BY DEF CancelPatch, WakeUp
  <2>2. Edited(p)[n] = state[n] \/ Edited(p)[n] = "cancelled"
    BY <1>0, <2>1 DEF Edited
  <2>3. QED
    BY <1>0, <1>3, <2>2 DEF ApplyPatch
<1>4. ASSUME NEW e \in Executors, BeginRun(e) \/ ResumeRun(e) PROVE Legal(n)
  BY <1>0, <1>4 DEF BeginRun, ResumeRun, Start, Resume
<1>5. ASSUME NEW e \in Executors, NEW p \in Patches, PlanApplied(e, p) PROVE Legal(n)
  BY <1>5, PlannersOnlyPark DEF PlanApplied
<1>6. ASSUME NEW e \in Executors, Launch(e) PROVE Legal(n)
  <2>1. PICK R : MarkRunning(R)
    BY <1>6 DEF Launch
  <2>2. QED
    BY <1>0, <2>1 DEF MarkRunning
<1>7. ASSUME NEW e \in Executors, RecordResult(e) PROVE Legal(n)
  <2>1. PICK a \in batch[e] : ~Discardable(a) /\ RecordOutcome(a.task, a.status = "ok")
    BY <1>7 DEF RecordResult
  <2>2. CASE a.task = n
    <3>1. a.status \in DoneStatus /\ a.status # "error" /\ a.status # "cancelled"
      BY <1>7, <2>1, <2>2 DEF SkillInv, Discardable
    <3>2. a.status = "ok"
      BY <3>1 DEF DoneStatus
    <3>3. QED
      BY <1>0, <2>1, <2>2, <3>2 DEF RecordOutcome
  <2>3. CASE a.task # n
    BY <1>0, <2>1, <2>3 DEF RecordOutcome
  <2>4. QED
    BY <2>2, <2>3
<1>8. QED
  <2>1. \/ state' = state
        \/ \E c \in Calls : WakeNode(c) /\ ApplyPatch(WakeUp(call[c].node), Len(journal))
        \/ \E m \in RemoteNodes : ApplyPatch(CancelPatch(m), Len(journal))
        \/ \E e \in Executors : CallRun(e) \/ ExecutorStep(e, Patches)
    BY DEF BridgeNext, bridgeVars, vars, store, BridgeStep, StartReturns, RemoteEnds, SubscriptionEnds,
           BridgeWorkerEnds, Dispatch, RemoteAccepts, CallFails, WakeNode, WakeSkipped,
           CancelRequested, CancelStep, CancelCommitted, RemoteCancels, CancelNode, CancelFails,
           RecordExternalEvent, WorkerEnds, BridgeCrash, Crash
  <2>2. ASSUME NEW e \in Executors, ExecutorStep(e, Patches) PROVE Legal(n)
    BY <1>1, <1>5, <1>6, <1>7, <2>2
       DEF ExecutorStep, store, ReplayNext, ReplayEnds, PlanDuplicate, PlanRejected, Abort,
           NothingToLaunch, Wake, DiscardResult, ResultRefused, BatchEnds
  <2>3. QED
    BY <1>1, <1>2, <1>3, <1>4, <2>1, <2>2 DEF CallRun

(* The workers stay worth what they were.                                  *)
LEMMA WorkersStayWorth ==
  ASSUME BridgeInv, SkillInv, crashes = 0, NEW e \in Executors,
         \/ (CallRun(e) \/ ExecutorStep(e, Patches)) /\ UNCHANGED bridge
         \/ BridgeWorkerEnds(e),
         NEW f \in Executors
  PROVE  \A a \in inflight'[f] \cup batch'[f] : Worth(a)
<1> USE DEF BridgeInv
<1>0. /\ inflight \in [Executors -> SUBSET Attempt]
      /\ batch \in [Executors -> SUBSET Attempt]
  BY DEF GraphInv, TypeOK
<1>1. \A g \in Executors : \A a \in inflight[g] \cup batch[g] : Worth(a)
  BY DEF SkillInv, Worth
<1>2. CASE inflight'[f] \cup batch'[f] \subseteq inflight[f] \cup batch[f]
  BY <1>1, <1>2
<1>3. ASSUME NEW S, inflight' = [inflight EXCEPT ![e] = CancelAll(inflight[e], S)], batch' = batch
      PROVE  \A a \in inflight'[f] \cup batch'[f] : Worth(a)
  <2>1. SUFFICES ASSUME f = e, NEW a \in CancelAll(inflight[e], S) PROVE Worth(a)
    BY <1>0, <1>1, <1>3
  <2>2. PICK b \in inflight[e] : a = IF b \in S /\ b.status = "running"
                                     THEN [b EXCEPT !.status = "cancelling"] ELSE b
    BY <2>1 DEF CancelAll
  <2>3. Worth(b) /\ b \in Attempt
    BY <1>0, <1>1, <2>1
  <2>4. a.task = b.task /\ (a.status = b.status \/ a.status = "cancelling")
    BY <2>2, <2>3 DEF Attempt
  <2>5. QED
    BY <2>3, <2>4 DEF Worth
<1>4. CASE BatchEnds(e)
  <2>1. CASE finished
    <3>1. inflight' = [inflight EXCEPT ![e] = CancelAll(inflight[e], inflight[e])] /\ batch' = batch
      BY <1>4, <2>1 DEF BatchEnds
    <3>2. QED
      BY <1>3, <3>1
  <2>2. CASE ~finished
    BY <1>0, <1>2, <1>4, <2>2 DEF BatchEnds
  <2>3. QED
    BY <2>1, <2>2
<1>5. ASSUME AfterPlan(e), batch' = batch
      PROVE  \A a \in inflight'[f] \cup batch'[f] : Worth(a)
  BY <1>2, <1>3, <1>5 DEF AfterPlan
<1>6. CASE Launch(e)
  <2>1. PICK R \in SUBSET Runnable :
             inflight' = [inflight EXCEPT ![e] = @ \cup
                 [task : R, number : {Len(journal) + 1}, status : {"running"}]]
    BY <1>6 DEF Launch
  <2>2. batch' = batch
    BY <1>6 DEF Launch
  <2>3. SUFFICES ASSUME NEW a \in [task : R, number : {Len(journal) + 1}, status : {"running"}],
                        a.task \in RemoteNodes
                 PROVE  a.status # "error" /\ results[a.task].id # 0
    BY <1>0, <1>1, <2>1, <2>2 DEF Worth
  <2>4. a.status = "running" /\ state[a.task] = "pending"
    BY <2>1, <2>3 DEF Runnable
  <2>5. QED
    BY <2>3, <2>4 DEF SkillInv
<1>7. CASE Wake(e)
  BY <1>0, <1>2, <1>7 DEF Wake, Ended
<1>8. CASE BridgeWorkerEnds(e)
  <2>1. PICK a \in inflight[e], s \in DoneStatus :
          /\ \/ a.status = "running" /\ s \in {"ok", "error"}
             \/ a.status = "cancelling" /\ s = "cancelled"
          /\ inflight' = [inflight EXCEPT ![e] = (@ \ {a}) \cup {[a EXCEPT !.status = s]}]
    BY <1>8 DEF BridgeWorkerEnds, WorkerEnds
  <2> DEFINE b == [a EXCEPT !.status = s]
  <2>2. batch' = batch /\ SkillEnds(e)
    BY <1>8 DEF BridgeWorkerEnds, WorkerEnds
  <2>3. a \in Attempt /\ Worth(a)
    BY <1>0, <1>1, <2>1
  <2>4. b.task = a.task /\ b.status = s /\ a # b
    BY <2>1, <2>3 DEF Attempt, DoneStatus
  <2> HIDE DEF b
  <2>5. inflight'[e] = (inflight[e] \ {a}) \cup {b}
    BY <1>0, <2>1 DEF b
  <2>6. Worth(b)
    <3>1. CASE b \in inflight[e]
      BY <1>1, <3>1 DEF SkillInv, Worth
    <3>2. CASE a.status = "running" /\ b \notin inflight[e] /\ a.task \in RemoteNodes
      <4>1. a \in inflight[e] \ inflight'[e] /\ b \in inflight'[e] \ inflight[e]
        BY <2>1, <2>4, <2>5, <3>2
      <4>2. b.status = IF results[a.task].id = 0 THEN "error" ELSE "ok"
        BY <2>2, <3>2, <4>1 DEF SkillEnds
      <4>3. QED
        BY <2>3, <2>4, <3>2, <4>2 DEF Worth
    <3>3. CASE a.status = "cancelling" \/ a.task \notin RemoteNodes
      BY <2>1, <2>3, <2>4, <3>3 DEF Worth
    <3>4. QED
      BY <2>1, <3>1, <3>2, <3>3
  <2>7. \A x \in inflight'[f] : x \in inflight[f] \/ x = b
    BY <1>0, <2>1 DEF b
  <2>8. QED
    BY <1>1, <2>2, <2>6, <2>7
<1>9. QED
  <2>1. ASSUME DiscardResult(e) \/ RecordResult(e)
        PROVE  inflight'[f] \cup batch'[f] \subseteq inflight[f] \cup batch[f]
    BY <1>0, <2>1 DEF DiscardResult, RecordResult, Pop
  <2>2. ASSUME Abort(e)
        PROVE  inflight'[f] \cup batch'[f] \subseteq inflight[f] \cup batch[f]
    BY <1>0, <2>2 DEF Abort
  <2>3. CASE inflight' = inflight /\ batch' = batch
    BY <1>2, <2>3
  <2>4. CASE CallRun(e)
    BY <2>3, <2>4 DEF CallRun, BeginRun, ResumeRun
  <2>5. CASE ReplayNext(e) \/ ReplayEnds(e) \/ NothingToLaunch(e)
    BY <2>3, <2>5 DEF ReplayNext, ReplayEnds, NothingToLaunch
  <2>6. CASE PlanDuplicate(e) \/ \E p \in Patches : PlanApplied(e, p)
    BY <1>5, <2>6 DEF PlanDuplicate, PlanApplied
  <2>7. CASE ResultRefused(e) \/ \E p \in Patches : PlanRejected(e, p)
    BY <1>2, <2>2, <2>7 DEF PlanRejected, ResultRefused
  <2>8. CASE ExecutorStep(e, Patches)
    BY <1>2, <1>4, <1>6, <1>7, <2>1, <2>5, <2>6, <2>7, <2>8 DEF ExecutorStep
  <2>9. QED
    BY <1>8, <2>4, <2>8

(* A batch holds attempts that ended.                                      *)
LEMMA BatchesEnded ==
  ASSUME BridgeInv, [BridgeNext]_bridgeVars, NEW f \in Executors,
         \A a \in batch[f] : a.status \in DoneStatus
  PROVE  \A a \in batch'[f] : a.status \in DoneStatus
<1>0. batch \in [Executors -> SUBSET Attempt]
  BY DEF BridgeInv, GraphInv, TypeOK
<1>1. ASSUME NEW e \in Executors, CallRun(e) \/ ExecutorStep(e, Patches)
      PROVE  batch'[f] \subseteq batch[f] \/ batch'[f] = Ended(f)
  <2>1. CASE batch' = batch
    BY <2>1
  <2>2. CASE Wake(e)
    BY <1>0, <2>2 DEF Wake
  <2>3. CASE DiscardResult(e) \/ RecordResult(e)
    BY <1>0, <2>3 DEF DiscardResult, RecordResult, Pop
  <2>4. CASE Abort(e)
    BY <1>0, <2>4 DEF Abort
  <2>5. QED
    BY <1>1, <2>1, <2>2, <2>3, <2>4
       DEF CallRun, BeginRun, ResumeRun, ExecutorStep, ReplayNext, ReplayEnds, PlanDuplicate,
           PlanApplied, PlanRejected, Launch, NothingToLaunch, ResultRefused, BatchEnds
<1>2. \/ batch' = batch \/ BridgeCrash
      \/ \E e \in Executors : CallRun(e) \/ ExecutorStep(e, Patches)
  BY DEF BridgeNext, bridgeVars, vars, local, BridgeStep, StartReturns, RemoteEnds, SubscriptionEnds,
         BridgeWorkerEnds, Dispatch, RemoteAccepts, CallFails, WakeNode, WakeSkipped,
         CancelRequested, CancelStep, CancelCommitted, RemoteCancels, CancelNode, CancelFails,
         WorkerEnds
<1>3. QED
  BY <1>1, <1>2 DEF Ended, BridgeCrash, Crash

LEMMA SkillStep ==
  ASSUME PlannersPark
  PROVE  BridgeInv /\ SkillInv /\ [BridgeNext]_bridgeVars => SkillInv'
<1> SUFFICES ASSUME BridgeInv, SkillInv, [BridgeNext]_bridgeVars, crashes' = 0 PROVE SkillInv'
  BY DEF SkillInv
<1>1. crashes = 0 /\ \A n \in RemoteNodes : results[n].id # 0 => results'[n].id # 0
  BY ResultsStay
<1>2. ASSUME NEW n \in RemoteNodes
      PROVE  /\ state'[n] # "failed"
             /\ results'[n].id = 0 => state'[n] \in {"absent", "waiting", "cancelled"}
  <2>1. Legal(n)
    BY <1>1, NodesMoveLegally
  <2>2. state[n] # "failed" /\ (results[n].id = 0 => state[n] \in {"absent", "waiting", "cancelled"})
    BY <1>1 DEF SkillInv
  <2>3. results'[n].id = 0 => results[n].id = 0
    BY <1>1
  <2>4. QED
    BY <2>1, <2>2, <2>3 DEF Legal
<1>3. ASSUME NEW f \in Executors, NEW a \in inflight'[f] \cup batch'[f], a.task \in RemoteNodes
      PROVE  a.status # "error" /\ results'[a.task].id # 0
  <2>1. CASE inflight' = inflight /\ batch' = batch
    BY <1>1, <1>3, <2>1 DEF SkillInv
  <2>2. CASE BridgeCrash
    BY <1>3, <2>2 DEF BridgeCrash, Crash
  <2>3. ASSUME NEW e \in Executors,
               \/ (CallRun(e) \/ ExecutorStep(e, Patches)) /\ UNCHANGED bridge
               \/ BridgeWorkerEnds(e)
        PROVE  a.status # "error" /\ results'[a.task].id # 0
    BY <1>1, <1>3, <2>3, WorkersStayWorth DEF Worth
  <2>4. QED
    BY <2>1, <2>2, <2>3
       DEF BridgeNext, bridgeVars, vars, local, BridgeStep, StartReturns, RemoteEnds,
           SubscriptionEnds, Dispatch, RemoteAccepts, CallFails, WakeNode, WakeSkipped,
           CancelRequested, CancelStep, CancelCommitted, RemoteCancels, CancelNode, CancelFails
<1>4. ASSUME NEW f \in Executors, NEW a \in batch'[f] PROVE a.status \in DoneStatus
  BY <1>1, <1>4, BatchesEnded DEF SkillInv
<1>5. QED
  BY <1>2, <1>3, <1>4 DEF SkillInv

(* A node's result is a snapshot of one of its own remote tasks that is    *)
(* over, showing its end or the task still working; as long as the process *)
(* lives, the worker of a woken node finds it (result_skill), for planners *)
(* that add such a node parked and leave its waking to the bridge.         *)
THEOREM A2ABridgeResultJoinsItsNode ==
  ASSUME PlannersPark
  PROVE  BridgeSpec => []ResultJoinsItsNode
<1>1. BridgeInit => SkillInv
  <2>1. ASSUME BridgeInit, NEW n \in RemoteNodes PROVE state[n] = "absent"
    BY <2>1, NodesAreTasks DEF BridgeInit, Init, StoreInit
  <2>2. ASSUME BridgeInit, NEW e \in Executors PROVE inflight[e] = {} /\ batch[e] = {}
    BY <2>2 DEF BridgeInit, Init
  <2>3. QED
    BY <2>1, <2>2 DEF SkillInv
<1>2. BridgeInv /\ SkillInv => ResultJoinsItsNode
  BY DEF BridgeInv, RemoteInv, TaskOf, Shown, SkillInv, ResultJoinsItsNode
<1>3. BridgeInv /\ SkillInv /\ [BridgeNext]_bridgeVars => SkillInv'
  BY SkillStep
<1>4. QED
  BY <1>1, <1>2, <1>3, A2ABridgeInvariant, PTL DEF BridgeSpec
=============================================================================
