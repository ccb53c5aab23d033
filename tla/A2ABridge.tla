------------------------------ MODULE A2ABridge ------------------------------
(***************************************************************************)
(* A2AGraphBridge (s13code/core/a2a_adapter/official.py): a parked node of *)
(* a live graph stands for a task of a remote agent.  dispatch_waiting     *)
(* starts the remote task, follows it by SubscribeToTask, journals its end *)
(* and wakes the node, whose worker result_skill then reads the result:    *)
(* the last snapshot of the task that the subscription sent.               *)
(*                                                                         *)
(* The bridge shares the executor's event loop and store; remote_ids and   *)
(* results live in memory only.  A remote task is its node and its state:  *)
(* what A2ATasks promises of one (it ends once) is all the bridge uses.    *)
(* A call fails whenever its connection does.                              *)
(***************************************************************************)
EXTENDS LiveGraph

CONSTANTS RemoteNodes,    \* the tasks whose worker is result_skill
          Calls,          \* concurrent calls of dispatch_waiting
          MaxRemoteTasks  \* bound: tasks the remote agent accepts

ASSUME BridgeAssumption == RemoteNodes \subseteq Tasks /\ MaxRemoteTasks \in Nat

VARIABLES call,        \* dispatch_waiting: idle, starting, accepted, subscribed,
                       \* waking, returned or raised; its node, its remote task
                       \* and the state that task was in when it was subscribed
          canceller,   \* the application's cancellation of a node: idle, requested,
                       \* cancelling, answered, returned or raised; the remote task
          remote,      \* the remote agent's tasks, in the order of their start:
                       \* node, and working, ended (however) or canceled
          remote_ids,  \* node -> its last started remote task, 0 if unknown
          results      \* node -> the last snapshot of a remote task: its id
                       \* (0 if none) and the state it shows

bridge == <<call, canceller, remote, remote_ids, results>>
bridgeVars == <<vars, bridge>>

CallOver(how) == [at |-> how, node |-> 0, id |-> 0, seen |-> "none"]
NoCall == CallOver("idle")
NoCancel == [at |-> "idle", id |-> 0]
NoResult == [id |-> 0, state |-> "none"]

BridgeInit ==
  /\ Init
  /\ call = [c \in Calls |-> NoCall]
  /\ canceller = [n \in RemoteNodes |-> NoCancel]
  /\ remote = <<>>
  /\ remote_ids = [n \in RemoteNodes |-> 0]
  /\ results = [n \in RemoteNodes |-> NoResult]

(* No coroutine of the bridge is between two statements without an await.  *)
BridgeSuspended == /\ \A c \in Calls : call[c].at # "waking"
                   /\ \A n \in RemoteNodes : canceller[n].at # "requested"
LoopIsFree == BridgeSuspended /\ \A e \in Executors : pc[e] \in Suspended

-----------------------------------------------------------------------------
(* dispatch_waiting.                                                       *)

(* The node is parked now; it need not be when the remote task ends.       *)
Dispatch(c, n) ==
  /\ LoopIsFree
  /\ call[c].at = "idle"
  /\ state[n] = "waiting" /\ Len(remote) < MaxRemoteTasks
  /\ call' = [call EXCEPT ![c] = [CallOver("starting") EXCEPT !.node = n]]
  /\ UNCHANGED <<vars, canceller, remote, remote_ids, results>>

(* SendMessage reaches the remote agent.                                   *)
RemoteAccepts(c) ==
  /\ call[c].at = "starting" /\ Len(remote) < MaxRemoteTasks
  /\ remote' = Append(remote, [node |-> call[c].node, state |-> "working"])
  /\ call' = [call EXCEPT ![c].at = "accepted", ![c].id = Len(remote) + 1]
  /\ UNCHANGED <<vars, canceller, remote_ids, results>>

(* The id is kept and the task subscribed: no snapshot is older than that. *)
StartReturns(c) ==
  /\ LoopIsFree /\ call[c].at = "accepted"
  /\ remote_ids' = [remote_ids EXCEPT ![call[c].node] = call[c].id]
  /\ call' = [call EXCEPT ![c].at = "subscribed", ![c].seen = remote[call[c].id].state]
  /\ UNCHANGED <<vars, canceller, remote, results>>

(* The connection is lost while a reply or the subscription is awaited.    *)
CallFails(c) ==
  /\ LoopIsFree /\ call[c].at \in {"starting", "accepted", "subscribed"}
  /\ call' = [call EXCEPT ![c] = CallOver("raised")]
  /\ UNCHANGED <<vars, canceller, remote, remote_ids, results>>

Over(i) == remote[i].state # "working"

(* Mutant: the result is stored after the node was woken (and not at all). *)
SubscriptionEndsBare(c) ==
  /\ LoopIsFree /\ call[c].at = "subscribed" /\ Over(call[c].id)
  /\ RecordExternalEvent("a2a_task_completed", call[c].node)
  /\ call' = [call EXCEPT ![c].at = "waking"]
  /\ UNCHANGED <<local, resumes, crashes, canceller, remote, remote_ids, results>>

(* SubscribeToTask looks at the task again after each snapshot, and ends   *)
(* when it is over: the last snapshot shows the end, or was still on its   *)
(* way when the task ended.  It is kept and its event journalled.          *)
SubscriptionEnds(c) ==
  LET i == call[c].id
  IN /\ LoopIsFree /\ call[c].at = "subscribed" /\ Over(i)
     /\ \E last \in {call[c].seen, remote[i].state} :
          results' = [results EXCEPT ![call[c].node] = [id |-> i, state |-> last]]
     /\ RecordExternalEvent("a2a_task_completed", call[c].node)
     /\ call' = [call EXCEPT ![c].at = "waking", ![c].seen = "none"]
     /\ UNCHANGED <<local, resumes, crashes, canceller, remote, remote_ids>>

WakeUp(n) == [add |-> {}, connect |-> {}, cancel |-> {}, wait |-> {}, resume |-> {n},
              finish |-> FALSE]

(* Mutant: the node's state is compared with the one it is to get.         *)
NeedsWakeIfPending(c) == state[call[c].node] = "pending"

NeedsWake(c) == state[call[c].node] = "waiting"

(* Then, without an await, the node is woken if it still waits.            *)
WakeNode(c) ==
  /\ call[c].at = "waking" /\ NeedsWake(c)
  /\ IF ValidPatch(WakeUp(call[c].node))
     THEN /\ ApplyPatch(WakeUp(call[c].node), Len(journal))
          /\ call' = [call EXCEPT ![c] = CallOver("returned")]
     ELSE UNCHANGED store /\ call' = [call EXCEPT ![c] = CallOver("raised")]
  /\ UNCHANGED <<local, resumes, crashes, canceller, remote, remote_ids, results>>

WakeSkipped(c) ==
  /\ call[c].at = "waking" /\ ~NeedsWake(c)
  /\ call' = [call EXCEPT ![c] = CallOver("returned")]
  /\ UNCHANGED <<vars, canceller, remote, remote_ids, results>>

-----------------------------------------------------------------------------
(* Cancellation: the application journals its decision, cancels the node   *)
(* and finishes the run, then has the bridge cancel the remote task.       *)

CancelRequested(n) ==
  /\ LoopIsFree /\ canceller[n].at = "idle"
  /\ state[n] \in Open
  /\ RecordExternalEvent("graph_cancel_requested", n)
  /\ canceller' = [canceller EXCEPT ![n].at = "requested"]
  /\ UNCHANGED <<local, resumes, crashes, call, remote, remote_ids, results>>

CancelPatch(n) == [WakeUp(n) EXCEPT !.resume = {}, !.cancel = {n}, !.finish = TRUE]

CancelCommitted(n) ==
  /\ canceller[n].at = "requested"
  /\ IF ValidPatch(CancelPatch(n))
     THEN /\ ApplyPatch(CancelPatch(n), Len(journal))
          /\ canceller' = [canceller EXCEPT ![n] =
               [at |-> IF remote_ids[n] = 0 THEN "raised" ELSE "cancelling",
                id |-> remote_ids[n]]]
     ELSE UNCHANGED store /\ canceller' = [canceller EXCEPT ![n].at = "raised"]
  /\ UNCHANGED <<local, resumes, crashes, call, remote, remote_ids, results>>

(* Mutant: the remote agent answers a cancellation without ending the task.*)
RemoteCancelsNothing(n) ==
  /\ canceller[n].at = "cancelling"
  /\ remote' = remote
  /\ canceller' = [canceller EXCEPT ![n].at = "answered"]
  /\ UNCHANGED <<vars, call, remote_ids, results>>

(* CancelTask at the remote agent: a task that is over stays as it is.     *)
RemoteCancels(n) ==
  /\ canceller[n].at = "cancelling"
  /\ remote' = IF Over(canceller[n].id) THEN remote
               ELSE [remote EXCEPT ![canceller[n].id].state = "canceled"]
  /\ canceller' = [canceller EXCEPT ![n].at = "answered"]
  /\ UNCHANGED <<vars, call, remote_ids, results>>

CancelNode(n) ==
  /\ LoopIsFree /\ canceller[n].at = "answered"
  /\ RecordExternalEvent("a2a_task_cancelled", n)
  /\ canceller' = [canceller EXCEPT ![n].at = "returned"]
  /\ UNCHANGED <<local, resumes, crashes, call, remote, remote_ids, results>>

CancelFails(n) ==
  /\ LoopIsFree /\ canceller[n].at \in {"cancelling", "answered"}
  /\ canceller' = [canceller EXCEPT ![n].at = "raised"]
  /\ UNCHANGED <<vars, call, remote, remote_ids, results>>

-----------------------------------------------------------------------------
(* The remote task, the workers and the process.                           *)

RemoteEnds(i) ==
  /\ ~Over(i)
  /\ remote' = [remote EXCEPT ![i].state = "ended"]
  /\ UNCHANGED <<vars, call, canceller, remote_ids, results>>

(* result_skill finds the result it reads, or raises KeyError.             *)
SkillEnds(e) ==
  \A a \in inflight[e] \ inflight'[e], b \in inflight'[e] \ inflight[e] :
    a.status = "running" /\ a.task \in RemoteNodes =>
      b.status = (IF results[a.task].id = 0 THEN "error" ELSE "ok")

BridgeWorkerEnds(e) ==
  /\ BridgeSuspended
  /\ WorkerEnds(e)
  /\ SkillEnds(e)
  /\ UNCHANGED bridge

BridgeCrash ==
  /\ Crash
  /\ call' = [c \in Calls |-> NoCall]
  /\ canceller' = [n \in RemoteNodes |-> NoCancel]
  /\ remote_ids' = [n \in RemoteNodes |-> 0]
  /\ results' = [n \in RemoteNodes |-> NoResult]
  /\ UNCHANGED remote

BridgeStep(c) ==
  \/ RemoteAccepts(c) \/ StartReturns(c) \/ SubscriptionEnds(c)
  \/ WakeNode(c) \/ WakeSkipped(c)

CancelStep(n) == CancelCommitted(n) \/ RemoteCancels(n) \/ CancelNode(n)

CallRun(e) == BeginRun(e) \/ ResumeRun(e)

BridgeNext ==
  \/ \E c \in Calls : BridgeStep(c) \/ CallFails(c) \/ \E n \in RemoteNodes : Dispatch(c, n)
  \/ \E n \in RemoteNodes : CancelRequested(n) \/ CancelStep(n) \/ CancelFails(n)
  \/ \E i \in DOMAIN remote : RemoteEnds(i)
  \/ \E e \in Executors : /\ BridgeSuspended
                           /\ (CallRun(e) \/ ExecutorStep(e, Patches))
                           /\ UNCHANGED bridge
  \/ \E e \in Executors : BridgeWorkerEnds(e)
  \/ BridgeCrash

(* The remote agent ends every task it accepted and reports it; a step     *)
(* without an await is never postponed.  Calls, lost connections and       *)
(* crashes are under no fairness.                                          *)
BridgeSpec ==
  /\ BridgeInit /\ [][BridgeNext]_bridgeVars
  /\ \A c \in Calls : WF_bridgeVars(BridgeStep(c))
  /\ \A n \in RemoteNodes : WF_bridgeVars(CancelCommitted(n))
  /\ \A i \in 1 .. MaxRemoteTasks : WF_bridgeVars(i \in DOMAIN remote /\ RemoteEnds(i))
  /\ \A e \in Executors :
       WF_bridgeVars(BridgeSuspended /\ ExecutorStep(e, Patches) /\ UNCHANGED bridge)
-----------------------------------------------------------------------------
(***************************************************************************)
(* Properties.                                                             *)
(***************************************************************************)

(* The bridge tests that its node waits, not that the run is unfinished,   *)
(* nor that nobody else woke it: its patch is never refused all the same,  *)
(* so that dispatch_waiting raises only when its connection fails.         *)
WakeIsAccepted ==
  \A c \in Calls : call[c].at = "waking" =>
    ~NeedsWake(c) \/ (ValidPatch(WakeUp(call[c].node)) /\ Len(journal) \notin patched)

(* Planners that add the node of a remote task parked and leave its waking *)
(* to the bridge: what an application of the bridge does (as the planner   *)
(* of tests/test_hardening.py), and no code enforces.                      *)
PlannersPark ==
  \A p \in Patches : p.add \cap RemoteNodes \subseteq p.wait /\ p.resume \cap RemoteNodes = {}

(* The result of a node is a snapshot of a remote task of that very node   *)
(* which is over: it shows how the task ended, or the task still working   *)
(* when its end overtook the last snapshot.  As long as the process lives, *)
(* the worker of a woken node finds it.                                    *)
ResultJoinsItsNode ==
  \A n \in RemoteNodes :
    LET i == results[n].id
    IN /\ i # 0 => /\ remote[i].node = n /\ Over(i)
                   /\ results[n].state \in {"working", remote[i].state}
       /\ crashes = 0 => state[n] # "failed"

(* Once the application's cancellation came back without an error, the     *)
(* remote task the bridge knew is over, the node is cancelled for good and *)
(* no late end of the remote task wakes it.                                *)
CancelIsComplete ==
  \A n \in RemoteNodes : canceller[n].at = "returned" =>
    /\ state[n] = "cancelled" /\ finished
    /\ Over(canceller[n].id) /\ remote[canceller[n].id].node = n

(* A node whose remote task is followed does not wait for ever: it is      *)
(* woken, whatever the remote task's last state, unless the connection     *)
(* fails or the process dies.                                              *)
FollowedNodeIsWoken ==
  \A c \in Calls, n \in RemoteNodes :
    (call[c].at = "subscribed" /\ call[c].node = n)
      ~> (state[n] # "waiting" \/ call[c].at \in {"raised", "idle"})
=============================================================================
