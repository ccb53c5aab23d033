------------------------------ MODULE A2ATasks ------------------------------
(***************************************************************************)
(* The A2A task server (s13code/core/a2a_adapter/server.py): tasks created *)
(* by a blocking send, an asynchronous send or a stream, the coroutine     *)
(* that completes each, cancellation, push notification with retries, and  *)
(* recovery after a restart.                                               *)
(*                                                                         *)
(* Coroutines share one event loop, so that a step lasts from one await to *)
(* the next.  A task object and its row always change in the same step:    *)
(* state stands for both.  A state is notified at most once per task, so   *)
(* that <<task, state>> is the event, whatever updated_at it carries.      *)
(***************************************************************************)
EXTENDS Naturals

CONSTANTS TaskIds,
          PushAttempts,  \* push_attempts
          MaxServerRestarts \* bound: how often the process dies

ASSUME A2AAssumption == PushAttempts \in Nat \ {0} /\ MaxServerRestarts \in Nat

VARIABLES serverUp,   \* the process runs
          serverRestarts,
          kind,       \* the call that created a task, "none" before
          state,
          callback,   \* the task has a callback_url
          worker,     \* where the coroutine that completes the task is
          job,        \* that coroutine is in _jobs, where cancel finds it
          left,       \* the client of a request went away before its end
          pushes,     \* the _notify calls in progress
          delivered,  \* a2a_push_delivery: events acknowledged,
          attempts,   \* ... and the attempts recorded
          cut,        \* history: events whose notification was cut short
          received    \* how often the receiver accepted an event

workers == <<worker, job, left>>
ledger  == <<delivered, attempts, cut>>
taskVars    == <<serverUp, serverRestarts, kind, state, callback, workers, pushes, ledger, received>>

Terminal == {"completed", "failed", "canceled"}
States   == {"submitted", "working"} \cup Terminal
Events   == TaskIds \X States
Push     == [event : Events, number : 1 .. PushAttempts, by : {"worker", "canceller"}]

TasksInit ==
  /\ serverUp = TRUE /\ serverRestarts = 0
  /\ kind = [t \in TaskIds |-> "none"]
  /\ state = [t \in TaskIds |-> "none"]
  /\ callback = [t \in TaskIds |-> FALSE]
  /\ worker = [t \in TaskIds |-> "none"]
  /\ job = [t \in TaskIds |-> FALSE]
  /\ left = [t \in TaskIds |-> FALSE]
  /\ pushes = {}
  /\ delivered = {}
  /\ attempts = [ev \in Events |-> 0]
  /\ cut = {}
  /\ received = [ev \in Events |-> 0]

Open(t) == kind[t] # "none" /\ state[t] \notin Terminal

Goto(t, place) == worker' = [worker EXCEPT ![t] = place]

(* Whether _notify has anything to send for this event of a task that has  *)
(* a callback if calls.                                                    *)
ToSend(ev, calls) == calls /\ ev \notin delivered /\ attempts[ev] < PushAttempts

StartPush(ev, calls, by) ==
  pushes' = IF ToSend(ev, calls)
            THEN pushes \cup {[event |-> ev, number |-> attempts[ev] + 1, by |-> by]}
            ELSE pushes

-----------------------------------------------------------------------------
(* Requests.                                                               *)

NewTask(t, k, s, calls) ==
  /\ serverUp /\ kind[t] = "none"
  /\ kind' = [kind EXCEPT ![t] = k]
  /\ state' = [state EXCEPT ![t] = s]
  /\ callback' = [callback EXCEPT ![t] = calls]
  /\ UNCHANGED <<serverUp, serverRestarts, left, ledger, received>>

(* message/send that waits for the handler's answer.                       *)
Send(t, calls) ==
  /\ NewTask(t, "send", "submitted", calls)
  /\ Goto(t, "handling")
  /\ UNCHANGED <<job, pushes>>

(* Mutant: the job is created beside the announcement.                     *)
SendAsyncUnordered(t, calls) ==
  /\ NewTask(t, "async", "working", calls)
  /\ StartPush(<<t, "working">>, calls, "canceller")
  /\ Goto(t, "sleeping")
  /\ job' = [job EXCEPT ![t] = TRUE]

(* message/send of a slow task: announced first, its job created after.    *)
SendAsync(t, calls) ==
  /\ NewTask(t, "async", "working", calls)
  /\ StartPush(<<t, "working">>, calls, "worker")
  /\ Goto(t, IF ToSend(<<t, "working">>, calls) THEN "announcing" ELSE "sleeping")
  /\ job' = [job EXCEPT ![t] = ~ToSend(<<t, "working">>, calls)]

(* message/stream: the first update is on its way, the generator suspended.*)
Stream(t, calls) ==
  /\ NewTask(t, "stream", "working", calls)
  /\ Goto(t, "yielded")
  /\ UNCHANGED <<job, pushes>>

(* The coroutine of a request that created a task is cancelled where it    *)
(* is, its notification with it: the client closes its stream, or cancels  *)
(* its gRPC SendMessage or SendStreamingMessage.                           *)
Disconnect(t) ==
  LET mine == {p \in pushes : p.event[1] = t /\ p.by = "worker"}
  IN /\ worker[t] \in {"announcing", "yielded", "handling", "reporting"} /\ ~job[t]
     /\ Goto(t, "none")
     /\ left' = [left EXCEPT ![t] = TRUE]
     /\ pushes' = pushes \ mine /\ cut' = cut \cup {p.event : p \in mine}
     /\ UNCHANGED <<serverUp, serverRestarts, kind, state, callback, job, delivered, attempts,
                    received>>

(* tasks/cancel, by a client that knows the id: the caller of a blocking   *)
(* send does not before the task has ended.  Only a job can be cancelled.  *)
Cancel(t) ==
  /\ serverUp /\ kind[t] \in {"async", "stream"} /\ Open(t)
  /\ state' = [state EXCEPT ![t] = "canceled"]
  /\ worker' = IF job[t] THEN [worker EXCEPT ![t] = "none"] ELSE worker
  /\ StartPush(<<t, "canceled">>, callback[t], "canceller")
  /\ UNCHANGED <<serverUp, serverRestarts, kind, callback, job, left, ledger, received>>

(* The client of a gRPC CancelTask cancels that call while the server      *)
(* tells of the cancellation: the task stays canceled, the telling ends.   *)
CancellerLeaves(t) ==
  \E p \in pushes :
    /\ p.event[1] = t /\ p.by = "canceller"
    /\ pushes' = pushes \ {p} /\ cut' = cut \cup {p.event}
    /\ UNCHANGED <<serverUp, serverRestarts, kind, state, callback, workers, delivered, attempts,
                   received>>

-----------------------------------------------------------------------------
(* The coroutine that completes a task.                                    *)

(* Mutant: the cancellation during the wait is not noticed.                *)
AwakeAnyway(t) ==
  /\ worker[t] \in {"yielded", "sleeping"}
  /\ Goto(t, "handling")
  /\ UNCHANGED <<serverUp, serverRestarts, kind, state, callback, job, left, pushes, ledger, received>>

(* After the stream's first update or the job's delay: nothing to do when  *)
(* the task was cancelled meanwhile.                                       *)
Awake(t) ==
  /\ worker[t] \in {"yielded", "sleeping"}
  /\ Goto(t, IF Open(t) THEN "handling" ELSE "none")
  /\ UNCHANGED <<serverUp, serverRestarts, kind, state, callback, job, left, pushes, ledger, received>>

(* Mutant: the outcome is saved and not notified.                          *)
HandlerEndsSilently(t, outcome) ==
  /\ worker[t] = "handling"
  /\ state' = [state EXCEPT ![t] = outcome]
  /\ Goto(t, "none")
  /\ UNCHANGED <<serverUp, serverRestarts, kind, callback, job, left, pushes, ledger, received>>

(* _complete after the handler: the state is written whatever it is now.   *)
HandlerEnds(t, outcome) ==
  /\ worker[t] = "handling"
  /\ state' = [state EXCEPT ![t] = outcome]
  /\ StartPush(<<t, outcome>>, callback[t], "worker")
  /\ Goto(t, IF ToSend(<<t, outcome>>, callback[t]) THEN "reporting" ELSE "none")
  /\ UNCHANGED <<serverUp, serverRestarts, kind, callback, job, left, ledger, received>>

-----------------------------------------------------------------------------
(* Push notification.                                                      *)

(* The notification is over: an announced task gets its job.               *)
PushOver(p) ==
  LET t == p.event[1]
  IN /\ pushes' = pushes \ {p}
     /\ IF p.by = "worker" /\ worker[t] = "announcing"
        THEN Goto(t, "sleeping") /\ job' = [job EXCEPT ![t] = TRUE]
        ELSE /\ worker' = IF p.by = "worker" THEN [worker EXCEPT ![t] = "none"] ELSE worker
             /\ UNCHANGED job

(* Mutant: retries that go on after a delivery.                            *)
PostAgain(p, accepted, acknowledged) ==
  /\ p \in pushes
  /\ acknowledged => accepted
  /\ received' = IF accepted THEN [received EXCEPT ![p.event] = @ + 1] ELSE received
  /\ attempts' = [attempts EXCEPT ![p.event] = p.number]
  /\ delivered' = IF acknowledged THEN delivered \cup {p.event} ELSE delivered
  /\ IF p.number = PushAttempts
     THEN PushOver(p)
     ELSE /\ pushes' = (pushes \ {p}) \cup {[p EXCEPT !.number = @ + 1]}
          /\ UNCHANGED <<worker, job>>
  /\ UNCHANGED <<serverUp, serverRestarts, kind, state, callback, left, cut>>

(* One POST: it may be accepted and its reply lost.                        *)
Post(p, accepted, acknowledged) ==
  /\ p \in pushes
  /\ acknowledged => accepted
  /\ received' = IF accepted THEN [received EXCEPT ![p.event] = @ + 1] ELSE received
  /\ attempts' = [attempts EXCEPT ![p.event] = p.number]
  /\ delivered' = IF acknowledged THEN delivered \cup {p.event} ELSE delivered
  /\ IF acknowledged \/ p.number = PushAttempts
     THEN PushOver(p)
     ELSE /\ pushes' = (pushes \ {p}) \cup {[p EXCEPT !.number = @ + 1]}
          /\ UNCHANGED <<worker, job>>
  /\ UNCHANGED <<serverUp, serverRestarts, kind, state, callback, left, cut>>

-----------------------------------------------------------------------------
(* The process dies, or close() cancels its jobs: rows are all that is left. *)
ServerCrashes ==
  /\ serverUp /\ serverRestarts < MaxServerRestarts
  /\ serverUp' = FALSE /\ serverRestarts' = serverRestarts + 1
  /\ worker' = [t \in TaskIds |-> "none"]
  /\ job' = [t \in TaskIds |-> FALSE]
  /\ pushes' = {} /\ cut' = cut \cup {p.event : p \in pushes}
  /\ UNCHANGED <<kind, state, callback, left, delivered, attempts, received>>

(* Mutant: a blocking send that had not begun to work is not recovered.    *)
RestartWorking ==
  /\ ~serverUp /\ serverUp' = TRUE
  /\ worker' = [t \in TaskIds |-> IF state[t] = "working" THEN "sleeping" ELSE "none"]
  /\ job' = [t \in TaskIds |-> state[t] = "working"]
  /\ left' = [t \in TaskIds |-> left[t] /\ ~Open(t)]
  /\ UNCHANGED <<serverRestarts, kind, state, callback, pushes, ledger, received>>

(* load_all and start(): every open task becomes a job.                    *)
ServerRestarts ==
  /\ ~serverUp /\ serverUp' = TRUE
  /\ state' = [t \in TaskIds |-> IF Open(t) THEN "working" ELSE state[t]]
  /\ worker' = [t \in TaskIds |-> IF Open(t) THEN "sleeping" ELSE "none"]
  /\ job' = [t \in TaskIds |-> Open(t)]
  /\ left' = [t \in TaskIds |-> left[t] /\ ~Open(t)]
  /\ UNCHANGED <<serverRestarts, kind, callback, pushes, ledger, received>>

Work(t) == Awake(t) \/ \E outcome \in {"completed", "failed"} : HandlerEnds(t, outcome)

Deliver(t) ==
  \E p \in pushes, accepted, acknowledged \in BOOLEAN :
    p.event[1] = t /\ Post(p, accepted, acknowledged)

TasksNext ==
  \/ \E t \in TaskIds : \/ \E calls \in BOOLEAN : Send(t, calls) \/ SendAsync(t, calls)
                                                  \/ Stream(t, calls)
                        \/ Disconnect(t) \/ Cancel(t) \/ CancellerLeaves(t)
                        \/ Work(t) \/ Deliver(t)
  \/ ServerCrashes \/ ServerRestarts

(* Handlers and POSTs are bounded by timeouts, and the operator starts the *)
(* process again; clients owe nothing.                                     *)
TasksSpec ==
  /\ TasksInit /\ [][TasksNext]_taskVars
  /\ WF_taskVars(ServerRestarts)
  /\ \A t \in TaskIds : WF_taskVars(Work(t)) /\ WF_taskVars(Deliver(t))

-----------------------------------------------------------------------------
(***************************************************************************)
(* Properties.                                                             *)
(***************************************************************************)

(* A running server attends to every open task, also after restarts; only  *)
(* one whose client left its request stays open with nobody at work on it. *)
OpenIsAttended == serverUp => \A t \in TaskIds : Open(t) => worker[t] # "none" \/ left[t]

(* The outcome of a task that a job or a blocking send completes is final, *)
(* whenever cancellation, completion, restarts and retries come.           *)
OutcomeIsFinal ==
  [][\A t \in TaskIds : (kind[t] # "stream" \/ job[t]) /\ state[t] \in Terminal =>
       state'[t] = state[t]]_taskVars

(* When a task that wants notifications has ended and nobody sends any     *)
(* more, its last state was acknowledged or given up after every attempt,  *)
(* unless its sender was cut short: by a crash, or by the client of the    *)
(* request that was sending it, and then it is not an end that a job wrote.*)
EndIsReported ==
  \A t \in TaskIds :
    LET ev == <<t, state[t]>>
    IN callback[t] /\ state[t] \in Terminal /\ (\A p \in pushes : p.event # ev)
       => \/ ev \in delivered \/ attempts[ev] = PushAttempts
          \/ ev \in cut /\ (kind[t] = "async" /\ state[t] # "canceled" => serverRestarts > 0)

(* A completion never overtakes the announcement it follows: while the     *)
(* announcement is still being sent, only a cancellation ends the task.    *)
(* And an acknowledged event is never posted again, whoever notifies.      *)
NotificationsInOrder ==
  \A p \in pushes :
    /\ p.event[2] = "working" => state[p.event[1]] \in {"working", "canceled"}
    /\ p.event \notin delivered

(* Whoever is notified is told of the end, after the beginning and not     *)
(* again once it has acknowledged, unless the telling was cut short.       *)
NotificationsTellTheEnd == NotificationsInOrder /\ EndIsReported

(* Every task ends, restarts included, unless the client of its request    *)
(* leaves before.                                                          *)
EveryTaskEnds == \A t \in TaskIds : kind[t] # "none" ~> state[t] \in Terminal \/ left[t]

(* The test of cancellation: a cancelled task is canceled when its work    *)
(* would have ended.  Refuted for a stream, which cancel cannot reach.     *)
CancelSticks ==
  [][\A t \in TaskIds : state[t] = "canceled" => state'[t] = "canceled"]_taskVars
=============================================================================
