---------------------------- MODULE A2ATasksProofs ----------------------------
(***************************************************************************)
(* Theorems of A2ATasks for every set of tasks, number of push attempts    *)
(* and number of restarts: who attends to a task, what its notifications   *)
(* tell, and that an outcome stands.                                       *)
(***************************************************************************)
EXTENDS A2ATasks, TLAPS

Places == {"none", "announcing", "yielded", "sleeping", "handling", "reporting"}

TasksTypeOK ==
  /\ serverUp \in BOOLEAN
  /\ serverRestarts \in Nat
  /\ kind \in [TaskIds -> {"none", "send", "async", "stream"}]
  /\ state \in [TaskIds -> {"none"} \cup States]
  /\ callback \in [TaskIds -> BOOLEAN]
  /\ worker \in [TaskIds -> Places]
  /\ job \in [TaskIds -> BOOLEAN]
  /\ left \in [TaskIds -> BOOLEAN]
  /\ pushes \subseteq Push
  /\ delivered \subseteq Events
  /\ attempts \in [Events -> 0 .. PushAttempts]
  /\ cut \subseteq Events
  /\ received \in [Events -> Nat]

(* Where a coroutine is tells what cancel would find, and the state.       *)
WorkerInv ==
  \A t \in TaskIds :
    /\ kind[t] = "none" <=> state[t] = "none"
    /\ kind[t] = "none" => worker[t] = "none"
    /\ worker[t] = "announcing" => ~job[t]
    /\ worker[t] = "yielded" => kind[t] = "stream"
    /\ worker[t] = "sleeping" => job[t]
    /\ worker[t] \in {"handling", "reporting"} /\ kind[t] = "async" => job[t]
    /\ worker[t] = "handling" /\ (kind[t] = "send" \/ job[t]) => state[t] \notin Terminal
    /\ worker[t] = "reporting" => state[t] \in Terminal

(* A notification in progress belongs to the coroutine that sends it; the  *)
(* canceller sends only cancellations; no event has two senders.           *)
PushInv ==
  /\ \A p \in pushes :
       LET t == p.event[1]
       IN /\ kind[t] # "none"
          /\ p.event \notin delivered
          /\ p.by = "worker" =>
               \/ /\ worker[t] = "announcing" /\ p.event[2] = "working"
                  /\ state[t] \in {"working", "canceled"}
               \/ /\ worker[t] = "reporting" /\ p.event[2] = state[t]
                  /\ state[t] \in {"completed", "failed"}
          /\ p.by = "canceller" => p.event[2] = "canceled" /\ state[t] \in Terminal
  /\ \A p, q \in pushes : p.event = q.event => p = q

(* A process that is down has done nothing since it crashed.               *)
DownInv ==
  ~serverUp => /\ pushes = {} /\ serverRestarts > 0
               /\ \A t \in TaskIds : worker[t] = "none"

TasksInv == TasksTypeOK /\ WorkerInv /\ PushInv /\ DownInv

-----------------------------------------------------------------------------
(* Notifications.                                                          *)

(* A notification that starts is the only thing it adds.                   *)
LEMMA StartPushFacts ==
  ASSUME TasksTypeOK, NEW ev \in Events, NEW calls \in BOOLEAN,
         NEW by \in {"worker", "canceller"}, StartPush(ev, calls, by)
  PROVE  \/ ~ToSend(ev, calls) /\ pushes' = pushes
         \/ /\ ToSend(ev, calls)
            /\ \E n \in Push : n.event = ev /\ n.by = by /\ pushes' = pushes \cup {n}
<1>1. attempts[ev] \in 0 .. PushAttempts /\ PushAttempts \in Nat \ {0}
  BY A2AAssumption DEF TasksTypeOK
<1> DEFINE n == [event |-> ev, number |-> attempts[ev] + 1, by |-> by]
<1>2. ToSend(ev, calls) => n \in Push
  BY <1>1 DEF ToSend, Push
<1>3. n.event = ev /\ n.by = by
  OBVIOUS
<1>4. pushes' = IF ToSend(ev, calls) THEN pushes \cup {n} ELSE pushes
  BY DEF StartPush
<1> HIDE DEF n
<1>5. QED
  BY <1>2, <1>3, <1>4

(* A POST ends its notification or tries it once more.                     *)
LEMMA PostFacts ==
  ASSUME TasksTypeOK, NEW p \in pushes, NEW accepted \in BOOLEAN,
         NEW acknowledged \in BOOLEAN, Post(p, accepted, acknowledged)
  PROVE  /\ p \in Push /\ p.event \in Events /\ p.event[1] \in TaskIds
         /\ attempts'[p.event] = p.number
         /\ \A ev \in Events \ {p.event} : attempts'[ev] = attempts[ev]
         /\ \/ /\ acknowledged \/ p.number = PushAttempts
               /\ PushOver(p)
            \/ /\ UNCHANGED <<worker, job>> /\ ~acknowledged
               /\ \E n \in Push : /\ n.event = p.event /\ n.by = p.by
                                  /\ pushes' = (pushes \ {p}) \cup {n}
<1>1. p \in Push /\ p.event \in Events /\ p.event[1] \in TaskIds
  BY DEF TasksTypeOK, Push, Events
<1>2. /\ attempts'[p.event] = p.number
      /\ \A ev \in Events \ {p.event} : attempts'[ev] = attempts[ev]
  BY <1>1 DEF Post, TasksTypeOK
<1>3. CASE acknowledged \/ p.number = PushAttempts
  BY <1>1, <1>2, <1>3 DEF Post
<1>4. CASE ~(acknowledged \/ p.number = PushAttempts)
  <2> DEFINE n == [p EXCEPT !.number = @ + 1]
  <2>1. n \in Push
    BY <1>1, <1>4, A2AAssumption DEF Push
  <2>2. n.event = p.event /\ n.by = p.by
    BY <1>1 DEF Push
  <2>3. pushes' = (pushes \ {p}) \cup {n} /\ UNCHANGED <<worker, job>>
    BY <1>4 DEF Post
  <2> HIDE DEF n
  <2>4. QED
    BY <1>1, <1>2, <1>4, <2>1, <2>2, <2>3
<1>5. QED
  BY <1>3, <1>4

-----------------------------------------------------------------------------
(* Types.                                                                  *)

LEMMA TasksTypeStep ==
  ASSUME TasksTypeOK, [TasksNext]_taskVars
  PROVE  TasksTypeOK'
<1> USE DEF TasksTypeOK, Places, Goto, States, Terminal
<1>n. ASSUME NEW t \in TaskIds, NEW k \in {"send", "async", "stream"},
             NEW s \in States, NEW calls \in BOOLEAN, NewTask(t, k, s, calls)
      PROVE  /\ serverUp' \in BOOLEAN /\ serverRestarts' \in Nat
             /\ kind' \in [TaskIds -> {"none", "send", "async", "stream"}]
             /\ state' \in [TaskIds -> {"none"} \cup States]
             /\ callback' \in [TaskIds -> BOOLEAN] /\ left' \in [TaskIds -> BOOLEAN]
             /\ delivered' \subseteq Events /\ attempts' \in [Events -> 0 .. PushAttempts]
             /\ cut' \subseteq Events /\ received' \in [Events -> Nat]
  BY <1>n DEF NewTask, ledger
<1>1. ASSUME NEW t \in TaskIds, NEW calls \in BOOLEAN, Send(t, calls) \/ Stream(t, calls)
      PROVE  TasksTypeOK'
  <2>1. \E k \in {"send", "stream"}, s \in {"submitted", "working"} : NewTask(t, k, s, calls)
    BY <1>1 DEF Send, Stream
  <2>2. \E place \in Places : worker' = [worker EXCEPT ![t] = place]
    BY <1>1 DEF Send, Stream
  <2>3. UNCHANGED <<job, pushes>>
    BY <1>1 DEF Send, Stream
  <2>4. QED
    BY <1>n, <2>1, <2>2, <2>3
<1>2. ASSUME NEW t \in TaskIds, NEW calls \in BOOLEAN, SendAsync(t, calls) PROVE TasksTypeOK'
  <2>1. <<t, "working">> \in Events
    BY DEF Events
  <2>2. pushes' \subseteq Push
    BY <1>2, <2>1, StartPushFacts DEF SendAsync
  <2>3. (~ToSend(<<t, "working">>, calls)) \in BOOLEAN
    BY DEF ToSend
  <2>4. job' \in [TaskIds -> BOOLEAN] /\ worker' \in [TaskIds -> Places]
    BY <1>2, <2>3 DEF SendAsync
  <2>5. QED
    BY <1>2, <1>n, <2>2, <2>4 DEF SendAsync
<1>c. \A some \in SUBSET pushes : cut \cup {p.event : p \in some} \subseteq Events
  BY DEF Push
<1>3. ASSUME NEW t \in TaskIds, Disconnect(t) PROVE TasksTypeOK'
  <2>1. cut' \subseteq Events
    BY <1>3, <1>c DEF Disconnect
  <2>2. QED
    BY <1>3, <2>1 DEF Disconnect
<1>l. ASSUME NEW t \in TaskIds, CancellerLeaves(t) PROVE TasksTypeOK'
  <2>1. cut' \subseteq Events /\ pushes' \subseteq Push
    BY <1>l DEF CancellerLeaves, Push
  <2>2. QED
    BY <1>l, <2>1 DEF CancellerLeaves, workers
<1>4. ASSUME NEW t \in TaskIds, Cancel(t) PROVE TasksTypeOK'
  <2>1. <<t, "canceled">> \in Events
    BY DEF Events
  <2>2. pushes' \subseteq Push
    BY <1>4, <2>1, StartPushFacts DEF Cancel
  <2>3. QED
    BY <1>4, <2>2 DEF Cancel, ledger
<1>5. ASSUME NEW t \in TaskIds, Awake(t) PROVE TasksTypeOK'
  BY <1>5 DEF Awake, ledger
<1>6. ASSUME NEW t \in TaskIds, NEW outcome \in {"completed", "failed"}, HandlerEnds(t, outcome)
      PROVE  TasksTypeOK'
  <2>1. <<t, outcome>> \in Events
    BY DEF Events
  <2>2. pushes' \subseteq Push
    BY <1>6, <2>1, StartPushFacts DEF HandlerEnds
  <2>3. QED
    BY <1>6, <2>2 DEF HandlerEnds, ledger
<1>7. ASSUME NEW p \in pushes, NEW accepted \in BOOLEAN, NEW acknowledged \in BOOLEAN,
             Post(p, accepted, acknowledged)
      PROVE  TasksTypeOK'
  <2>1. p \in Push /\ p.event \in Events /\ p.number \in 0 .. PushAttempts /\ p.event[1] \in TaskIds
    BY A2AAssumption DEF Push, Events
  <2>2. /\ serverUp' \in BOOLEAN /\ serverRestarts' \in Nat
        /\ kind' \in [TaskIds -> {"none", "send", "async", "stream"}]
        /\ state' \in [TaskIds -> {"none"} \cup States]
        /\ callback' \in [TaskIds -> BOOLEAN] /\ left' \in [TaskIds -> BOOLEAN]
    BY <1>7 DEF Post
  <2>3. /\ delivered' \subseteq Events /\ attempts' \in [Events -> 0 .. PushAttempts]
        /\ cut' \subseteq Events /\ received' \in [Events -> Nat]
    BY <1>7, <2>1 DEF Post
  <2>4. pushes' \subseteq Push /\ worker' \in [TaskIds -> Places] /\ job' \in [TaskIds -> BOOLEAN]
    BY ZenonT(40), <1>7, <2>1, PostFacts DEF PushOver
  <2>5. QED
    BY <2>2, <2>3, <2>4
<1>8. CASE ServerCrashes
  <2>1. /\ worker' \in [TaskIds -> Places] /\ job' \in [TaskIds -> BOOLEAN]
        /\ pushes' \subseteq Push /\ cut' \subseteq Events
    BY <1>8, <1>c DEF ServerCrashes
  <2>2. UNCHANGED <<kind, state, callback, left, delivered, attempts, received>>
    BY <1>8 DEF ServerCrashes
  <2>3. serverUp' \in BOOLEAN
    BY <1>8 DEF ServerCrashes
  <2>4. serverRestarts' = serverRestarts + 1
    BY <1>8 DEF ServerCrashes
  <2>5. serverRestarts' \in Nat
    BY <2>4
  <2>6. QED
    BY <2>1, <2>2, <2>3, <2>5
<1>9. CASE ServerRestarts
  <2>1. \A t \in TaskIds : Open(t) \in BOOLEAN
    BY DEF Open
  <2>2. job' \in [TaskIds -> BOOLEAN] /\ left' \in [TaskIds -> BOOLEAN]
    BY <1>9, <2>1 DEF ServerRestarts
  <2>3. QED
    BY <1>9, <2>2 DEF ServerRestarts, ledger
<1>10. CASE UNCHANGED taskVars
  BY <1>10 DEF taskVars, workers, ledger
<1>11. QED
  BY <1>1, <1>2, <1>3, <1>l, <1>4, <1>5, <1>6, <1>7, <1>8, <1>9, <1>10
     DEF TasksNext, Work, Deliver

-----------------------------------------------------------------------------
(* Coroutines and their notifications.                                     *)

LEMMA WorkerStep ==
  ASSUME TasksInv, [TasksNext]_taskVars
  PROVE  WorkerInv'
<1> USE DEF TasksInv, TasksTypeOK, WorkerInv, Places, Goto, States, Terminal
<1>1. ASSUME NEW t \in TaskIds, NEW calls \in BOOLEAN, Send(t, calls) PROVE WorkerInv'
  BY <1>1 DEF Send, NewTask
<1>2. ASSUME NEW t \in TaskIds, NEW calls \in BOOLEAN, SendAsync(t, calls) PROVE WorkerInv'
  BY <1>2 DEF SendAsync, NewTask, ToSend
<1>3. ASSUME NEW t \in TaskIds, NEW calls \in BOOLEAN, Stream(t, calls) PROVE WorkerInv'
  BY <1>3 DEF Stream, NewTask
<1>4. ASSUME NEW t \in TaskIds, Disconnect(t) PROVE WorkerInv'
  BY <1>4 DEF Disconnect
<1>l. ASSUME NEW t \in TaskIds, CancellerLeaves(t) PROVE WorkerInv'
  BY <1>l DEF CancellerLeaves, workers
<1>5. ASSUME NEW t \in TaskIds, Cancel(t) PROVE WorkerInv'
  BY <1>5 DEF Cancel, Open
<1>6. ASSUME NEW t \in TaskIds, Awake(t) PROVE WorkerInv'
  BY <1>6 DEF Awake, Open
<1>7. ASSUME NEW t \in TaskIds, NEW outcome \in {"completed", "failed"}, HandlerEnds(t, outcome)
      PROVE  WorkerInv'
  BY <1>7 DEF HandlerEnds
<1>8. ASSUME NEW p \in pushes, NEW accepted \in BOOLEAN, NEW acknowledged \in BOOLEAN,
             Post(p, accepted, acknowledged)
      PROVE  WorkerInv'
  <2>1. UNCHANGED <<kind, state>>
    BY <1>8 DEF Post
  <2>2. CASE UNCHANGED <<worker, job>>
    BY <2>1, <2>2
  <2>3. CASE PushOver(p)
    <3>1. p.event[1] \in TaskIds /\ kind[p.event[1]] # "none"
      BY <1>8, PostFacts DEF PushInv
    <3>2. QED
      BY <2>1, <2>3, <3>1 DEF PushOver
  <2>4. QED
    BY <1>8, <2>2, <2>3, PostFacts
<1>9. CASE ServerCrashes
  BY <1>9 DEF ServerCrashes
<1>10. CASE ServerRestarts
  BY <1>10 DEF ServerRestarts, Open
<1>11. CASE UNCHANGED taskVars
  BY <1>11 DEF taskVars, workers, ledger
<1>12. QED
  BY <1>1, <1>2, <1>3, <1>4, <1>l, <1>5, <1>6, <1>7, <1>8, <1>9, <1>10, <1>11
     DEF TasksNext, Work, Deliver

LEMMA PushStep ==
  ASSUME TasksInv, [TasksNext]_taskVars
  PROVE  PushInv'
<1> USE DEF TasksInv, Places, Goto, Terminal
<1>0. /\ kind \in [TaskIds -> {"none", "send", "async", "stream"}]
      /\ state \in [TaskIds -> {"none"} \cup States]
      /\ worker \in [TaskIds -> Places]
      /\ \A p \in Push : p.event \in Events /\ p.event[1] \in TaskIds
  BY DEF TasksTypeOK, Push, Events
<1>p. pushes \subseteq Push /\ \A p \in pushes : p.by \in {"worker", "canceller"}
  BY DEF TasksTypeOK, Push
<1> DEFINE Mine(p) ==
      LET t == p.event[1]
      IN /\ kind[t] # "none"
         /\ p.event \notin delivered
         /\ p.by = "worker" =>
              \/ /\ worker[t] = "announcing" /\ p.event[2] = "working"
                 /\ state[t] \in {"working", "canceled"}
              \/ /\ worker[t] = "reporting" /\ p.event[2] = state[t]
                 /\ state[t] \in {"completed", "failed"}
         /\ p.by = "canceller" => p.event[2] = "canceled" /\ state[t] \in Terminal
<1>m. \A p \in pushes : Mine(p)
  BY DEF PushInv
<1>u. \A p, q \in pushes : p.event = q.event => p = q
  BY DEF PushInv
<1>q. SUFFICES (\A p \in pushes' : Mine(p)') /\ \A p, q \in pushes' : p.event = q.event => p = q
  BY DEF PushInv
(* Notifications of the other tasks are left alone.                        *)
<1>o. ASSUME NEW t \in TaskIds, NEW p \in pushes, p.event[1] # t, delivered' = delivered,
             \A u \in TaskIds \ {t} :
               kind'[u] = kind[u] /\ state'[u] = state[u] /\ worker'[u] = worker[u]
      PROVE  Mine(p)'
  BY <1>0, <1>p, <1>m, <1>o
(* A task that did not exist has none.                                     *)
<1>n. ASSUME NEW t \in TaskIds, NEW k \in {"send", "async", "stream"},
             NEW s \in States, NEW calls \in BOOLEAN, NewTask(t, k, s, calls)
      PROVE  /\ \A p \in pushes : p.event[1] # t
             /\ kind'[t] = k /\ state'[t] = s /\ delivered' = delivered
             /\ \A u \in TaskIds \ {t} : kind'[u] = kind[u] /\ state'[u] = state[u]
  BY <1>0, <1>m, <1>n DEF NewTask, ledger
<1>1. ASSUME NEW t \in TaskIds, NEW calls \in BOOLEAN, Send(t, calls) \/ Stream(t, calls)
      PROVE  (\A p \in pushes' : Mine(p)') /\ \A p, q \in pushes' : p.event = q.event => p = q
  <2>1. pushes' = pushes /\ \A u \in TaskIds \ {t} : worker'[u] = worker[u]
    BY <1>0, <1>1 DEF Send, Stream
  <2>2. \E k \in {"send", "stream"}, s \in {"submitted", "working"} : NewTask(t, k, s, calls)
    BY <1>1 DEF Send, Stream
  <2>3. QED
    BY <1>n, <1>o, <1>u, <2>1, <2>2 DEF States
<1>2. ASSUME NEW t \in TaskIds, NEW calls \in BOOLEAN, SendAsync(t, calls)
      PROVE  (\A p \in pushes' : Mine(p)') /\ \A p, q \in pushes' : p.event = q.event => p = q
  <2> DEFINE ev == <<t, "working">>
  <2>1. ev \in Events /\ StartPush(ev, calls, "worker") /\ NewTask(t, "async", "working", calls)
    BY <1>2 DEF SendAsync, Events, States
  <2>2. /\ worker'[t] = IF ToSend(ev, calls) THEN "announcing" ELSE "sleeping"
        /\ \A u \in TaskIds \ {t} : worker'[u] = worker[u]
    BY <1>0, <1>2 DEF SendAsync
  <2>3. /\ \A p \in pushes : p.event[1] # t /\ Mine(p)'
        /\ kind'[t] = "async" /\ state'[t] = "working" /\ delivered' = delivered
    BY <1>n, <1>o, <2>1, <2>2 DEF States
  <2>4. CASE pushes' = pushes
    BY <1>u, <2>3, <2>4
  <2>5. ASSUME ToSend(ev, calls), NEW n \in Push, n.event = ev, n.by = "worker",
               pushes' = pushes \cup {n}
        PROVE  (\A p \in pushes' : Mine(p)') /\ \A p, q \in pushes' : p.event = q.event => p = q
    <3>1. Mine(n)'
      BY <2>2, <2>3, <2>5 DEF ToSend
    <3>2. \A p \in pushes : p.event # n.event
      BY <2>3, <2>5
    <3>3. QED
      BY <1>u, <2>3, <2>5, <3>1, <3>2
  <2>6. QED
    BY <2>1, <2>4, <2>5, StartPushFacts
<1>3. ASSUME NEW t \in TaskIds, Disconnect(t)
      PROVE  (\A p \in pushes' : Mine(p)') /\ \A p, q \in pushes' : p.event = q.event => p = q
  <2>1. /\ pushes' = pushes \ {p \in pushes : p.event[1] = t /\ p.by = "worker"}
        /\ UNCHANGED <<kind, state, delivered>>
        /\ \A u \in TaskIds \ {t} : worker'[u] = worker[u]
    BY <1>0, <1>3 DEF Disconnect
  <2>2. \A p \in pushes' : Mine(p)'
    BY <1>0, <1>p, <1>m, <2>1
  <2>3. QED
    BY <1>u, <2>1, <2>2
<1>l. ASSUME NEW t \in TaskIds, CancellerLeaves(t)
      PROVE  (\A p \in pushes' : Mine(p)') /\ \A p, q \in pushes' : p.event = q.event => p = q
  <2>1. pushes' \subseteq pushes /\ UNCHANGED <<kind, state, worker, delivered>>
    BY <1>l DEF CancellerLeaves, workers
  <2>2. QED
    BY <1>m, <1>u, <2>1
<1>4. ASSUME NEW t \in TaskIds, Cancel(t)
      PROVE  (\A p \in pushes' : Mine(p)') /\ \A p, q \in pushes' : p.event = q.event => p = q
  <2> DEFINE ev == <<t, "canceled">>
  <2>1. /\ ev \in Events /\ StartPush(ev, callback[t], "canceller") /\ callback[t] \in BOOLEAN
        /\ UNCHANGED <<kind, delivered>> /\ kind[t] # "none" /\ state[t] \notin Terminal
    BY <1>4 DEF Cancel, Events, States, ledger, Open, TasksTypeOK
  <2>2. /\ state'[t] = "canceled"
        /\ \A u \in TaskIds \ {t} : worker'[u] = worker[u] /\ state'[u] = state[u]
        /\ worker'[t] = worker[t] \/ job[t]
    BY <1>0, <1>4 DEF Cancel
  <2>3. \A p \in pushes : p.event[1] = t => p.by = "worker" /\ worker[t] = "announcing" /\ ~job[t]
    BY <1>p, <1>m, <2>1 DEF WorkerInv
  <2>4. \A p \in pushes : Mine(p)' /\ p.event # ev
    <3> SUFFICES ASSUME NEW p \in pushes PROVE Mine(p)' /\ p.event # ev
      OBVIOUS
    <3>1. CASE p.event[1] = t
      BY <1>m, <2>1, <2>2, <2>3, <3>1
    <3>2. CASE p.event[1] # t
      BY <1>o, <2>1, <2>2, <3>2
    <3>3. QED
      BY <3>1, <3>2
  <2>5. CASE pushes' = pushes
    BY <1>u, <2>4, <2>5
  <2>6. ASSUME ToSend(ev, callback[t]), NEW n \in Push, n.event = ev, n.by = "canceller",
               pushes' = pushes \cup {n}
        PROVE  (\A p \in pushes' : Mine(p)') /\ \A p, q \in pushes' : p.event = q.event => p = q
    <3>1. Mine(n)'
      BY <2>1, <2>2, <2>6 DEF ToSend
    <3>2. QED
      BY <1>u, <2>4, <2>6, <3>1
  <2>7. QED
    BY <2>1, <2>5, <2>6, StartPushFacts
<1>5. ASSUME NEW t \in TaskIds, Awake(t)
      PROVE  (\A p \in pushes' : Mine(p)') /\ \A p, q \in pushes' : p.event = q.event => p = q
  <2>1. /\ UNCHANGED <<pushes, kind, state, delivered>> /\ worker[t] \in {"yielded", "sleeping"}
        /\ \A u \in TaskIds \ {t} : worker'[u] = worker[u]
    BY <1>0, <1>5 DEF Awake, ledger
  <2>2. QED
    BY <1>p, <1>0, <1>m, <1>u, <2>1
<1>6. ASSUME NEW t \in TaskIds, NEW outcome \in {"completed", "failed"}, HandlerEnds(t, outcome)
      PROVE  (\A p \in pushes' : Mine(p)') /\ \A p, q \in pushes' : p.event = q.event => p = q
  <2> DEFINE ev == <<t, outcome>>
  <2>1. /\ ev \in Events /\ StartPush(ev, callback[t], "worker") /\ callback[t] \in BOOLEAN
        /\ UNCHANGED <<kind, delivered>> /\ worker[t] = "handling"
    BY <1>6 DEF HandlerEnds, Events, States, ledger, TasksTypeOK
  <2>2. /\ state'[t] = outcome /\ kind[t] # "none"
        /\ worker'[t] = IF ToSend(ev, callback[t]) THEN "reporting" ELSE "none"
        /\ \A u \in TaskIds \ {t} : worker'[u] = worker[u] /\ state'[u] = state[u]
    BY <1>0, <1>6 DEF HandlerEnds, WorkerInv
  <2>3. \A p \in pushes : p.event[1] = t => p.by = "canceller" /\ p.event[2] = "canceled"
    BY <1>p, <1>m, <2>1
  <2>4. \A p \in pushes : Mine(p)' /\ p.event # ev
    <3> SUFFICES ASSUME NEW p \in pushes PROVE Mine(p)' /\ p.event # ev
      OBVIOUS
    <3>1. CASE p.event[1] = t
      BY <1>m, <2>1, <2>2, <2>3, <3>1
    <3>2. CASE p.event[1] # t
      BY <1>o, <2>1, <2>2, <3>2
    <3>3. QED
      BY <3>1, <3>2
  <2>5. CASE pushes' = pushes
    BY <1>u, <2>4, <2>5
  <2>6. ASSUME ToSend(ev, callback[t]), NEW n \in Push, n.event = ev, n.by = "worker",
               pushes' = pushes \cup {n}
        PROVE  (\A p \in pushes' : Mine(p)') /\ \A p, q \in pushes' : p.event = q.event => p = q
    <3>1. Mine(n)'
      BY <2>1, <2>2, <2>6 DEF ToSend
    <3>2. QED
      BY <1>u, <2>4, <2>6, <3>1
  <2>7. QED
    BY <2>1, <2>5, <2>6, StartPushFacts
<1>7. ASSUME NEW p \in pushes, NEW accepted \in BOOLEAN, NEW acknowledged \in BOOLEAN,
             Post(p, accepted, acknowledged)
      PROVE  (\A q \in pushes' : Mine(q)') /\ \A q, r \in pushes' : q.event = r.event => q = r
  <2> DEFINE t == p.event[1]
  <2>1. /\ UNCHANGED <<kind, state>>
        /\ delivered' = IF acknowledged THEN delivered \cup {p.event} ELSE delivered
    BY <1>7 DEF Post
  <2>2. \A q \in pushes \ {p} : q.event # p.event
    BY <1>u
  <2>3. CASE PushOver(p) /\ (acknowledged \/ p.number = PushAttempts)
    <3>1. /\ pushes' = pushes \ {p}
          /\ \A u \in TaskIds \ {t} : worker'[u] = worker[u]
          /\ p.by = "canceller" => worker'[t] = worker[t]
      BY <1>0, <1>p, <2>3 DEF PushOver
    <3>2. \A q \in pushes \ {p} : p.by = "worker" /\ q.event[1] = t => q.by = "canceller"
      <4> SUFFICES ASSUME NEW q \in pushes \ {p}, p.by = "worker", q.event[1] = t, q.by = "worker"
                   PROVE  FALSE
        BY <1>p
      <4>1. p.event[2] = q.event[2]
        BY <1>m
      <4>2. p.event = q.event
        BY <1>0, <1>p, <4>1 DEF Events
      <4>3. QED
        BY <2>2, <4>2
    <3>3. \A q \in pushes' : Mine(q)'
      BY <1>0, <1>p, <1>m, <2>1, <2>2, <3>1, <3>2
    <3>4. QED
      BY <1>u, <3>1, <3>3
  <2>4. ASSUME UNCHANGED <<worker, job>>, ~acknowledged, NEW n \in Push,
               n.event = p.event, n.by = p.by, pushes' = (pushes \ {p}) \cup {n}
        PROVE  (\A q \in pushes' : Mine(q)') /\ \A q, r \in pushes' : q.event = r.event => q = r
    <3>1. \A q \in pushes \cup {n} : Mine(q)'
      BY <1>m, <2>1, <2>4
    <3>2. QED
      BY <1>u, <2>2, <2>4, <3>1
  <2>5. QED
    BY <1>7, <2>3, <2>4, PostFacts
<1>8. CASE ServerCrashes
  BY <1>8 DEF ServerCrashes
<1>9. CASE ServerRestarts
  BY <1>9 DEF ServerRestarts, DownInv
<1>10. CASE UNCHANGED taskVars
  BY <1>10, <1>m, <1>u DEF taskVars, workers, ledger
<1>11. QED
  BY <1>1, <1>2, <1>3, <1>l, <1>4, <1>5, <1>6, <1>7, <1>8, <1>9, <1>10
     DEF TasksNext, Work, Deliver

LEMMA DownStep ==
  ASSUME TasksInv, [TasksNext]_taskVars
  PROVE  DownInv'
<1> USE DEF TasksInv, DownInv
<1>1. CASE ServerCrashes
  <2>1. serverRestarts' = serverRestarts + 1
    BY <1>1 DEF ServerCrashes
  <2>2. serverRestarts' > 0
    BY <2>1 DEF TasksTypeOK
  <2>3. pushes' = {} /\ \A t \in TaskIds : worker'[t] = "none"
    BY <1>1 DEF ServerCrashes
  <2>4. QED
    BY <2>2, <2>3
<1>2. CASE ServerRestarts
  BY <1>2 DEF ServerRestarts
<1>3. ASSUME UNCHANGED <<serverUp, serverRestarts>>, serverUp PROVE DownInv'
  BY <1>3
<1>4. ASSUME NEW t \in TaskIds, NEW calls \in BOOLEAN,
             Send(t, calls) \/ SendAsync(t, calls) \/ Stream(t, calls)
      PROVE  DownInv'
  BY <1>3, <1>4 DEF Send, SendAsync, Stream, NewTask
<1>5. ASSUME NEW t \in TaskIds, Disconnect(t) \/ Cancel(t) \/ Awake(t) PROVE DownInv'
  <2>1. serverUp
    BY <1>5 DEF Disconnect, Cancel, Awake
  <2>2. QED
    BY <1>3, <1>5, <2>1 DEF Disconnect, Cancel, Awake
<1>6. ASSUME NEW t \in TaskIds, CancellerLeaves(t) PROVE DownInv'
  <2>1. serverUp
    BY <1>6 DEF CancellerLeaves
  <2>2. QED
    BY <1>3, <1>6, <2>1 DEF CancellerLeaves
<1>7. ASSUME NEW t \in TaskIds, NEW outcome \in {"completed", "failed"}, HandlerEnds(t, outcome)
      PROVE  DownInv'
  <2>1. serverUp
    BY <1>7 DEF HandlerEnds
  <2>2. QED
    BY <1>3, <1>7, <2>1 DEF HandlerEnds
<1>8. ASSUME NEW p \in pushes, NEW accepted \in BOOLEAN, NEW acknowledged \in BOOLEAN,
             Post(p, accepted, acknowledged)
      PROVE  DownInv'
  <2>1. serverUp
    BY <1>8
  <2>2. QED
    BY <1>3, <1>8, <2>1 DEF Post
<1>9. CASE UNCHANGED taskVars
  BY <1>9 DEF taskVars, workers
<1>10. QED
  BY <1>1, <1>2, <1>4, <1>5, <1>6, <1>7, <1>8, <1>9 DEF TasksNext, Work, Deliver

LEMMA TasksInvariant == TasksSpec => []TasksInv
<1>1. TasksInit => TasksInv
  <2> SUFFICES ASSUME TasksInit PROVE TasksInv
    OBVIOUS
  <2>1. TasksTypeOK
    BY A2AAssumption DEF TasksInit, TasksTypeOK, Places
  <2>2. WorkerInv
    BY DEF TasksInit, WorkerInv
  <2>3. PushInv /\ DownInv
    BY DEF TasksInit, PushInv, DownInv
  <2>4. QED
    BY <2>1, <2>2, <2>3 DEF TasksInv
<1>2. TasksInv /\ [TasksNext]_taskVars => TasksInv'
  BY TasksTypeStep, WorkerStep, PushStep, DownStep DEF TasksInv
<1>3. QED
  BY <1>1, <1>2, PTL DEF TasksSpec

(* The rows, coroutines, notifications and delivery records keep their     *)
(* types; no event is attempted more than push_attempts times.             *)
THEOREM A2ATasksTypes == TasksSpec => []TasksTypeOK
BY TasksInvariant, PTL DEF TasksInv

-----------------------------------------------------------------------------
(* Attention.                                                              *)

LEMMA AttendedStep ==
  ASSUME TasksInv, OpenIsAttended, [TasksNext]_taskVars
  PROVE  OpenIsAttended'
<1> USE DEF OpenIsAttended, Open, Goto
<1>0. /\ kind \in [TaskIds -> {"none", "send", "async", "stream"}]
      /\ state \in [TaskIds -> {"none"} \cup States]
      /\ worker \in [TaskIds -> Places]
      /\ left \in [TaskIds -> BOOLEAN]
  BY DEF TasksInv, TasksTypeOK
<1>1. ASSUME NEW t \in TaskIds, NEW calls \in BOOLEAN,
             Send(t, calls) \/ SendAsync(t, calls) \/ Stream(t, calls)
      PROVE  OpenIsAttended'
  <2>1. /\ serverUp /\ worker'[t] # "none" /\ UNCHANGED left
        /\ \A u \in TaskIds \ {t} :
             kind'[u] = kind[u] /\ state'[u] = state[u] /\ worker'[u] = worker[u]
    BY <1>0, <1>1 DEF Send, SendAsync, Stream, NewTask
  <2>2. QED
    BY <2>1
<1>2. ASSUME NEW t \in TaskIds, Disconnect(t) PROVE OpenIsAttended'
  BY <1>0, <1>2 DEF Disconnect
<1>l. ASSUME NEW t \in TaskIds, CancellerLeaves(t) PROVE OpenIsAttended'
  BY <1>l DEF CancellerLeaves, workers
<1>3. ASSUME NEW t \in TaskIds, Cancel(t) PROVE OpenIsAttended'
  BY <1>0, <1>3 DEF Cancel, Terminal
<1>4. ASSUME NEW t \in TaskIds, Awake(t) PROVE OpenIsAttended'
  BY <1>0, <1>4 DEF Awake
<1>5. ASSUME NEW t \in TaskIds, NEW outcome \in {"completed", "failed"}, HandlerEnds(t, outcome)
      PROVE  OpenIsAttended'
  BY <1>0, <1>5 DEF HandlerEnds, Terminal
<1>6. ASSUME NEW p \in pushes, NEW accepted \in BOOLEAN, NEW acknowledged \in BOOLEAN,
             Post(p, accepted, acknowledged)
      PROVE  OpenIsAttended'
  <2>1. UNCHANGED <<serverUp, kind, state, left>>
    BY <1>6 DEF Post
  <2>2. CASE UNCHANGED worker
    BY <2>1, <2>2
  <2>3. CASE PushOver(p)
    <3> DEFINE t == p.event[1]
    <3>1. t \in TaskIds /\ p \in Push
      BY <1>6, PostFacts DEF TasksInv
    <3>2. p.by = "worker" => worker[t] = "announcing" \/ state[t] \in Terminal
      BY DEF TasksInv, PushInv, Terminal
    <3>3. /\ \A u \in TaskIds \ {t} : worker'[u] = worker[u]
          /\ \/ worker'[t] \in {worker[t], "sleeping"}
             \/ p.by = "worker" /\ worker[t] # "announcing"
      <4>1. CASE p.by = "worker" /\ worker[t] = "announcing"
        BY <1>0, <2>3, <3>1, <4>1 DEF PushOver
      <4>2. CASE p.by = "worker" /\ worker[t] # "announcing"
        BY <1>0, <2>3, <3>1, <4>2 DEF PushOver
      <4>3. CASE p.by # "worker"
        BY <2>3, <4>3 DEF PushOver
      <4>4. QED
        BY <4>1, <4>2, <4>3
    <3>4. QED
      BY <2>1, <3>1, <3>2, <3>3
  <2>4. QED
    BY <1>6, <2>2, <2>3, PostFacts DEF TasksInv
<1>7. CASE ServerCrashes
  BY <1>7 DEF ServerCrashes
<1>8. CASE ServerRestarts
  BY <1>0, <1>8 DEF ServerRestarts, Terminal
<1>9. CASE UNCHANGED taskVars
  BY <1>9 DEF taskVars, workers
<1>10. QED
  BY <1>1, <1>2, <1>l, <1>3, <1>4, <1>5, <1>6, <1>7, <1>8, <1>9 DEF TasksNext, Work, Deliver

(* While the server runs, each open task has a coroutine that will end it, *)
(* also after restarts, unless its own client went away.                   *)
THEOREM A2ATasksOpenIsAttended == TasksSpec => []OpenIsAttended
<1>1. TasksInit => OpenIsAttended
  BY DEF TasksInit, OpenIsAttended, Open
<1>2. QED
  BY <1>1, AttendedStep, TasksInvariant, PTL DEF TasksSpec

-----------------------------------------------------------------------------
(* What receivers are told.                                                *)

(* What a coroutine that stops in the middle leaves behind is in cut.      *)
LEMMA ReportedStep ==
  ASSUME TasksInv, TasksInv', EndIsReported, [TasksNext]_taskVars
  PROVE  EndIsReported'
<1> USE DEF Goto
<1>0. /\ kind \in [TaskIds -> {"none", "send", "async", "stream"}]
      /\ state \in [TaskIds -> {"none"} \cup States] /\ state' \in [TaskIds -> {"none"} \cup States]
      /\ callback \in [TaskIds -> BOOLEAN] /\ left \in [TaskIds -> BOOLEAN]
      /\ attempts \in [Events -> 0 .. PushAttempts] /\ serverRestarts \in Nat
      /\ pushes \subseteq Push /\ PushAttempts \in Nat \ {0}
  BY A2AAssumption DEF TasksInv, TasksTypeOK
<1>e. \A t \in TaskIds, s \in States : <<t, s>> \in Events
  BY DEF Events
<1> DEFINE Reported(t) ==
      LET ev == <<t, state[t]>>
      IN callback[t] /\ state[t] \in Terminal /\ (\A p \in pushes : p.event # ev)
         => \/ ev \in delivered \/ attempts[ev] = PushAttempts
            \/ ev \in cut /\ (kind[t] = "async" /\ state[t] # "canceled" => serverRestarts > 0)
<1>n. "working" \notin Terminal
  BY DEF Terminal
<1>r. \A t \in TaskIds : Reported(t)
  BY DEF EndIsReported
<1>s. SUFFICES ASSUME NEW t \in TaskIds PROVE Reported(t)'
  BY DEF EndIsReported
(* A step that sends nothing and leaves the task as it is.                 *)
<1>k. ASSUME UNCHANGED <<serverRestarts, pushes, delivered, attempts, cut>>,
             kind'[t] = kind[t], callback'[t] = callback[t], state'[t] = state[t]
      PROVE  Reported(t)'
  BY <1>r, <1>k
(* A step that cuts some notifications short, no end of a job's among them *)
(* unless it is a crash.                                                   *)
<1>c. ASSUME NEW some \in SUBSET pushes, pushes' = pushes \ some,
             cut' = cut \cup {p.event : p \in some},
             serverRestarts' \in Nat, serverRestarts' >= serverRestarts,
             UNCHANGED <<kind, callback, state, delivered, attempts>>,
             \A p \in some : /\ p.event = <<t, state[t]>> /\ state[t] \in Terminal
                             /\ kind[t] = "async" /\ state[t] # "canceled"
                             => serverRestarts' > 0
      PROVE  Reported(t)'
  <2> DEFINE ev == <<t, state[t]>>
  <2>1. CASE \E p \in some : p.event = ev
    BY <1>c, <2>1
  <2>2. CASE \A p \in some : p.event # ev
    <3>1. (\A p \in pushes' : p.event # ev) => \A p \in pushes : p.event # ev
      BY <1>c, <2>2
    <3>2. serverRestarts > 0 => serverRestarts' > 0
      BY <1>0, <1>c
    <3>3. cut \subseteq cut'
      BY <1>c
    <3>4. QED
      BY <1>r, <1>c, <3>1, <3>2, <3>3
  <2>3. QED
    BY <2>1, <2>2
(* A notification that starts, or need not.                                *)
<1>p. ASSUME NEW u \in TaskIds, NEW s \in States, NEW calls \in BOOLEAN,
             NEW by \in {"worker", "canceller"}, StartPush(<<u, s>>, calls, by),
             state'[u] = s, callback'[u] = calls,
             UNCHANGED <<serverRestarts, delivered, attempts, cut>>,
             u # t => kind'[t] = kind[t] /\ callback'[t] = callback[t] /\ state'[t] = state[t]
      PROVE  Reported(t)'
  <2> DEFINE ev == <<u, s>>
  <2>1. ev \in Events /\ attempts[ev] \in 0 .. PushAttempts
    BY <1>0, <1>e
  <2>2. \/ ~ToSend(ev, calls) /\ pushes' = pushes
        \/ ToSend(ev, calls) /\ \E n \in Push : n.event = ev /\ pushes' = pushes \cup {n}
    BY <1>p, <2>1, StartPushFacts DEF TasksInv
  <2>3. CASE u = t
    <3>1. ~ToSend(ev, calls) /\ calls => ev \in delivered \/ attempts[ev] = PushAttempts
      BY <1>0, <2>1 DEF ToSend
    <3>2. QED
      BY <1>p, <2>2, <2>3, <3>1
  <2>4. CASE u # t
    BY <1>p, <1>r, <2>2, <2>4
  <2>5. QED
    BY <2>3, <2>4
<1>1. ASSUME NEW u \in TaskIds, NEW calls \in BOOLEAN, Send(u, calls) \/ Stream(u, calls)
      PROVE  Reported(t)'
  <2>1. /\ u = t => state'[t] \notin Terminal
        /\ u # t => kind'[t] = kind[t] /\ callback'[t] = callback[t] /\ state'[t] = state[t]
        /\ UNCHANGED <<serverRestarts, pushes, delivered, attempts, cut>>
    BY <1>0, <1>1 DEF Send, Stream, NewTask, Terminal, ledger
  <2>2. QED
    BY <1>k, <2>1
<1>2. ASSUME NEW u \in TaskIds, NEW calls \in BOOLEAN, SendAsync(u, calls) PROVE Reported(t)'
  <2>1. /\ StartPush(<<u, "working">>, calls, "worker")
        /\ state'[u] = "working" /\ callback'[u] = calls
        /\ u # t => kind'[t] = kind[t] /\ callback'[t] = callback[t] /\ state'[t] = state[t]
        /\ UNCHANGED <<serverRestarts, delivered, attempts, cut>>
    BY <1>0, <1>2 DEF SendAsync, NewTask, ledger
  <2>2. QED
    <3> HIDE DEF Reported
    <3> QED BY <1>p, <2>1 DEF States
<1>3. ASSUME NEW u \in TaskIds, Disconnect(u) PROVE Reported(t)'
  <2> DEFINE mine == {p \in pushes : p.event[1] = u /\ p.by = "worker"}
  <2>1. /\ pushes' = pushes \ mine /\ cut' = cut \cup {p.event : p \in mine} /\ ~job[u]
        /\ UNCHANGED <<serverRestarts, kind, callback, state, delivered, attempts>>
    BY <1>3 DEF Disconnect
  <2>2. ASSUME NEW p \in mine, p.event = <<t, state[t]>>, state[t] \in Terminal,
               kind[t] = "async", state[t] # "canceled"
        PROVE  FALSE
    <3>1. u = t
      BY <2>2
    <3>2. worker[t] # "reporting"
      BY <2>1, <2>2, <3>1 DEF TasksInv, WorkerInv
    <3>3. worker[t] = "announcing" /\ state[t] = "working"
      BY <2>2, <3>1, <3>2 DEF TasksInv, PushInv
    <3>4. QED
      BY <1>n, <2>2, <3>3
  <2>3. serverRestarts' \in Nat /\ serverRestarts' >= serverRestarts /\ mine \in SUBSET pushes
    BY <1>0, <2>1
  <2> HIDE DEF mine, Reported
  <2>4. QED
    BY <1>c, <2>1, <2>2, <2>3
<1>l. ASSUME NEW u \in TaskIds, CancellerLeaves(u) PROVE Reported(t)'
  <2>1. PICK p \in pushes : /\ p.by = "canceller"
                            /\ pushes' = pushes \ {p} /\ cut' = cut \cup {p.event}
    BY <1>l DEF CancellerLeaves
  <2>2. /\ UNCHANGED <<serverRestarts, kind, callback, state, delivered, attempts>>
        /\ cut' = cut \cup {q.event : q \in {p}}
    BY <1>l, <2>1 DEF CancellerLeaves
  <2>3. p.event[2] = "canceled"
    BY <2>1 DEF TasksInv, PushInv
  <2>4. p.event = <<t, state[t]>> => state[t] = "canceled"
    BY <2>3
  <2>5. serverRestarts' \in Nat /\ serverRestarts' >= serverRestarts /\ {p} \in SUBSET pushes
    BY <1>0, <2>2
  <2> HIDE DEF Reported
  <2>6. QED
    BY <1>c, <2>1, <2>2, <2>4, <2>5
<1>4. ASSUME NEW u \in TaskIds, Cancel(u) PROVE Reported(t)'
  <2>1. /\ StartPush(<<u, "canceled">>, callback[u], "canceller")
        /\ state'[u] = "canceled" /\ (u # t => state'[t] = state[t])
        /\ UNCHANGED <<serverRestarts, kind, delivered, attempts, cut, callback>>
    BY <1>0, <1>4 DEF Cancel, ledger
  <2>2. /\ callback[u] \in BOOLEAN /\ callback'[u] = callback[u]
        /\ callback'[t] = callback[t]
    BY <1>0, <2>1
  <2>3. QED
    <3> HIDE DEF Reported
    <3> QED BY <1>p, <2>1, <2>2 DEF States, Terminal
<1>5. ASSUME NEW u \in TaskIds, Awake(u) PROVE Reported(t)'
  BY <1>k, <1>5 DEF Awake, ledger
<1>6. ASSUME NEW u \in TaskIds, NEW outcome \in {"completed", "failed"}, HandlerEnds(u, outcome)
      PROVE  Reported(t)'
  <2>1. /\ StartPush(<<u, outcome>>, callback[u], "worker")
        /\ state'[u] = outcome /\ (u # t => state'[t] = state[t])
        /\ UNCHANGED <<serverRestarts, kind, delivered, attempts, cut, callback>>
    BY <1>0, <1>6 DEF HandlerEnds, ledger
  <2>2. /\ callback[u] \in BOOLEAN /\ callback'[u] = callback[u]
        /\ callback'[t] = callback[t]
    BY <1>0, <2>1
  <2>3. QED
    <3> HIDE DEF Reported
    <3> QED BY <1>p, <2>1, <2>2 DEF States, Terminal
<1>7. ASSUME NEW p \in pushes, NEW accepted \in BOOLEAN, NEW acknowledged \in BOOLEAN,
             Post(p, accepted, acknowledged)
      PROVE  Reported(t)'
  <2> DEFINE ev == <<t, state[t]>>
  <2>1. /\ UNCHANGED <<serverRestarts, kind, state, callback, cut>>
        /\ delivered' = IF acknowledged THEN delivered \cup {p.event} ELSE delivered
    BY <1>7 DEF Post
  <2>2. SUFFICES ASSUME callback[t], state[t] \in Terminal, \A q \in pushes' : q.event # ev
                 PROVE  \/ ev \in delivered' \/ attempts'[ev] = PushAttempts
                        \/ /\ ev \in cut
                           /\ kind[t] = "async" /\ state[t] # "canceled" => serverRestarts > 0
    BY <2>1
  <2>3. ev \in Events
    BY <1>e, <2>2 DEF States
  <2>4. CASE p.event = ev
    <3>1. acknowledged \/ p.number = PushAttempts
      BY <1>7, <2>2, <2>4, PostFacts DEF TasksInv
    <3>2. attempts'[ev] = p.number
      BY <1>7, <2>4, PostFacts DEF TasksInv
    <3>3. QED
      BY <2>1, <2>4, <3>1, <3>2
  <2>5. CASE p.event # ev
    <3>1. pushes \ {p} \subseteq pushes'
      BY <1>7, PostFacts DEF TasksInv, PushOver
    <3>2. attempts'[ev] = attempts[ev]
      BY <1>7, <2>3, <2>5, PostFacts DEF TasksInv
    <3>3. QED
      BY <1>r, <2>1, <2>2, <2>5, <3>1, <3>2
  <2>6. QED
    BY <2>4, <2>5
<1>8. CASE ServerCrashes
  <2>1. /\ serverRestarts' = serverRestarts + 1
        /\ pushes' = pushes \ pushes /\ cut' = cut \cup {p.event : p \in pushes}
        /\ UNCHANGED <<kind, callback, state, delivered, attempts>>
    BY <1>8 DEF ServerCrashes
  <2>2. serverRestarts' \in Nat /\ serverRestarts' >= serverRestarts /\ serverRestarts' > 0
    BY <1>0, <2>1
  <2>3. QED
    BY <1>c, <2>1, <2>2
<1>9. CASE ServerRestarts
  <2>1. /\ UNCHANGED <<serverRestarts, kind, callback, pushes, delivered, attempts, cut>>
        /\ state'[t] = state[t] \/ state'[t] = "working"
    BY <1>9 DEF ServerRestarts, ledger
  <2>2. QED
    BY <1>k, <1>n, <2>1
<1>10. CASE UNCHANGED taskVars
  BY <1>10, <1>k DEF taskVars, workers, ledger
<1>11. QED
  BY <1>1, <1>2, <1>3, <1>l, <1>4, <1>5, <1>6, <1>7, <1>8, <1>9, <1>10 DEF TasksNext, Work, Deliver

(* Whoever asked for notifications has acknowledged the end, or every      *)
(* attempt was made, or the sender was cut short by a crash or, unless it  *)
(* is an end that a job wrote, by its own client; no completion is sent    *)
(* before its announcement is over, and nothing acknowledged is sent again.*)
THEOREM A2ATasksNotificationsTellTheEnd == TasksSpec => []NotificationsTellTheEnd
<1>1. TasksInit => EndIsReported
  BY DEF TasksInit, EndIsReported, Terminal
<1>2. TasksInv /\ TasksInv' /\ EndIsReported /\ [TasksNext]_taskVars => EndIsReported'
  BY ReportedStep
<1>3. TasksInv => NotificationsInOrder
  BY DEF TasksInv, TasksTypeOK, PushInv, NotificationsInOrder, Push
<1>4. QED
  BY <1>1, <1>2, <1>3, TasksInvariant, PTL DEF TasksSpec, NotificationsTellTheEnd

-----------------------------------------------------------------------------
(* Outcomes.                                                               *)

LEMMA OutcomeStep ==
  ASSUME TasksInv, [TasksNext]_taskVars, NEW t \in TaskIds,
         kind[t] # "stream" \/ job[t], state[t] \in Terminal
  PROVE  state'[t] = state[t]
<1>0. /\ kind \in [TaskIds -> {"none", "send", "async", "stream"}]
      /\ state \in [TaskIds -> {"none"} \cup States]
      /\ kind[t] # "none" /\ worker[t] # "handling"
  BY DEF TasksInv, TasksTypeOK, WorkerInv, Terminal
<1>1. ASSUME NEW u \in TaskIds, NEW calls \in BOOLEAN,
             Send(u, calls) \/ SendAsync(u, calls) \/ Stream(u, calls)
      PROVE  state'[t] = state[t]
  BY <1>0, <1>1 DEF Send, SendAsync, Stream, NewTask
<1>2. ASSUME NEW u \in TaskIds, Disconnect(u) \/ CancellerLeaves(u) \/ Awake(u)
      PROVE  state'[t] = state[t]
  BY <1>2 DEF Disconnect, CancellerLeaves, Awake
<1>3. ASSUME NEW u \in TaskIds, Cancel(u) PROVE state'[t] = state[t]
  BY <1>0, <1>3 DEF Cancel, Open
<1>4. ASSUME NEW u \in TaskIds, NEW outcome \in {"completed", "failed"}, HandlerEnds(u, outcome)
      PROVE  state'[t] = state[t]
  BY <1>0, <1>4 DEF HandlerEnds
<1>5. ASSUME NEW p \in pushes, NEW accepted \in BOOLEAN, NEW acknowledged \in BOOLEAN,
             Post(p, accepted, acknowledged)
      PROVE  state'[t] = state[t]
  BY <1>5 DEF Post
<1>6. CASE ServerCrashes \/ ServerRestarts
  BY <1>6 DEF ServerCrashes, ServerRestarts, Open
<1>7. CASE UNCHANGED taskVars
  BY <1>7 DEF taskVars
<1>8. QED
  BY <1>1, <1>2, <1>3, <1>4, <1>5, <1>6, <1>7 DEF TasksNext, Work, Deliver

(* What ended a task that a job or a blocking send works on stands: no     *)
(* cancellation, completion, restart or retry overwrites it.               *)
THEOREM A2ATasksOutcomeIsFinal == TasksSpec => OutcomeIsFinal
<1>1. TasksInv /\ [TasksNext]_taskVars
      => [\A t \in TaskIds : (kind[t] # "stream" \/ job[t]) /\ state[t] \in Terminal =>
            state'[t] = state[t]]_taskVars
  BY OutcomeStep
<1>2. QED
  BY <1>1, TasksInvariant, PTL DEF TasksSpec, OutcomeIsFinal
=============================================================================
