------------------------------ MODULE LiveView ------------------------------
(***************************************************************************)
(* The live state channel of a run: the journal is translated to AG-UI     *)
(* frames (ui/agui.py), streamed over SSE (ui/routes.py, events) and       *)
(* folded by the render client (ui/client/index.html, openStream).         *)
(*                                                                         *)
(* A stream is made of one read of the journal: what is recorded later is  *)
(* not in it.  When it ends or breaks, the client connects once more and   *)
(* is sent a snapshot first.                                               *)
(*                                                                         *)
(* A patch is its place in the journal and a result is its node, so that   *)
(* two patches are never mistaken for one.                                 *)
(***************************************************************************)
EXTENDS Naturals, Sequences, FiniteSets, SequencesExt

CONSTANTS Steps,      \* the nodes whose tasks the journal records
          MaxEvents,  \* bound on the journal
          MaxDrops    \* bound on broken connections

ASSUME LiveViewAssumption == MaxEvents \in Nat \ {0} /\ MaxDrops \in Nat

VARIABLES journal,      \* the events of the run, in order
          runFinished,  \* the flag of its snapshot
          stream,       \* the open response: the frames not delivered yet
          view,         \* state of openStream: what was folded so far
          rebuilt,      \* rebuiltFromSnapshot
          reconnected,
          done,
          drops

liveVars == <<journal, runFinished, stream, view, rebuilt, reconnected, done, drops>>

Kinds == {"graph_patched", "task_started", "task_succeeded", "task_failed"}

-----------------------------------------------------------------------------
(* agui.py                                                                 *)

EmptyState == [results |-> {}, patches |-> <<>>]

Journalled(kind, node) == [kind |-> kind, node |-> node]

(* Mutant: a failure is shown as a result.                                 *)
FailureIsResult(k) ==
  LET e == journal[k]
  IN [type  |-> e.kind,
      delta |-> IF e.kind \in {"task_succeeded", "task_failed"} THEN [op |-> "add", node |-> e.node]
                ELSE IF e.kind = "graph_patched" THEN [op |-> "graph_patched", at |-> k]
                ELSE [op |-> "none"]]

(* The k-th event as a frame: a success carries its node's result, a patch *)
(* itself, the others no delta.                                            *)
ToAgui(k) ==
  LET e == journal[k]
  IN [type  |-> e.kind,
      delta |-> CASE e.kind = "task_succeeded" -> [op |-> "add", node |-> e.node]
                  [] e.kind = "graph_patched"  -> [op |-> "graph_patched", at |-> k]
                  [] OTHER                     -> [op |-> "none"]]

ApplyDelta(state, frame) ==
  CASE frame.delta.op = "add"           -> [state EXCEPT !.results = @ \cup {frame.delta.node}]
    [] frame.delta.op = "graph_patched" -> [state EXCEPT !.patches = Append(@, frame.delta.at)]
    [] OTHER                            -> state

(* replay_state: the fold of a sequence of frames.                         *)
ReplayState(frames) ==
  LET after[k \in 0 .. Len(frames)] ==
        IF k = 0 THEN EmptyState ELSE ApplyDelta(after[k - 1], frames[k])
  IN after[Len(frames)]

JournalFrames == [k \in 1..Len(journal) |-> ToAgui(k)]

RunDataModel == ReplayState(JournalFrames)

Snapshot(state) == [type |-> "STATE_SNAPSHOT", delta |-> [op |-> "none"], state |-> state]
RunFinished     == [type |-> "RUN_FINISHED", delta |-> [op |-> "none"]]

(* Mutant: the terminal frame belongs to the first stream only.            *)
StreamOnce(reconnect) ==
  (IF reconnect THEN <<Snapshot(RunDataModel)>> ELSE <<>>)
    \o JournalFrames \o (IF runFinished /\ ~reconnect THEN <<RunFinished>> ELSE <<>>)

StreamAgui(reconnect) ==
  (IF reconnect THEN <<Snapshot(RunDataModel)>> ELSE <<>>)
    \o JournalFrames \o (IF runFinished THEN <<RunFinished>> ELSE <<>>)

-----------------------------------------------------------------------------
(* The run goes on beside its viewer.                                      *)

InJournal(kind, node) == \E k \in 1..Len(journal) : journal[k] = Journalled(kind, node)

RunRecords ==
  /\ ~runFinished /\ Len(journal) < MaxEvents
  /\ \E kind \in Kinds, n \in Steps :
       /\ kind = "graph_patched" => n = CHOOSE m \in Steps : TRUE
       /\ kind = "task_started" => ~InJournal("task_succeeded", n) /\ ~InJournal("task_failed", n)
       /\ kind \in {"task_succeeded", "task_failed"} =>
            /\ InJournal("task_started", n)
            /\ ~InJournal("task_succeeded", n) /\ ~InJournal("task_failed", n)
       /\ journal' = Append(journal, Journalled(kind, n))
  /\ UNCHANGED <<runFinished, stream, view, rebuilt, reconnected, done, drops>>

RunEnds ==
  /\ ~runFinished
  /\ runFinished' = TRUE
  /\ UNCHANGED <<journal, stream, view, rebuilt, reconnected, done, drops>>

-----------------------------------------------------------------------------
(* The client.                                                             *)

Closed == [open |-> FALSE, frames |-> <<>>]

Connect(reconnect) ==
  /\ stream' = [open |-> TRUE, frames |-> StreamAgui(reconnect)]
  /\ UNCHANGED <<journal, runFinished, view, rebuilt, done>>

Boot ==
  /\ stream = Closed /\ ~reconnected /\ ~done /\ view = EmptyState
  /\ Connect(FALSE)
  /\ UNCHANGED <<reconnected, drops>>

(* Mutant: the frames after a snapshot are folded into it again.           *)
FoldsAgain(frame) == IF frame.type = "STATE_SNAPSHOT" THEN frame.state ELSE ApplyDelta(view, frame)

(* What a frame makes of the view: a snapshot replaces it, and what comes  *)
(* after a snapshot is already in it.                                      *)
Folded(frame) ==
  IF frame.type = "STATE_SNAPSHOT" THEN frame.state
  ELSE IF rebuilt THEN view ELSE ApplyDelta(view, frame)

OnMessage ==
  /\ stream.open /\ stream.frames # <<>>
  /\ LET frame == Head(stream.frames)
         last  == frame.type = "RUN_FINISHED"
     IN /\ view' = Folded(frame)
        /\ rebuilt' = (rebuilt \/ frame.type = "STATE_SNAPSHOT")
        /\ done' = (done \/ last)
        /\ stream' = [open |-> ~last, frames |-> Tail(stream.frames)]
  /\ UNCHANGED <<journal, runFinished, reconnected, drops>>

(* onerror: the stream was read to its end or broke before it.             *)
OnError ==
  /\ stream.open
  /\ \/ stream.frames = <<>> /\ UNCHANGED drops
     \/ stream.frames # <<>> /\ drops < MaxDrops /\ drops' = drops + 1
  /\ IF done \/ reconnected
     THEN /\ stream' = [stream EXCEPT !.open = FALSE]
          /\ UNCHANGED <<journal, runFinished, view, rebuilt, reconnected, done>>
     ELSE reconnected' = TRUE /\ Connect(TRUE)

ViewInit ==
  /\ journal = <<>> /\ runFinished = FALSE
  /\ stream = Closed /\ view = EmptyState
  /\ rebuilt = FALSE /\ reconnected = FALSE /\ done = FALSE /\ drops = 0

ViewNext == RunRecords \/ RunEnds \/ Boot \/ OnMessage \/ OnError

(* A frame that was sent arrives or the connection breaks, and the browser *)
(* reports the end of a stream.                                            *)
ViewSpec == ViewInit /\ [][ViewNext]_liveVars /\ WF_liveVars(Boot) /\ WF_liveVars(OnMessage)
             /\ WF_liveVars(OnError)

-----------------------------------------------------------------------------
(* The places of a kind among the first k events.                          *)
Places(kind, k) == {i \in 1..k : journal[i].kind = kind}

(* A state is the run's after its first k events, told without a fold: the *)
(* results of what succeeded, and every patch once, in order.              *)
IsStateAfter(state, k) ==
  /\ state.results = {journal[i].node : i \in Places("task_succeeded", k)}
  /\ ToSet(state.patches) = Places("graph_patched", k)
  /\ \A i, j \in 1..Len(state.patches) : i < j => state.patches[i] < state.patches[j]

(* What the client holds is the state the run really had at some time:     *)
(* no patch counted twice, no result without the patches before it, also   *)
(* after a snapshot that is followed by the frames it already covers.      *)
ViewWasTrue == \E k \in 0..Len(journal) : IsStateAfter(view, k)

(* A client that was cut off twice stays where it is.                      *)
CutOff == reconnected /\ ~stream.open /\ stream.frames # <<>>

(* A run that ended before the client connected again is shown as ended,   *)
(* whole, unless that second connection breaks too.  A run that ends after *)
(* it is not: no third connection is made.                                 *)
EndIsSeen ==
  runFinished /\ ~reconnected ~> (done /\ IsStateAfter(view, Len(journal))) \/ CutOff
=============================================================================
